--------------------------- MODULE StartupProofs ---------------------------
(***************************************************************************)
(* Proofs about Startup: time stamps that are never ahead of the clock,    *)
(* a log in order and a start that ends, for all instants, all numbers of  *)
(* resets and ticks and all reads that the clock chip leaves unanswered.   *)
(***************************************************************************)
EXTENDS Startup, TLAPS

LEMMA TimeRange ==
  ASSUME NEW t, IsTime(t)
  PROVE  /\ t \in [1..6 -> Nat]
         /\ t[1] \in 0..99 /\ t[2] \in 1..12 /\ t[3] \in 1..31
         /\ t[4] \in 0..23 /\ t[5] \in 0..59 /\ t[6] \in 0..59
BY DEF IsTime, Low, High, Days

\* What the chip encodes is what the unit decodes.
LEMMA BcdRoundTrip ==
  ASSUME IsTime(clock), NEW k \in 1..6
  PROVE  Decode(k, Register(k)) = clock[k]
<1>1. /\ clock[1] \in 0..99 /\ clock[2] \in 1..12 /\ clock[3] \in 1..31
      /\ clock[4] \in 0..23 /\ clock[5] \in 0..59 /\ clock[6] \in 0..59
  BY TimeRange
<1>2. CASE k = 1
  BY <1>1, <1>2 DEF Decode, Register, Flags, Tens
<1>3. CASE k = 2
  BY <1>1, <1>3 DEF Decode, Register, Flags, Tens
<1>4. CASE k = 3
  BY <1>1, <1>4 DEF Decode, Register, Flags, Tens
<1>5. CASE k = 4
  BY <1>1, <1>5 DEF Decode, Register, Flags, Tens
<1>6. CASE k = 5
  BY <1>1, <1>6 DEF Decode, Register, Flags, Tens
<1>7. CASE k = 6
  BY <1>1, <1>7 DEF Decode, Register, Flags, Tens
<1> QED
  BY <1>2, <1>3, <1>4, <1>5, <1>6, <1>7
-----------------------------------------------------------------------------
(***************************************************************************)
(* The order of times.                                                     *)
(***************************************************************************)
Times == [1..6 -> Int]

\* s comes before t within the first m fields.
Before(s, t, m) == \E k \in 1..m : s[k] < t[k] /\ \A j \in 1..(k - 1) : s[j] = t[j]

\* d is c with one field counted up and the fields behind it changed at will.
Advance(c, d, k) == d[k] = c[k] + 1 /\ \A j \in 1..(k - 1) : d[j] = c[j]

LEMMA EarlierIsBefore ==
  ASSUME NEW s, NEW t
  PROVE  Earlier(s, t) <=> Before(s, t, 6)
BY DEF Earlier, Before

\* A running clock does not fall behind a time that it has reached.
LEMMA TickStaysLater ==
  ASSUME NEW c \in Times, NEW d \in Times, NEW x \in Times, NEW m \in 0..6,
         NEW k \in 1..6, Advance(c, d, k), ~Before(c, x, m)
  PROVE  ~Before(d, x, m)
<1>1. SUFFICES ASSUME NEW i \in 1..m, d[i] < x[i], \A j \in 1..(i - 1) : d[j] = x[j]
               PROVE  FALSE
  BY DEF Before
<1>2. CASE i < k
  BY <1>1, <1>2 DEF Advance, Before, Times
<1>3. CASE i = k
  BY <1>1, <1>3 DEF Advance, Before, Times
<1>4. CASE i > k
  BY <1>1, <1>4 DEF Advance, Before, Times
<1> QED
  BY <1>2, <1>3, <1>4

LEMMA NotBeforeTransitive ==
  ASSUME NEW a \in Times, NEW b \in Times, NEW c \in Times,
         ~Before(b, a, 6), ~Before(c, b, 6)
  PROVE  ~Before(c, a, 6)
<1>1. \A s \in Times, t \in Times :
        Before(s, t, 6) <=>
          \/ s[1] < t[1]
          \/ s[1] = t[1] /\ s[2] < t[2]
          \/ s[1] = t[1] /\ s[2] = t[2] /\ s[3] < t[3]
          \/ s[1] = t[1] /\ s[2] = t[2] /\ s[3] = t[3] /\ s[4] < t[4]
          \/ s[1] = t[1] /\ s[2] = t[2] /\ s[3] = t[3] /\ s[4] = t[4] /\ s[5] < t[5]
          \/ /\ s[1] = t[1] /\ s[2] = t[2] /\ s[3] = t[3] /\ s[4] = t[4] /\ s[5] = t[5]
             /\ s[6] < t[6]
  BY DEF Before, Times
<1>2. /\ a[1] \in Int /\ a[2] \in Int /\ a[3] \in Int /\ a[4] \in Int /\ a[5] \in Int /\ a[6] \in Int
      /\ b[1] \in Int /\ b[2] \in Int /\ b[3] \in Int /\ b[4] \in Int /\ b[5] \in Int /\ b[6] \in Int
      /\ c[1] \in Int /\ c[2] \in Int /\ c[3] \in Int /\ c[4] \in Int /\ c[5] \in Int /\ c[6] \in Int
  BY DEF Times
<1> QED
  BY <1>1, <1>2
-----------------------------------------------------------------------------
(***************************************************************************)
(* The inductive invariant.                                                *)
(***************************************************************************)
Reading == pc \in {"clock", "stamp"}

Shape ==
  /\ pc \in Labels /\ n \in Nat
  /\ Reading => n \in 0..5
  /\ CSUtime \in Times /\ started \in Times
  /\ clock \in Times /\ IsTime(clock)
  /\ logged = <<>> \/ (logged = <<logged[1], logged[2]>> /\ logged[1] \in Times)

\* The fields read so far are not ahead of the clock.
Behind ==
  /\ Reading /\ n > 0 /\ gaps = "none" => ~Before(clock, CSUtime, n)
  /\ pc = "write" /\ gaps = "none" => ~Before(clock, CSUtime, 6)

\* The log has an entry that was read from an answering clock.
Whole == logged # <<>> /\ logged[2] = "none"

\* The log is not ahead of the clock, nor of the reading under way; unless a
\* carry has torn that reading it is not behind its own beginning.
Ordered ==
  /\ Whole => ~Before(clock, logged[1], 6)
  /\ (Reading /\ n > 0) \/ pc = "write" =>
       /\ ~Before(clock, started, 6)
       /\ Whole => ~Before(started, logged[1], 6)
  /\ Reading /\ n > 0 /\ gaps = "none" =>
       \/ Before(started, clock, 5)
       \/ \A k \in 1..5 : clock[k] = started[k] /\ (k <= n => CSUtime[k] = started[k])
  /\ pc = "write" /\ gaps = "none" /\ ~torn => ~Before(CSUtime, started, 6)

IInv == Shape /\ Behind /\ Ordered

LEMMA IInvInit ==
  ASSUME Init PROVE IInv
<1>1. Shape
  BY StartAssumption DEF Init, Shape, Reading, Labels, NoTime, Times, IsTime
<1> QED
  BY <1>1 DEF Init, IInv, Behind, Ordered, Reading, Whole

\* Nothing that the unit writes is stored.
LEMMA NothingStored ==
  ASSUME NEW a, NEW v, AT24CXX_WriteOneByte(a, v)
  PROVE  mem' = mem
BY DEF AT24CXX_WriteOneByte, EE_TYPE, AT24C16

\* The steps that read no clock and write no log.
Quiet == \/ Link \/ LoadData \/ FirstStart \/ SaveByte \/ Heartbeat
         \/ (\E present \in BOOLEAN : AT24CXX_Check(present))
         \/ (\E ok \in BOOLEAN : SdInit(ok))

LEMMA QuietKeeps ==
  ASSUME IInv, Quiet
  PROVE  IInv'
<1>1. UNCHANGED <<CSUtime, clock, logged, started, torn, gaps>>
  BY DEF Quiet, Link, LoadData, FirstStart, SaveByte, Heartbeat, AT24CXX_Check, SdInit, hist,
         outside, ram
<1>2. /\ pc' \in Labels /\ n' \in Nat
      /\ Reading' => n' = 0
      /\ pc' # "write"
  BY DEF IInv, Shape, Quiet, Link, LoadData, FirstStart, SaveByte, Heartbeat, AT24CXX_Check,
         SdInit, Goto, Labels, Reading
<1>3. Shape'
  BY <1>1, <1>2 DEF IInv, Shape
<1>4. Behind'
  BY <1>2 DEF Behind
<1>5. Ordered'
  BY <1>1, <1>2 DEF IInv, Ordered, Whole
<1> QED
  BY <1>3, <1>4, <1>5 DEF IInv

LEMMA TickKeeps ==
  ASSUME IInv, Tick
  PROVE  IInv'
<1>1. UNCHANGED <<pc, n, CSUtime, logged, started, torn, gaps>>
  BY DEF Tick, ram, hist
<1>2. PICK k \in 1..6 :
        /\ clock[k] < High(clock)[k]
        /\ \A j \in (k + 1)..6 : clock[j] = High(clock)[j]
        /\ clock' = [j \in 1..6 |-> IF j < k THEN clock[j]
                                    ELSE IF j = k THEN clock[j] + 1 ELSE Low[j]]
  BY DEF Tick
<1>3. IsTime(clock')
  <2>1. /\ clock' \in [1..6 -> Nat]
        /\ clock'[1] \in 0..99 /\ clock'[2] \in 1..12
        /\ clock'[4] \in 0..23 /\ clock'[5] \in 0..59 /\ clock'[6] \in 0..59
    <3>1. /\ clock \in [1..6 -> Nat] /\ clock[1] \in 0..99 /\ clock[2] \in 1..12
          /\ clock[4] \in 0..23 /\ clock[5] \in 0..59 /\ clock[6] \in 0..59
      BY TimeRange DEF IInv, Shape
    <3> QED
      BY <1>2, <3>1 DEF Low, High
  <2>2. clock'[3] \in 1..Days(clock'[1], clock'[2])
    <3>1. CASE k <= 2
      BY <1>2, <2>1, <3>1 DEF Low, Days
    <3>2. CASE k > 2
      <4>1. clock'[1] = clock[1] /\ clock'[2] = clock[2]
        BY <1>2, <3>2
      <4>2. clock[3] \in 1..Days(clock[1], clock[2])
        BY DEF IInv, Shape, IsTime, Low, High
      <4>3. clock'[3] = clock[3] \/ (clock'[3] = clock[3] + 1 /\ clock[3] < Days(clock[1], clock[2]))
        BY <1>2, <3>2 DEF High
      <4>4. Days(clock[1], clock[2]) \in Nat
        BY DEF Days
      <4> QED
        BY <4>1, <4>2, <4>3, <4>4
    <3> QED
      BY <3>1, <3>2
  <2> QED
    BY <2>1, <2>2 DEF IsTime, Low, High
<1>0. clock \in Times /\ started \in Times /\ CSUtime \in Times
  BY DEF IInv, Shape
<1>4. clock' \in Times /\ Advance(clock, clock', k)
  <2>1. clock' \in [1..6 -> Nat]
    BY <1>3 DEF IsTime
  <2>2. clock'[k] = clock[k] + 1 /\ \A j \in 1..(k - 1) : clock'[j] = clock[j]
    BY <1>2
  <2> QED
    BY <2>1, <2>2 DEF Times, Advance
<1>5. ASSUME NEW x \in Times, NEW m \in 0..6, ~Before(clock, x, m)
      PROVE  ~Before(clock', x, m)
  BY <1>4, <1>5, TickStaysLater DEF IInv, Shape
<1>6. Shape'
  BY <1>1, <1>3, <1>4 DEF IInv, Shape, Reading
<1>7. Behind'
  BY <1>1, <1>5 DEF IInv, Shape, Behind, Reading
<1>8. Ordered'
  <2>1. /\ Whole => ~Before(clock', logged[1], 6)
        /\ (Reading /\ n > 0) \/ pc = "write" => ~Before(clock', started, 6)
    BY <1>5 DEF IInv, Shape, Ordered, Whole
  <2>2. ASSUME Before(started, clock, 5) PROVE Before(started, clock', 5)
    <3>1. PICK i \in 1..5 : started[i] < clock[i] /\ \A j \in 1..(i - 1) : started[j] = clock[j]
      BY <2>2 DEF Before
    <3>2. CASE i <= k
      <4>1. started[i] < clock'[i] /\ \A j \in 1..(i - 1) : started[j] = clock'[j]
        BY <1>0, <1>4, <3>1, <3>2 DEF Advance, Times
      <4> QED
        BY <4>1 DEF Before
    <3>3. CASE i > k
      <4>1. k \in 1..5 /\ started[k] < clock'[k] /\ \A j \in 1..(k - 1) : started[j] = clock'[j]
        BY <1>0, <1>4, <3>1, <3>3 DEF Advance, Times
      <4> QED
        BY <4>1 DEF Before
    <3> QED
      BY <3>2, <3>3
  <2>3. ASSUME \A j \in 1..5 : clock[j] = started[j] /\ (j <= n => CSUtime[j] = started[j])
        PROVE  \/ Before(started, clock', 5)
               \/ \A j \in 1..5 : clock'[j] = started[j] /\ (j <= n => CSUtime[j] = started[j])
    <3>1. CASE k = 6
      BY <1>2, <2>3, <3>1
    <3>2. CASE k < 6
      <4>1. k \in 1..5 /\ started[k] < clock'[k] /\ \A j \in 1..(k - 1) : started[j] = clock'[j]
        BY <1>0, <1>4, <2>3, <3>2 DEF Advance, Times
      <4> QED
        BY <4>1 DEF Before
    <3> QED
      BY <3>1, <3>2
  <2> QED
    BY <1>1, <2>1, <2>2, <2>3 DEF IInv, Ordered, Reading, Whole
<1> QED
  BY <1>6, <1>7, <1>8 DEF IInv

\* What an unanswered read decodes to.
Silent == <<165, 25, 45, 45, 85, 85>>

\* The field that a read of the clock chip leaves.
LEMMA FieldRead ==
  ASSUME IsTime(clock), NEW answers \in BOOLEAN, NEW m \in 0..5, n = m, Get_CSU_time(answers)
  PROVE  \E v : /\ CSUtime' = [CSUtime EXCEPT ![m + 1] = v]
                /\ v = IF answers THEN clock[m + 1] ELSE Silent[m + 1]
<1>1. m + 1 \in 1..6 /\ Order[m + 1] = m + 1
  BY DEF Order
<1>2. answers => Decode(m + 1, bq32000_ReadOneByte(m + 1, answers)) = clock[m + 1]
  BY <1>1, BcdRoundTrip DEF bq32000_ReadOneByte
<1>3. ~answers => Decode(m + 1, bq32000_ReadOneByte(m + 1, answers)) = Silent[m + 1]
  <2>1. \A k \in 1..6 : Decode(k, 255) = Silent[k]
    BY DEF Decode, Tens, Silent
  <2> QED
    BY <1>1, <2>1 DEF bq32000_ReadOneByte
<1>4. CSUtime' = [CSUtime EXCEPT ![m + 1] = Decode(m + 1, bq32000_ReadOneByte(m + 1, answers))]
  BY <1>1 DEF Get_CSU_time
<1> QED
  BY <1>2, <1>3, <1>4

\* One field of Get_CSU_time.
LEMMA ReadKeeps ==
  ASSUME IInv, NEW answers \in BOOLEAN, Get_CSU_time(answers)
  PROVE  IInv'
<1>1. /\ Reading /\ n \in 0..5
      /\ UNCHANGED <<clock, logged>>
      /\ started' = IF n = 0 THEN clock ELSE started
      /\ torn' = (n > 0 /\ \E k \in 1..5 : started[k] # clock[k])
  BY DEF IInv, Shape, Get_CSU_time, Reading
<1>b. gaps' = "none" => answers /\ (n > 0 => gaps = "none")
  BY <1>1 DEF Get_CSU_time
<1>2. PICK v : /\ CSUtime' = [CSUtime EXCEPT ![n + 1] = v]
               /\ v = IF answers THEN clock[n + 1] ELSE Silent[n + 1]
  BY <1>1, FieldRead DEF IInv, Shape
<1>0. clock \in Times /\ started \in Times /\ CSUtime \in Times
  BY DEF IInv, Shape
<1>3. CSUtime' \in Times /\ started' \in Times
  <2>1. v \in Int
    <3>1. \A k \in 1..6 : Silent[k] \in Int
      BY DEF Silent
    <3> QED
      BY <1>0, <1>1, <1>2, <3>1 DEF Times
  <2> QED
    BY <1>0, <1>1, <1>2, <2>1 DEF Times
<1>a. /\ gaps' = "none" => CSUtime'[n + 1] = clock[n + 1]
      /\ \A k \in 1..6 : k # n + 1 => CSUtime'[k] = CSUtime[k]
  BY <1>0, <1>1, <1>b, <1>2 DEF Times
<1>4. \/ n < 5 /\ pc' = pc /\ n' = n + 1
      \/ n = 5 /\ n' = 0 /\ pc = "clock" /\ pc' = "sd"
      \/ n = 5 /\ n' = 0 /\ pc = "stamp" /\ pc' = "write"
  BY <1>1 DEF Get_CSU_time, Goto, Reading
<1>5. Shape'
  BY <1>1, <1>3, <1>4 DEF IInv, Shape, Reading, Labels
<1>7. ASSUME gaps' = "none" PROVE ~Before(clock, CSUtime', n + 1)
  <2>1. ~Before(clock, CSUtime, n)
    BY <1>1, <1>b, <1>7 DEF IInv, Behind, Before
  <2>2. SUFFICES ASSUME NEW k \in 1..(n + 1), clock[k] < CSUtime'[k],
                        \A j \in 1..(k - 1) : clock[j] = CSUtime'[j]
                 PROVE  FALSE
    BY DEF Before
  <2>3. CASE k = n + 1
    BY <1>0, <1>1, <1>7, <1>a, <2>2, <2>3 DEF Times
  <2>4. CASE k # n + 1
    <3>1. k \in 1..n
      BY <1>1, <2>4
    <3>2. CSUtime'[k] = CSUtime[k] /\ \A j \in 1..(k - 1) : CSUtime'[j] = CSUtime[j]
      BY <1>1, <1>a, <3>1
    <3> QED
      BY <2>1, <2>2, <3>1, <3>2 DEF Before
  <2> QED
    BY <2>3, <2>4
<1>8. Behind'
  BY <1>1, <1>4, <1>7 DEF Behind, Reading
<1>9. Ordered'
  <2>1. ~Before(clock, started', 6)
    <3>1. CASE n = 0
      BY <1>0, <1>1, <3>1 DEF Before, Times
    <3>2. CASE n # 0
      BY <1>1, <3>2 DEF IInv, Ordered
    <3> QED
      BY <3>1, <3>2
  <2>2. Whole => ~Before(started', logged[1], 6)
    BY <1>1 DEF IInv, Ordered
  <2>3. ASSUME gaps' = "none" PROVE
        \/ Before(started', clock, 5)
        \/ \A k \in 1..5 : clock[k] = started'[k] /\ (k <= n + 1 => CSUtime'[k] = started'[k])
    <3>1. CASE n = 0
      BY <1>1, <1>a, <2>3, <3>1
    <3>2. CASE n # 0
      <4>1. started' = started
        BY <1>1, <3>2
      <4>2. \/ Before(started, clock, 5)
            \/ \A k \in 1..5 : clock[k] = started[k] /\ (k <= n => CSUtime[k] = started[k])
        BY <1>1, <1>b, <2>3, <3>2 DEF IInv, Ordered
      <4> QED
        BY <1>1, <1>a, <2>3, <4>1, <4>2
    <3> QED
      BY <3>1, <3>2
  <2>4. ASSUME n = 5, gaps' = "none", ~torn' PROVE ~Before(CSUtime', started', 6)
    <3>a. n > 0 /\ n # 0
      BY <2>4
    <3>b. torn' = (n > 0 /\ \E k \in 1..5 : started[k] # clock[k])
      BY <1>1
    <3>0. ~(\E k \in 1..5 : started[k] # clock[k])
      BY <2>4, <3>a, <3>b, Zenon
    <3>1. started' = started /\ \A k \in 1..5 : clock[k] = started[k]
      BY <1>1, <3>a, <3>0
    <3>2. \A k \in 1..5 : CSUtime'[k] = started[k]
      BY <2>3, <2>4, <3>1 DEF Before, IInv, Shape, Times
    <3>3. CSUtime'[6] = clock[6]
      BY <1>a, <2>4
    <3>4. ~(clock[6] < started[6])
      BY <2>1, <3>1 DEF Before
    <3> QED
      BY <3>1, <3>2, <3>3, <3>4 DEF Before, IInv, Shape, Times
  <2> QED
    BY <1>1, <1>4, <2>1, <2>2, <2>3, <2>4 DEF IInv, Ordered, Reading, Whole
<1> QED
  BY <1>5, <1>8, <1>9 DEF IInv

LEMMA WriteKeeps ==
  ASSUME IInv, NEW ok \in BOOLEAN, Write_TFCard(ok)
  PROVE  IInv'
<1>1. /\ pc = "write" /\ pc' = "run" /\ n' = 0
      /\ logged' = IF ok THEN <<CSUtime, gaps>> ELSE logged
      /\ UNCHANGED <<CSUtime, clock, started, torn, gaps>>
  BY DEF Write_TFCard, Goto, ram, outside
<1>2. Shape'
  BY <1>1 DEF IInv, Shape, Reading, Labels
<1>3. Whole' => ~Before(clock', logged'[1], 6)
  BY <1>1 DEF IInv, Behind, Ordered, Whole
<1> QED
  BY <1>1, <1>2, <1>3 DEF IInv, Behind, Ordered, Reading

LEMMA ResetKeeps ==
  ASSUME IInv, Reset
  PROVE  IInv'
<1>1. /\ pc' = "link" /\ n' = 0 /\ CSUtime' = NoTime
      /\ UNCHANGED <<clock, logged, started, torn, gaps>>
  BY DEF Reset, Goto, hist
<1>2. CSUtime' \in Times
  BY <1>1 DEF NoTime, Times
<1>3. Shape'
  BY <1>1, <1>2 DEF IInv, Shape, Reading, Labels
<1> QED
  BY <1>1, <1>3 DEF IInv, Behind, Ordered, Reading, Whole

LEMMA IInvNext ==
  ASSUME IInv, [Next]_vars
  PROVE  IInv'
<1>1. CASE UNCHANGED vars
  BY <1>1 DEF vars, ram, hist, IInv, Shape, Behind, Ordered, Reading, Whole
<1>2. CASE Step
  BY <1>2, QuietKeeps, ReadKeeps, WriteKeeps DEF Step, Quiet
<1> QED
  BY <1>1, <1>2, TickKeeps, ResetKeeps DEF Next
-----------------------------------------------------------------------------
LEMMA Invariance == Spec => []IInv
<1>1. Init => IInv
  BY IInvInit
<1>2. IInv /\ [Next]_vars => IInv'
  BY IInvNext
<1> QED
  BY <1>1, <1>2, PTL DEF Spec

\* However the clock runs while Get_CSU_time reads it: the result is not ahead,
\* if the chip has answered.
THEOREM StartTimeNotAhead == Spec => []TimeNotAhead
<1>1. IInv => TimeNotAhead
  BY EarlierIsBefore DEF IInv, Behind, TimeNotAhead
<1> QED
  BY <1>1, Invariance, PTL

\* Of entries read from an answering clock the later one goes back in time only
\* where its reading was torn.
THEOREM StartLogInOrder == Spec => LogInOrder
<1> DEFINE InOrder == /\ logged # <<>> /\ logged' # logged
                      /\ logged[2] = "none" /\ logged'[2] = "none"
                      /\ Earlier(logged'[1], logged[1])
                      => torn
<1>1. ASSUME IInv, [Next]_vars PROVE InOrder
  <2>1. SUFFICES ASSUME logged # <<>>, logged' # logged, logged[2] = "none", logged'[2] = "none",
                        ~torn
                 PROVE  ~Earlier(logged'[1], logged[1])
    OBVIOUS
  <2>2. pc = "write" /\ logged' = <<CSUtime, gaps>>
    BY <1>1, <2>1 DEF Next, Step, vars, Link, LoadData, FirstStart, SaveByte, Heartbeat,
       AT24CXX_Check, SdInit, Get_CSU_time, Write_TFCard, Tick, Reset
  <2>3. ~Before(CSUtime, started, 6) /\ ~Before(started, logged[1], 6)
    BY <1>1, <2>1, <2>2 DEF IInv, Ordered, Whole
  <2>4. CSUtime \in Times /\ started \in Times /\ logged[1] \in Times
    BY <1>1, <2>1 DEF IInv, Shape
  <2>5. ~Before(CSUtime, logged[1], 6)
    BY <2>3, <2>4, NotBeforeTransitive
  <2> QED
    BY <2>2, <2>5, EarlierIsBefore
<1> QED
  BY <1>1, Invariance, PTL DEF Spec, LogInOrder
-----------------------------------------------------------------------------
(***************************************************************************)
(* Types.                                                                  *)
(***************************************************************************)
Counter ==
  n \in CASE pc = "link" -> 0..2
          [] pc = "save" -> 0..(DataLen - 1)
          [] pc = "sd" -> 0..SdTries
          [] pc \in {"clock", "stamp"} -> 0..5
          [] OTHER -> {0}

LEMMA CounterBound ==
  ASSUME Counter
  PROVE  n \in 0..(DataLen + SdTries + 6)
BY StartAssumption DEF Counter

LEMMA CounterNext ==
  ASSUME Counter, pc \in Labels, [Next]_vars
  PROVE  Counter' /\ pc' \in Labels
<1> USE StartAssumption
<1>1. CASE UNCHANGED <<pc, n>>
  BY <1>1 DEF Counter
<1>2. ASSUME NEW l \in Labels, Goto(l) PROVE Counter' /\ pc' \in Labels
  BY <1>2 DEF Goto, Counter
<1>3. CASE Link
  BY <1>3 DEF Link, Goto, Counter, Labels
<1>4. CASE SaveByte
  BY <1>4 DEF SaveByte, Goto, Counter, Labels
<1>5. ASSUME NEW answers \in BOOLEAN, Get_CSU_time(answers) PROVE Counter' /\ pc' \in Labels
  BY <1>5 DEF Get_CSU_time, Goto, Counter, Labels
<1>6. ASSUME NEW ok \in BOOLEAN, SdInit(ok) PROVE Counter' /\ pc' \in Labels
  BY <1>6 DEF SdInit, Goto, Counter, Labels
<1>7. CASE LoadData \/ FirstStart \/ Heartbeat \/ Reset
           \/ (\E p \in BOOLEAN : AT24CXX_Check(p)) \/ (\E ok \in BOOLEAN : Write_TFCard(ok))
  <2>1. Goto("clock") \/ Goto("save") \/ Goto("stamp") \/ Goto("link") \/ Goto("flag") \/ Goto("run")
    BY <1>7 DEF LoadData, FirstStart, Heartbeat, Reset, AT24CXX_Check, Write_TFCard
  <2> QED
    BY <1>2, <2>1 DEF Labels
<1>8. CASE Tick \/ UNCHANGED vars
  BY <1>1, <1>8 DEF Tick, vars
<1> QED
  BY <1>3, <1>4, <1>5, <1>6, <1>7, <1>8 DEF Next, Step

\* The fields of CSUtime are those of some time, still zero, or unanswered.
Fields == \A k \in 1..6 : \/ CSUtime[k] \in 0..<<99, 12, 31, 23, 59, 59>>[k]
                          \/ misses > 0 /\ CSUtime[k] = Silent[k]

LEMMA FieldsNext ==
  ASSUME IInv, Fields, misses \in Nat, [Next]_vars
  PROVE  Fields'
<1>1. CASE CSUtime' = CSUtime /\ misses' = misses
  BY <1>1 DEF Fields
<1>2. CASE CSUtime' = NoTime
  BY <1>2 DEF Fields, NoTime
<1>3. ASSUME NEW answers \in BOOLEAN, Get_CSU_time(answers) PROVE Fields'
  <2>1. n \in 0..5 /\ n + 1 \in 1..6
    BY <1>3 DEF IInv, Shape, Get_CSU_time, Reading
  <2>2. PICK v : /\ CSUtime' = [CSUtime EXCEPT ![n + 1] = v]
                 /\ v = IF answers THEN clock[n + 1] ELSE Silent[n + 1]
    BY <1>3, <2>1, FieldRead DEF IInv, Shape
  <2>3. misses' = IF answers THEN misses ELSE misses + 1
    BY <1>3 DEF Get_CSU_time
  <2>4. (misses > 0 => misses' > 0) /\ (~answers => misses' > 0)
    BY <2>3
  <2>5. \A k \in 1..6 : clock[k] \in 0..<<99, 12, 31, 23, 59, 59>>[k]
    <3>1. /\ clock[1] \in 0..99 /\ clock[2] \in 1..12 /\ clock[3] \in 1..31
          /\ clock[4] \in 0..23 /\ clock[5] \in 0..59 /\ clock[6] \in 0..59
      BY TimeRange DEF IInv, Shape
    <3> QED
      BY <3>1
  <2>6. \A k \in 1..6 : \/ CSUtime'[k] = CSUtime[k]
                        \/ answers /\ CSUtime'[k] = clock[k]
                        \/ ~answers /\ CSUtime'[k] = Silent[k]
    BY <2>1, <2>2 DEF IInv, Shape, Times
  <2>7. QED
    BY <2>4, <2>5, <2>6, Zenon DEF Fields
<1> QED
  BY <1>1, <1>2, <1>3 DEF Next, Step, vars, ram, outside, Link, LoadData, FirstStart, SaveByte,
     Heartbeat, AT24CXX_Check, SdInit, Write_TFCard, Tick, Reset

\* What is left of the type invariant.
Rest ==
  /\ DOMAIN systemFixedData = 1..DataLen
  /\ booted \in BOOLEAN
  /\ DOMAIN mem = Cells /\ chip \in {"answers", "mute"}
  /\ ticks \in 0..MaxTicks /\ resets \in 0..MaxResets /\ misses \in 0..MaxMisses
  /\ gaps \in {"none", "some"}

LEMMA RestNext ==
  ASSUME Rest, [Next]_vars
  PROVE  Rest'
<1> USE StartAssumption
<1>1. CASE UNCHANGED <<systemFixedData, booted, mem, chip, ticks, resets, misses, gaps>>
  BY <1>1 DEF Rest
<1>2. CASE LoadData \/ FirstStart
  <2>1. mem' = mem
    BY <1>2, NothingStored DEF LoadData, FirstStart
  <2> QED
    BY <1>2, <2>1 DEF Rest, LoadData, FirstStart, Default, outside, hist
<1>3. ASSUME NEW ok \in BOOLEAN, Write_TFCard(ok) PROVE Rest'
  BY <1>3 DEF Rest, Write_TFCard, ram, outside
<1>4. CASE Tick
  BY <1>4 DEF Rest, Tick, ram, hist
<1>5. CASE Reset
  <2>1. resets' \in 0..MaxResets /\ ticks' \in 0..MaxTicks
    BY <1>5 DEF Rest, Reset
  <2>2. systemFixedData' = NoData /\ booted' = FALSE /\ UNCHANGED <<mem, chip, misses, gaps>>
    BY <1>5 DEF Reset, hist
  <2> QED
    BY <2>1, <2>2 DEF Rest, NoData
<1>6. ASSUME NEW answers \in BOOLEAN, Get_CSU_time(answers) PROVE Rest'
  <2>1. misses' \in 0..MaxMisses /\ gaps' \in {"none", "some"}
    BY <1>6 DEF Rest, Get_CSU_time
  <2>2. UNCHANGED <<systemFixedData, booted, mem, chip, ticks, resets>>
    BY <1>6 DEF Get_CSU_time
  <2> QED
    BY <2>1, <2>2 DEF Rest
<1>7. ASSUME NEW ok \in BOOLEAN, Link \/ SaveByte \/ Heartbeat \/ AT24CXX_Check(ok) \/ SdInit(ok)
      PROVE  Rest'
  <2>1. mem' = mem
    BY <1>7, NothingStored DEF Link, SaveByte, Heartbeat, AT24CXX_Check, SdInit
  <2> QED
    BY <1>1, <1>7, <2>1 DEF ram, outside, hist, Link, SaveByte, Heartbeat, AT24CXX_Check, SdInit
<1>8. CASE UNCHANGED vars
  BY <1>1, <1>8 DEF vars, ram, hist
<1> QED
  BY <1>2, <1>3, <1>4, <1>5, <1>6, <1>7, <1>8 DEF Next, Step

\* All variables keep their types; the fields of the time are in their ranges.
THEOREM StartTypeOK == Spec => []TypeOK
<1> DEFINE J == IInv /\ Counter /\ Fields /\ Rest
<1>1. Init => J
  <2>1. SUFFICES ASSUME Init PROVE J
    OBVIOUS
  <2>2. Counter
    BY <2>1 DEF Init, Counter
  <2>3. Fields
    BY <2>1 DEF Init, Fields, NoTime
  <2>4. Rest
    <3>1. 0 \in 0..MaxTicks /\ 0 \in 0..MaxResets /\ 0 \in 0..MaxMisses
      BY StartAssumption
    <3>2. DOMAIN NoData = 1..DataLen /\ DOMAIN Blank = Cells /\ DOMAIN Programmed = Cells
      BY DEF NoData, Blank, Programmed
    <3>3. /\ ticks = 0 /\ resets = 0 /\ misses = 0 /\ systemFixedData = NoData
          /\ booted = FALSE /\ mem \in {Blank, Programmed} /\ chip \in {"answers", "mute"}
          /\ gaps = "none"
      BY <2>1 DEF Init
    <3> QED
      BY <3>1, <3>2, <3>3, Zenon DEF Rest
  <2> QED
    BY <2>1, <2>2, <2>3, <2>4, IInvInit
<1>2. J /\ [Next]_vars => J'
  <2>1. J => misses \in Nat /\ pc \in Labels
    BY StartAssumption DEF Rest, IInv, Shape
  <2> QED
    BY <2>1, IInvNext, CounterNext, FieldsNext, RestNext
<1>3. J => TypeOK
  <2>1. SUFFICES ASSUME J PROVE TypeOK
    OBVIOUS
  <2>3. n \in 0..(DataLen + SdTries + 6)
    BY <2>1, CounterBound
  <2> QED
    BY <2>1, <2>3, Zenon DEF IInv, Shape, Fields, Silent, Rest, TypeOK
<1> QED
  BY <1>1, <1>2, <1>3, Invariance, PTL DEF Spec
-----------------------------------------------------------------------------
(***************************************************************************)
(* Progress.                                                               *)
(***************************************************************************)
\* The loop that the processor is in has not passed its bound, and the tasks run
\* only after a completed start.
OnTheWay == Counter /\ pc \in Labels /\ (pc = "run" => booted)

LEMMA OnTheWayInvariant == Spec => []OnTheWay
<1>1. Init => OnTheWay
  BY DEF Init, OnTheWay, Counter, Labels
<1>2. OnTheWay /\ [Next]_vars => OnTheWay'
  <2> SUFFICES ASSUME OnTheWay, [Next]_vars PROVE OnTheWay'
    OBVIOUS
  <2>1. Counter' /\ pc' \in Labels
    BY CounterNext DEF OnTheWay
  <2>2. pc' = "run" => booted'
    BY DEF OnTheWay, Next, Step, vars, Link, LoadData, FirstStart, SaveByte, Heartbeat,
       AT24CXX_Check, SdInit, Get_CSU_time, Write_TFCard, Tick, Reset, Goto
  <2> QED
    BY <2>1, <2>2 DEF OnTheWay
<1> QED
  BY <1>1, <1>2, PTL DEF Spec

\* The bound is not used up before the log is written.
LEMMA LeftPositive ==
  ASSUME OnTheWay
  PROVE  Left \in Nat /\ (pc # "run" => Left > 0)
<1>1. DataLen \in Nat \ {0} /\ SdTries \in Nat
  BY StartAssumption
<1> QED
  BY <1>1 DEF OnTheWay, Counter, Left, Labels

LEMMA StepShrinks ==
  ASSUME OnTheWay, Step, pc # "run"
  PROVE  Left' < Left
<1>1. DataLen \in Nat \ {0} /\ SdTries \in Nat
  BY StartAssumption
<1> USE <1>1 DEF OnTheWay, Counter, Goto, Left
<1>2. CASE Link
  BY <1>2 DEF Link
<1>3. ASSUME NEW present \in BOOLEAN, AT24CXX_Check(present) PROVE Left' < Left
  BY <1>3 DEF AT24CXX_Check
<1>4. CASE LoadData
  BY <1>4 DEF LoadData
<1>5. CASE FirstStart
  BY <1>5 DEF FirstStart
<1>6. CASE SaveByte
  BY <1>6 DEF SaveByte
<1>7. ASSUME NEW answers \in BOOLEAN, Get_CSU_time(answers) PROVE Left' < Left
  BY <1>7 DEF Get_CSU_time
<1>8. ASSUME NEW ok \in BOOLEAN, SdInit(ok) PROVE Left' < Left
  BY <1>8 DEF SdInit
<1>9. ASSUME NEW ok \in BOOLEAN, Write_TFCard(ok) PROVE Left' < Left
  BY <1>9 DEF Write_TFCard
<1>10. CASE Heartbeat
  BY <1>10 DEF Heartbeat
<1> QED
  BY <1>2, <1>3, <1>4, <1>5, <1>6, <1>7, <1>8, <1>9, <1>10 DEF Step

\* The start, and every later entry of the log, is over after a bounded number of
\* steps, for every length of the data and every bound of the card's loop.
THEOREM StartProgresses == Spec => StartProgress
<1> DEFINE A == /\ ~booted => Left > 0
                /\ pc # "run" => /\ Step => Left' < Left
                                 /\ resets' = resets => Left' <= Left
<1>1. TypeOK /\ OnTheWay /\ OnTheWay' /\ [Next]_vars => [A]_vars
  <2> SUFFICES ASSUME TypeOK, OnTheWay, OnTheWay', Next PROVE A
    OBVIOUS
  <2>1. ~booted => Left > 0
    BY LeftPositive DEF OnTheWay
  <2>2. pc # "run" /\ Step => Left' < Left
    BY StepShrinks
  <2>3. Left \in Nat /\ Left' \in Nat
    <3>1. Left' \in Nat
      BY StartAssumption DEF OnTheWay, Counter, Left, Labels
    <3> QED
      BY <3>1, LeftPositive
  <2>4. pc # "run" /\ resets' = resets => Left' <= Left
    <3>1. ASSUME Tick PROVE Left' = Left
      BY <3>1 DEF Tick, Left
    <3>2. ASSUME Reset PROVE resets' # resets
      BY <3>2 DEF Reset, TypeOK
    <3> QED
      BY <2>2, <2>3, <3>1, <3>2 DEF Next
  <2> QED
    BY <2>1, <2>2, <2>4
<1> QED
  BY <1>1, OnTheWayInvariant, StartTypeOK, PTL DEF Spec, StartProgress
=============================================================================
