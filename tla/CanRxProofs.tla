----------------------------- MODULE CanRxProofs -----------------------------
(***************************************************************************)
(* Proofs about the reception of the PTC's replies, for every set of       *)
(* replies, every length up to six frames, and with or without bursts of   *)
(* losses.                                                                 *)
(***************************************************************************)
EXTENDS CanRx, TLAPS

\* Before the first frame nothing has been stored.
Virgin == flag_canrev = 0 => revframe_pos = 0

\* A reply received without a loss so far is stored in step with the bus.
InStep ==
  clean /\ flag_canrev = 1 /\ k >= 1 =>
    /\ revframe_pos = k
    /\ \A s \in 0..(k - 1) : can_temp[s] = <<cur, s>>

\* Without bursts the write position never runs ahead of the bus: only a lost
\* closing frame leaves it behind at the start of the next reply, and then the
\* opening frame of that reply cannot be lost as well.
Ahead ==
  ~BurstLoss =>
    /\ k >= 1 => revframe_pos <= k
    /\ k = 0 /\ ~lost => revframe_pos = 0
    /\ k = 0 /\ lost => revframe_pos <= 5

\* Without bursts the slots filled so far hold frames of the reply on the bus, at
\* least every other one of it: a reply whose opening frame was lost finds an
\* empty buffer and stays out of it.
Owned ==
  ~BurstLoss /\ k >= 1 /\ revframe_pos > 0 =>
    /\ \A s \in 0..(revframe_pos - 1) : can_temp[s][1] = cur
    /\ 2 * revframe_pos >= k
    /\ ~lost => 2 * revframe_pos >= k + 1

IInv == TypeOK /\ Virgin /\ InStep /\ Ahead /\ RxInBounds /\ Owned
-----------------------------------------------------------------------------
\* Can_ReadData, whose copies are the only writes, keeps can_temp well typed.
LEMMA CopyType ==
  ASSUME NEW t \in [Slots -> Origin], NEW p \in Int, NEW f \in Frame
  PROVE  Copy(t, p, f) \in [Slots -> Origin]
BY DEF Copy, Origin

\* The frame on the bus is a frame.
LEMMA BusFrame == TypeOK => /\ <<cur, k>> \in Frame
                            /\ Frames[cur] \in 2..6
                            /\ k \in 0..5
BY ReplyAssumption DEF TypeOK, Frame

\* The first copy of Can_ReadData keeps the position within 0x80.
LEMMA FirstStep ==
  ASSUME TypeOK, NEW f \in Frame
  PROVE  /\ FirstPos(f) \in 0..128
         /\ FirstTemp(f) \in [Slots -> Origin]
<1>1. FirstPos(f) \in 0..128
  BY DEF FirstPos, TypeOK
<1>2. can_temp \in [Slots -> Origin]
  BY DEF TypeOK
<1>3. Copy(can_temp, FirstPos(f), f) \in [Slots -> Origin]
  BY <1>1, <1>2, CopyType
<1>4. QED
  BY <1>1, <1>2, <1>3 DEF FirstTemp

\* What a delivered frame does to the receive variables, in terms of the bus.
\* The three cases are those of Can_ReadData: dropped, analysed, stored.
LEMMA DeliverCases ==
  ASSUME TypeOK, Deliver
  PROVE  LET f == <<cur, k>> IN
         /\ flag_canrev' = 1
         /\ \/ /\ flag_canrev = 0
               /\ UNCHANGED <<revframe_pos, can_temp, tbufHit, ptcVars>>
            \/ /\ flag_canrev = 1
               /\ k + 1 = Frames[cur] /\ FirstPos(f) \in 1..7
               /\ Candata_analysis(Copy(FirstTemp(f), FirstPos(f) + 1, f))
               /\ tbufHit' = (tbufHit \/ FirstPos(f) + 1 > 7)
               /\ revframe_pos' = 0
               /\ can_temp' = Cleared
            \/ /\ flag_canrev = 1
               /\ k + 1 = Frames[cur] => FirstPos(f) \notin 1..7
               /\ revframe_pos' = FirstPos(f)
               /\ can_temp' = FirstTemp(f)
               /\ tbufHit' = (tbufHit \/ FirstPos(f) > 7)
               /\ UNCHANGED ptcVars
<1>1. Closes(<<cur, k>>) <=> k + 1 = Frames[cur]
  BY BusFrame DEF Closes
<1>2. QED
  BY <1>1 DEF Deliver, CAN1_RX0_IRQHandler, Can_ReadData

\* Candata_analysis keeps the types of what it writes.
LEMMA AnalysisType ==
  ASSUME NEW t \in [Slots -> Origin], TypeOK, Candata_analysis(t)
  PROVE  /\ status' \in Seq(Origin)
         /\ analog' \in Seq(Origin)
         /\ maxI' \in Origin
         /\ s_set_statu' \in BOOLEAN
<1>1. t[1] \in Origin /\ t[2] \in Origin /\ t[3] \in Origin /\ t[4] \in Origin
  BY DEF Slots
<1>2. <<t[1], t[2], t[3]>> \in Seq(Origin) /\ <<t[1], t[2], t[3], t[4]>> \in Seq(Origin)
  BY <1>1
<1>3. s_set_statu' \in BOOLEAN
  BY Zenon DEF Candata_analysis, TypeOK
<1>4. QED
  BY <1>1, <1>2, <1>3 DEF Candata_analysis, TypeOK

\* The bus stays on a frame of some reply.
LEMMA AdvanceType ==
  ASSUME TypeOK, Advance
  PROVE  /\ cur' \in Reply
         /\ k' \in 0..(Frames[cur'] - 1)
         /\ k + 1 < Frames[cur] => k' = k + 1 /\ cur' = cur
         /\ ~(k + 1 < Frames[cur]) => k' = 0
<1>1. Frames[cur] \in 2..6 /\ \A m \in Reply : Frames[m] \in 2..6
  BY ReplyAssumption, BusFrame
<1>2. CASE k + 1 < Frames[cur]
  BY <1>1, <1>2 DEF Advance, TypeOK
<1>3. CASE ~(k + 1 < Frames[cur])
  <2>1. k' = 0 /\ cur' \in Reply
    BY <1>3 DEF Advance
  <2>2. Frames[cur'] \in 2..6
    BY <1>1, <2>1
  <2>3. QED
    BY <1>3, <2>1, <2>2
<1>4. QED
  BY <1>2, <1>3

LEMMA DeliverType == ASSUME TypeOK, Deliver PROVE TypeOK'
<1> DEFINE f == <<cur, k>>
<1>1. f \in Frame
  BY BusFrame
<1>2. /\ FirstPos(f) \in 0..128
      /\ FirstTemp(f) \in [Slots -> Origin]
  BY <1>1, FirstStep
<1> HIDE DEF f
<1>3. Copy(FirstTemp(f), FirstPos(f) + 1, f) \in [Slots -> Origin]
  BY <1>1, <1>2, CopyType
<1>4. cur' \in Reply /\ k' \in 0..(Frames[cur'] - 1)
  BY AdvanceType DEF Deliver
<1>5. lost' \in BOOLEAN /\ clean' \in BOOLEAN
  BY Zenon DEF Deliver, TypeOK
<1>6. flag_canrev' \in {0, 1}
  BY DeliverCases
<1>7. /\ revframe_pos' \in 0..128
      /\ can_temp' \in [Slots -> Origin]
      /\ tbufHit' \in BOOLEAN
  <2>1. Cleared \in [Slots -> Origin]
    BY DEF Cleared, Origin
  <2>2. \/ revframe_pos' = revframe_pos
        \/ revframe_pos' = 0
        \/ revframe_pos' = FirstPos(f)
    BY DeliverCases, Zenon DEF f
  <2>3. can_temp' \in {can_temp, Cleared, FirstTemp(f)}
    BY DeliverCases, Zenon DEF f
  <2>4. tbufHit' \in BOOLEAN
    BY DeliverCases, Zenon DEF f, TypeOK
  <2>5. revframe_pos' \in 0..128
    <3>1. revframe_pos \in 0..128 /\ 0 \in 0..128
      BY DEF TypeOK
    <3>2. QED
      BY <1>2, <2>2, <3>1, Zenon
  <2>6. can_temp' \in [Slots -> Origin]
    BY <1>2, <2>1, <2>3, Zenon DEF TypeOK
  <2>7. QED
    BY <2>4, <2>5, <2>6
<1>8. /\ status' \in Seq(Origin)
      /\ analog' \in Seq(Origin)
      /\ maxI' \in Origin
      /\ s_set_statu' \in BOOLEAN
  <2>1. CASE UNCHANGED ptcVars
    BY <2>1 DEF ptcVars, TypeOK
  <2>2. CASE Candata_analysis(Copy(FirstTemp(f), FirstPos(f) + 1, f))
    BY <2>2, <1>3, AnalysisType
  <2>3. UNCHANGED ptcVars \/ Candata_analysis(Copy(FirstTemp(f), FirstPos(f) + 1, f))
    BY DeliverCases, Zenon DEF f
  <2>4. QED
    BY <2>1, <2>2, <2>3
<1>9. QED
  BY <1>4, <1>5, <1>6, <1>7, <1>8 DEF TypeOK

LEMMA LoseType == ASSUME TypeOK, Lose PROVE TypeOK'
<1>1. cur' \in Reply /\ k' \in 0..(Frames[cur'] - 1)
  BY AdvanceType DEF Lose
<1>2. lost' \in BOOLEAN /\ clean' \in BOOLEAN
  BY Zenon DEF Lose
<1>3. QED
  BY <1>1, <1>2 DEF Lose, TypeOK, rxVars, ptcVars

LEMMA ClearType == ASSUME TypeOK, ClearSetStatu PROVE TypeOK'
BY DEF ClearSetStatu, TypeOK, rxVars, busVars
-----------------------------------------------------------------------------
\* The two ways an undisturbed frame is stored: it opens the reply, or it goes
\* into the slot with its own number.
LEMMA InStepFirst ==
  ASSUME TypeOK, InStep, clean, flag_canrev = 1
  PROVE  /\ FirstPos(<<cur, k>>) = k + 1
         /\ \A s \in 0..k : FirstTemp(<<cur, k>>)[s] = <<cur, s>>
<1> DEFINE f == <<cur, k>>
<1>1. k \in 0..5 /\ f[2] = k /\ can_temp \in [Slots -> Origin]
  BY BusFrame DEF TypeOK
<1>2. CASE k = 0
  BY <1>1, <1>2 DEF FirstPos, FirstTemp, Opens, Copy, Slots
<1>3. CASE k >= 1
  <2>1. revframe_pos = k /\ \A s \in 0..(k - 1) : can_temp[s] = <<cur, s>>
    BY <1>3 DEF InStep
  <2>2. ~Opens(f)
    BY <1>1, <1>3 DEF Opens
  <2>3. FirstPos(f) = k + 1
    BY <1>1, <1>3, <2>1, <2>2 DEF FirstPos
  <2>4. FirstTemp(f) = [can_temp EXCEPT ![k] = f]
    <3>1. k + 1 # revframe_pos /\ (k + 1) - 1 = k /\ k \in Slots
      BY <1>1, <2>1 DEF Slots
    <3>2. FirstTemp(f) = Copy(can_temp, k + 1, f)
      BY <2>3, <3>1, Zenon DEF FirstTemp
    <3>3. QED
      BY <3>1, <3>2 DEF Copy
  <2>5. \A s \in 0..k : [can_temp EXCEPT ![k] = f][s] = <<cur, s>>
    BY <1>1, <2>1 DEF Slots
  <2>6. QED
    BY <2>3, <2>4, <2>5, Zenon
<1>4. QED
  BY <1>1, <1>2, <1>3

LEMMA InStepStep == ASSUME IInv, Next PROVE InStep'
<1> USE DEF IInv
<1>1. CASE Deliver
  <2>1. CASE k + 1 < Frames[cur]
    <3>1. k' = k + 1 /\ cur' = cur
      BY <1>1, <2>1, AdvanceType DEF Deliver
    <3>2. SUFFICES ASSUME clean'
                   PROVE  revframe_pos' = k' /\ \A s \in 0..k : can_temp'[s] = <<cur, s>>
      BY <3>1, BusFrame DEF InStep
    <3>3. k + 1 # Frames[cur]
      BY <2>1, BusFrame
    <3>4. clean /\ flag_canrev = 1
      BY <1>1, <3>2, <3>3 DEF Deliver
    <3>5. revframe_pos' = FirstPos(<<cur, k>>) /\ can_temp' = FirstTemp(<<cur, k>>)
      BY <1>1, <3>3, <3>4, DeliverCases
    <3>6. QED
      BY <3>1, <3>4, <3>5, InStepFirst
  <2>2. CASE ~(k + 1 < Frames[cur])
    BY <1>1, <2>2, AdvanceType DEF Deliver, InStep
  <2>3. QED
    BY <2>1, <2>2
<1>2. CASE Lose
  <2>1. k' >= 1 => ~clean'
    <3>1. k + 1 = Frames[cur] => k' = 0
      BY <1>2, AdvanceType, BusFrame DEF Lose
    <3>2. clean' = (k + 1 = Frames[cur])
      BY <1>2 DEF Lose
    <3>3. k' = 0 => ~(k' >= 1)
      OBVIOUS
    <3>4. QED
      BY <3>1, <3>2, <3>3, Zenon
  <2>2. QED
    BY <2>1 DEF InStep
<1>3. CASE ClearSetStatu
  BY <1>3 DEF ClearSetStatu, rxVars, busVars, InStep
<1>4. QED
  BY <1>1, <1>2, <1>3 DEF Next

LEMMA AheadStep == ASSUME IInv, Next PROVE Ahead' /\ RxInBounds' /\ Virgin'
<1> USE DEF IInv
<1>0. /\ k \in 0..5 /\ Frames[cur] \in 2..6 /\ k < Frames[cur]
      /\ revframe_pos \in 0..128 /\ flag_canrev \in {0, 1}
  BY BusFrame DEF TypeOK
<1>1. CASE Deliver
  <2> DEFINE f == <<cur, k>>
  <2>1. FirstPos(f) = IF k = 0 THEN 1
                      ELSE IF revframe_pos \in 1..127 THEN revframe_pos + 1
                      ELSE revframe_pos
    BY DEF FirstPos, Opens
  <2>2. flag_canrev' = 1 /\ ~lost'
    BY <1>1, DeliverCases DEF Deliver
  <2>3. /\ k + 1 < Frames[cur] => k' = k + 1
        /\ ~(k + 1 < Frames[cur]) => k' = 0
    BY <1>1, AdvanceType DEF Deliver
  <2> HIDE DEF f
  <2>4. SUFFICES ASSUME ~BurstLoss
                 PROVE  /\ k' >= 1 => revframe_pos' <= k'
                        /\ k' = 0 => revframe_pos' = 0
                        /\ ~tbufHit'
    BY <2>2 DEF Ahead, RxInBounds, Virgin
  <2>5. /\ k >= 1 => revframe_pos <= k
        /\ ~tbufHit
    BY <2>4 DEF Ahead, RxInBounds
  <2>6. CASE flag_canrev = 0
    <3>1. revframe_pos = 0
      BY <2>6 DEF Virgin
    <3>2. revframe_pos' = revframe_pos /\ tbufHit' = tbufHit
      BY <1>1, <2>6, DeliverCases
    <3>3. QED
      BY <1>0, <2>3, <2>5, <3>1, <3>2
  <2>7. CASE flag_canrev = 1 /\ k + 1 = Frames[cur] /\ FirstPos(f) \in 1..7
    <3>1. revframe_pos' = 0 /\ tbufHit' = (tbufHit \/ FirstPos(f) + 1 > 7)
      BY <1>1, <2>7, DeliverCases DEF f
    <3>2. FirstPos(f) + 1 <= 7
      BY <1>0, <2>1, <2>5, <2>7
    <3>3. ~(FirstPos(f) + 1 > 7)
      BY <2>7, <3>2
    <3>4. ~tbufHit'
      BY <2>5, <3>1, <3>3, Zenon
    <3>5. QED
      BY <1>0, <2>3, <2>7, <3>1, <3>4
  <2>8. CASE flag_canrev = 1 /\ ~(k + 1 = Frames[cur] /\ FirstPos(f) \in 1..7)
    <3>1. revframe_pos' = FirstPos(f) /\ tbufHit' = (tbufHit \/ FirstPos(f) > 7)
      BY <1>1, <2>8, DeliverCases DEF f
    <3>2. FirstPos(f) \in 0..6 /\ FirstPos(f) <= k + 1
      BY <1>0, <2>1, <2>5
    <3>3. ~(FirstPos(f) > 7)
      BY <3>2
    <3>4. ~tbufHit'
      BY <2>5, <3>1, <3>3, Zenon
    <3>5. QED
      BY <1>0, <2>1, <2>3, <2>8, <3>1, <3>2, <3>4
  <2>9. QED
    BY <1>0, <2>6, <2>7, <2>8
<1>2. CASE Lose
  BY <1>0, <1>2, AdvanceType DEF Lose, rxVars, Ahead, RxInBounds, Virgin
<1>3. CASE ClearSetStatu
  BY <1>3 DEF ClearSetStatu, rxVars, busVars, Ahead, RxInBounds, Virgin
<1>4. QED
  BY <1>1, <1>2, <1>3 DEF Next

\* The first copy of a frame: the reply's own slots are continued, or opened.
LEMMA OwnedFirst ==
  ASSUME TypeOK, Ahead, Owned, ~BurstLoss, k >= 1 => revframe_pos > 0
  PROVE  /\ FirstPos(<<cur, k>>) = IF k = 0 THEN 1 ELSE revframe_pos + 1
         /\ FirstPos(<<cur, k>>) \in 1..6
         /\ \A s \in 0..(FirstPos(<<cur, k>>) - 1) : FirstTemp(<<cur, k>>)[s][1] = cur
<1> DEFINE f == <<cur, k>>
<1>1. /\ k \in 0..5 /\ f[1] = cur /\ f[2] = k /\ can_temp \in [Slots -> Origin]
      /\ revframe_pos \in 0..128
  BY BusFrame DEF TypeOK
<1>2. CASE k = 0
  BY <1>1, <1>2 DEF FirstPos, FirstTemp, Opens, Copy, Slots
<1>3. CASE k >= 1
  <2>1. revframe_pos \in 1..5 /\ \A s \in 0..(revframe_pos - 1) : can_temp[s][1] = cur
    BY <1>1, <1>3 DEF Ahead, Owned
  <2>2. ~Opens(f)
    BY <1>1, <1>3 DEF Opens
  <2>3. FirstPos(f) = revframe_pos + 1
    BY <2>1, <2>2 DEF FirstPos
  <2>4. FirstTemp(f) = [can_temp EXCEPT ![revframe_pos] = f]
    <3>1. /\ revframe_pos + 1 # revframe_pos /\ (revframe_pos + 1) - 1 = revframe_pos
          /\ revframe_pos \in Slots
      BY <2>1 DEF Slots
    <3>2. FirstTemp(f) = Copy(can_temp, revframe_pos + 1, f)
      BY <2>3, <3>1, Zenon DEF FirstTemp
    <3>3. QED
      BY <3>1, <3>2 DEF Copy
  <2>5. \A s \in 0..revframe_pos : [can_temp EXCEPT ![revframe_pos] = f][s][1] = cur
    BY <1>1, <2>1 DEF Slots
  <2>6. (revframe_pos + 1) - 1 = revframe_pos /\ k # 0 /\ revframe_pos + 1 \in 1..6
    BY <1>3, <2>1
  <2> HIDE DEF f
  <2>7. QED
    BY <2>3, <2>4, <2>5, <2>6, Zenon DEF f
<1>4. QED
  BY <1>1, <1>2, <1>3

LEMMA OwnedStep == ASSUME IInv, Next PROVE Owned'
<1> USE DEF IInv
<1>0. /\ k \in 0..5 /\ Frames[cur] \in 2..6 /\ k < Frames[cur]
      /\ revframe_pos \in 0..128 /\ flag_canrev \in {0, 1}
  BY BusFrame DEF TypeOK
<1>1. CASE Deliver
  <2> DEFINE f == <<cur, k>>
  <2> SUFFICES ASSUME ~BurstLoss, k' >= 1, revframe_pos' > 0
               PROVE  /\ \A s \in 0..(revframe_pos' - 1) : can_temp'[s][1] = cur'
                      /\ 2 * revframe_pos' >= k'
                      /\ ~lost' => 2 * revframe_pos' >= k' + 1
    BY DEF Owned
  <2>1. k + 1 < Frames[cur] /\ k' = k + 1 /\ cur' = cur
    BY <1>0, <1>1, AdvanceType DEF Deliver
  <2>2. flag_canrev = 1
    BY <1>0, <1>1, DeliverCases DEF Virgin
  <2>3. revframe_pos' = FirstPos(f) /\ can_temp' = FirstTemp(f)
    BY <1>0, <1>1, <2>1, <2>2, DeliverCases
  <2>4. k >= 1 => revframe_pos > 0
    BY <1>0, <2>3 DEF FirstPos, Opens
  <2>5. /\ FirstPos(f) = IF k = 0 THEN 1 ELSE revframe_pos + 1
        /\ FirstPos(f) \in 1..6
        /\ \A s \in 0..(FirstPos(f) - 1) : FirstTemp(f)[s][1] = cur
    BY <2>4, OwnedFirst
  <2> HIDE DEF f
  <2>6. k >= 1 => 2 * revframe_pos >= k
    BY <2>4 DEF Owned
  <2>7. 2 * revframe_pos' >= k' + 1
    BY <1>0, <2>1, <2>3, <2>5, <2>6
  <2>8. QED
    BY <1>0, <2>1, <2>3, <2>5, <2>7
<1>2. CASE Lose
  <2> SUFFICES ASSUME ~BurstLoss, k' >= 1, revframe_pos' > 0
               PROVE  /\ \A s \in 0..(revframe_pos' - 1) : can_temp'[s][1] = cur'
                      /\ 2 * revframe_pos' >= k'
                      /\ lost'
    BY DEF Owned
  <2>1. k + 1 < Frames[cur] /\ k' = k + 1 /\ cur' = cur
    BY <1>0, <1>2, AdvanceType DEF Lose
  <2>2. ~lost /\ lost' /\ revframe_pos' = revframe_pos /\ can_temp' = can_temp
    BY <1>2 DEF Lose, rxVars
  <2>3. k >= 1
    BY <1>0, <2>2 DEF Ahead
  <2>4. QED
    BY <1>0, <2>1, <2>2, <2>3 DEF Owned
<1>3. CASE ClearSetStatu
  BY <1>3 DEF ClearSetStatu, rxVars, busVars, Owned
<1>4. QED
  BY <1>1, <1>2, <1>3 DEF Next

LEMMA InitIInv == Init => IInv
<1> SUFFICES ASSUME Init PROVE IInv
  OBVIOUS
<1>1. TypeOK
  <2>1. Cleared \in [Slots -> Origin]
    BY DEF Cleared, Origin
  <2>2. <<Zero, Zero, Zero>> \in Seq(Origin) /\ <<Zero, Zero, Zero, Zero>> \in Seq(Origin)
    BY DEF Origin
  <2>3. cur \in Reply /\ Frames[cur] \in 2..6 /\ k = 0
    BY ReplyAssumption DEF Init
  <2>4. k \in 0..(Frames[cur] - 1)
    BY <2>3
  <2>5. Zero \in Origin
    BY DEF Origin
  <2>6. /\ flag_canrev \in {0, 1}
        /\ revframe_pos \in 0..128
        /\ can_temp \in [Slots -> Origin]
        /\ status \in Seq(Origin)
        /\ analog \in Seq(Origin)
        /\ maxI \in Origin
    BY <2>1, <2>2, <2>5 DEF Init
  <2>7. tbufHit \in BOOLEAN /\ s_set_statu \in BOOLEAN /\ lost \in BOOLEAN /\ clean \in BOOLEAN
    BY Zenon DEF Init
  <2>8. QED
    BY <2>3, <2>4, <2>6, <2>7, Zenon DEF TypeOK
<1>2. Virgin /\ InStep /\ Ahead /\ RxInBounds /\ Owned
  BY DEF Init, Virgin, InStep, Ahead, RxInBounds, Owned
<1>3. QED
  BY <1>1, <1>2 DEF IInv

LEMMA NextIInv == IInv /\ [Next]_vars => IInv'
<1> SUFFICES ASSUME IInv, [Next]_vars PROVE IInv'
  OBVIOUS
<1>1. CASE Next
  <2>1. TypeOK'
    BY <1>1, DeliverType, LoseType, ClearType DEF Next, IInv
  <2>2. QED
    BY <1>1, <2>1, InStepStep, AheadStep, OwnedStep DEF IInv
<1>2. CASE UNCHANGED vars
  <2> USE <1>2 DEF vars, rxVars, ptcVars, busVars, IInv
  <2>1. TypeOK'
    BY DEF TypeOK
  <2>2. InStep'
    BY DEF InStep
  <2>3. Virgin' /\ Ahead' /\ RxInBounds'
    BY DEF Virgin, Ahead, RxInBounds
  <2>4. Owned'
    BY DEF Owned
  <2>5. QED
    BY <2>1, <2>2, <2>3, <2>4
<1>3. QED
  BY <1>1, <1>2

\* The inductive invariant holds in every reachable state.
THEOREM Inductive == Spec => []IInv
BY InitIInv, NextIInv, PTL DEF Spec

\* Types of the receive path, for every set of replies.
THEOREM RxTypeOK == Spec => []TypeOK
<1>1. IInv => TypeOK
  BY DEF IInv
<1>2. QED
  BY <1>1, Inductive, PTL

\* Without bursts of losses Can_ReadData never writes past can_temp.
THEOREM RxStaysInBounds == Spec => []RxInBounds
<1>1. IInv => RxInBounds
  BY DEF IInv
<1>2. QED
  BY <1>1, Inductive, PTL

\* What the closing frame of an undisturbed reply hands to Candata_analysis.
LEMMA CleanClose ==
  ASSUME IInv, Deliver, clean, flag_canrev = 1, k + 1 = Frames[cur]
  PROVE  \E t \in [Slots -> Origin] :
           /\ Candata_analysis(t)
           /\ \A s \in 0..(Frames[cur] - 1) : t[s] = <<cur, s>>
<1> USE DEF IInv
<1> DEFINE f == <<cur, k>>
           t == Copy(FirstTemp(f), FirstPos(f) + 1, f)
<1>1. f \in Frame /\ k \in 1..5 /\ Frames[cur] \in 2..6
  BY BusFrame
<1>2. FirstPos(f) = k + 1 /\ \A s \in 0..k : FirstTemp(f)[s] = <<cur, s>>
  BY InStepFirst
<1>3. FirstTemp(f) \in [Slots -> Origin]
  BY <1>1, FirstStep
<1>4. (k + 1) + 1 \in Int /\ k + 1 \in 1..7 /\ ((k + 1) + 1) - 1 = k + 1 /\ k + 1 \in Slots
  BY <1>1 DEF Slots
<1>5. Candata_analysis(t)
  <2>1. FirstPos(f) \in 1..7
    BY <1>2, <1>4
  <2>2. flag_canrev # 0
    OBVIOUS
  <2>3. QED
    BY <2>1, <2>2, DeliverCases, Zenon
<1>6. t = Copy(FirstTemp(f), (k + 1) + 1, f)
  BY <1>2
<1> HIDE DEF f
<1>7. t = [FirstTemp(f) EXCEPT ![k + 1] = f]
  BY <1>4, <1>6 DEF Copy
<1>8. t \in [Slots -> Origin]
  BY <1>1, <1>3, <1>7 DEF Origin
<1>9. \A s \in 0..k : t[s] = <<cur, s>>
  <2>1. \A s \in 0..k : s \in Slots /\ s # k + 1
    BY <1>1 DEF Slots
  <2>2. \A s \in 0..k : t[s] = FirstTemp(f)[s]
    <3> HIDE DEF t
    <3>1. QED
      BY <1>3, <1>7, <2>1
  <2>3. QED
    BY <1>2, <2>2, Zenon DEF f
<1>10. Frames[cur] - 1 = k
  BY <1>1
<1> HIDE DEF t
<1>11. QED
  BY <1>5, <1>8, <1>9, <1>10

\* A reply received without a loss is applied, whatever went before it.
THEOREM CleanReplyIsApplied == Spec => CleanReplyApplied
<1>1. ASSUME IInv, Deliver, clean, flag_canrev = 1, k + 1 = Frames[cur]
      PROVE  Applied(cur)
  <2>1. PICK t \in [Slots -> Origin] :
               /\ Candata_analysis(t)
               /\ \A s \in 0..(Frames[cur] - 1) : t[s] = <<cur, s>>
    BY <1>1, CleanClose
  <2>2. Frames[cur] \in 2..6 /\ (Func[cur] = "SEEKSTAT" => Frames[cur] = 5)
    BY <1>1, ReplyAssumption, BusFrame DEF IInv, TypeOK
  <2>3. t[0] = <<cur, 0>> /\ t[0][1] = cur
    BY <2>1, <2>2
  <2>4. Func[cur] = "SEEKSTAT" => status' = <<<<cur, 1>>, <<cur, 2>>, <<cur, 3>>>>
    <3>1. SUFFICES ASSUME Func[cur] = "SEEKSTAT"
                   PROVE  status' = <<<<cur, 1>>, <<cur, 2>>, <<cur, 3>>>>
      OBVIOUS
    <3>2. \A s \in 0..4 : t[s] = <<cur, s>>
      BY <2>1, <2>2, <3>1
    <3>3. CrcOk(t)
      BY <2>3, <3>2 DEF CrcOk
    <3>4. status' = <<t[1], t[2], t[3]>>
      BY <2>1, <2>3, <3>1, <3>3 DEF Candata_analysis
    <3>5. QED
      BY <3>2, <3>4
  <2>5. Func[cur] = "SEEKVALUE" /\ Frames[cur] = 6 =>
          analog' = <<<<cur, 1>>, <<cur, 2>>, <<cur, 3>>, <<cur, 4>>>>
    <3>1. SUFFICES ASSUME Func[cur] = "SEEKVALUE", Frames[cur] = 6
                   PROVE  analog' = <<<<cur, 1>>, <<cur, 2>>, <<cur, 3>>, <<cur, 4>>>>
      OBVIOUS
    <3>2. \A s \in 0..5 : t[s] = <<cur, s>>
      BY <2>1, <3>1
    <3>3. analog' = <<t[1], t[2], t[3], t[4]>>
      BY <2>1, <2>3, <3>1 DEF Candata_analysis
    <3>4. QED
      BY <3>2, <3>3
  <2>6. Func[cur] = "CONFIG" => s_set_statu'
    BY <2>1, <2>3, Zenon DEF Candata_analysis
  <2>7. QED
    BY <2>4, <2>5, <2>6 DEF Applied
<1>2. IInv /\ [Next]_vars =>
        [Deliver /\ clean /\ flag_canrev = 1 /\ k + 1 = Frames[cur] => Applied(cur)]_vars
  BY <1>1, Zenon
<1>3. QED
  BY <1>2, Inductive, PTL DEF Spec, CleanReplyApplied

\* What the closing frame of a reply hands to Candata_analysis, when the bus never
\* loses two consecutive frames: the slots filled, and the one behind them.
LEMMA OwnedClose ==
  ASSUME IInv, Deliver, ~BurstLoss, ~UNCHANGED ptcVars
  PROVE  \E t \in [Slots -> Origin] :
           /\ Candata_analysis(t)
           /\ \A s \in 0..2 : t[s][1] = cur
           /\ Frames[cur] = 6 => \A s \in 0..4 : t[s][1] = cur
<1> USE DEF IInv
<1> DEFINE f == <<cur, k>>
           p == FirstPos(f)
           t == Copy(FirstTemp(f), p + 1, f)
<1>1. /\ f \in Frame /\ f[1] = cur /\ k \in 0..5 /\ Frames[cur] \in 2..6
      /\ revframe_pos \in 0..128
  BY BusFrame DEF TypeOK
<1>2. k + 1 = Frames[cur] /\ p \in 1..7 /\ Candata_analysis(t)
  BY DeliverCases, Zenon
<1>3. k >= 1
  BY <1>1, <1>2
<1>4. revframe_pos > 0
  BY <1>1, <1>2, <1>3 DEF FirstPos, Opens
<1>5. p = revframe_pos + 1 /\ p \in 1..6 /\ \A s \in 0..(p - 1) : FirstTemp(f)[s][1] = cur
  BY <1>3, <1>4, OwnedFirst
<1>6. 2 * revframe_pos >= k
  BY <1>3, <1>4 DEF Owned
<1>7. FirstTemp(f) \in [Slots -> Origin]
  BY <1>1, FirstStep
<1> HIDE DEF f, p
<1>8. t = [FirstTemp(f) EXCEPT ![p] = f]
  <2>1. (p + 1) - 1 = p /\ p \in Slots
    BY <1>5 DEF Slots
  <2>2. QED
    BY <2>1 DEF Copy
<1>9. t \in [Slots -> Origin]
  BY <1>1, <1>7, <1>8 DEF Origin
<1>10. \A s \in 0..p : t[s][1] = cur
  <2>1. \A s \in 0..p : s \in Slots /\ (s # p => s \in 0..(p - 1))
    BY <1>5 DEF Slots
  <2>2. \A s \in 0..p : t[s] = IF s = p THEN f ELSE FirstTemp(f)[s]
    BY <1>7, <1>8, <2>1
  <2> HIDE DEF t
  <2>3. QED
    BY <1>1, <1>5, <2>1, <2>2, Zenon
<1>11. p >= 2 /\ (Frames[cur] = 6 => p >= 4)
  BY <1>1, <1>2, <1>3, <1>5, <1>6
<1> HIDE DEF t
<1>12. QED
  <2>1. \A s \in 0..2 : s \in 0..p
    BY <1>5, <1>11
  <2>2. Frames[cur] = 6 => \A s \in 0..4 : s \in 0..p
    BY <1>5, <1>11
  <2>3. QED
    BY <1>2, <1>9, <1>10, <2>1, <2>2, Zenon

\* When the bus never loses two consecutive frames, everything the analysis takes
\* over comes from the reply that has just been closed.
THEOREM RxOneReply == Spec => OneReply
<1> DEFINE A == ~BurstLoss =>
                  /\ s_set_statu' /\ ~s_set_statu => Func[cur] = "CONFIG"
                  /\ maxI' # maxI => Func[cur] = "LINK" /\ maxI'[1] = cur
                  /\ analog' # analog =>
                       /\ Func[cur] = "SEEKVALUE"
                       /\ Frames[cur] = 6 => \A n \in 1..4 : analog'[n][1] = cur
                  /\ status' # status =>
                       /\ Func[cur] = "SEEKSTAT"
                       /\ \A n \in 1..3 : status'[n][1] = cur
<1>1. ASSUME IInv, Deliver, ~BurstLoss, ~UNCHANGED ptcVars PROVE A
  <2>1. PICK t \in [Slots -> Origin] :
               /\ Candata_analysis(t)
               /\ \A s \in 0..2 : t[s][1] = cur
               /\ Frames[cur] = 6 => \A s \in 0..4 : t[s][1] = cur
    BY <1>1, OwnedClose
  <2>2. t[0][1] = cur /\ t[2][1] = cur
    BY <2>1
  <2>3. s_set_statu' /\ ~s_set_statu => Func[cur] = "CONFIG"
    BY <2>1, <2>2, Zenon DEF Candata_analysis
  <2>4. maxI' # maxI => Func[cur] = "LINK" /\ maxI'[1] = cur
    BY <2>1, <2>2, Zenon DEF Candata_analysis
  <2>5. analog' # analog => Func[cur] = "SEEKVALUE" /\ analog' = <<t[1], t[2], t[3], t[4]>>
    BY <2>1, <2>2, Zenon DEF Candata_analysis
  <2>6. analog' = <<t[1], t[2], t[3], t[4]>> /\ Frames[cur] = 6
          => \A n \in 1..4 : analog'[n][1] = cur
    BY <2>1
  <2>7. status' # status =>
          Func[cur] = "SEEKSTAT" /\ CrcOk(t) /\ status' = <<t[1], t[2], t[3]>>
    BY <2>1, <2>2, Zenon DEF Candata_analysis
  <2>8. CrcOk(t) /\ status' = <<t[1], t[2], t[3]>> => \A n \in 1..3 : status'[n][1] = cur
    BY <2>2 DEF CrcOk
  <2>9. QED
    BY <2>3, <2>4, <2>5, <2>6, <2>7, <2>8, Zenon
<1>2. ASSUME UNCHANGED ptcVars PROVE A
  BY <1>2, Zenon DEF ptcVars
<1>3. ASSUME Lose \/ ClearSetStatu PROVE A
  BY <1>3, Zenon DEF Lose, ClearSetStatu, ptcVars
<1>4. ASSUME IInv, [Next]_vars PROVE [A]_vars
  <2>1. CASE UNCHANGED vars
    BY <2>1
  <2>2. CASE Next
    BY <1>1, <1>2, <1>3, <1>4, <2>2, Zenon DEF Next
  <2>3. QED
    BY <1>4, <2>1, <2>2
<1>5. QED
  BY <1>4, Inductive, PTL DEF Spec, OneReply
=============================================================================
