--------------------------- MODULE ScreenTxProofs ---------------------------
(***************************************************************************)
(* Proofs about ScreenTx, for all sets of calls, every long delay of at    *)
(* least 50 ms and any lateness: the driver listens when no task sends,    *)
(* and an undisturbed acknowledgement of a start arrives whole.            *)
(***************************************************************************)
EXTENDS ScreenTx, SequenceTheorems, TLAPS

Sections == {"on", "off", "ack_on", "seek", "test"}

\* The sections that leave the transfer enough time.
Long == {"on", "ack_on", "test"}

Ord(c) == CASE c \in {"on", "ack_on"} -> "ACKON"
            [] c = "off" -> "ACKOFF"
            [] c = "seek" -> "ACKDATA"
            [] c = "test" -> "test_buf"

Calls == CanScripts \cup ScreenScripts \cup {"none"}
-----------------------------------------------------------------------------
(***************************************************************************)
(* The scripts.                                                            *)
(***************************************************************************)
Names == {"none", "ACKON", "ACKOFF", "ACKDATA", "ACKCONFIG", "test_buf"}

Ops == [op : {"tx", "rx", "dly", "send"}, ms : 0..LongDelay, order : Names]

Plain == {r \in Ops : r.op \in {"dly", "send"}}

LEMMA OpTypes ==
  /\ TX \in Ops /\ RX \in Ops
  /\ \A d \in 0..LongDelay : Delay(d) \in Plain
  /\ \A o \in Names : Send(o) \in Plain
<1>1. TX \in Ops /\ RX \in Ops
  BY ScreenTxAssumption DEF Ops, Names, TX, RX
<1>2. \A d \in 0..LongDelay : Delay(d) \in Plain
  BY DEF Ops, Names, Plain, Delay
<1>3. \A o \in Names : Send(o) \in Plain
  BY ScreenTxAssumption DEF Ops, Plain, Send
<1> QED
  BY <1>1, <1>2, <1>3

LEMMA Tuples ==
  ASSUME NEW S, NEW a \in S, NEW b \in S
  PROVE  /\ <<a>> \in Seq(S) /\ Len(<<a>>) = 1
         /\ <<a, b>> \in Seq(S)
OBVIOUS

LEMMA FiveTuple ==
  ASSUME NEW S, NEW a \in S, NEW b \in S, NEW c \in S, NEW d \in S, NEW e \in S
  PROVE  <<a, b, c, d, e>> \in Seq(S) /\ Len(<<a, b, c, d, e>>) = 5
OBVIOUS

LEMMA AcksPlain == Acks \in Seq(Plain)
<1>1. \A d \in 0..LongDelay : Ack(d) \in Seq(Plain)
  <2>1. \A d \in 0..LongDelay : Delay(d) \in Plain /\ Send("ACKCONFIG") \in Plain
    BY OpTypes DEF Names
  <2> QED
    BY <2>1, Tuples DEF Ack
<1>2. \A r, s \in Seq(Plain) : r \o s \in Seq(Plain)
  BY ConcatProperties
<1> HIDE DEF Plain
<1>3. {10, 12, 14, 16, 18, 20} \subseteq 0..LongDelay
  BY ScreenTxAssumption
<1> QED
  BY <1>1, <1>2, <1>3 DEF Acks

\* A script without section: delays and messages only.
LEMMA PlainScripts ==
  ASSUME NEW c \in Calls \ Sections
  PROVE  Script(c) \in Seq(Plain) /\ Len(Script(c)) >= 1
<1>1. Body(c) \in Seq(Plain)
  <2>1. \A r, s \in Seq(Plain) : r \o s \in Seq(Plain)
    BY ConcatProperties
  <2>2. <<Send("ACKDATA")>> \in Seq(Plain) /\ <<>> \in Seq(Plain)
    <3>1. Send("ACKDATA") \in Plain
      BY OpTypes DEF Names
    <3> QED
      BY <3>1, Tuples
  <2>3. c \in {"report", "config", "config_ok", "none"}
    BY DEF Calls, Sections, CanScripts, ScreenScripts
  <2>4. CASE c = "report"
    BY <2>2, <2>4 DEF Body
  <2>5. CASE c = "config"
    BY <2>5, AcksPlain DEF Body
  <2>6. CASE c = "config_ok"
    BY <2>6, <2>1, AcksPlain DEF Body
  <2>7. CASE c = "none"
    BY <2>2, <2>7 DEF Body
  <2> QED
    BY <2>3, <2>4, <2>5, <2>6, <2>7
<1>2. <<Delay(LongDelay)>> \in Seq(Plain) /\ Len(<<Delay(LongDelay)>>) = 1
  BY OpTypes, ScreenTxAssumption, Tuples
<1>3. /\ Body(c) \o <<Delay(LongDelay)>> \in Seq(Plain)
      /\ Len(Body(c) \o <<Delay(LongDelay)>>) = Len(Body(c)) + 1
  BY <1>1, <1>2, ConcatProperties
<1>4. Len(Body(c)) \in Nat
  BY <1>1
<1> QED
  BY <1>3, <1>4 DEF Script

\* The delay of a section behind its message.
Wait(c) == CASE c = "on" -> LongDelay [] c \in {"ack_on", "test"} -> 50 [] OTHER -> 10

LEMMA SectionScripts ==
  ASSUME NEW c \in Sections
  PROVE  /\ Script(c) \in Seq(Ops) /\ Len(Script(c)) >= 6
         /\ Script(c)[1] = TX /\ Script(c)[2] = Delay(10) /\ Script(c)[3] = Send(Ord(c))
         /\ Script(c)[4] = Delay(Wait(c)) /\ Script(c)[5] = RX
         /\ \A i \in 6..Len(Script(c)) : Script(c)[i] \in Plain
<1> DEFINE S == Section(Ord(c), Wait(c))
<1>1. Ord(c) \in Names /\ Wait(c) \in 0..LongDelay
  BY ScreenTxAssumption DEF Ord, Wait, Sections, Names
<1>2. S \in Seq(Ops) /\ Len(S) = 5
  <2>1. Plain \subseteq Ops /\ 10 \in 0..LongDelay
    BY ScreenTxAssumption DEF Plain
  <2>2. TX \in Ops /\ RX \in Ops /\ Delay(10) \in Ops /\ Send(Ord(c)) \in Ops /\ Delay(Wait(c)) \in Ops
    BY <1>1, <2>1, OpTypes
  <2> QED
    BY <2>2, FiveTuple DEF Section
<1>3. S[1] = TX /\ S[2] = Delay(10) /\ S[3] = Send(Ord(c)) /\ S[4] = Delay(Wait(c)) /\ S[5] = RX
  BY DEF Section
<1> HIDE DEF S
<1>4. PICK T \in Seq(Plain) : Script(c) = S \o T /\ Len(T) >= 1
  <2> DEFINE D == <<Delay(LongDelay)>>
  <2>1. D \in Seq(Plain) /\ Len(D) = 1
    BY OpTypes, ScreenTxAssumption, Tuples
  <2> HIDE DEF D
  <2>2. CASE c \in {"off", "seek", "test"}
    <3>1. Script(c) = S \o D
      BY <2>2 DEF Script, Body, Ord, Wait, S, D
    <3>2. Len(D) >= 1
      BY <2>1
    <3> QED
      BY <2>1, <3>1, <3>2, Zenon
  <2>3. ASSUME NEW d \in 0..LongDelay, Script(c) = (S \o <<Delay(d)>>) \o D
        PROVE  \E T \in Seq(Plain) : Script(c) = S \o T /\ Len(T) >= 1
    <3>1. <<Delay(d)>> \in Seq(Plain) /\ Len(<<Delay(d)>>) = 1
      BY OpTypes, Tuples
    <3>2. <<Delay(d)>> \o D \in Seq(Plain) /\ Len(<<Delay(d)>> \o D) = 2
      BY <2>1, <3>1, ConcatProperties
    <3>3. Plain \subseteq Ops
      BY DEF Plain
    <3>4. <<Delay(d)>> \in Seq(Ops) /\ D \in Seq(Ops)
      BY <3>3, OpTypes, ScreenTxAssumption, Tuples DEF D
    <3>5. (S \o <<Delay(d)>>) \o D = S \o (<<Delay(d)>> \o D)
      BY <1>2, <3>4, ConcatAssociative
    <3>6. Len(<<Delay(d)>> \o D) >= 1
      BY <3>2
    <3>7. Script(c) = S \o (<<Delay(d)>> \o D)
      BY <2>3, <3>5
    <3> QED
      BY <3>2, <3>6, <3>7, Zenon
  <2>4. CASE c = "on"
    <3>1. 10 \in 0..LongDelay
      BY ScreenTxAssumption
    <3>2. Script(c) = (S \o <<Delay(10)>>) \o D
      BY <2>4 DEF Script, Body, Ord, Wait, S, D
    <3> QED
      BY <2>3, <3>1, <3>2
  <2>5. CASE c = "ack_on"
    <3>1. 50 \in 0..LongDelay
      BY ScreenTxAssumption
    <3>2. Script(c) = (S \o <<Delay(50)>>) \o D
      BY <2>5 DEF Script, Body, AckOn, Ord, Wait, S, D
    <3> QED
      BY <2>3, <3>1, <3>2
  <2> QED
    BY <2>2, <2>4, <2>5 DEF Sections
<1>5. T \in Seq(Ops)
  BY DEF Plain
<1>6. /\ S \o T \in Seq(Ops) /\ Len(S \o T) = 5 + Len(T)
      /\ \A i \in 1..(5 + Len(T)) : (S \o T)[i] = IF i <= 5 THEN S[i] ELSE T[i - 5]
  <2>1. /\ S \o T \in Seq(Ops) /\ Len(S \o T) = Len(S) + Len(T)
        /\ \A i \in 1..(Len(S) + Len(T)) : (S \o T)[i] = IF i <= Len(S) THEN S[i] ELSE T[i - Len(S)]
    BY <1>2, <1>5, ConcatProperties, Zenon
  <2> QED
    BY <1>2, <2>1, Zenon
<1>7. Len(T) \in Nat /\ \A i \in 1..Len(T) : T[i] \in Plain
  OBVIOUS
<1>8. \A i \in 6..Len(S \o T) : i - 5 \in 1..Len(T) /\ i \in 1..(5 + Len(T)) /\ ~(i <= 5)
  BY <1>6, <1>7
<1> QED
  BY <1>3, <1>4, <1>6, <1>7, <1>8

LEMMA Scripts ==
  ASSUME NEW c \in Calls
  PROVE  /\ Script(c) \in Seq(Ops) /\ Len(Script(c)) \in Nat \ {0}
         /\ c \in Sections => Len(Script(c)) >= 6
         /\ \A i \in 1..Len(Script(c)) :
              /\ Script(c)[i] \in Ops
              /\ Script(c)[i].op = "tx" <=> c \in Sections /\ i = 1
              /\ Script(c)[i].op = "rx" <=> c \in Sections /\ i = 5
<1>1. CASE c \notin Sections
  <2>1. Script(c) \in Seq(Plain) /\ Len(Script(c)) >= 1
    BY <1>1, PlainScripts
  <2>2. Script(c) \in Seq(Ops)
    BY <2>1 DEF Plain
  <2>3. \A i \in 1..Len(Script(c)) : Script(c)[i] \in Plain
    BY <2>1
  <2>4. Len(Script(c)) \in Nat \ {0}
    BY <2>1
  <2> QED
    BY <1>1, <2>2, <2>3, <2>4 DEF Plain
<1>2. CASE c \in Sections
  <2>1. Script(c) \in Seq(Ops) /\ Len(Script(c)) >= 6
    BY <1>2, SectionScripts
  <2>2. Len(Script(c)) \in Nat \ {0}
    BY <2>1
  <2>3. /\ Script(c)[1].op = "tx" /\ Script(c)[2].op = "dly" /\ Script(c)[3].op = "send"
        /\ Script(c)[4].op = "dly" /\ Script(c)[5].op = "rx"
    <3>1. TX.op = "tx" /\ RX.op = "rx"
      BY DEF TX, RX
    <3>2. Delay(10).op = "dly" /\ Delay(Wait(c)).op = "dly" /\ Send(Ord(c)).op = "send"
      BY DEF Delay, Send
    <3> QED
      BY <1>2, <3>1, <3>2, SectionScripts
  <2>4. \A i \in 6..Len(Script(c)) : Script(c)[i].op \in {"dly", "send"}
    BY <1>2, SectionScripts DEF Plain
  <2>5. \A i \in 1..Len(Script(c)) : Script(c)[i] \in Ops
    BY <2>1
  <2>6. \A i \in 1..Len(Script(c)) : i \in {1, 2, 3, 4, 5} \/ i \in 6..Len(Script(c))
    BY <2>2
  <2>7. \A i \in 6..Len(Script(c)) : i # 1 /\ i # 5
    BY <2>2
  <2> QED
    BY <1>2, <2>1, <2>2, <2>3, <2>4, <2>5, <2>6, <2>7
<1> QED
  BY <1>1, <1>2
-----------------------------------------------------------------------------
(***************************************************************************)
(* The inductive invariant.                                                *)
(***************************************************************************)
Transfers == [order : Names, left : 0..29, fresh : BOOLEAN, whole : BOOLEAN]

Types ==
  /\ call \in [Tasks -> Calls]
  /\ call["can"] \in CanCalls \cup {"none"} /\ call["screen"] \in ScreenCalls \cup {"none"}
  /\ pos \in [Tasks -> Nat]
  /\ \A t \in Tasks : pos[t] \in 1..Len(Script(call[t]))
  /\ age \in [Tasks -> (- Ticks(LongDelay))..MaxLate]
  /\ at \in 0..5
  /\ dma \in Transfers
  /\ dir \in {"RX", "TX"}
  /\ clean \in [Tasks -> BOOLEAN]

Sending(t) == call[t] \in Sections /\ pos[t] \in 2..5

Listens == dir = "TX" => \E t \in Tasks : Sending(t)

\* A section is clean from its SCREEN_485_TX to its SCREEN_485_RX.
CleanIn == \A t \in Tasks : clean[t] => Sending(t) /\ dir = "TX"

AtSend == at # 0 => call["screen"] # "none" /\ Op("screen").op = "send"

\* What screen_task has packed, as long as nobody interferes.
Packing ==
  clean["screen"] /\ call["screen"] \in Long /\ pos["screen"] = 3 =>
    LET o == Ord(call["screen"]) IN
    /\ at = 1 => mcgs_buf = Empty
    /\ at = 2 => mcgs_buf = [order |-> o, body |-> "0"]
    /\ at = 3 => mcgs_buf = Image(o)
    /\ at = 4 => sendbuff = Image(o)
    /\ at = 5 => dma.left = 0 /\ (o = "test_buf" \/ sendbuff = Image(o))

\* The transfer of task t: no more is left than the ticks that remain.
Arrives(t) ==
  /\ dma.order = Ord(call[t]) /\ dma.whole /\ dma.left <= 4
  /\ Ord(call[t]) = "test_buf" \/ sendbuff = Image(Ord(call[t]))
  /\ pos[t] = 5 => \/ dma.left = 0
                   \/ dma.fresh /\ age[t] <= -5
                   \/ ~dma.fresh /\ dma.left <= - age[t]

Sent == \A t \in Tasks : clean[t] /\ call[t] \in Long /\ pos[t] \in {4, 5} => Arrives(t)

IInv == Types /\ Listens /\ CleanIn /\ AtSend /\ Packing /\ Sent

LEMMA IInvInit == Init => IInv
<1> SUFFICES ASSUME Init PROVE IInv
  OBVIOUS
<1>1. Len(Script("none")) \in Nat \ {0}
  BY Scripts DEF Calls
<1>2. 0 \in (- Ticks(LongDelay))..MaxLate
  BY ScreenTxAssumption DEF Ticks
<1>3. dma \in Transfers
  BY DEF Init, Transfers, Names
<1>4. Types
  BY <1>1, <1>2, <1>3 DEF Init, Types, Tasks, Calls
<1>5. \A t \in Tasks : clean[t] = FALSE
  BY DEF Init
<1> QED
  BY <1>4, <1>5 DEF Init, IInv, Listens, CleanIn, AtSend, Packing, Sent, Tasks

\* Where a task is in its script.
LEMMA OpIs ==
  ASSUME Types, NEW t \in Tasks
  PROVE  /\ Op(t) \in Ops
         /\ Op(t).op = "tx" <=> call[t] \in Sections /\ pos[t] = 1
         /\ Op(t).op = "rx" <=> call[t] \in Sections /\ pos[t] = 5
         /\ call[t] \in Sections /\ pos[t] = 3 => Op(t) = Send(Ord(call[t]))
         /\ call[t] \in Sections /\ pos[t] = 4 => Op(t) = Delay(Wait(call[t]))
         /\ call[t] \in Sections /\ pos[t] \in {2, 4} => Op(t).op = "dly"
<1>1. call[t] \in Calls /\ pos[t] \in 1..Len(Script(call[t]))
  BY DEF Types
<1>2. /\ Op(t) \in Ops
      /\ Op(t).op = "tx" <=> call[t] \in Sections /\ pos[t] = 1
      /\ Op(t).op = "rx" <=> call[t] \in Sections /\ pos[t] = 5
  BY <1>1, Scripts DEF Op
<1> QED
  BY <1>2, SectionScripts DEF Op, Delay

LEMMA SectionIs ==
  ASSUME Types, NEW t \in Tasks
  PROVE  InSection(t) <=> Sending(t)
<1>1. call[t] \in Calls /\ pos[t] \in 1..Len(Script(call[t])) /\ pos[t] \in Nat
  BY DEF Types
<1>2. Len(Script(call[t])) \in Nat
  BY <1>1, Scripts
<1>3. \A i \in 1..(pos[t] - 1) :
        /\ i \in 1..Len(Script(call[t]))
        /\ Script(call[t])[i] = TX => Script(call[t])[i].op = "tx"
        /\ Script(call[t])[i] = RX => Script(call[t])[i].op = "rx"
  BY <1>1, <1>2 DEF TX, RX
<1>4. \A i \in 1..(pos[t] - 1) :
        /\ Script(call[t])[i] = TX <=> call[t] \in Sections /\ i = 1
        /\ Script(call[t])[i] = RX <=> call[t] \in Sections /\ i = 5
  BY <1>1, <1>3, Scripts, SectionScripts
<1>5. call[t] \in Sections => call[t] # "none"
  BY DEF Sections
<1>6. InSection(t) <=> /\ call[t] \in Sections
                       /\ 1 \in 1..(pos[t] - 1) /\ 5 \notin 1..(pos[t] - 1)
  BY <1>4, <1>5 DEF InSection
<1> QED
  BY <1>1, <1>6 DEF Sending
-----------------------------------------------------------------------------
(***************************************************************************)
(* The steps.                                                              *)
(***************************************************************************)
Places ==
  /\ call \in [Tasks -> Calls]
  /\ call["can"] \in CanCalls \cup {"none"} /\ call["screen"] \in ScreenCalls \cup {"none"}
  /\ pos \in [Tasks -> Nat]
  /\ \A t \in Tasks : pos[t] \in 1..Len(Script(call[t]))

LEMMA AdvanceIs ==
  ASSUME Types, NEW t \in Tasks, Advance(t)
  PROVE  /\ Places'
         /\ \A u \in Tasks : u # t => call'[u] = call[u] /\ pos'[u] = pos[u]
         /\ \/ call'[t] = call[t] /\ pos'[t] = pos[t] + 1
            \/ call'[t] = "none" /\ pos'[t] = 1
         /\ call[t] \in Sections /\ pos[t] <= 5 => call'[t] = call[t] /\ pos'[t] = pos[t] + 1
<1>1. call[t] \in Calls /\ pos[t] \in 1..Len(Script(call[t])) /\ pos[t] \in Nat
  BY DEF Types
<1>2. Len(Script(call[t])) \in Nat /\ 1 \in 1..Len(Script("none"))
  BY <1>1, Scripts DEF Calls
<1>3. CASE pos[t] < Len(Script(call[t]))
  <2>1. call' = call /\ pos' = [pos EXCEPT ![t] = pos[t] + 1]
    BY <1>3 DEF Advance
  <2>2. pos[t] + 1 \in 1..Len(Script(call[t])) /\ pos[t] + 1 \in Nat
    BY <1>1, <1>2, <1>3
  <2>3. pos' \in [Tasks -> Nat] /\ pos'[t] = pos[t] + 1 /\ \A u \in Tasks : u # t => pos'[u] = pos[u]
    BY <2>1, <2>2 DEF Types
  <2> QED
    BY <2>1, <2>2, <2>3 DEF Types, Places
<1>4. CASE ~(pos[t] < Len(Script(call[t])))
  <2>1. call' = [call EXCEPT ![t] = "none"] /\ pos' = [pos EXCEPT ![t] = 1]
    BY <1>4 DEF Advance
  <2>2. pos[t] = Len(Script(call[t]))
    BY <1>1, <1>2, <1>4
  <2>3. ~(call[t] \in Sections /\ pos[t] <= 5)
    BY <1>1, <1>2, <2>2, Scripts
  <2>4. pos' \in [Tasks -> Nat] /\ pos'[t] = 1 /\ \A u \in Tasks : u # t => pos'[u] = pos[u]
    BY <2>1 DEF Types
  <2>5. call' \in [Tasks -> Calls] /\ call'[t] = "none" /\ \A u \in Tasks : u # t => call'[u] = call[u]
    BY <2>1 DEF Types, Calls
  <2>6. call'["can"] \in CanCalls \cup {"none"} /\ call'["screen"] \in ScreenCalls \cup {"none"}
    BY <2>5 DEF Types, Tasks
  <2> QED
    BY <1>2, <2>3, <2>4, <2>5, <2>6 DEF Types, Places
<1> QED
  BY <1>3, <1>4

LEMMA OtherIs ==
  ASSUME NEW t \in Tasks
  PROVE  Other(t) \in Tasks /\ Other(t) # t /\ \A u \in Tasks : u = t \/ u = Other(t)
BY DEF Tasks, Other

LEMMA BeginStep ==
  ASSUME IInv, NEW t \in Tasks, NEW c \in Calls, Begin(t, c),
         t = "can" => c \in CanCalls, t = "screen" => c \in ScreenCalls
  PROVE  IInv'
<1>1. /\ call[t] = "none" /\ call' = [call EXCEPT ![t] = c] /\ pos' = [pos EXCEPT ![t] = 1]
      /\ UNCHANGED <<at, mcgs_buf, sendbuff, dma, dir, clean>>
  BY DEF Begin
<1>2. Types /\ call[t] \notin Sections
  BY <1>1 DEF IInv, Sections
<1>3. PICK a \in 0..MaxLate : age' = [age EXCEPT ![t] = a]
  BY DEF Begin
<1>4. 1 \in 1..Len(Script(c))
  BY Scripts
<1>5. call' \in [Tasks -> Calls] /\ pos' \in [Tasks -> Nat] /\ call'[t] = c /\ pos'[t] = 1
  BY <1>1, <1>2 DEF Types
<1>6. \A u \in Tasks : u # t => call'[u] = call[u] /\ pos'[u] = pos[u] /\ age'[u] = age[u]
  BY <1>1, <1>2, <1>3 DEF Types
<1>7. age' \in [Tasks -> (- Ticks(LongDelay))..MaxLate]
  <2>1. a \in (- Ticks(LongDelay))..MaxLate
    BY ScreenTxAssumption DEF Ticks
  <2> QED
    BY <1>2, <1>3, <2>1 DEF Types
<1>8. call'["can"] \in CanCalls \cup {"none"} /\ call'["screen"] \in ScreenCalls \cup {"none"}
  BY <1>2, <1>5, <1>6 DEF Types, Tasks
<1>9. Types'
  BY <1>1, <1>2, <1>4, <1>5, <1>6, <1>7, <1>8 DEF Types
<1>10. \A u \in Tasks : Sending(u) => u # t /\ Sending(u)'
  BY <1>2, <1>6 DEF Sending
<1>11. Listens' /\ CleanIn'
  BY <1>1, <1>10 DEF IInv, Listens, CleanIn
<1>12. AtSend' /\ (Packing' \/ t = "screen")
  BY <1>1, <1>6 DEF IInv, AtSend, Packing, Op, Tasks
<1>13. ~clean[t]
  BY <1>2 DEF IInv, CleanIn, Sending
<1>14. Packing'
  BY <1>1, <1>12, <1>13 DEF Packing
<1>15. Sent'
  <2> SUFFICES ASSUME NEW u \in Tasks, (clean[u] /\ call[u] \in Long /\ pos[u] \in {4, 5})'
               PROVE  Arrives(u)'
    BY DEF Sent
  <2>1. u # t
    BY <1>1, <1>13
  <2> QED
    BY <1>1, <1>6, <2>1 DEF IInv, Sent, Arrives
<1> QED
  BY <1>9, <1>11, <1>12, <1>14, <1>15 DEF IInv

LEMMA TxStep ==
  ASSUME IInv, NEW t \in Tasks, SCREEN_485_TX(t)
  PROVE  IInv'
<1>1. /\ Op(t).op = "tx" /\ dir' = "TX" /\ clean' = [Disturbs(t) EXCEPT ![t] = TRUE]
      /\ Advance(t) /\ UNCHANGED <<age, at, mcgs_buf, sendbuff, dma>>
  BY DEF SCREEN_485_TX
<1>2. Types /\ call[t] \in Sections /\ pos[t] = 1
  BY <1>1, OpIs DEF IInv
<1>3. /\ Places' /\ call'[t] = call[t] /\ pos'[t] = 2
      /\ \A u \in Tasks : u # t => call'[u] = call[u] /\ pos'[u] = pos[u]
  BY <1>1, <1>2, AdvanceIs
<1>4. clean' \in [Tasks -> BOOLEAN] /\ \A u \in Tasks : u # t => ~clean'[u]
  BY <1>1, <1>2, OtherIs DEF Types, Disturbs
<1>5. Types'
  BY <1>1, <1>2, <1>3, <1>4 DEF Types, Places
<1>6. Sending(t)'
  BY <1>2, <1>3 DEF Sending
<1>7. Listens' /\ CleanIn'
  BY <1>1, <1>4, <1>6 DEF Listens, CleanIn
<1>8. AtSend'
  <2>1. CASE t = "screen"
    BY <1>1, <2>1 DEF IInv, AtSend
  <2>2. CASE t # "screen"
    BY <1>1, <1>3, <2>2 DEF IInv, AtSend, Op, Tasks
  <2> QED
    BY <2>1, <2>2
<1>9. \A u \in Tasks : clean'[u] => pos'[u] = 2
  BY <1>3, <1>4
<1>10. Packing' /\ Sent'
  BY <1>9 DEF Packing, Sent, Tasks
<1> QED
  BY <1>5, <1>7, <1>8, <1>10 DEF IInv

LEMMA RxStep ==
  ASSUME IInv, NEW t \in Tasks, SCREEN_485_RX(t)
  PROVE  IInv'
<1>1. /\ Op(t).op = "rx" /\ dir' = "RX" /\ clean' = [Disturbs(t) EXCEPT ![t] = FALSE]
      /\ Advance(t) /\ UNCHANGED <<age, at, mcgs_buf, sendbuff, dma>>
  BY DEF SCREEN_485_RX
<1>2. Types
  BY DEF IInv
<1>3. Places' /\ \A u \in Tasks : u # t => call'[u] = call[u] /\ pos'[u] = pos[u]
  BY <1>1, <1>2, AdvanceIs
<1>4. clean' \in [Tasks -> BOOLEAN] /\ \A u \in Tasks : ~clean'[u]
  BY <1>1, <1>2, OtherIs DEF Types, Disturbs
<1>5. Types'
  BY <1>1, <1>2, <1>3, <1>4 DEF Types, Places
<1>6. AtSend'
  <2>1. CASE t = "screen"
    BY <1>1, <2>1 DEF IInv, AtSend
  <2>2. CASE t # "screen"
    BY <1>1, <1>3, <2>2 DEF IInv, AtSend, Op, Tasks
  <2> QED
    BY <2>1, <2>2
<1> QED
  BY <1>1, <1>4, <1>5, <1>6 DEF IInv, Listens, CleanIn, Packing, Sent, Tasks

\* A delay is never longer than asked for; one of 50 ms or more whose task is on
\* time takes at least five ticks.
LEMMA Waiting ==
  ASSUME NEW a \in 0..MaxLate, NEW m \in 0..LongDelay
  PROVE  LET n == Ticks(m) IN
         /\ n \in 0..Ticks(LongDelay)
         /\ -(IF a < n THEN n - a ELSE n) \in (- Ticks(LongDelay))..MaxLate
         /\ m >= 50 /\ a <= 5 => -(IF a < n THEN n - a ELSE n) <= -5
<1>1. m \div 5 \in 0..(LongDelay \div 5) /\ LongDelay \div 5 \in Nat
  BY ScreenTxAssumption
<1>2. m >= 50 => m \div 5 >= 10
  OBVIOUS
<1> QED
  BY <1>1, <1>2, ScreenTxAssumption DEF Ticks

LEMMA DelayStep ==
  ASSUME IInv, NEW t \in Tasks, delay_ms(t)
  PROVE  IInv'
<1>1. /\ Op(t).op = "dly" /\ age[t] >= 0 /\ Advance(t)
      /\ age' = [age EXCEPT ![t] = - OS_TickListInsert(t, Ticks(Op(t).ms))]
      /\ clean' = [clean EXCEPT ![t] = clean[t] /\ (pos[t] = 2 \/ age[t] <= Slack)]
      /\ UNCHANGED <<at, mcgs_buf, sendbuff, dma, dir>>
  BY DEF delay_ms, Runs
<1>2. Types
  BY DEF IInv
<1>3. Op(t).ms \in 0..LongDelay /\ age[t] \in 0..MaxLate /\ age[t] \in Int
  BY <1>1, <1>2, OpIs DEF Types, Ops
<1>4. /\ Places' /\ \A u \in Tasks : u # t => call'[u] = call[u] /\ pos'[u] = pos[u]
      /\ call[t] \in Sections /\ pos[t] <= 5 => call'[t] = call[t] /\ pos'[t] = pos[t] + 1
      /\ \/ call'[t] = call[t] /\ pos'[t] = pos[t] + 1
         \/ call'[t] = "none" /\ pos'[t] = 1
  BY <1>1, <1>2, AdvanceIs
<1>5. /\ - OS_TickListInsert(t, Ticks(Op(t).ms)) \in (- Ticks(LongDelay))..MaxLate
      /\ Op(t).ms >= 50 /\ age[t] <= 5 => - OS_TickListInsert(t, Ticks(Op(t).ms)) <= -5
  BY <1>3, Waiting DEF OS_TickListInsert
<1>6. /\ age' \in [Tasks -> (- Ticks(LongDelay))..MaxLate]
      /\ age'[t] = - OS_TickListInsert(t, Ticks(Op(t).ms))
      /\ \A u \in Tasks : u # t => age'[u] = age[u]
  BY <1>1, <1>2, <1>5 DEF Types
<1>7. /\ clean' \in [Tasks -> BOOLEAN] /\ \A u \in Tasks : u # t => clean'[u] = clean[u]
      /\ clean'[t] = (clean[t] /\ (pos[t] = 2 \/ age[t] <= Slack))
  BY <1>1, <1>2 DEF Types
<1>8. Types'
  BY <1>1, <1>2, <1>4, <1>6, <1>7 DEF Types, Places
<1>9. Sending(t) => pos[t] \in {2, 4}
  <2>1. pos[t] # 3 \/ call[t] \notin Sections
    <3>1. \A o \in Names : Send(o).op # "dly"
      BY DEF Send
    <3>2. call[t] \in Sections => Ord(call[t]) \in Names
      BY DEF Ord, Sections, Names
    <3> QED
      BY <1>1, <1>2, <3>1, <3>2, OpIs
  <2>2. pos[t] # 5 \/ call[t] \notin Sections
    BY <1>1, <1>2, OpIs
  <2> QED
    BY <2>1, <2>2 DEF Sending
<1>10. \A u \in Tasks : Sending(u) => Sending(u)'
  <2>1. Sending(t) => Sending(t)'
    BY <1>4, <1>9 DEF Sending
  <2> QED
    BY <1>4, <2>1 DEF Sending
<1>11. Listens' /\ CleanIn'
  BY <1>1, <1>7, <1>10 DEF IInv, Listens, CleanIn
<1>12. t = "screen" => at = 0
  BY <1>1 DEF IInv, AtSend
<1>13. AtSend' /\ Packing'
  <2>1. CASE t = "screen"
    BY <1>1, <1>12, <2>1 DEF AtSend, Packing
  <2>2. CASE t # "screen"
    BY <1>1, <1>4, <1>7, <2>2 DEF IInv, AtSend, Packing, Op, Tasks
  <2> QED
    BY <2>1, <2>2
<1>14. ASSUME NEW u \in Tasks, (clean[u] /\ call[u] \in Long /\ pos[u] \in {4, 5})'
       PROVE  Arrives(u)'
  <2>1. CASE u # t
    BY <1>1, <1>4, <1>6, <1>7, <1>14, <2>1 DEF IInv, Sent, Arrives
  <2>2. CASE u = t
    <3>1. clean[t] /\ Sending(t)
      BY <1>7, <1>14, <2>2 DEF IInv, CleanIn
    <3>2. pos[t] = 4 /\ call[t] \in Sections /\ call'[t] = call[t] /\ pos'[t] = 5
      BY <1>4, <1>9, <1>14, <2>2, <3>1 DEF Sending
    <3>3. call[t] \in Long /\ Arrives(t)
      BY <1>14, <2>2, <3>1, <3>2 DEF IInv, Sent
    <3>4. age[t] <= 5
      BY <1>3, <1>7, <1>14, <2>2, <3>2, ScreenTxAssumption
    <3>5. Op(t).ms >= 50
      <4>1. Wait(call[t]) >= 50
        BY <3>3, ScreenTxAssumption DEF Long, Wait
      <4>2. Op(t) = Delay(Wait(call[t]))
        BY <1>2, <3>2, OpIs
      <4> QED
        BY <4>1, <4>2 DEF Delay
    <3>6. age'[t] <= -5 /\ age'[t] \in Int
      BY <1>3, <1>5, <1>6, <3>4, <3>5
    <3>7. dma.left <= 4 /\ dma.left \in Nat /\ dma.fresh \in BOOLEAN
      <4>1. dma.left \in 0..29 /\ dma.fresh \in BOOLEAN
        BY <1>2 DEF Types, Transfers
      <4>2. dma.left <= 4
        BY <3>3 DEF Arrives
      <4> QED
        BY <4>1, <4>2
    <3>8. dma.left <= - age'[t]
      BY <3>6, <3>7
    <3> QED
      BY <1>1, <2>2, <3>2, <3>3, <3>6, <3>7, <3>8 DEF Arrives
  <2> QED
    BY <2>1, <2>2
<1>15. Sent'
  BY <1>14 DEF Sent
<1> QED
  BY <1>8, <1>11, <1>13, <1>15 DEF IInv

LEMMA TransferType ==
  ASSUME NEW o \in Names
  PROVE  Transfer(o) \in Transfers
<1>1. Blocks(o) \in 0..29
  BY DEF Blocks
<1> QED
  BY <1>1 DEF Transfer, Transfers

LEMMA TransferIs ==
  ASSUME NEW c \in Long
  PROVE  /\ c \in Sections /\ Ord(c) \in Names
         /\ Transfer(Ord(c)).order = Ord(c) /\ Transfer(Ord(c)).whole
         /\ Transfer(Ord(c)).left <= 4
<1>1. c \in Sections /\ Ord(c) \in Names /\ Ord(c) # "ACKDATA"
  BY DEF Long, Sections, Ord, Names
<1>2. Blocks(Ord(c)) <= 4
  BY <1>1 DEF Blocks
<1> QED
  BY <1>1, <1>2 DEF Transfer

\* A task that sends inside its section is at the third operation.
LEMMA SendIs ==
  ASSUME Types, NEW t \in Tasks, Op(t).op = "send"
  PROVE  /\ Op(t).order \in Names
         /\ Sending(t) => pos[t] = 3 /\ Op(t).order = Ord(call[t])
<1>1. Op(t).order \in Names
  BY OpIs DEF Ops
<1>2. Sending(t) => pos[t] = 3
  BY OpIs DEF Sending
<1>3. Sending(t) => Op(t) = Send(Ord(call[t]))
  BY <1>2, OpIs DEF Sending
<1> QED
  BY <1>1, <1>2, <1>3 DEF Send

LEMMA CanSendStep ==
  ASSUME IInv, CanSend
  PROVE  IInv'
<1> DEFINE o == Op("can").order
<1>1. /\ Op("can").op = "send" /\ sendbuff' = Image(o) /\ dma' = Transfer(o)
      /\ clean' = Disturbs("can") /\ Advance("can") /\ UNCHANGED <<age, at, dir>>
  BY DEF CanSend
<1>2. Types /\ "can" \in Tasks /\ "screen" \in Tasks
  BY DEF IInv, Tasks
<1>3. /\ Places' /\ call'["screen"] = call["screen"] /\ pos'["screen"] = pos["screen"]
      /\ call["can"] \in Sections /\ pos["can"] <= 5
           => call'["can"] = call["can"] /\ pos'["can"] = pos["can"] + 1
  BY <1>1, <1>2, AdvanceIs
<1>4. o \in Names /\ (Sending("can") => pos["can"] = 3 /\ o = Ord(call["can"]))
  BY <1>1, <1>2, SendIs
<1> HIDE DEF o
<1>5. clean' \in [Tasks -> BOOLEAN] /\ ~clean'["screen"] /\ clean'["can"] = clean["can"]
  BY <1>1, <1>2 DEF Types, Disturbs, Other
<1>6. dma' \in Transfers
  BY <1>1, <1>4, TransferType
<1>7. Types'
  BY <1>1, <1>2, <1>3, <1>5, <1>6 DEF Types, Places
<1>8. \A u \in Tasks : Sending(u) => Sending(u)'
  <2>1. Sending("can") => Sending("can")'
    BY <1>3, <1>4 DEF Sending
  <2> QED
    BY <1>3, <2>1 DEF Sending, Tasks
<1>9. Listens' /\ CleanIn'
  BY <1>1, <1>5, <1>8 DEF IInv, Listens, CleanIn, Tasks
<1>10. AtSend' /\ Packing'
  BY <1>1, <1>3, <1>5 DEF IInv, AtSend, Packing, Op
<1>11. ASSUME (clean["can"] /\ call["can"] \in Long /\ pos["can"] \in {4, 5})'
       PROVE  Arrives("can")'
  <2>1. Sending("can")
    BY <1>2, <1>5, <1>11 DEF IInv, CleanIn
  <2>2. call'["can"] = call["can"] /\ pos'["can"] = 4 /\ o = Ord(call["can"])
    BY <1>3, <1>4, <2>1 DEF Sending
  <2>3. dma'.order = Ord(call'["can"]) /\ dma'.whole /\ dma'.left <= 4
    BY <1>1, <1>11, <2>2, TransferIs
  <2> QED
    BY <1>1, <2>2, <2>3 DEF Arrives
<1>12. Sent'
  BY <1>5, <1>11 DEF Sent, Tasks
<1> QED
  BY <1>7, <1>9, <1>10, <1>12 DEF IInv

\* What the steps of screen_task inside screen_ack and screen_datasend have in common.
LEMMA ScreenStays ==
  ASSUME IInv, Op("screen").op = "send", call["screen"] # "none",
         UNCHANGED <<call, pos, age, dir>>, clean' = Disturbs("screen"),
         at' \in 0..5, dma' \in Transfers
  PROVE  Types' /\ Listens' /\ CleanIn' /\ AtSend' /\ Sent'
<1>1. Types /\ "can" \in Tasks /\ "screen" \in Tasks
  BY DEF IInv, Tasks
<1>2. clean' \in [Tasks -> BOOLEAN] /\ ~clean'["can"] /\ clean'["screen"] = clean["screen"]
  BY <1>1 DEF Types, Disturbs, Other
<1>3. Types'
  BY <1>1, <1>2 DEF Types
<1>4. Listens' /\ CleanIn'
  BY <1>2 DEF IInv, Listens, CleanIn, Sending, Tasks
<1>5. AtSend'
  BY DEF AtSend, Op
<1>6. clean["screen"] => pos["screen"] = 3
  BY <1>1, SendIs DEF IInv, CleanIn
<1>7. Sent'
  BY <1>2, <1>6 DEF Sent, Tasks
<1> QED
  BY <1>3, <1>4, <1>5, <1>7

LEMMA PackStep ==
  ASSUME IInv, ScreenPack
  PROVE  IInv'
<1> DEFINE o == Op("screen").order
<1>1. /\ Op("screen").op = "send" /\ call["screen"] # "none" /\ Pack /\ at' = at + 1
      /\ clean' = Disturbs("screen") /\ UNCHANGED <<call, pos, age, dma, dir>>
  BY DEF ScreenPack
<1>2. Types /\ "screen" \in Tasks
  BY DEF IInv, Tasks
<1>3. at \in {0, 1, 2, 3} /\ at' \in 0..5 /\ at' \in {1, 2, 3, 4}
  BY <1>1 DEF Pack
<1>4. Types' /\ Listens' /\ CleanIn' /\ AtSend' /\ Sent'
  BY <1>1, <1>2, <1>3, ScreenStays DEF Types
<1>5. Packing'
  <2> SUFFICES ASSUME clean'["screen"], call["screen"] \in Long, pos["screen"] = 3
               PROVE  LET q == Ord(call["screen"]) IN
                      /\ at' = 1 => mcgs_buf' = Empty
                      /\ at' = 2 => mcgs_buf' = [order |-> q, body |-> "0"]
                      /\ at' = 3 => mcgs_buf' = Image(q)
                      /\ at' = 4 => sendbuff' = Image(q)
                      /\ at' # 5
    BY <1>1, <1>3 DEF Packing
  <2>1. clean["screen"]
    BY <1>1, <1>2 DEF Types, Disturbs, Other, Tasks
  <2>2. o = Ord(call["screen"])
    BY <1>1, <1>2, <2>1, SendIs DEF IInv, CleanIn
  <2>3. CASE at = 0
    BY <1>1, <2>3 DEF Pack
  <2>4. CASE at = 1
    BY <1>1, <2>1, <2>2, <2>4 DEF Pack, IInv, Packing, Empty
  <2>5. CASE at = 2
    BY <1>1, <2>1, <2>2, <2>5 DEF Pack, IInv, Packing, Image
  <2>6. CASE at = 3
    BY <1>1, <2>1, <2>2, <2>6 DEF Pack, IInv, Packing
  <2> QED
    BY <1>3, <2>3, <2>4, <2>5, <2>6
<1> QED
  BY <1>4, <1>5 DEF IInv

LEMMA StopDmaStep ==
  ASSUME IInv, ScreenStopDma
  PROVE  IInv'
<1>1. /\ Op("screen").op = "send" /\ call["screen"] # "none" /\ dma' = Cut /\ at' = 5
      /\ at = IF Op("screen").order = "test_buf" THEN 0 ELSE 4
      /\ clean' = Disturbs("screen") /\ UNCHANGED <<call, pos, age, mcgs_buf, sendbuff, dir>>
  BY DEF ScreenStopDma
<1>2. Types /\ "screen" \in Tasks
  BY DEF IInv, Tasks
<1>3. dma' \in Transfers /\ dma'.left = 0
  <2>1. dma \in Transfers /\ 0 \in 0..29
    BY <1>2 DEF Types
  <2>2. ASSUME NEW w \in BOOLEAN
        PROVE  LET d == [dma EXCEPT !.left = 0, !.whole = w] IN d \in Transfers /\ d.left = 0
    BY <2>1 DEF Transfers
  <2>3. (dma.whole /\ dma.left = 0) \in BOOLEAN
    OBVIOUS
  <2> QED
    BY <1>1, <2>2, <2>3 DEF Cut
<1>4. Types' /\ Listens' /\ CleanIn' /\ AtSend' /\ Sent'
  BY <1>1, <1>3, ScreenStays
<1>5. Packing'
  <2>1. clean'["screen"] => clean["screen"]
    BY <1>1, <1>2 DEF Types, Disturbs, Other, Tasks
  <2>2. clean["screen"] => Op("screen").order = Ord(call["screen"])
    BY <1>1, <1>2, SendIs DEF IInv, CleanIn
  <2> QED
    BY <1>1, <1>3, <2>1, <2>2 DEF IInv, Packing
<1> QED
  BY <1>4, <1>5 DEF IInv

LEMMA StartDmaStep ==
  ASSUME IInv, ScreenStartDma
  PROVE  IInv'
<1> DEFINE o == Op("screen").order
<1>1. /\ Op("screen").op = "send" /\ at = 5 /\ at' = 0
      /\ dma' = IF dma.left = 0 THEN Transfer(o) ELSE dma
      /\ clean' = Disturbs("screen") /\ Advance("screen")
      /\ UNCHANGED <<age, mcgs_buf, sendbuff, dir>>
  BY DEF ScreenStartDma
<1>2. Types /\ "can" \in Tasks /\ "screen" \in Tasks
  BY DEF IInv, Tasks
<1>3. /\ Places' /\ call'["can"] = call["can"] /\ pos'["can"] = pos["can"]
      /\ call["screen"] \in Sections /\ pos["screen"] <= 5
           => call'["screen"] = call["screen"] /\ pos'["screen"] = pos["screen"] + 1
  BY <1>1, <1>2, AdvanceIs
<1>4. o \in Names /\ (Sending("screen") => pos["screen"] = 3 /\ o = Ord(call["screen"]))
  BY <1>1, <1>2, SendIs
<1> HIDE DEF o
<1>5. clean' \in [Tasks -> BOOLEAN] /\ ~clean'["can"] /\ clean'["screen"] = clean["screen"]
  BY <1>1, <1>2 DEF Types, Disturbs, Other
<1>6. dma' \in Transfers
  BY <1>1, <1>2, <1>4, TransferType DEF Types
<1>7. Types'
  BY <1>1, <1>2, <1>3, <1>5, <1>6 DEF Types, Places
<1>8. \A u \in Tasks : Sending(u) => Sending(u)'
  <2>1. Sending("screen") => Sending("screen")'
    BY <1>3, <1>4 DEF Sending
  <2> QED
    BY <1>3, <2>1 DEF Sending, Tasks
<1>9. Listens' /\ CleanIn'
  BY <1>1, <1>5, <1>8 DEF IInv, Listens, CleanIn, Tasks
<1>10. AtSend' /\ Packing'
  BY <1>1 DEF AtSend, Packing
<1>11. ASSUME (clean["screen"] /\ call["screen"] \in Long /\ pos["screen"] \in {4, 5})'
       PROVE  Arrives("screen")'
  <2>1. clean["screen"] /\ Sending("screen")
    BY <1>2, <1>5, <1>11 DEF IInv, CleanIn
  <2>2. call'["screen"] = call["screen"] /\ pos["screen"] = 3 /\ pos'["screen"] = 4
        /\ o = Ord(call["screen"])
    BY <1>3, <1>4, <2>1 DEF Sending
  <2>3. dma.left = 0 /\ (o = "test_buf" \/ sendbuff = Image(o))
    BY <1>1, <1>11, <2>1, <2>2 DEF IInv, Packing
  <2>4. dma'.order = Ord(call'["screen"]) /\ dma'.whole /\ dma'.left <= 4
    BY <1>1, <1>11, <2>2, <2>3, TransferIs
  <2> QED
    BY <1>1, <2>2, <2>3, <2>4 DEF Arrives
<1>12. Sent'
  BY <1>5, <1>11 DEF Sent, Tasks
<1> QED
  BY <1>7, <1>9, <1>10, <1>12 DEF IInv

LEMMA TickStep ==
  ASSUME IInv, Tick
  PROVE  IInv'
<1>1. /\ \A t \in Tasks : ~Blocked(t) => age[t] < MaxLate
      /\ age' = [t \in Tasks |-> IF call[t] = "none" /\ age[t] >= 0 THEN 0 ELSE age[t] + 1]
      /\ UNCHANGED <<call, pos, at, mcgs_buf, sendbuff, dir, clean>>
  BY DEF Tick
<1>2. Types
  BY DEF IInv
<1>3. PICK k \in (IF dma.fresh THEN 0 ELSE 1)..2 :
        dma' = [dma EXCEPT !.left = IF @ > k THEN @ - k ELSE 0,
                           !.fresh = FALSE,
                           !.whole = @ /\ (k > 0 /\ dma.left > 0 => Right)]
  BY DEF Tick
<1>4. /\ dma.left \in 0..29 /\ dma.fresh \in BOOLEAN /\ dma.whole \in BOOLEAN /\ dma.order \in Names
      /\ dma \in Transfers
  BY <1>2 DEF Types, Transfers
<1>5. k \in {0, 1, 2} /\ (~dma.fresh => k >= 1)
  BY <1>3
<1> DEFINE l == IF dma.left > k THEN dma.left - k ELSE 0
           w == dma.whole /\ (k > 0 /\ dma.left > 0 => Right)
<1>6. l \in 0..29 /\ l <= dma.left /\ w \in BOOLEAN
  BY <1>4, <1>5
<1>7. dma' = [dma EXCEPT !.left = l, !.fresh = FALSE, !.whole = w]
  BY <1>3
<1>8. ~dma.fresh /\ dma.left # 0 => l <= dma.left - 1
  BY <1>4, <1>5
<1> HIDE DEF l, w
<1>9. dma' \in Transfers /\ dma'.left = l /\ dma'.fresh = FALSE /\ dma'.whole = w /\ dma'.order = dma.order
  BY <1>4, <1>6, <1>7 DEF Transfers
<1>10. age' \in [Tasks -> (- Ticks(LongDelay))..MaxLate]
  <2>1. ASSUME NEW t \in Tasks
        PROVE  (IF call[t] = "none" /\ age[t] >= 0 THEN 0 ELSE age[t] + 1) \in (- Ticks(LongDelay))..MaxLate
    <3>1. age[t] \in (- Ticks(LongDelay))..MaxLate /\ Ticks(LongDelay) \in Nat /\ MaxLate \in Nat
      BY <1>2, ScreenTxAssumption DEF Types, Ticks
    <3>2. CASE call[t] = "none" /\ age[t] >= 0
      BY <3>1, <3>2
    <3>3. CASE ~(call[t] = "none" /\ age[t] >= 0)
      <4>1. age[t] < 0 \/ age[t] < MaxLate
        BY <1>1, <3>1, <3>3 DEF Blocked
      <4>2. age[t] + 1 \in (- Ticks(LongDelay))..MaxLate
        BY <3>1, <4>1
      <4> QED
        BY <3>3, <4>2
    <3> QED
      BY <3>2, <3>3
  <2> QED
    BY <1>1, <2>1
<1>11. Types'
  BY <1>1, <1>2, <1>9, <1>10 DEF Types
<1>12. Listens' /\ CleanIn' /\ AtSend'
  BY <1>1 DEF IInv, Listens, CleanIn, AtSend, Sending, Op
<1>13. Packing'
  <2>1. dma.left = 0 => dma'.left = 0
    BY <1>4, <1>6, <1>9
  <2> QED
    BY <1>1, <2>1 DEF IInv, Packing
<1>14. ASSUME NEW t \in Tasks, clean[t], call[t] \in Long, pos[t] \in {4, 5}
       PROVE  Arrives(t)'
  <2>1. Arrives(t) /\ dir = "TX"
    BY <1>14 DEF IInv, Sent, CleanIn
  <2>2. w
    BY <2>1 DEF Arrives, Right, w
  <2>3. dma'.left <= 4
    BY <1>4, <1>6, <1>9, <2>1 DEF Arrives
  <2>4. ASSUME pos[t] = 5, dma'.left # 0 PROVE ~dma'.fresh /\ dma'.left <= - age'[t]
    <3>1. age[t] \in Int /\ dma.left # 0
      BY <1>2, <1>4, <1>6, <1>9, <2>4 DEF Types
    <3>2. dma.left <= 4
      BY <2>1 DEF Arrives
    <3>3. \/ dma.fresh /\ age[t] <= -5
          \/ ~dma.fresh /\ dma.left <= - age[t]
      BY <2>1, <2>4, <3>1 DEF Arrives
    <3>4. age[t] < 0
      BY <1>4, <3>1, <3>3
    <3>5. age'[t] = age[t] + 1
      BY <1>1, <3>1, <3>4
    <3>6. dma'.left <= - (age[t] + 1)
      <4>1. CASE dma.fresh /\ age[t] <= -5
        BY <1>4, <1>6, <1>9, <3>1, <3>2, <4>1
      <4>2. CASE ~dma.fresh /\ dma.left <= - age[t]
        BY <1>4, <1>6, <1>8, <1>9, <3>1, <4>2
      <4> QED
        BY <3>3, <4>1, <4>2
    <3> QED
      BY <1>9, <3>5, <3>6
  <2>5. dma'.order = Ord(call'[t]) /\ dma'.whole
    BY <1>1, <1>9, <2>1, <2>2 DEF Arrives
  <2>6. Ord(call'[t]) = "test_buf" \/ sendbuff' = Image(Ord(call'[t]))
    BY <1>1, <2>1 DEF Arrives
  <2>7. pos'[t] = pos[t]
    BY <1>1
  <2> QED
    BY <2>3, <2>4, <2>5, <2>6, <2>7 DEF Arrives
<1>15. Sent'
  BY <1>1, <1>14 DEF Sent
<1> QED
  BY <1>11, <1>12, <1>13, <1>15 DEF IInv

LEMMA IInvNext ==
  ASSUME IInv, [Next]_vars
  PROVE  IInv'
<1>1. CASE \E c \in CanCalls : Begin("can", c)
  BY <1>1, BeginStep, ScreenTxAssumption DEF Calls, Tasks
<1>2. CASE \E c \in ScreenCalls : Begin("screen", c)
  BY <1>2, BeginStep, ScreenTxAssumption DEF Calls, Tasks
<1>3. CASE CanStep
  BY <1>3, CanSendStep, TxStep, RxStep, DelayStep DEF CanStep, Tasks
<1>4. CASE ScreenStep
  BY <1>4, PackStep, StopDmaStep, StartDmaStep, TxStep, RxStep, DelayStep DEF ScreenStep, Tasks
<1>5. CASE Tick
  BY <1>5, TickStep
<1>6. CASE UNCHANGED vars
  BY <1>6 DEF vars, IInv, Types, Listens, CleanIn, AtSend, Packing, Sent, Arrives, Sending, Op
<1> QED
  BY <1>1, <1>2, <1>3, <1>4, <1>5, <1>6 DEF Next

LEMMA Invariant == Spec => []IInv
BY IInvInit, IInvNext, PTL DEF Spec
-----------------------------------------------------------------------------
\* For all constants: the variables keep their types.
THEOREM ScreenTypeOK == Spec => []TypeOK
<1>1. IInv => TypeOK
  BY DEF IInv, Types, Transfers, TypeOK
<1> QED
  BY <1>1, Invariant, PTL

\* For all constants: the driver sends only while some task is between its
\* SCREEN_485_TX and its SCREEN_485_RX.
THEOREM ScreenIdleListens == Spec => []IdleListens
<1>1. IInv => IdleListens
  BY SectionIs DEF IInv, Listens, IdleListens
<1> QED
  BY <1>1, Invariant, PTL

\* For all constants: uart_send_dma does not wait, but an undisturbed section with
\* 50 ms or more gives the transfer the time it needs.
THEOREM ScreenAckOnWhole == Spec => AckOnWhole
<1> DEFINE A == \A t \in Tasks :
                  /\ call[t] \in {"on", "ack_on", "test"} /\ Op(t) = RX /\ pos'[t] # pos[t]
                  /\ clean[t]
                  => dma.left = 0 /\ dma.whole /\ dma.order = Script(call[t])[3].order
<1>1. IInv /\ [Next]_vars => [A]_vars
  <2> SUFFICES ASSUME IInv, Next, NEW t \in Tasks,
                      call[t] \in Long, Op(t) = RX, pos'[t] # pos[t], clean[t]
               PROVE  dma.left = 0 /\ dma.whole /\ dma.order = Script(call[t])[3].order
    BY DEF Long
  <2>1. Types /\ call[t] \in Sections /\ Op(t).op = "rx" /\ call[t] # "none"
    BY DEF IInv, Long, Sections, RX
  <2>2. pos[t] = 5
    BY <2>1, OpIs
  <2>3. Arrives(t)
    BY <2>2 DEF IInv, Sent
  <2>4. age[t] >= 0
    <3>1. ASSUME NEW u \in Tasks, Advance(u), t # u PROVE FALSE
      BY <2>1, <3>1, AdvanceIs
    <3>2. ASSUME NEW u \in Tasks, NEW c, Begin(u, c) PROVE FALSE
      BY <2>1, <3>2 DEF Begin, Types
    <3> QED
      BY <2>1, <3>1, <3>2 DEF Next, CanStep, ScreenStep, Tasks, CanSend, SCREEN_485_TX, SCREEN_485_RX,
         delay_ms, ScreenPack, ScreenStopDma, ScreenStartDma, Tick, Runs
  <2>5. Script(call[t])[3].order = Ord(call[t])
    <3>1. Script(call[t])[3] = Send(Ord(call[t]))
      BY <2>1, SectionScripts
    <3>2. Send(Ord(call[t])).order = Ord(call[t])
      BY DEF Send
    <3> QED
      BY <3>1, <3>2
  <2>6. age[t] \in Int /\ dma.left \in 0..29
    BY <2>1 DEF Types, Transfers
  <2>7. dma.left = 0
    <3>1. \/ dma.left = 0
          \/ age[t] <= -5
          \/ dma.left <= - age[t]
      BY <2>2, <2>3 DEF Arrives
    <3> QED
      BY <2>4, <2>6, <3>1
  <2> QED
    BY <2>3, <2>5, <2>7 DEF Arrives
<1> QED
  BY <1>1, Invariant, PTL DEF Spec, AckOnWhole
-----------------------------------------------------------------------------
(***************************************************************************)
(* A section ends.                                                         *)
(***************************************************************************)
\* The bounds as functions of the place in the script.
DueAt(c, p, a) ==
  (MaxLate - a) + (IF p <= 2 THEN 2 + MaxLate ELSE 0)
                + (IF p <= 4 THEN Ticks(Wait(c)) + MaxLate ELSE 0)

LEMMA SectionTicks ==
  ASSUME NEW c \in Sections
  PROVE  /\ Ticks(Script(c)[2].ms) = 2
         /\ Ticks(Script(c)[4].ms) = Ticks(Wait(c))
         /\ Ticks(Wait(c)) \in Nat
<1>1. Script(c)[2] = Delay(10) /\ Script(c)[4] = Delay(Wait(c))
  BY SectionScripts
<1>2. Delay(10).ms = 10 /\ Delay(Wait(c)).ms = Wait(c)
  BY DEF Delay
<1>3. Wait(c) \in Nat
  BY ScreenTxAssumption DEF Wait
<1>4. 10 \div 5 = 2 /\ Wait(c) \div 5 \in Nat
  BY <1>3
<1> QED
  BY <1>1, <1>2, <1>4 DEF Ticks

LEMMA DueIs ==
  ASSUME NEW t \in Tasks, call[t] \in Sections
  PROVE  Due(t) = DueAt(call[t], pos[t], age[t])
BY SectionTicks DEF Due, DueAt

LEMMA DueIsNext ==
  ASSUME NEW t \in Tasks, call'[t] \in Sections
  PROVE  Due(t)' = DueAt(call'[t], pos'[t], age'[t])
BY SectionTicks DEF Due, DueAt

\* A task in its section: the numbers that the bounds are made of.
LEMMA SendingIs ==
  ASSUME IInv, NEW t \in Tasks, Sending(t)
  PROVE  /\ call[t] \in Sections /\ call[t] # "none" /\ pos[t] \in 2..5
         /\ age[t] \in Int /\ age[t] <= MaxLate /\ MaxLate \in Nat
         /\ at \in 0..5
         /\ Ticks(Wait(call[t])) \in Nat
         /\ Due(t) \in Nat /\ Left(t) \in Nat \ {0}
<1>1. call[t] \in Sections /\ pos[t] \in 2..5
  BY DEF Sending
<1>2. age[t] \in (- Ticks(LongDelay))..MaxLate /\ at \in 0..5
  BY DEF IInv, Types
<1>3. MaxLate \in Nat /\ Ticks(LongDelay) \in Int
  BY ScreenTxAssumption DEF Ticks
<1>4. age[t] \in Int /\ age[t] <= MaxLate
  BY <1>2, <1>3
<1>5. Ticks(Wait(call[t])) \in Nat
  BY <1>1, SectionTicks
<1>6. Due(t) \in Nat
  BY <1>1, <1>3, <1>4, <1>5, DueIs DEF DueAt
<1>7. Left(t) \in Nat \ {0}
  BY <1>1, <1>2 DEF Left
<1>8. call[t] # "none"
  BY <1>1 DEF Sections
<1> QED
  BY <1>1, <1>2, <1>3, <1>4, <1>5, <1>6, <1>7, <1>8

\* A tick uses up one of the ticks that are left.
LEMMA TickUses ==
  ASSUME IInv, NEW t \in Tasks, Sending(t), Tick
  PROVE  Due(t)' < Due(t) /\ Due(t)' <= Due(t) /\ Left(t)' = Left(t)
<1>1. UNCHANGED <<call, pos, at>> /\ age'[t] = age[t] + 1
  BY SendingIs DEF Tick
<1>2. Left(t)' = Left(t)
  BY <1>1 DEF Left
<1>3. Due(t)' = DueAt(call[t], pos[t], age[t] + 1) /\ Due(t) = DueAt(call[t], pos[t], age[t])
  BY <1>1, SendingIs, DueIs, DueIsNext
<1> QED
  BY <1>2, <1>3, SendingIs DEF DueAt

\* A step that goes on to the next operation without a delay.
LEMMA AdvanceUses ==
  ASSUME IInv, NEW t \in Tasks, Sending(t), Advance(t), age' = age, t = "screen" => at' = 0
  PROVE  Due(t)' <= Due(t) /\ Left(t)' < Left(t) /\ Left(t)' <= Left(t)
<1>1. call'[t] = call[t] /\ pos'[t] = pos[t] + 1
  BY SendingIs, AdvanceIs DEF IInv
<1>2. Left(t)' < Left(t) /\ Left(t)' <= Left(t)
  BY <1>1, SendingIs DEF Left
<1>3. Due(t)' = DueAt(call[t], pos[t] + 1, age[t]) /\ Due(t) = DueAt(call[t], pos[t], age[t])
  BY <1>1, SendingIs, DueIs, DueIsNext
<1> QED
  BY <1>2, <1>3, SendingIs DEF DueAt

\* A delay uses up no more than the ticks that were set aside for it.
LEMMA DelayUses ==
  ASSUME IInv, NEW t \in Tasks, Sending(t), delay_ms(t)
  PROVE  Due(t)' <= Due(t) /\ Left(t)' < Left(t) /\ Left(t)' <= Left(t)
<1>1. /\ Op(t).op = "dly" /\ age[t] >= 0 /\ Advance(t) /\ at' = at
      /\ age' = [age EXCEPT ![t] = - OS_TickListInsert(t, Ticks(Op(t).ms))]
  BY DEF delay_ms, Runs
<1>2. call'[t] = call[t] /\ pos'[t] = pos[t] + 1
  BY <1>1, SendingIs, AdvanceIs DEF IInv
<1>3. t = "screen" => at = 0
  BY <1>1 DEF IInv, AtSend
<1>4. Left(t)' < Left(t) /\ Left(t)' <= Left(t)
  BY <1>1, <1>2, <1>3, SendingIs DEF Left
<1>5. pos[t] \in {2, 4}
  <2>1. pos[t] # 5
    BY <1>1, SendingIs, OpIs DEF IInv
  <2>2. pos[t] # 3
    <3>1. Send(Ord(call[t])).op # "dly"
      BY DEF Send
    <3> QED
      BY <1>1, <3>1, SendingIs, OpIs DEF IInv
  <2> QED
    BY <2>1, <2>2, SendingIs
<1>6. /\ pos[t] = 2 => Ticks(Op(t).ms) = 2
      /\ pos[t] = 4 => Ticks(Op(t).ms) = Ticks(Wait(call[t]))
  BY SendingIs, SectionTicks DEF Op
<1>7. Ticks(Op(t).ms) \in Nat
  BY <1>5, <1>6, SendingIs
<1>8. age'[t] \in Int /\ - age'[t] <= Ticks(Op(t).ms)
  <2>1. age'[t] = - OS_TickListInsert(t, Ticks(Op(t).ms))
    BY <1>1 DEF IInv, Types
  <2>2. OS_TickListInsert(t, Ticks(Op(t).ms)) \in 0..Ticks(Op(t).ms)
    BY <1>1, <1>7, SendingIs DEF OS_TickListInsert
  <2> QED
    BY <1>7, <2>1, <2>2
<1>9. Due(t)' = DueAt(call[t], pos[t] + 1, age'[t]) /\ Due(t) = DueAt(call[t], pos[t], age[t])
  BY <1>2, SendingIs, DueIs, DueIsNext
<1>10. Due(t)' <= Due(t)
  <2>1. CASE pos[t] = 2
    BY <1>1, <1>6, <1>8, <1>9, <2>1, SendingIs DEF DueAt
  <2>2. CASE pos[t] = 4
    BY <1>1, <1>6, <1>8, <1>9, <2>2, SendingIs DEF DueAt
  <2> QED
    BY <1>5, <2>1, <2>2
<1> QED
  BY <1>4, <1>10

\* A step inside screen_ack, screen_datasend or uart_send_dma.
LEMMA PackUses ==
  ASSUME IInv, Sending("screen"), UNCHANGED <<call, pos, age>>, at' \in 0..5, at' > at
  PROVE  /\ Due("screen")' <= Due("screen")
         /\ Left("screen")' < Left("screen") /\ Left("screen")' <= Left("screen")
<1>1. "screen" \in Tasks
  BY DEF Tasks
<1>2. Left("screen")' < Left("screen") /\ Left("screen")' <= Left("screen")
  BY <1>1, SendingIs DEF Left
<1>3. Due("screen")' = Due("screen")
  BY DEF Due
<1> QED
  BY <1>1, <1>2, <1>3, SendingIs

\* The steps of the task itself.
Own(t) == (t = "can" /\ CanStep) \/ (t = "screen" /\ ScreenStep)

LEMMA OwnUses ==
  ASSUME IInv, NEW t \in Tasks, Sending(t), Own(t)
  PROVE  Due(t)' <= Due(t) /\ Left(t)' < Left(t) /\ Left(t)' <= Left(t)
<1>1. ASSUME SCREEN_485_TX(t) \/ SCREEN_485_RX(t) PROVE Due(t)' <= Due(t) /\ Left(t)' < Left(t) /\ Left(t)' <= Left(t)
  <2>1. Advance(t) /\ age' = age /\ at' = at /\ Op(t).op # "send"
    BY <1>1 DEF SCREEN_485_TX, SCREEN_485_RX
  <2>2. t = "screen" => at = 0
    BY <2>1 DEF IInv, AtSend
  <2> QED
    BY <2>1, <2>2, AdvanceUses
<1>2. CASE t = "can"
  <2>1. CASE CanSend
    BY <1>2, <2>1, AdvanceUses DEF CanSend
  <2> QED
    BY <1>1, <1>2, <2>1, DelayUses DEF Own, CanStep
<1>3. CASE t = "screen"
  <2>1. CASE ScreenPack
    <3>1. at \in 0..3 /\ at' = at + 1 /\ UNCHANGED <<call, pos, age>>
      BY <2>1 DEF ScreenPack, Pack
    <3> QED
      BY <1>3, <3>1, PackUses
  <2>2. CASE ScreenStopDma
    <3>1. at \in {0, 4} /\ at' = 5 /\ UNCHANGED <<call, pos, age>>
      BY <2>2 DEF ScreenStopDma
    <3> QED
      BY <1>3, <3>1, PackUses
  <2>3. CASE ScreenStartDma
    BY <1>3, <2>3, AdvanceUses DEF ScreenStartDma
  <2> QED
    BY <1>1, <1>3, <2>1, <2>2, <2>3, DelayUses DEF Own, ScreenStep
<1> QED
  BY <1>2, <1>3 DEF Tasks

\* The other task does not touch the bounds.
LEMMA OtherKeeps ==
  ASSUME IInv, NEW t \in Tasks, Sending(t), Next, ~Own(t), ~Tick
  PROVE  Due(t)' = Due(t) /\ Left(t)' = Left(t)
<1> DEFINE Same == /\ call'[t] = call[t] /\ pos'[t] = pos[t] /\ age'[t] = age[t]
                   /\ t = "screen" => at' = at
<1> SUFFICES Same
  BY DEF Due, Left
<1>1. ASSUME NEW u \in Tasks, NEW c, Begin(u, c) PROVE Same
  <2>1. u # t
    BY <1>1, SendingIs DEF Begin
  <2> QED
    BY <1>1, <2>1 DEF Begin, IInv, Types
<1>2. ASSUME NEW u \in Tasks, u # t, Advance(u) PROVE call'[t] = call[t] /\ pos'[t] = pos[t]
  BY <1>2, AdvanceIs DEF IInv
<1>3. ASSUME NEW u \in Tasks, u # t, SCREEN_485_TX(u) \/ SCREEN_485_RX(u) PROVE Same
  BY <1>2, <1>3 DEF SCREEN_485_TX, SCREEN_485_RX
<1>4. ASSUME NEW u \in Tasks, u # t, delay_ms(u) PROVE Same
  BY <1>2, <1>4 DEF delay_ms, IInv, Types
<1>5. CASE CanStep
  <2>1. t = "screen" /\ "can" \in Tasks
    BY <1>5 DEF Own, Tasks
  <2>2. CASE CanSend
    BY <1>2, <2>1, <2>2 DEF CanSend
  <2> QED
    BY <1>3, <1>4, <1>5, <2>1, <2>2 DEF CanStep
<1>6. CASE ScreenStep
  <2>1. t = "can" /\ "screen" \in Tasks
    BY <1>6 DEF Own, Tasks
  <2>2. CASE ScreenStartDma
    BY <1>2, <2>1, <2>2 DEF ScreenStartDma
  <2>3. CASE ScreenPack \/ ScreenStopDma
    BY <2>1, <2>3 DEF ScreenPack, ScreenStopDma
  <2> QED
    BY <1>3, <1>4, <1>6, <2>1, <2>2, <2>3 DEF ScreenStep
<1> QED
  BY <1>1, <1>5, <1>6 DEF Next, Tasks

\* For all constants: the driver sends for a bounded number of ticks and of steps
\* in each section, whatever the other task does.
THEOREM ScreenSectionEnds == Spec => SectionEnds
<1> DEFINE A == \A t \in Tasks : InSection(t) =>
                  /\ Due(t) >= 0 /\ Left(t) > 0
                  /\ Due(t)' <= Due(t) /\ Left(t)' <= Left(t)
                  /\ Tick => Due(t)' < Due(t)
                  /\ (t = "can" /\ CanStep) \/ (t = "screen" /\ ScreenStep)
                       => Left(t)' < Left(t)
<1>1. IInv /\ [Next]_vars => [A]_vars
  <2> SUFFICES ASSUME IInv, Next, NEW t \in Tasks, InSection(t)
               PROVE  /\ Due(t) >= 0 /\ Left(t) > 0
                      /\ Due(t)' <= Due(t) /\ Left(t)' <= Left(t)
                      /\ Tick => Due(t)' < Due(t)
                      /\ Own(t) => Left(t)' < Left(t)
    BY DEF Own
  <2>1. Sending(t)
    BY SectionIs DEF IInv
  <2>2. Due(t) \in Nat /\ Left(t) \in Nat \ {0}
    BY <2>1, SendingIs
  <2>3. Tick => Due(t)' < Due(t) /\ Due(t)' <= Due(t) /\ Left(t)' = Left(t)
    BY <2>1, TickUses
  <2>4. Own(t) => Due(t)' <= Due(t) /\ Left(t)' < Left(t) /\ Left(t)' <= Left(t)
    BY <2>1, OwnUses
  <2>5. ~Tick /\ ~Own(t) => Due(t)' = Due(t) /\ Left(t)' = Left(t)
    BY <2>1, OtherKeeps
  <2> QED
    BY <2>2, <2>3, <2>4, <2>5
<1> QED
  BY <1>1, Invariant, PTL DEF Spec, SectionEnds
=============================================================================
