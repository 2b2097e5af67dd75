---------------------------- MODULE SwUartProofs ----------------------------
(***************************************************************************)
(* SwUart for every baud rate, message and latencies within the bounds of  *)
(* LatencyAssumption.  The argument: during a frame the receiver's clock   *)
(* lags the sender's by a fixed amount (ReceiverInv), so a sample that is  *)
(* due at (i + 1) * N on the receiver's clock falls between the edges      *)
(* i + 1 and i + 2 on the sender's.                                        *)
(***************************************************************************)
EXTENDS SwUart, TLAPS

-----------------------------------------------------------------------------
(* Why: the invariant that Intact rests on.                                *)

\* Where the sender is in its frame.
SenderInv ==
    /\ spc = "put8" =>
          /\ sent >= 1
          /\ sclk <= edge * N + WMax
          /\ edge >= 1 => sclk >= (edge - 1) * N + WMin
          /\ level = IF edge = 0 THEN 1 ELSE Level(Msg[sent], edge - 1)
    /\ spc = "idle" => level = 1

\* The receiver's clock lags the sender's by the time it took to see the start
\* bit: between lo and hi.
Lag(lo, hi) == spc = "put8" /\ rclk + lo <= sclk /\ sclk <= rclk + hi

\* Where the receiver is in the sender's frame.
ReceiverInv ==
    /\ rpc = "poll" =>
          \/ level = 1 /\ spc = "idle" /\ nrcv = sent
          \/ level = 1 /\ spc = "put8" /\ edge = 0 /\ nrcv = sent - 1
          \/ level = 1 /\ spc = "put8" /\ edge = 10 /\ nrcv = sent
          \/ level = 0 /\ edge = 1 /\ nrcv = sent - 1
             /\ rclk <= PMax /\ Lag(WMin, WMax)
    /\ rpc = "seen" => nrcv = sent - 1 /\ rclk <= CMax /\ Lag(WMin, WMax + PMax)
    /\ rpc = "sample" =>
          /\ nrcv = sent - 1 /\ Lag(WMin + CMin, WMax + PMax + CMax)
          /\ rclk <= Due(ri) + SMax
          /\ \A i \in BitNo : i < ri => val[i] = Msg[sent][i]
    /\ rpc = "out" =>
          /\ nrcv = sent
          /\ nrcv < M => /\ rclk <= TMax
                         /\ Lag(9 * N + WMin + CMin,
                                9 * N + WMax + PMax + CMax + SMax)

IInv == TypeOK /\ SenderInv /\ ReceiverInv /\ Intact

-----------------------------------------------------------------------------
(* Arithmetic of edges: products with N, which the solver cannot guess.    *)

LEMMA MulStep == ASSUME NEW a \in Int PROVE /\ (a + 1) * N = a * N + N
                                             /\ (a - 1) * N = a * N - N
                                             /\ a * N \in Int
BY LineAssumption

LEMMA MulLess ==
  ASSUME NEW a \in Int, NEW b \in Int, a * N < b * N PROVE a < b
<1> SUFFICES ASSUME a >= b PROVE a * N >= b * N
  BY LineAssumption
<1>1. PICK d \in Nat : a = b + d
  <2>1. a - b \in Nat /\ a = b + (a - b) OBVIOUS
  <2>2. QED BY <2>1
<1>2. a * N = b * N + d * N BY <1>1, LineAssumption
<1>3. d * N >= 0 BY LineAssumption
<1>4. QED BY <1>2, <1>3, LineAssumption

LEMMA LatencyFacts ==
  /\ N \in Nat \ {0} /\ M \in Nat /\ WMin \in Nat /\ WMax \in Nat /\ PMax \in Nat
  /\ CMin \in Nat /\ CMax \in Nat /\ SMin \in Nat /\ SMax \in Nat
  /\ TMin \in Nat /\ TMax \in Nat
  /\ WMin <= WMax /\ CMin <= CMax /\ SMin <= SMax /\ TMin <= TMax
  /\ WMax < WMin + CMin + SMin
  /\ WMax < WMin + CMin + TMin
  /\ WMax + PMax + CMax + SMax + TMax < N
BY LineAssumption, LatencyAssumption

LEMMA LevelType ==
  ASSUME NEW b \in Bits, NEW e \in 0..9 PROVE Level(b, e) \in {0, 1}
BY DEF Level, Bits, BitNo

-----------------------------------------------------------------------------

LEMMA InitInv == Init => IInv
BY LineAssumption
DEF Init, IInv, TypeOK, SenderInv, ReceiverInv, Intact, NoBits, Bits, BitNo

\* The key step: the line shows bit ri when bit ri is sampled.
LEMMA SampleOnItsBit ==
  ASSUME IInv, Sample
  PROVE  spc = "put8" /\ edge = ri + 2 /\ level = Msg[sent][ri]
<1> USE DEF IInv, TypeOK
<1>1. /\ spc = "put8" /\ rclk + WMin + CMin <= sclk
      /\ sclk <= rclk + WMax + PMax + CMax
      /\ Due(ri) + SMin <= rclk /\ rclk <= Due(ri) + SMax
  BY LatencyFacts DEF Sample, ReceiverInv, Lag
<1>2. ri \in 0..7 /\ edge \in 0..10 BY DEF Sample
<1>3. Due(ri) = (ri + 1) * N /\ (ri + 1) * N \in Int /\ (ri + 2) * N = (ri + 1) * N + N
  <2>1. (ri + 1) + 1 = ri + 2 /\ ri + 1 \in Int BY <1>2
  <2>2. QED BY <2>1, MulStep DEF Due
<1>4. sclk <= edge * N + WMax /\ (edge >= 1 => sclk >= (edge - 1) * N + WMin)
  BY <1>1 DEF SenderInv
<1>5. edge * N \in Int /\ (edge - 1) * N \in Int BY <1>2, LatencyFacts
<1>6. (ri + 1) * N < edge * N
  BY <1>1, <1>3, <1>4, <1>5, LatencyFacts
<1>7. ri + 1 < edge BY <1>2, <1>6, MulLess
<1>8. (edge - 1) * N < (ri + 2) * N
  BY <1>1, <1>2, <1>3, <1>4, <1>5, <1>7, LatencyFacts
<1>9. edge - 1 < ri + 2 BY <1>2, <1>8, MulLess
<1>10. edge = ri + 2 BY <1>2, <1>7, <1>9
<1>11. level = Level(Msg[sent], ri + 1) BY <1>1, <1>2, <1>10 DEF SenderInv
<1>12. Level(Msg[sent], ri + 1) = Msg[sent][ri]
  <2>1. ri + 1 # 0 /\ ri + 1 # 9 /\ (ri + 1) - 1 = ri BY <1>2
  <2>2. QED BY <2>1 DEF Level
<1>13. QED BY <1>1, <1>10, <1>11, <1>12

-----------------------------------------------------------------------------
(* The steps of the sender.                                                *)

LEMMA Put8Inv == IInv /\ Put8 => IInv'
<1> SUFFICES ASSUME IInv, Put8 PROVE IInv' OBVIOUS
<1> USE DEF IInv, TypeOK, Put8, receiver
<1>1. 0 * N = 0 BY LatencyFacts
<1>2. rpc \in {"poll", "out"} /\ nrcv = sent /\ level = 1
      /\ (rpc = "out" => nrcv = M)
  BY LatencyFacts DEF ReceiverInv, SenderInv, Lag
<1>3. rpc = "poll" BY <1>2
<1>4. TypeOK' BY LatencyFacts
<1>5. SenderInv' BY <1>1, <1>2, LatencyFacts DEF SenderInv
<1>6. ReceiverInv' BY <1>2, <1>3 DEF ReceiverInv
<1>7. Intact' BY <1>2 DEF Intact
<1>8. QED BY <1>4, <1>5, <1>6, <1>7

LEMMA WriteEdgeInv == IInv /\ WriteEdge => IInv'
<1> SUFFICES ASSUME IInv, WriteEdge PROVE IInv' OBVIOUS
<1> USE DEF IInv, TypeOK
<1>1. spc = "put8" /\ edge \in 0..9 /\ edge' = edge + 1 /\ sent >= 1
  BY DEF WriteEdge, SenderInv
<1>2. Msg[sent] \in Bits BY <1>1, LineAssumption
<1>3. level' \in {0, 1} BY <1>1, <1>2, LevelType DEF WriteEdge
<1>4. TypeOK' BY <1>1, <1>3 DEF WriteEdge
<1>5. SenderInv'
  <2>1. (edge + 1) * N = edge * N + N /\ edge * N \in Int
    <3>1. edge \in Int BY <1>1
    <3>2. QED BY <3>1, MulStep
  <2>2. (edge + 1) - 1 = edge BY <1>1
  <2>3. sclk <= (edge + 1) * N + WMax
    BY <1>1, <2>1, LatencyFacts DEF SenderInv
  <2>4. sclk >= edge * N + WMin BY DEF WriteEdge
  <2>5. QED BY <1>1, <2>2, <2>3, <2>4 DEF WriteEdge, SenderInv
<1>6. ReceiverInv'
  <2>1. CASE rpc = "poll"
    <3>1. CASE edge = 0
      <4>1. level' = 0 /\ level = 1 /\ nrcv = sent - 1
        BY <1>1, <2>1, <3>1 DEF WriteEdge, Level, ReceiverInv
      <4>2. rclk' = 0 BY <2>1, <4>1 DEF WriteEdge
      <4>3. WMin <= sclk /\ sclk <= WMax
        <5>1. 0 * N = 0 BY LatencyFacts
        <5>2. QED BY <1>1, <3>1, <5>1, LatencyFacts DEF WriteEdge, SenderInv
      <4>4. QED
        <5>1. UNCHANGED <<spc, sent, sclk, rpc, nrcv>> BY DEF WriteEdge
        <5>2. edge' = 1 BY <1>1, <3>1
        <5>3. 0 + WMin <= sclk /\ sclk <= 0 + WMax /\ 0 <= PMax
          BY <4>3, LatencyFacts
        <5>4. QED
          BY <1>1, <2>1, <4>1, <4>2, <5>1, <5>2, <5>3 DEF ReceiverInv, Lag
    <3>2. CASE edge = 1
      \* Impossible: the low line is seen before the next edge is due.
      <4>1. sclk <= PMax + WMax BY <1>1, <2>1, <3>2, LatencyFacts DEF ReceiverInv, Lag
      <4>2. sclk >= N + WMin
        <5>1. 1 * N = N BY LatencyFacts
        <5>2. QED BY <3>2, <5>1 DEF WriteEdge
      <4>3. QED BY <4>1, <4>2, LatencyFacts
    <3>3. QED BY <1>1, <2>1, <3>1, <3>2 DEF ReceiverInv
  <2>2. CASE rpc # "poll"
    <3>1. UNCHANGED <<rpc, ri, rclk, val, nrcv, inbox, spc, sent, sclk>>
      BY <2>2 DEF WriteEdge
    <3>2. QED BY <2>2, <3>1 DEF ReceiverInv, Lag, Due
  <2>3. QED BY <2>1, <2>2
<1>7. Intact' BY DEF WriteEdge, Intact
<1>8. QED BY <1>4, <1>5, <1>6, <1>7

LEMMA Put8ReturnInv == IInv /\ Put8Return => IInv'
<1> SUFFICES ASSUME IInv, Put8Return PROVE IInv' OBVIOUS
<1> USE DEF IInv, TypeOK, receiver
<1>1. spc = "put8" /\ edge = 10 /\ sclk >= 10 * N BY DEF Put8Return
<1>2. level = 1
  <2>1. 10 - 1 = 9 OBVIOUS
  <2>2. QED BY <1>1, <2>1 DEF SenderInv, Level
<1>3. nrcv = sent /\ rpc \in {"poll", "out"} /\ (rpc = "out" => nrcv = M)
  <2>1. CASE rpc = "poll" BY <1>1, <1>2, <2>1 DEF ReceiverInv
  <2>2. CASE rpc = "seen"
    <3>1. sclk < 10 * N BY <2>2, LatencyFacts DEF ReceiverInv, Lag
    <3>2. QED BY <1>1, <3>1, LatencyFacts
  <2>3. CASE rpc = "sample"
    <3>1. Due(ri) <= 9 * N
      <4>1. \A d \in 0..8 : (d + 1) * N <= 9 * N
        BY LatencyFacts
      <4>2. QED BY <4>1 DEF Due
    <3>2. Due(ri) \in Int BY MulStep DEF Due
    <3>3. sclk < 10 * N BY <2>3, <3>1, <3>2, LatencyFacts DEF ReceiverInv, Lag
    <3>4. QED BY <1>1, <3>3, LatencyFacts
  <2>4. CASE rpc = "out"
    <3>1. CASE nrcv < M
      <4>1. sclk < 10 * N BY <2>4, <3>1, LatencyFacts DEF ReceiverInv, Lag
      <4>2. QED BY <1>1, <4>1, LatencyFacts
    <3>2. QED BY <2>4, <3>1, LatencyFacts DEF ReceiverInv
  <2>5. QED BY <2>1, <2>2, <2>3, <2>4
<1>4. TypeOK' BY DEF Put8Return
<1>5. SenderInv' BY <1>2 DEF Put8Return, SenderInv
<1>6. ReceiverInv' BY <1>1, <1>2, <1>3 DEF Put8Return, ReceiverInv
<1>7. Intact' BY DEF Put8Return, Intact
<1>8. QED BY <1>4, <1>5, <1>6, <1>7

-----------------------------------------------------------------------------
(* The steps of the receiver.                                              *)

LEMMA SeeStartInv == IInv /\ SeeStart => IInv'
<1> SUFFICES ASSUME IInv, SeeStart PROVE IInv' OBVIOUS
<1> USE DEF IInv, TypeOK, SeeStart, sender
<1>1. nrcv = sent - 1 /\ rclk <= PMax /\ Lag(WMin, WMax) BY DEF ReceiverInv
<1>2. TypeOK' OBVIOUS
<1>3. SenderInv' BY DEF SenderInv
<1>4. ReceiverInv' BY <1>1, LatencyFacts DEF ReceiverInv, Lag
<1>5. Intact' BY DEF Intact
<1>6. QED BY <1>2, <1>3, <1>4, <1>5

LEMMA ReadClockInv == IInv /\ ReadClock => IInv'
<1> SUFFICES ASSUME IInv, ReadClock PROVE IInv' OBVIOUS
<1> USE DEF IInv, TypeOK, ReadClock, sender
<1>1. nrcv = sent - 1 /\ rclk <= CMax /\ CMin <= rclk /\ Lag(WMin, WMax + PMax)
  BY DEF ReceiverInv
<1>2. TypeOK' BY DEF NoBits, Bits, BitNo
<1>3. SenderInv' BY DEF SenderInv
<1>4. ReceiverInv'
  <2>1. 0 <= Due(0) + SMax BY LatencyFacts DEF Due
  <2>2. QED BY <1>1, <2>1, LatencyFacts DEF ReceiverInv, Lag, BitNo
<1>5. Intact' BY DEF Intact
<1>6. QED BY <1>2, <1>3, <1>4, <1>5

LEMMA SampleInv == IInv /\ Sample => IInv'
<1> SUFFICES ASSUME IInv, Sample PROVE IInv' OBVIOUS
<1>1. level = Msg[sent][ri] BY SampleOnItsBit
<1> USE DEF IInv, TypeOK, sender
<1>2. ri \in 0..7 /\ ri' = ri + 1 /\ val' = [val EXCEPT ![ri] = level] BY DEF Sample
<1>3. val' \in Bits BY <1>2 DEF Bits
<1>4. TypeOK' BY <1>2, <1>3 DEF Sample
<1>5. SenderInv' BY DEF Sample, SenderInv
<1>6. ReceiverInv'
  <2>1. \A i \in BitNo : i < ri + 1 => val'[i] = Msg[sent][i]
    BY <1>1, <1>2, SMTT(30) DEF Sample, ReceiverInv, BitNo, Bits
  <2>2. Due(ri) + SMax <= Due(ri + 1) + SMax
    <3>1. ((ri + 1) + 1) * N = (ri + 1) * N + N /\ (ri + 1) * N \in Int
      <4>1. ri + 1 \in Int BY <1>2
      <4>2. QED BY <4>1, MulStep
    <3>2. QED BY <3>1, LatencyFacts DEF Due
  <2>3. Due(ri) \in Int /\ Due(ri + 1) \in Int BY <1>2, LatencyFacts DEF Due
  <2>4. rclk <= Due(ri + 1) + SMax
    BY <2>2, <2>3, LatencyFacts DEF Sample, ReceiverInv
  <2>5. QED BY <1>2, <2>1, <2>4 DEF Sample, ReceiverInv, Lag
<1>7. Intact' BY DEF Sample, Intact
<1>8. QED BY <1>4, <1>5, <1>6, <1>7

LEMMA Get8ReturnInv == IInv /\ Get8Return => IInv'
<1> SUFFICES ASSUME IInv, Get8Return PROVE IInv' OBVIOUS
<1> USE DEF IInv, TypeOK, sender
<1>1. /\ nrcv = sent - 1 /\ Lag(WMin + CMin, WMax + PMax + CMax)
      /\ 9 * N <= rclk /\ rclk <= 9 * N + SMax
      /\ \A i \in BitNo : val[i] = Msg[sent][i]
  <2>1. 8 + 1 = 9 OBVIOUS
  <2>2. QED BY <2>1 DEF Get8Return, ReceiverInv, Due, BitNo
<1>2. sent \in 1..M /\ nrcv' = sent
  <2>1. nrcv + 1 = sent BY <1>1
  <2>2. QED BY <2>1, LatencyFacts DEF Get8Return
<1>3. val = Msg[sent] BY <1>1, <1>2, LineAssumption DEF Bits
<1>4. TypeOK' BY <1>1, <1>2 DEF Get8Return
<1>5. SenderInv' BY DEF Get8Return, SenderInv
<1>6. ReceiverInv' BY <1>1, <1>2, LatencyFacts DEF Get8Return, ReceiverInv, Lag
<1>7. Intact' BY <1>1, <1>2, <1>3 DEF Get8Return, Intact
<1>8. QED BY <1>4, <1>5, <1>6, <1>7

LEMMA Get8Inv == IInv /\ Get8 => IInv'
<1> SUFFICES ASSUME IInv, Get8 PROVE IInv' OBVIOUS
<1> USE DEF IInv, TypeOK, Get8, sender
<1>1. /\ spc = "put8" /\ nrcv = sent /\ TMin <= rclk
      /\ rclk + (9 * N + WMin + CMin) <= sclk
  BY DEF ReceiverInv, Lag
<1>2. 9 * N + WMax < sclk BY <1>1, LatencyFacts
<1>3. edge = 10
  <2>1. 9 * N < edge * N BY <1>1, <1>2, MulStep, LatencyFacts DEF SenderInv
  <2>2. 9 < edge BY <2>1, MulLess
  <2>3. QED BY <2>2
<1>4. level = 1
  <2>1. 10 - 1 = 9 OBVIOUS
  <2>2. QED BY <1>1, <1>3, <2>1 DEF SenderInv, Level
<1>5. TypeOK' OBVIOUS
<1>6. SenderInv' BY DEF SenderInv
<1>7. ReceiverInv' BY <1>1, <1>3, <1>4 DEF ReceiverInv
<1>8. Intact' BY DEF Intact
<1>9. QED BY <1>5, <1>6, <1>7, <1>8

-----------------------------------------------------------------------------
(* Time passes.                                                            *)

LEMMA TickInv == IInv /\ Tick => IInv'
<1> SUFFICES ASSUME IInv, Tick PROVE IInv' OBVIOUS
<1> USE DEF IInv, TypeOK
<1>1. TypeOK' BY DEF Tick
<1>2. SenderInv'
  <2>1. edge * N \in Int /\ (edge - 1) * N \in Int BY LatencyFacts
  <2>2. QED BY <2>1, LatencyFacts DEF Tick, SenderInv, SenderWaits
<1>3. ReceiverInv'
  <2>1. UNCHANGED <<level, spc, sent, edge, rpc, ri, val, nrcv, inbox>> BY DEF Tick
  <2>2. CASE rpc = "poll"
    <3>1. (Receiving <=> level = 0) /\ Patience = PMax
      BY <2>2 DEF Receiving, Patience
    <3>2. QED BY <2>1, <2>2, <3>1, LatencyFacts DEF Tick, ReceiverInv, Lag
  <2>3. CASE rpc = "seen"
    <3>1. Receiving /\ Patience = CMax
      BY <2>3 DEF Receiving, Patience
    <3>2. QED BY <2>1, <2>3, <3>1, LatencyFacts DEF Tick, ReceiverInv, Lag
  <2>4. CASE rpc = "sample"
    <3>1. Due(ri) \in Int BY MulStep DEF Due
    <3>2. rclk < Due(ri) + SMax /\ rclk' = rclk + 1 /\ sclk' = sclk + 1
      BY <2>4 DEF Tick, Receiving, Patience, ReceiverInv, Lag
    <3>3. QED BY <2>1, <2>4, <3>1, <3>2, LatencyFacts DEF ReceiverInv, Lag, Due
  <2>5. CASE rpc = "out"
    <3>1. (Receiving <=> nrcv < M) /\ Patience = TMax
      BY <2>5 DEF Receiving, Patience
    <3>2. QED BY <2>1, <2>5, <3>1, LatencyFacts DEF Tick, ReceiverInv, Lag
  <2>6. QED BY <2>2, <2>3, <2>4, <2>5
<1>4. Intact' BY DEF Tick, Intact
<1>5. QED BY <1>1, <1>2, <1>3, <1>4

-----------------------------------------------------------------------------

LEMMA StepInv == IInv /\ [Next]_vars => IInv'
<1> SUFFICES ASSUME IInv, [Next]_vars PROVE IInv' OBVIOUS
<1>1. CASE UNCHANGED vars
  BY <1>1
  DEF vars, IInv, TypeOK, SenderInv, ReceiverInv, Lag, Due, Intact
<1>2. QED
  BY <1>1, Put8Inv, WriteEdgeInv, Put8ReturnInv, SeeStartInv, ReadClockInv,
     SampleInv, Get8ReturnInv, Get8Inv, TickInv
  DEF Next, Polling, Terminated

\* Sender and receiver keep in step: wherever put8 is in a frame, get8 is within
\* the lag the latencies allow, and what it has returned is intact (sw-uart.c:30-80).
THEOREM InvariantCorrect == Spec => []IInv
<1>1. QED BY InitInv, StepInv, PTL DEF Spec

\* get8 returns the bytes put8 was given, whatever the baud rate and the
\* latencies within LatencyAssumption.
THEOREM IntactCorrect == Spec => []Intact
<1>1. IInv => Intact BY DEF IInv
<1>2. QED BY <1>1, InvariantCorrect, PTL

\* Every sample falls on its own bit.
THEOREM OnItsBitCorrect == Spec => OnItsBit
<1>1. IInv /\ [Next]_vars => [Sample => spc = "put8" /\ edge = ri + 2]_vars
  BY SampleOnItsBit
<1>2. QED BY <1>1, InvariantCorrect, PTL DEF Spec, OnItsBit
=============================================================================
