----------------------------- MODULE FmpiProofs -----------------------------
(***************************************************************************)
(* The data of the collectives arrives, for every number of Pis, program,  *)
(* data and timing: the types first, then IInv of Fmpi, which is           *)
(* inductive as long as no recv gives up, and what follows from it:        *)
(* nothing but a request of the root gets lost, answers fall into the      *)
(* root's window, and the collectives implement Collective.  Patience, at  *)
(* the end, shows that no recv gives up.                                   *)
(***************************************************************************)
EXTENDS Fmpi, TLAPS

-----------------------------------------------------------------------------
(* Lemmas on the loops of the root.                                        *)

\* The least element of a set of workers exists (Min is a CHOOSE).
LEMMA LeastWorker ==
  ASSUME NEW S \in SUBSET Worker, S # {}
  PROVE  Min(S) \in S /\ \A y \in S : Min(S) <= y
<1>1. S \subseteq 0..3
  BY SizeAssumption DEF Worker, Node, MaxRpis
<1>2. \E x \in S : \A y \in S : x <= y
  <2>1. CASE 0 \in S BY <1>1, <2>1
  <2>2. CASE 0 \notin S /\ 1 \in S BY <1>1, <2>2
  <2>3. CASE 0 \notin S /\ 1 \notin S /\ 2 \in S BY <1>1, <2>3
  <2>4. CASE 0 \notin S /\ 1 \notin S /\ 2 \notin S
    <3>1. PICK x \in S : TRUE OBVIOUS
    <3>2. \A y \in S : y = 3 BY <1>1, <2>4
    <3>3. QED BY <3>1, <3>2
  <2>5. QED BY <2>1, <2>2, <2>3, <2>4
<1>3. QED BY <1>2 DEF Min

LEMMA FirstWorkerIsWorker == FirstWorker \in Worker /\ \A w \in Worker : FirstWorker <= w
<1>1. Worker # {}
  <2>1. CASE Root = 0
    <3>1. 1 \in Worker BY <2>1, SizeAssumption DEF Worker, Node, MaxRpis
    <3>2. QED BY <3>1
  <2>2. CASE Root # 0
    <3>1. 0 \in Worker BY <2>2, SizeAssumption DEF Worker, Node, MaxRpis
    <3>2. QED BY <3>1
  <2>3. QED BY <2>1, <2>2
<1>2. QED BY <1>1, LeastWorker DEF FirstWorker

\* The loop variable moves on to the next worker and skips none.
LEMMA NextWorker ==
  ASSUME NEW i \in Worker, Later(i) # {}
  PROVE  /\ Min(Later(i)) \in Worker
         /\ Min(Later(i)) > i
         /\ \A w \in Worker : w > i => Min(Later(i)) <= w
<1>1. Later(i) \in SUBSET Worker BY DEF Later
<1>2. QED BY <1>1, LeastWorker DEF Later

-----------------------------------------------------------------------------
(* Type correctness.                                                       *)

LEMMA ZeroIsNode == 0 \in Node /\ 0 \in Offset
BY SizeAssumption, ProgAssumption DEF Node, MaxRpis, Offset

LEMMA TicksNat == ASSUME NEW p PROVE Ticks(p) \in Nat
BY TimeAssumption DEF Ticks

LEMMA OutgoingType ==
  ASSUME TypeOK, NEW n \in Node, pc[n] \in Putting PROVE Outgoing(n) \in Byte
<1>1. call[n] \in 1..NCalls
  BY ProgAssumption DEF TypeOK, Putting
<1>2. DataByte(n) \in Byte
  BY <1>1, ProgAssumption, ZeroIsNode DEF TypeOK, Worker, DataByte
<1>3. SyncSignal \in Byte /\ SendSignal \in Byte
  BY DEF SyncSignal, SendSignal, Byte
<1>4. QED BY <1>2, <1>3 DEF Outgoing

LEMMA BodyType == ASSUME NEW n \in Node PROVE Body(n) \in PcOf(n) \ {"run"}
BY DEF Body, BodyOf, PcOf, RootPc, WorkerPc

\* The part of TypeOK that a jump of one Pi touches.
PcType ==
  /\ pc \in [Node -> RootPc \cup WorkerPc]
  /\ \A n \in Node : pc[n] \in PcOf(n)
  /\ timer \in [Node -> Nat]

\* A jump inside a collective keeps the types, and moves nobody out of "run".
LEMMA GotoType ==
  ASSUME PcType, NEW n \in Node, NEW p \in PcOf(n), Goto(n, p)
  PROVE  PcType' /\ \A m \in Node : m # n => pc'[m] = pc[m]
BY TicksNat DEF PcType, Goto, PcOf

LEMMA NextInSyncType ==
  ASSUME TypeOK, NextInSync
  PROVE  /\ PcType' /\ peer' \in Worker /\ idx' \in [Node -> Offset]
         /\ \A n \in Node : n # Root => pc'[n] = pc[n]
<1>1. peer' \in Worker /\ idx' \in [Node -> Offset]
  BY NextWorker, FirstWorkerIsWorker, ZeroIsNode DEF NextInSync, TypeOK
<1>2. Root \in Node BY SizeAssumption
<1>3. \E p \in PcOf(Root) : Goto(Root, p)
  BY <1>2, BodyType DEF NextInSync, PcOf, RootPc
<1>4. PcType BY DEF TypeOK, PcType
<1>5. QED BY <1>1, <1>2, <1>3, <1>4, GotoType

LEMMA NextInBodyType ==
  ASSUME TypeOK, NextInBody
  PROVE  /\ PcType' /\ peer' \in Worker /\ idx' \in [Node -> Offset]
         /\ \A n \in Node : n # Root => pc'[n] = pc[n]
<1>1. peer' \in Worker /\ idx' \in [Node -> Offset]
  BY NextWorker, ZeroIsNode DEF NextInBody, TypeOK
<1>2. Root \in Node BY SizeAssumption
<1>3. \E p \in PcOf(Root) : Goto(Root, p)
  BY <1>2, BodyType DEF NextInBody, PcOf, RootPc
<1>4. PcType BY DEF TypeOK, PcType
<1>5. QED BY <1>1, <1>2, <1>3, <1>4, GotoType

\* Whatever get8 returns, its caller keeps the types and stays in its call.
LEMMA Get8Type ==
  ASSUME TypeOK, NEW m \in Node, NEW v \in Byte \cup {TimedOut}, Get8Returns(m, v)
  PROVE  /\ PcType' /\ peer' \in Worker /\ idx' \in [Node -> Offset]
         /\ buf' \in [Node -> [Node -> [Offset -> Byte \cup {NoByte}]]]
         /\ \A n \in Node : pc[n] = "run" => pc'[n] = "run"
<1>0. PcType /\ Root \in Node BY SizeAssumption DEF TypeOK, PcType
<1>1. CASE WaitSignalReturns(m, v)
  <2>1. pc[m] = "waitSync" => "delaySync" \in PcOf(m)
    BY DEF TypeOK, PcOf, RootPc, WorkerPc
  <2>2. pc[m] = "waitSend" => "delay" \in PcOf(m)
    BY DEF TypeOK, PcOf, RootPc, WorkerPc
  <2>3. PcType' /\ \A n \in Node : pc[n] = "run" => pc'[n] = "run"
    BY <1>0, <1>1, <2>1, <2>2, GotoType DEF WaitSignalReturns, PcType
  <2>4. QED BY <1>1, <2>3, ZeroIsNode DEF WaitSignalReturns, TypeOK
<1>2. CASE WaitSignalTimeoutReturns(m, v)
  <2>1. m = Root
    BY <1>2 DEF WaitSignalTimeoutReturns, TypeOK, PcOf, WorkerPc
  <2>2. CASE NextInSync
    BY <1>2, <2>1, <2>2, NextInSyncType DEF WaitSignalTimeoutReturns, TypeOK
  <2>3. CASE Goto(m, "putSync") /\ UNCHANGED <<peer, idx>>
    <3>1. "putSync" \in PcOf(m) BY DEF PcOf, RootPc, WorkerPc
    <3>2. QED BY <1>0, <1>2, <2>3, <3>1, GotoType DEF WaitSignalTimeoutReturns, TypeOK
  <2>4. QED BY <1>2, <2>2, <2>3 DEF WaitSignalTimeoutReturns
<1>3. CASE RecvReturns(m, v)
  <2>1. Char(v) \in Byte BY DEF Char, Byte, TimedOut
  <2>2. buf' \in [Node -> [Node -> [Offset -> Byte \cup {NoByte}]]]
    BY <1>3, <2>1, ZeroIsNode DEF RecvReturns, TypeOK, Worker
  <2>3. CASE m = Root /\ NextInBody
    BY <1>3, <2>2, <2>3, NextInBodyType DEF RecvReturns
  <2>4. ASSUME NEW p \in {"get", "ret"}, Goto(m, p)
        PROVE  PcType' /\ \A n \in Node : pc[n] = "run" => pc'[n] = "run"
    <3>1. p \in PcOf(m) BY DEF PcOf, RootPc, WorkerPc
    <3>2. QED BY <1>0, <1>3, <2>4, <3>1, GotoType DEF RecvReturns
  <2>5. CASE peer' = peer /\ Goto(m, "get") /\ idx' = [idx EXCEPT ![m] = @ + 1]
             /\ idx[m] + 1 < Count
    <3>1. idx' \in [Node -> Offset]
      BY <2>5, ProgAssumption DEF TypeOK, Offset
    <3>2. QED BY <2>2, <2>4, <2>5, <3>1 DEF TypeOK
  <2>6. CASE peer' = peer /\ Goto(m, "ret") /\ idx' = [idx EXCEPT ![m] = 0]
    BY <2>2, <2>4, <2>6, ZeroIsNode DEF TypeOK
  <2>7. QED BY <1>3, <2>3, <2>5, <2>6 DEF RecvReturns
<1>4. QED BY <1>1, <1>2, <1>3 DEF Get8Returns

LEMMA InitType == Init => TypeOK
<1> SUFFICES ASSUME Init PROVE TypeOK OBVIOUS
<1> USE DEF Init
<1>1. pc \in [Node -> RootPc \cup WorkerPc] /\ \A n \in Node : pc[n] \in PcOf(n)
  BY DEF PcOf, RootPc, WorkerPc
<1>2. call \in [Node -> 1..(NCalls + 1)] BY ProgAssumption
<1>3. peer \in Worker BY FirstWorkerIsWorker
<1>4. idx \in [Node -> Offset] BY ZeroIsNode
<1>5. timer \in [Node -> Nat] BY TimeAssumption
<1>6. buf \in [Node -> [Node -> [Offset -> Byte \cup {NoByte}]]] BY DEF Empty
<1>7. wire \in [Node -> Frame] BY DEF Frame, Idle, OnLine
<1>8. QED BY <1>1, <1>2, <1>3, <1>4, <1>5, <1>6, <1>7 DEF TypeOK

\* Every action keeps TypeOK.
LEMMA StepType ==
  ASSUME TypeOK, [Next]_vars PROVE TypeOK'
<1> USE DEF TypeOK
<1>0. PcType /\ Root \in Node BY SizeAssumption DEF PcType
<1>1. ASSUME NEW n \in Node, Enter(n) PROVE TypeOK'
  <2>1. CASE n = Root
    <3>1. "putSync" \in PcOf(n) BY <2>1 DEF PcOf, RootPc
    <3>2. PcType' BY <1>0, <1>1, <2>1, <3>1, GotoType DEF Enter
    <3>3. peer' \in Worker BY <1>1, <2>1, FirstWorkerIsWorker DEF Enter
    <3>4. QED
      BY <1>1, <2>1, <3>2, <3>3, ProgAssumption
      DEF Enter, Goto, PcType, Empty, Finished
  <2>2. CASE n # Root
    <3>1. "waitSync" \in PcOf(n) BY <2>2 DEF PcOf, WorkerPc
    <3>2. PcType' BY <1>0, <1>1, <2>2, <3>1, GotoType DEF Enter
    <3>3. QED
      BY <1>1, <2>2, <3>2, ProgAssumption DEF Enter, Goto, PcType, Empty, Finished
  <2>3. QED BY <2>1, <2>2
<1>2. ASSUME NEW n \in Node, Return(n) PROVE TypeOK'
  <2>1. "run" \in PcOf(n) BY DEF PcOf, RootPc, WorkerPc
  <2>2. PcType' BY <1>0, <1>2, <2>1, GotoType DEF Return
  <2>3. call[n] \in 1..NCalls BY <1>2, ProgAssumption DEF Return
  <2>4. call' \in [Node -> 1..(NCalls + 1)]
    BY <1>2, <2>3, ProgAssumption DEF Return
  <2>5. \A m \in Node : pc'[m] # "run" => call'[m] <= NCalls
    BY <1>2 DEF Return, Goto
  <2>6. buf' \in [Node -> [Node -> [Offset -> Byte \cup {NoByte}]]]
    <3>1. Data[call[n]][n][0] \in [Offset -> Byte]
      BY <2>3, ZeroIsNode, ProgAssumption
    <3>2. QED BY <1>2, <3>1, ZeroIsNode DEF Return
  <2>7. QED BY <1>2, <2>2, <2>4, <2>5, <2>6 DEF Return, PcType
<1>3. ASSUME NEW n \in Node, EndDelay(n) PROVE TypeOK'
  <2>1. pc[n] = "delaySync" => "putSync" \in PcOf(n)
    BY DEF PcOf, RootPc, WorkerPc
  <2>2. "put" \in PcOf(n) BY DEF PcOf, RootPc, WorkerPc
  <2>3. PcType' BY <1>0, <1>3, <2>1, <2>2, GotoType DEF EndDelay
  <2>4. QED BY <1>3, <2>3 DEF EndDelay, Goto, PcType
<1>4. ASSUME NEW n \in Node, Expire(n) PROVE TypeOK'
  <2>1. Get8Returns(n, TimedOut) BY <1>4 DEF Expire
  <2>2. QED BY <1>4, <2>1, Get8Type DEF Expire, PcType
<1>5. ASSUME NEW n \in Node, StartBit(n) PROVE TypeOK'
  <2>1. Outgoing(n) \in Byte BY <1>5, OutgoingType DEF StartBit
  <2>2. wire' \in [Node -> Frame] BY <1>5, <2>1 DEF StartBit, Frame, OnLine
  <2>3. QED BY <1>5, <2>2 DEF StartBit, PcOf
<1>6. ASSUME NEW n \in Node, DataBits(n) PROVE TypeOK'
  <2>2. wire' \in [Node -> Frame] BY <1>6 DEF DataBits, Frame, OnLine
  <2>3. QED BY <1>6, <2>2 DEF DataBits, PcOf
<1>7. ASSUME NEW n \in Node, Misread(n) PROVE TypeOK'
  <2>2. wire' \in [Node -> Frame]
    BY <1>7, LineAssumption DEF Misread, Frame, OnLine
  <2>3. QED BY <1>7, <2>2 DEF Misread, PcOf
<1>8. ASSUME NEW n \in Node, StopBit(n) PROVE TypeOK'
  <2>2. wire' \in [Node -> Frame] BY <1>8 DEF StopBit, Frame, OnLine
  <2>3. CASE wire[n].got = NoByte
    BY <1>8, <2>2, <2>3 DEF StopBit, PcOf
  <2>4. CASE wire[n].got # NoByte
    <3>1. Get8Returns(Partner(n), wire[n].got) BY <1>8, <2>4 DEF StopBit
    <3>2. wire[n].got \in Byte /\ Partner(n) \in Node
      BY <1>0, <2>4 DEF Partner, Worker, Frame
    <3>3. QED BY <1>8, <2>2, <3>1, <3>2, Get8Type DEF StopBit, PcType
  <2>5. QED BY <2>3, <2>4
<1>9. ASSUME NEW n \in Node, Put8Returns(n) PROVE TypeOK'
  <2>1. wire' \in [Node -> Frame] BY <1>9 DEF Put8Returns, Frame, Idle, OnLine
  <2> HIDE DEF TypeOK
  <2>2. PcType' /\ peer' \in Worker /\ idx' \in [Node -> Offset]
        /\ \A m \in Node : pc[m] = "run" => pc'[m] = "run"
    <3>1. CASE /\ pc[n] = "putSync"
               /\ Goto(n, IF n = Root THEN "getSync" ELSE Body(n))
               /\ idx' = [idx EXCEPT ![n] = 0]
               /\ UNCHANGED peer
      <4>1. (IF n = Root THEN "getSync" ELSE Body(n)) \in PcOf(n)
        BY BodyType DEF PcOf, RootPc
      <4>2. QED BY <1>0, <3>1, <4>1, GotoType, ZeroIsNode DEF TypeOK
    <3>2. CASE pc[n] = "putSend" /\ Goto(n, "get") /\ UNCHANGED <<peer, idx>>
      <4>1. "get" \in PcOf(n) BY DEF PcOf, RootPc, WorkerPc
      <4>2. QED BY <1>0, <3>2, <4>1, GotoType DEF TypeOK
    <3>3. CASE /\ pc[n] = "put" /\ idx[n] + 1 < Count
               /\ idx' = [idx EXCEPT ![n] = @ + 1]
               /\ UNCHANGED <<pc, peer, timer>>
      BY <1>0, <3>3, ProgAssumption DEF TypeOK, Offset, PcType, PcOf
    <3>4. CASE pc[n] = "put" /\ n = Root /\ NextInBody
      BY <3>4, NextInBodyType
    <3>5. CASE /\ pc[n] = "put" /\ n # Root
               /\ idx' = [idx EXCEPT ![n] = 0] /\ Goto(n, "ret") /\ peer' = peer
      <4>1. "ret" \in PcOf(n) BY DEF PcOf, RootPc, WorkerPc
      <4>2. QED BY <1>0, <3>5, <4>1, GotoType, ZeroIsNode DEF TypeOK
    <3>6. QED BY <1>9, <3>1, <3>2, <3>3, <3>4, <3>5 DEF Put8Returns
  <2>3. QED BY <1>9, <2>1, <2>2 DEF Put8Returns, PcType, TypeOK
<1>10. CASE Tick
  <2>1. timer' \in [Node -> Nat] BY <1>10 DEF Tick
  <2>2. QED BY <1>10, <2>1 DEF Tick, PcOf
<1>11. CASE UNCHANGED vars
  BY <1>11 DEF vars, PcOf
<1>12. QED
  BY <1>1, <1>2, <1>3, <1>4, <1>5, <1>6, <1>7, <1>8, <1>9, <1>10, <1>11
  DEF Next, Step, Terminated

\* Every reachable state of the collectives is well typed.
THEOREM TypeCorrect == Spec => []TypeOK
<1>1. Init => TypeOK BY InitType
<1>2. TypeOK /\ [Next]_vars => TypeOK' BY StepType
<1>3. QED BY <1>1, <1>2, PTL DEF Spec


-----------------------------------------------------------------------------
(* Constant facts.                                                         *)

LEMMA TicksIs ==
  /\ Ticks("delaySync") = Delay /\ Ticks("delay") = Delay
  /\ Ticks("getSync") = Timeout
BY DEF Ticks

LEMMA BodyIs ==
  ASSUME NEW n \in Node
  PROVE  /\ BodyOf(n, "bcast") = IF n = Root THEN "put" ELSE "get"
         /\ BodyOf(n, "scatter") = IF n = Root THEN "delay" ELSE "get"
         /\ BodyOf(n, "gather") = IF n = Root THEN "putSend" ELSE "waitSend"
         /\ BodyOf(n, "barrier") = "ret"
BY DEF BodyOf

LEMMA OpIs ==
  ASSUME TypeOK, NEW n \in Node, pc[n] # "run"
  PROVE  Op(n) \in Collective /\ call[n] \in 1..NCalls
BY ProgAssumption DEF TypeOK, Op, Collective

LEMMA ResultIs ==
  ASSUME NEW c \in 1..NCalls, NEW n \in Node, NEW b \in Node, NEW k \in Offset
  PROVE  /\ Prog[c] = "bcast" /\ n # Root /\ b = 0 =>
               Result(n, c)[b][k] = Data[c][Root][0][k]
         /\ Prog[c] = "bcast" /\ ~(n # Root /\ b = 0) => Result(n, c)[b][k] = NoByte
         /\ Prog[c] = "scatter" /\ b = 0 => Result(n, c)[b][k] = Data[c][Root][n][k]
         /\ Prog[c] = "scatter" /\ b # 0 => Result(n, c)[b][k] = NoByte
         /\ Prog[c] = "gather" /\ n = Root => Result(n, c)[b][k] = Data[c][b][0][k]
         /\ Prog[c] = "gather" /\ n # Root => Result(n, c)[b][k] = NoByte
         /\ Prog[c] = "barrier" => Result(n, c)[b][k] = NoByte
<1> DEFINE R == CASE Prog[c] = "bcast" /\ n # Root /\ b = 0 -> Data[c][Root][0][k]
                  [] Prog[c] = "scatter" /\ b = 0 -> Data[c][Root][n][k]
                  [] Prog[c] = "gather" /\ n = Root -> Data[c][b][0][k]
                  [] OTHER -> NoByte
<1>1. Result(n, c)[b][k] = R BY DEF Result
<1>2. /\ Prog[c] = "bcast" /\ n # Root /\ b = 0 => R = Data[c][Root][0][k]
      /\ Prog[c] = "bcast" /\ ~(n # Root /\ b = 0) => R = NoByte
      /\ Prog[c] = "scatter" /\ b = 0 => R = Data[c][Root][n][k]
      /\ Prog[c] = "scatter" /\ b # 0 => R = NoByte
      /\ Prog[c] = "gather" /\ n = Root => R = Data[c][b][0][k]
      /\ Prog[c] = "gather" /\ n # Root => R = NoByte
      /\ Prog[c] = "barrier" => R = NoByte
  OBVIOUS
<1>3. QED BY <1>1, <1>2

-----------------------------------------------------------------------------
(* Meets.                                                                  *)

\* A step leaves n where it is.
Same(n) == /\ pc'[n] = pc[n] /\ call'[n] = call[n] /\ idx'[n] = idx[n]
           /\ timer'[n] = timer[n] /\ wire'[n] = wire[n]

\* Meets(w) is about the root and w only.
LEMMA MeetsFrame ==
  ASSUME NEW w \in Worker, Meets(w), Same(w), Same(Root), peer' = peer
  PROVE  Meets(w)'
<1>1. Op(w)' = Op(w) BY DEF Same, Op
<1>2. Body(w)' = Body(w) BY <1>1 DEF Body
<1>3. QED
  BY <1>1, <1>2
  DEF Same, Meets, InSync, InBody, Waiting, Leaving, Synced, Ready, Requested,
      Heard, Answering, AtByte, Sending, Calling, Collecting, Idle

Met == TypeOK /\ WireInv /\ RootInv /\ TurnInv /\ \A w \in Worker : Meets(w)

LEMMA WorkerIs ==
  ASSUME NEW w \in Worker
  PROVE  w \in Node /\ Root \in Node /\ w # Root /\ w \in Nat /\ Partner(w) = Root
BY SizeAssumption DEF Worker, Node, MaxRpis, Partner

\* What a step of worker w leaves alone.
Alone(w) == peer' = peer /\ \A n \in Node : n # w => Same(n)

LEMMA OthersMeet ==
  ASSUME NEW w \in Worker, Alone(w), \A v \in Worker : Meets(v), Meets(w)'
  PROVE  \A v \in Worker : Meets(v)'
<1> SUFFICES ASSUME NEW v \in Worker PROVE Meets(v)' OBVIOUS
<1>1. CASE v = w BY <1>1
<1>2. CASE v # w BY <1>2, MeetsFrame, WorkerIs DEF Alone
<1>3. QED BY <1>1, <1>2

\* What Meets is made of.
LEMMA PartsMeet ==
  ASSUME NEW w \in Worker, Meets(w), Same(Root), peer' = peer,
         NEW c, c = call[Root],
         Waiting(w, c) => Waiting(w, c)',
         Waiting(w, c + 1) => Waiting(w, c + 1)',
         Synced(w, c) => Synced(w, c)',
         pc[Root] = "putSync" /\ Requested(w, c) => Requested(w, c)',
         pc[Root] = "getSync" /\ Answering(w, c) => Answering(w, c)',
         pc[Root] = "put" /\ Sending(w, c) => Sending(w, c)',
         pc[Root] = "putSend" /\ Calling(w, c) => Calling(w, c)',
         pc[Root] = "get" /\ Collecting(w, c) => Collecting(w, c)'
  PROVE  Meets(w)'
<1>1. call'[Root] = c BY DEF Same
<1>2. QED BY <1>1 DEF Same, Meets, InSync, InBody

LEMMA EnterMeets ==
  ASSUME Met, NEW w \in Worker, Enter(w) PROVE \A v \in Worker : Meets(v)'
<1>1. Alone(w) BY WorkerIs DEF Met, Alone, Same, Enter, Goto, TypeOK
<1>2. Meets(w)'
  <2>1. pc[w] = "run" /\ pc'[w] = "waitSync" /\ call'[w] = call[w] /\ wire'[w] = wire[w]
    BY WorkerIs DEF Enter, Goto, Met, TypeOK
  <2>2. Same(Root) BY <1>1, WorkerIs DEF Alone
  <2>3. Meets(w) BY DEF Met
  <2>4. Body(w) # "run" BY WorkerIs, BodyType
  <2>5. ASSUME NEW d, Waiting(w, d) PROVE Waiting(w, d)'
    BY <2>1, <2>5 DEF Waiting, Leaving
  <2>6. QED
    BY <2>1, <2>2, <2>3, <2>4, <2>5, <1>1
    DEF Alone, Same, Meets, InSync, InBody, Waiting, Leaving, Synced, Ready, Requested,
      Heard, Answering, AtByte, Sending, Calling, Collecting, Idle
<1>3. QED BY <1>1, <1>2, OthersMeet DEF Met

LEMMA ReturnMeets ==
  ASSUME Met, NEW w \in Worker, Return(w) PROVE \A v \in Worker : Meets(v)'
<1>1. Alone(w) BY WorkerIs DEF Met, Alone, Same, Return, Goto, TypeOK
<1>2. Meets(w)'
  <2>0. PICK c \in Nat : c = call[Root]
    BY WorkerIs, ProgAssumption DEF Met, TypeOK
  <2>1. pc[w] = "ret" /\ pc'[w] = "run" /\ call'[w] = call[w] + 1 /\ wire'[w] = wire[w]
    BY WorkerIs DEF Return, Goto, Met, TypeOK
  <2>2. Same(Root) BY <1>1, WorkerIs DEF Alone
  <2>3. Meets(w) BY DEF Met
  <2>4. call[w] \in Nat /\ call[Root] \in Nat
    BY WorkerIs, ProgAssumption DEF Met, TypeOK
  <2>5. ASSUME NEW d \in Nat, Waiting(w, d) PROVE Waiting(w, d)'
    BY <2>1, <2>4, <2>5 DEF Waiting, Leaving, Idle, OnLine
  <2>6. ASSUME NEW d \in Nat, Synced(w, d) PROVE Synced(w, d)'
    <3>1. Op(w) \in Collective /\ Op(w) = Prog[call[w]]
      BY <2>1, OpIs, WorkerIs DEF Met, Op
    <3>2. Body(w) = "ret" => Op(w) = "barrier"
      BY <3>1, BodyIs, WorkerIs DEF Body, Collective
    <3>3. QED BY <2>1, <2>4, <2>5, <2>6, <3>1, <3>2 DEF Synced, Ready
  <2>7. pc[Root] = "putSync" /\ Requested(w, c) => Requested(w, c)'
    BY <2>1, <2>2, <2>4, <2>5 DEF Requested, Same
  <2>8. pc[Root] = "getSync" /\ Answering(w, c) => Answering(w, c)'
    BY <2>1, <2>4, <2>5 DEF Answering
  <2>9. pc[Root] = "put" /\ Sending(w, c) => Sending(w, c)'
    BY <2>1, <2>2, <2>4, <2>5, <2>6 DEF Sending, AtByte, Same
  <2>10. pc[Root] = "putSend" /\ Calling(w, c) => Calling(w, c)'
    <3>1. Op(w) \in Collective /\ Op(w) = Prog[call[w]]
      BY <2>1, OpIs, WorkerIs DEF Met, Op
    <3>2. Body(w) = "ret" => Op(w) = "barrier"
      BY <3>1, BodyIs, WorkerIs DEF Body, Collective
    <3>3. pc[Root] = "putSend" => Prog[c] = "gather" BY <2>0 DEF Met, RootInv, Op
    <3>4. QED BY <2>0, <2>1, <2>2, <2>4, <2>6, <3>1, <3>2, <3>3 DEF Calling, Ready, Same
  <2>11. pc[Root] = "get" /\ Collecting(w, c) => Collecting(w, c)'
    BY <2>1 DEF Collecting
  <2>12. QED
    BY <1>1, <2>0, <2>2, <2>3, <2>4, <2>5, <2>6, <2>7, <2>8, <2>9, <2>10, <2>11, PartsMeet DEF Alone
<1>3. QED BY <1>1, <1>2, OthersMeet DEF Met

LEMMA EndDelayMeets ==
  ASSUME Met, NEW w \in Worker, EndDelay(w) PROVE \A v \in Worker : Meets(v)'
<1>1. Alone(w) BY WorkerIs DEF Met, Alone, Same, EndDelay, Goto, TypeOK
<1>2. Meets(w)'
  <2>1. /\ pc[w] \in {"delay", "delaySync"} /\ timer[w] = 0
        /\ pc'[w] = (IF pc[w] = "delaySync" THEN "putSync" ELSE "put")
        /\ call'[w] = call[w] /\ wire'[w] = wire[w] /\ idx'[w] = idx[w]
    BY WorkerIs DEF EndDelay, Goto, Met, TypeOK
  <2>2. Same(Root) BY <1>1, WorkerIs DEF Alone
  <2>3. Meets(w) BY DEF Met
  <2>4. call[w] \in Nat /\ call[Root] \in Nat /\ timer[Root] \in Nat /\ Delay # 0
    BY WorkerIs, ProgAssumption, TimeAssumption DEF Met, TypeOK
  <2>5. Body(w) \notin {"delay", "delaySync"}
    <3>1. Op(w) \in Collective BY <2>1, OpIs, WorkerIs DEF Met
    <3>2. QED BY <3>1, BodyIs, WorkerIs DEF Body, Collective
  <2>6. QED
    BY <2>1, <2>2, <2>3, <2>4, <2>5, <1>1
    DEF Alone, Same, Meets, InSync, InBody, Waiting, Leaving, Synced, Ready, Requested,
      Heard, Answering, AtByte, Sending, Calling, Collecting, Idle, OnLine
<1>3. QED BY <1>1, <1>2, OthersMeet DEF Met

LEMMA StartBitMeets ==
  ASSUME Met, NEW w \in Worker, StartBit(w) PROVE \A v \in Worker : Meets(v)'
<1>1. Alone(w) BY WorkerIs DEF Met, Alone, Same, StartBit, TypeOK
<1>2. Meets(w)'
  <2>1. /\ pc[w] \in Putting /\ wire[w] = Idle /\ wire'[w].phase = "start"
        /\ pc' = pc /\ call' = call /\ idx' = idx /\ timer' = timer
    BY WorkerIs DEF StartBit, Met, TypeOK, OnLine
  <2>2. Same(Root) BY <1>1, WorkerIs DEF Alone
  <2>3. Meets(w) BY DEF Met
  <2>4. Body(w) \notin Putting
    <3>1. Op(w) \in Collective BY <2>1, OpIs, WorkerIs DEF Met, Putting
    <3>2. QED BY <3>1, BodyIs, WorkerIs DEF Body, Collective, Putting
  <2>5. QED
    BY <2>1, <2>2, <2>3, <2>4, <1>1
    DEF Alone, Same, Meets, InSync, InBody, Waiting, Leaving, Synced, Ready, Requested,
      Heard, Answering, AtByte, Sending, Calling, Collecting, Idle, OnLine, Putting
<1>3. QED BY <1>1, <1>2, OthersMeet DEF Met

LEMMA DataBitsMeets ==
  ASSUME Met, NEW w \in Worker, DataBits(w) PROVE \A v \in Worker : Meets(v)'
<1>1. Alone(w) BY WorkerIs DEF Met, Alone, Same, DataBits, TypeOK
<1>2. Meets(w)'
  <2>1. /\ wire[w].phase = "start" /\ wire'[w].phase = "bits"
        /\ wire'[w].val = wire[w].val
        /\ wire'[w].got = IF Listens(Root, w) THEN wire[w].val ELSE NoByte
        /\ pc' = pc /\ call' = call /\ idx' = idx /\ timer' = timer
    BY WorkerIs DEF DataBits, Met, TypeOK, OnLine
  <2>2. Same(Root) BY <1>1, WorkerIs DEF Alone
  <2>3. Meets(w) /\ wire[w] # Idle /\ wire'[w] # Idle BY <2>1 DEF Met, Idle, OnLine
  <2>4. pc[w] \in Putting BY <2>1, WorkerIs DEF Met, WireInv
  <2>5. peer = w /\ pc[Root] \in {"getSync", "get"} => Heard(w)'
    BY <2>1, WorkerIs DEF Heard, Listens, Partner, Getting
  <2>6. QED
    BY <2>1, <2>2, <2>3, <2>4, <2>5, <1>1
    DEF Alone, Same, Meets, InSync, InBody, Waiting, Leaving, Synced, Ready, Requested,
      Answering, AtByte, Sending, Calling, Collecting, Putting
<1>3. QED BY <1>1, <1>2, OthersMeet DEF Met

\* The root is always there for a worker's byte.
LEMMA WorkerHeard ==
  ASSUME Met, NEW w \in Worker, wire[w].phase = "bits"
  PROVE  /\ wire[w].got = wire[w].val /\ peer = w
         /\ \/ pc[Root] = "getSync" /\ pc[w] = "putSync" /\ Answering(w, call[Root])
            \/ pc[Root] = "get" /\ pc[w] = "put" /\ Collecting(w, call[Root])
<1>1. wire[w] # Idle /\ pc[w] \in Putting
  BY WorkerIs DEF Met, WireInv, Idle, OnLine
<1>2. pc[Root] \in RootPc BY WorkerIs DEF Met, TypeOK, PcOf
<1>3. peer \in Nat /\ w \in Nat BY WorkerIs DEF Met, TypeOK
<1>4. PICK c : c = call[Root] OBVIOUS
<1>5. ASSUME NEW d PROVE ~Waiting(w, d) BY <1>1 DEF Waiting, Leaving
<1>6. ~Synced(w, c) /\ ~Ready(w, c) BY <1>1, <1>5 DEF Synced, Ready
<1>7. Meets(w) BY DEF Met
<1>8. peer = w /\ pc[Root] \in {"getSync", "get"}
  <2>1. ~Requested(w, c) BY <1>1, <1>5 DEF Requested
  <2>2. pc[Root] = "putSend" => ~Calling(w, c)
    <3>1. pc[Root] = "putSend" => wire[Root].phase \in {"idle", "start", "bits", "stop"}
      BY WorkerIs DEF Met, TypeOK, Frame
    <3>2. QED BY <1>1, <1>6, <3>1 DEF Calling
  <2>3. pc[Root] = "put" => ~Sending(w, c)
    <3>1. wire[Root].phase \in {"idle", "start", "bits", "stop"}
      BY WorkerIs DEF Met, TypeOK, Frame
    <3>2. QED BY <1>1, <1>5, <1>6, <3>1 DEF Sending, AtByte
  <2>4. QED
    BY <1>2, <1>3, <1>4, <1>5, <1>6, <1>7, <2>1, <2>2, <2>3
    DEF Meets, InSync, InBody, RootPc
<1>9. CASE pc[Root] = "getSync"
  BY <1>1, <1>4, <1>5, <1>7, <1>8, <1>9 DEF Meets, Answering, Heard
<1>10. CASE pc[Root] = "get"
  BY <1>1, <1>4, <1>7, <1>8, <1>10 DEF Meets, Collecting, Heard
<1>11. QED BY <1>8, <1>9, <1>10

LEMMA MisreadMeets ==
  ASSUME Met, NEW w \in Worker, Misread(w) PROVE FALSE
<1>1. wire[w].phase = "bits" /\ wire[w].got = NoByte BY DEF Misread
<1>2. pc[w] \in Putting /\ wire[w].val = Outgoing(w)
  BY <1>1, WorkerIs DEF Met, WireInv
<1>3. Outgoing(w) \in Byte BY <1>2, OutgoingType, WorkerIs DEF Met
<1>4. QED BY <1>1, <1>2, <1>3, WorkerHeard DEF Byte, NoByte

LEMMA Put8ReturnsMeets ==
  ASSUME Met, NEW w \in Worker, Put8Returns(w) PROVE \A v \in Worker : Meets(v)'
<1>0. pc[w] \in WorkerPc /\ w # Root /\ w \in Node
  BY WorkerIs DEF Met, TypeOK, PcOf
<1>1. Alone(w) BY <1>0 DEF Met, Alone, Same, Put8Returns, Goto, TypeOK, WorkerPc
<1>2. Meets(w)'
  <2>0. PICK c \in Nat : c = call[Root]
    BY WorkerIs, ProgAssumption DEF Met, TypeOK
  <2>1. /\ wire[w].phase = "stop" /\ wire'[w] = Idle /\ call' = call
        /\ \/ pc[w] = "putSync" /\ pc'[w] = Body(w) /\ idx'[w] = 0
           \/ pc[w] = "put" /\ pc'[w] = "put" /\ idx[w] + 1 < Count /\ idx'[w] = idx[w] + 1
           \/ pc[w] = "put" /\ pc'[w] = "ret" /\ idx[w] + 1 = Count
    BY <1>0 DEF Put8Returns, Goto, Met, TypeOK, WorkerPc
  <2>2. Same(Root) BY <1>1, WorkerIs DEF Alone
  <2>3. Meets(w) /\ wire[w] # Idle BY <2>1 DEF Met, Idle, OnLine
  <2>4. Op(w) \in Collective /\ Op(w) = Prog[call[w]] /\ Op(w)' = Op(w)
    BY <1>0, <2>1, OpIs DEF Met, Op
  <2>5. Body(w)' = Body(w) BY <2>4 DEF Body
  <2>6. Op(w) = "barrier" => Body(w) = "ret"
    BY <1>0, <2>4, BodyIs DEF Body, Collective
  <2>7. \A d \in Nat : Waiting(w, d) => Waiting(w, d)'
    <3>1. idx[w] \in Nat /\ Count \in Nat
      BY <1>0, ProgAssumption DEF Met, TypeOK, Offset
    <3>2. QED BY <2>1, <2>3, <2>4, <2>6, <3>1 DEF Waiting, Leaving
  <2>8. Synced(w, c) => Synced(w, c)'
    <3>1. CASE Prog[c] = "barrier" BY <2>0, <2>7, <3>1 DEF Synced
    <3>2. CASE Prog[c] # "barrier"
      BY <2>1, <2>3, <2>5, <3>2 DEF Synced, Ready
    <3>3. QED BY <3>1, <3>2
  <2>9. pc[Root] = "putSync" /\ Requested(w, c) => Requested(w, c)'
    BY <2>1, <2>2, <2>3, <2>7 DEF Requested, Same
  <2>10. pc[Root] = "getSync" /\ Answering(w, c) => Answering(w, c)'
    BY <2>1, <2>3, <2>7 DEF Answering
  <2>11. pc[Root] = "put" /\ Sending(w, c) => Sending(w, c)'
    BY <2>0, <2>1, <2>2, <2>3, <2>7, <2>8 DEF Sending, AtByte, Same
  <2>12. pc[Root] = "putSend" /\ Calling(w, c) => Calling(w, c)'
    BY <2>1, <2>2, <2>3, <2>8 DEF Calling, Ready, Same
  <2>13. pc[Root] = "get" /\ Collecting(w, c) => Collecting(w, c)'
    <3>1. idx[Root] < Count /\ idx[w] \in Nat
      BY WorkerIs, ProgAssumption DEF Met, TypeOK, Offset
    <3>2. QED
      BY <2>1, <2>2, <2>3, <3>1 DEF Collecting, Heard, Same, Idle, OnLine
  <2>14. QED
    BY <1>1, <2>0, <2>2, <2>3, <2>7, <2>8, <2>9, <2>10, <2>11, <2>12, <2>13, PartsMeet
    DEF Alone
<1>3. QED BY <1>1, <1>2, OthersMeet DEF Met

LEMMA TickMeets ==
  ASSUME Met, Tick PROVE \A v \in Worker : Meets(v)'
<1> SUFFICES ASSUME NEW w \in Worker PROVE Meets(w)' OBVIOUS
<1>1. /\ wire[Root] = Idle /\ pc[Root] \notin Putting \cup {"ret"}
      /\ pc[Root] \in {"delay", "getSync", "get"} => timer[Root] > 0
      /\ timer'[Root] = IF timer[Root] > 0 THEN timer[Root] - 1 ELSE 0
  BY WorkerIs DEF Tick
<1>2. /\ wire[w] = Idle /\ pc[w] \notin Putting \cup {"ret"}
      /\ pc[w] \in {"delaySync", "delay"} => timer[w] > 0
      /\ timer'[w] = IF timer[w] > 0 THEN timer[w] - 1 ELSE 0
  BY WorkerIs DEF Tick
<1>3. UNCHANGED <<pc, call, peer, idx, wire>> BY DEF Tick
<1>4. timer[w] \in Nat /\ timer[Root] \in Nat BY WorkerIs DEF Met, TypeOK
<1>5. Meets(w) BY DEF Met
<1>6. Op(w)' = Op(w) BY <1>3 DEF Op
<1>7. Body(w)' = Body(w) BY <1>6 DEF Body
<1>8. QED
  BY <1>1, <1>2, <1>3, <1>4, <1>5, <1>6, <1>7
  DEF Meets, InSync, InBody, Waiting, Leaving, Synced, Ready, Requested,
      Heard, Answering, AtByte, Sending, Calling, Collecting, Idle, OnLine, Putting

-----------------------------------------------------------------------------
(* The loops of the root.                                                  *)

LEMMA OwnParts ==
  ASSUME NEW v \in Worker, Same(v)
  PROVE  /\ \A d : Waiting(v, d) => Waiting(v, d)'
         /\ \A d : Synced(v, d) => Synced(v, d)'
<1>1. Op(v)' = Op(v) BY DEF Same, Op
<1>2. Body(v)' = Body(v) BY <1>1 DEF Body
<1>3. \A d : Waiting(v, d) => Waiting(v, d)' BY <1>1 DEF Same, Waiting, Leaving, Idle
<1>4. \A d : Ready(v, d) => Ready(v, d)' BY <1>2 DEF Same, Ready, Idle
<1>5. QED BY <1>3, <1>4 DEF Same, Synced

\* The root comes to peer' in the loop of the collective.
LEMMA BodyMeets ==
  ASSUME NEW v \in Worker, NEW c \in Nat, call'[Root] = c, Prog[c] \in Collective,
         pc'[Root] = BodyOf(Root, Prog[c]), idx'[Root] = 0, wire'[Root] = Idle,
         peer' \in Nat,
         v >= peer' => Synced(v, c)',
         v < peer' => Prog[c] # "barrier" /\ Waiting(v, c + 1)'
  PROVE  Meets(v)'
<1>1. v \in Nat BY WorkerIs
<1>2. Prog[c] = "barrier" => Waiting(v, c + 1)' BY <1>1 DEF Synced
<1>3. CASE Prog[c] = "bcast"
  <2>1. pc'[Root] = "put" BY <1>3, BodyIs, SizeAssumption
  <2>2. QED BY <1>1, <2>1 DEF Meets, InSync, InBody, Sending, Idle, OnLine
<1>4. CASE Prog[c] = "scatter"
  <2>1. pc'[Root] = "delay" BY <1>4, BodyIs, SizeAssumption
  <2>2. QED BY <1>1, <2>1 DEF Meets, InSync, InBody
<1>5. CASE Prog[c] = "gather"
  <2>1. pc'[Root] = "putSend" BY <1>5, BodyIs, SizeAssumption
  <2>2. QED BY <1>1, <2>1 DEF Meets, InSync, InBody, Calling, Idle, OnLine
<1>6. CASE Prog[c] = "barrier"
  <2>1. pc'[Root] = "ret" BY <1>6, BodyIs, SizeAssumption
  <2>2. QED BY <1>1, <1>2, <1>6, <2>1 DEF Meets, InSync, InBody
<1>7. QED BY <1>3, <1>4, <1>5, <1>6 DEF Collective

LEMMA RootIs ==
  ASSUME Met, pc[Root] # "run"
  PROVE  /\ call[Root] \in 1..NCalls /\ call[Root] \in Nat
         /\ Op(Root) = Prog[call[Root]] /\ Prog[call[Root]] \in Collective
BY OpIs, ProgAssumption, SizeAssumption DEF Met, Op

\* sync_root_last: worker w has answered.
LEMMA NextInSyncMeets ==
  ASSUME Met, NEW w \in Worker, peer = w, pc[Root] = "getSync", NextInSync,
         call' = call, wire'[Root] = Idle, \A v \in Worker : v # w => Same(v),
         Synced(w, call[Root])'
  PROVE  \A v \in Worker : Meets(v)'
<1> SUFFICES ASSUME NEW v \in Worker PROVE Meets(v)' OBVIOUS
<1>1. PICK c \in Nat : c = call[Root] /\ Op(Root) = Prog[c] /\ Prog[c] \in Collective
  BY RootIs
<1>2. call'[Root] = c /\ Synced(w, c)'
  <2>1. call'[Root] = c BY <1>1
  <2>2. QED BY <1>1
<1>3. v \in Nat /\ w \in Nat /\ Meets(v) /\ Root \in Node BY WorkerIs DEF Met
<1>4. v < w => Synced(v, c)'
  BY <1>1, <1>3, OwnParts DEF Meets, InSync
<1>5. v > w => Waiting(v, c)'
  BY <1>1, <1>3, OwnParts DEF Meets, InSync
<1>6. CASE Later(peer) # {}
  <2>1. peer' \in Worker /\ peer' > w /\ (v > w => peer' <= v)
    BY <1>6, NextWorker DEF NextInSync
  <2>2. pc'[Root] = "putSync"
    BY <1>3, <1>6 DEF NextInSync, Goto, Met, TypeOK
  <2>3. peer' \in Nat BY <2>1, WorkerIs
  <2>4. v = peer' => Requested(v, c)'
    BY <1>3, <1>5, <2>1 DEF Requested, Idle, OnLine
  <2>5. QED
    BY <1>2, <1>3, <1>4, <1>5, <2>1, <2>2, <2>3, <2>4 DEF Meets, InSync, InBody
<1>7. CASE Later(peer) = {}
  <2>1. v <= w BY <1>3, <1>7 DEF Later
  <2>2. peer' = FirstWorker /\ pc'[Root] = Body(Root) /\ idx'[Root] = 0
    BY <1>3, <1>7 DEF NextInSync, Goto, Met, TypeOK
  <2>3. peer' \in Nat /\ v >= peer' BY <1>3, <2>2, FirstWorkerIsWorker, WorkerIs
  <2>4. Synced(v, c)' BY <1>2, <1>3, <1>4, <2>1
  <2>5. QED BY <1>1, <1>2, <1>3, <2>2, <2>3, <2>4, BodyMeets DEF Body
<1>8. QED BY <1>6, <1>7

\* The loop of the collective: the transfer with worker w is over.
LEMMA NextInBodyMeets ==
  ASSUME Met, NEW w \in Worker, peer = w, pc[Root] \in {"put", "get"}, NextInBody,
         call' = call, wire'[Root] = Idle, \A v \in Worker : v # w => Same(v),
         Waiting(w, call[Root] + 1)'
  PROVE  \A v \in Worker : Meets(v)'
<1> SUFFICES ASSUME NEW v \in Worker PROVE Meets(v)' OBVIOUS
<1>1. PICK c \in Nat : c = call[Root] /\ Op(Root) = Prog[c] /\ Prog[c] \in Collective
  BY RootIs
<1>2. call'[Root] = c /\ Waiting(w, c + 1)'
  <2>1. call'[Root] = c BY <1>1
  <2>2. QED BY <1>1
<1>3. v \in Nat /\ w \in Nat /\ Meets(v) /\ Root \in Node BY WorkerIs DEF Met
<1>4. v < w => Waiting(v, c + 1)'
  BY <1>1, <1>3, OwnParts DEF Meets, InBody
<1>5. v > w => Synced(v, c)'
  BY <1>1, <1>3, OwnParts DEF Meets, InBody
<1>6. CASE Later(peer) # {}
  <2>1. peer' \in Worker /\ peer' > w /\ (v > w => peer' <= v)
    BY <1>6, NextWorker DEF NextInBody
  <2>2. pc'[Root] = Body(Root) /\ idx'[Root] = 0
    BY <1>3, <1>6 DEF NextInBody, Goto, Met, TypeOK
  <2>3. peer' \in Nat BY <2>1, WorkerIs
  <2>4. Prog[c] # "barrier" BY <1>1 DEF Met, RootInv
  <2>5. v >= peer' => Synced(v, c)' BY <1>3, <1>5, <2>1, <2>3
  <2>6. v < peer' => Waiting(v, c + 1)' BY <1>2, <1>3, <1>4, <2>1, <2>3
  <2>7. QED BY <1>1, <1>2, <1>3, <2>2, <2>3, <2>4, <2>5, <2>6, BodyMeets DEF Body
<1>7. CASE Later(peer) = {}
  <2>1. v <= w BY <1>3, <1>7 DEF Later
  <2>2. pc'[Root] = "ret" BY <1>3, <1>7 DEF NextInBody, Goto, Met, TypeOK
  <2>3. Waiting(v, c + 1)' BY <1>2, <1>3, <1>4, <2>1
  <2>4. QED BY <1>2, <1>3, <2>2, <2>3 DEF Meets, InSync, InBody
<1>8. QED BY <1>6, <1>7

\* A worker the root is not busy with does not notice how far the root is.
LEMMA BystanderMeets ==
  ASSUME Met, NEW v \in Worker, v # peer, Same(v), peer' = peer,
         call'[Root] = call[Root], (InSync /\ InSync') \/ (InBody /\ InBody')
  PROVE  Meets(v)'
<1>1. PICK c : c = call[Root] OBVIOUS
<1>2. Meets(v) BY DEF Met
<1>3. InSync /\ InSync' /\ v > peer => Waiting(v, c)' BY <1>1, <1>2, OwnParts DEF Meets
<1>4. InSync /\ InSync' /\ v < peer => Synced(v, c)' BY <1>1, <1>2, OwnParts DEF Meets
<1>5. InBody /\ InBody' /\ v > peer => Synced(v, c)' BY <1>1, <1>2, OwnParts DEF Meets
<1>6. InBody /\ InBody' /\ v < peer => Waiting(v, c + 1)'
  BY <1>1, <1>2, OwnParts DEF Meets
<1>7. QED BY <1>1, <1>3, <1>4, <1>5, <1>6 DEF Meets, InSync, InBody

LEMMA WorkerStopBitMeets ==
  ASSUME Met, NEW w \in Worker, StopBit(w) PROVE \A v \in Worker : Meets(v)'
<1>1. /\ peer = w /\ wire[w].got = wire[w].val /\ w # Root /\ w \in Node /\ Root \in Node
      /\ \/ pc[Root] = "getSync" /\ pc[w] = "putSync" /\ Answering(w, call[Root])
         \/ pc[Root] = "get" /\ pc[w] = "put" /\ Collecting(w, call[Root])
  BY WorkerHeard, WorkerIs DEF StopBit
<1>2. wire[w].val = Outgoing(w) /\ wire[Root] = Idle
  BY <1>1, SizeAssumption DEF StopBit, Met, WireInv, Putting
<1>3. Outgoing(w) \in Byte BY <1>1, OutgoingType DEF Met, Putting
<1>4. Get8Returns(Root, Outgoing(w))
  BY <1>1, <1>2, <1>3, WorkerIs DEF StopBit, Byte, NoByte
<1>5. /\ call' = call /\ wire[w].phase = "bits" /\ wire'[w].phase = "stop"
      /\ \A n \in Node : n # w => wire'[n] = wire[n]
  BY <1>1 DEF StopBit, OnLine, Met, TypeOK
<1>6. PICK c \in Nat : c = call[Root] /\ Op(Root) = Prog[c] BY <1>1, RootIs
<1>7. wire[w] # Idle BY <1>5 DEF Idle, OnLine
<1>8. CASE pc[Root] = "getSync"
  <2>1. Outgoing(w) = SyncSignal BY <1>1, <1>8 DEF Outgoing
  <2>2. NextInSync
    BY <1>4, <1>8, <2>1
    DEF Get8Returns, WaitSignalReturns, WaitSignalTimeoutReturns, RecvReturns
  <2>3. /\ \A v \in Worker : v # w => Same(v)
        /\ pc'[w] = pc[w] /\ idx'[w] = idx[w]
    BY <1>1, <1>5, <2>2, WorkerIs DEF Same, NextInSync, Goto, Met, TypeOK
  <2>4. call[w] = c
    BY <1>1, <1>5, <1>6, <1>7, <1>8 DEF Answering, Waiting, Leaving
  <2>5. Synced(w, c)'
    BY <1>1, <1>5, <1>8, <2>3, <2>4 DEF Synced, Waiting, Leaving, Op
  <2>6. QED BY <1>1, <1>2, <1>5, <1>8, <2>2, <2>3, <2>5, <1>6, NextInSyncMeets
<1>9. CASE pc[Root] = "get"
  <2>1. RecvReturns(Root, Outgoing(w))
    BY <1>4, <1>9 DEF Get8Returns, WaitSignalReturns, WaitSignalTimeoutReturns
  <2>2. call[w] = c /\ pc[w] = "put" /\ idx[w] = idx[Root]
    BY <1>1, <1>5, <1>6, <1>9 DEF Collecting
  <2>3. idx[Root] \in Nat /\ idx[w] \in Nat /\ Count \in Nat
    BY <1>1, ProgAssumption DEF Met, TypeOK, Offset
  <2>4. CASE idx[Root] + 1 < Count
    <3>1. /\ pc'[Root] = pc[Root] /\ pc'[w] = pc[w]
          /\ peer' = peer /\ idx'[Root] = idx[Root] + 1
          /\ \A v \in Worker : v # w => Same(v)
          /\ idx'[w] = idx[w]
      BY <1>1, <1>5, <1>9, <2>1, <2>4, WorkerIs DEF RecvReturns, Goto, Same, Met, TypeOK
    <3>2. Collecting(w, c)' BY <1>5, <2>2, <2>3, <3>1 DEF Collecting
    <3>3. Meets(w)' BY <1>1, <1>5, <1>6, <1>9, <3>1, <3>2, WorkerIs DEF Meets, InSync, InBody
    <3>4. ASSUME NEW v \in Worker, v # w PROVE Meets(v)'
      <4>1. InBody /\ InBody' BY <1>9, <3>1 DEF InBody
      <4>2. QED BY <1>1, <1>5, <3>1, <3>4, <4>1, BystanderMeets
    <3>5. QED BY <3>3, <3>4
  <2>5. CASE ~(idx[Root] + 1 < Count)
    <3>1. idx[w] + 1 = Count BY <2>2, <2>3, <2>5, <1>1, ProgAssumption DEF Met, TypeOK, Offset
    <3>2. NextInBody BY <2>1, <2>5 DEF RecvReturns
    <3>3. /\ \A v \in Worker : v # w => Same(v)
          /\ pc'[w] = pc[w] /\ idx'[w] = idx[w]
      BY <1>1, <1>5, <3>2, WorkerIs DEF Same, NextInBody, Goto, Met, TypeOK
    <3>4. Waiting(w, c + 1)'
      BY <1>5, <2>2, <3>1, <3>3 DEF Waiting, Leaving
    <3>5. QED BY <1>1, <1>2, <1>5, <1>6, <1>9, <3>2, <3>3, <3>4, NextInBodyMeets
  <2>6. QED BY <2>4, <2>5
<1>10. QED BY <1>1, <1>8, <1>9

-----------------------------------------------------------------------------
(* The steps of the root.                                                  *)

LEMMA RootEnterMeets ==
  ASSUME Met, Enter(Root) PROVE \A v \in Worker : Meets(v)'
<1> SUFFICES ASSUME NEW v \in Worker PROVE Meets(v)' OBVIOUS
<1>1. PICK c : c = call[Root] OBVIOUS
<1>2. pc[Root] = "run" /\ pc'[Root] = "putSync" /\ call' = call /\ peer' = FirstWorker
      /\ wire' = wire
  BY WorkerIs DEF Enter, Goto, Met, TypeOK
<1>3. Same(v) BY WorkerIs DEF Enter, Goto, Met, TypeOK, Same
<1>4. Waiting(v, c)' BY <1>1, <1>2, <1>3, OwnParts DEF Met, Meets
<1>5. wire[Root] = Idle
  BY <1>2, SizeAssumption, WorkerIs DEF Met, WireInv, Putting
<1>6. Requested(v, c)' BY <1>2, <1>4, <1>5 DEF Requested, Idle, OnLine
<1>7. v >= peer' /\ v \in Nat /\ peer' \in Nat BY <1>2, FirstWorkerIsWorker, WorkerIs
<1>8. QED BY <1>1, <1>2, <1>4, <1>6, <1>7 DEF Meets, InSync, InBody

LEMMA RootReturnMeets ==
  ASSUME Met, Return(Root) PROVE \A v \in Worker : Meets(v)'
<1> SUFFICES ASSUME NEW v \in Worker PROVE Meets(v)' OBVIOUS
<1>1. PICK c : c = call[Root] + 1 OBVIOUS
<1>2. pc[Root] = "ret" /\ pc'[Root] = "run" /\ call'[Root] = c
  BY <1>1, WorkerIs DEF Return, Goto, Met, TypeOK
<1>3. Same(v) BY WorkerIs DEF Return, Goto, Met, TypeOK, Same
<1>4. Waiting(v, c)' BY <1>1, <1>2, <1>3, OwnParts DEF Met, Meets
<1>5. QED BY <1>2, <1>4 DEF Meets, InSync, InBody

\* The step concerns only the worker the root is busy with.
LEMMA PeerMeets ==
  ASSUME Met, peer' = peer, call'[Root] = call[Root],
         (InSync /\ InSync') \/ (InBody /\ InBody'),
         \A v \in Worker : v # peer => Same(v),
         Meets(peer)'
  PROVE  \A v \in Worker : Meets(v)'
<1>1. ASSUME NEW v \in Worker, v = peer PROVE Meets(v)'
  <2>1. peer' = v BY <1>1
  <2>2. QED BY <2>1, <1>1
<1>2. QED BY <1>1, BystanderMeets

LEMMA RootEndDelayMeets ==
  ASSUME Met, EndDelay(Root) PROVE \A v \in Worker : Meets(v)'
<1> SUFFICES ASSUME NEW v \in Worker PROVE Meets(v)' OBVIOUS
<1>1. PICK c : c = call[Root] OBVIOUS
<1>2. /\ pc[Root] = "delay" /\ pc'[Root] = "put" /\ call' = call /\ peer' = peer
      /\ idx' = idx /\ wire' = wire
  BY WorkerIs DEF EndDelay, Goto, Met, TypeOK, PcOf, RootPc
<1>3. Same(v) BY WorkerIs DEF EndDelay, Goto, Met, TypeOK, Same
<1>4. CASE v # peer
  BY <1>2, <1>3, <1>4, BystanderMeets DEF InBody
<1>5. CASE v = peer
  <2>1. Synced(v, c)' BY <1>1, <1>2, <1>3, <1>5, OwnParts DEF Met, Meets
  <2>2. wire[Root] = Idle /\ idx[Root] = 0
    BY <1>2, WorkerIs DEF Met, WireInv, RootInv, Putting
  <2>3. Sending(v, c)' BY <1>2, <2>1, <2>2 DEF Sending, Idle, OnLine
  <2>4. v \in Nat BY WorkerIs
  <2>5. QED BY <1>1, <1>2, <1>5, <2>3, <2>4 DEF Meets, InSync, InBody
<1>6. QED BY <1>4, <1>5

LEMMA ExpireMeets ==
  ASSUME Met, NeverBlowsUp, NEW n \in Node, Expire(n) PROVE \A v \in Worker : Meets(v)'
<1>1. n = Root /\ pc[Root] = "getSync" /\ timer[Root] = 0
  <2>1. pc[n] \in {"getSync", "get"} /\ timer[n] = 0 BY DEF Expire
  <2>2. pc[n] = "getSync" BY <2>1 DEF NeverBlowsUp
  <2>3. n = Root BY <2>2 DEF Met, TypeOK, PcOf, WorkerPc
  <2>4. QED BY <2>1, <2>2, <2>3
<1>2. WaitSignalTimeoutReturns(Root, TimedOut)
  BY <1>1 DEF Expire, Get8Returns, WaitSignalReturns, RecvReturns
<1>3. /\ pc'[Root] = "putSync" /\ call' = call /\ peer' = peer
      /\ idx' = idx /\ wire' = wire /\ \A v \in Worker : Same(v)
  BY <1>1, <1>2, WorkerIs
  DEF WaitSignalTimeoutReturns, Expire, Goto, Met, TypeOK, Same, TimedOut, SyncSignal
<1> SUFFICES ASSUME NEW v \in Worker PROVE Meets(v)' OBVIOUS
<1>4. PICK c : c = call[Root] OBVIOUS
<1>5. CASE v # peer
  BY <1>1, <1>3, <1>5, BystanderMeets DEF InSync
<1>6. CASE v = peer
  <2>1. Answering(v, c) BY <1>1, <1>4, <1>6 DEF Met, Meets
  <2>2. timer[v] \in Nat BY WorkerIs DEF Met, TypeOK
  <2>3. Waiting(v, c) BY <1>1, <2>1, <2>2 DEF Answering
  <2>4. Waiting(v, c)' BY <1>3, <2>3, OwnParts
  <2>5. wire[Root] = Idle BY <1>1, WorkerIs DEF Met, WireInv, Putting
  <2>6. Requested(v, c)' BY <1>3, <2>4, <2>5 DEF Requested, Idle, OnLine
  <2>7. v \in Nat BY WorkerIs
  <2>8. QED BY <1>3, <1>4, <1>6, <2>6, <2>7 DEF Meets, InSync, InBody
<1>7. QED BY <1>5, <1>6

LEMMA RootStartBitMeets ==
  ASSUME Met, StartBit(Root) PROVE \A v \in Worker : Meets(v)'
<1> SUFFICES ASSUME NEW v \in Worker PROVE Meets(v)' OBVIOUS
<1>1. PICK c : c = call[Root] OBVIOUS
<1>2. /\ pc[Root] \in {"putSync", "putSend", "put"} /\ wire[Root] = Idle
      /\ wire'[Root].phase = "start" /\ UNCHANGED <<pc, call, peer, idx, timer>>
  BY WorkerIs DEF StartBit, Met, TypeOK, Putting, OnLine
<1>3. Same(v) BY WorkerIs DEF StartBit, Met, TypeOK, Same
<1>4. CASE v # peer
  BY <1>2, <1>3, <1>4, BystanderMeets DEF InSync, InBody
<1>5. CASE v = peer
  <2>1. \A d : Waiting(v, d) => Waiting(v, d)' BY <1>3, OwnParts
  <2>2. \A d : Synced(v, d) => Synced(v, d)' BY <1>3, OwnParts
  <2>3. Meets(v) /\ v \in Nat BY WorkerIs DEF Met
  <2>4. pc[Root] = "putSync" => Requested(v, c)'
    BY <1>1, <1>2, <1>5, <2>1, <2>3 DEF Meets, Requested, Idle, OnLine
  <2>5. pc[Root] = "putSend" => Calling(v, c)'
    BY <1>1, <1>2, <1>5, <2>2, <2>3 DEF Meets, Calling, Idle, OnLine
  <2>6. pc[Root] = "put" => Sending(v, c)'
    BY <1>1, <1>2, <1>3, <1>5, <2>2, <2>3 DEF Meets, Sending, AtByte, Idle, OnLine, Same
  <2>7. QED
    BY <1>1, <1>2, <1>5, <2>3, <2>4, <2>5, <2>6 DEF Meets, InSync, InBody
<1>6. QED BY <1>4, <1>5

\* The byte of the root that a polling worker can get.
LEMMA RootHeard ==
  ASSUME Met, wire[Root].phase \in {"bits", "stop"}
  PROVE  /\ pc[Root] \in {"putSync", "putSend", "put"}
         /\ wire[Root].val = Outgoing(Root)
         /\ wire[Root].phase = "bits" /\ pc[Root] # "putSync" =>
               /\ wire[Root].got = wire[Root].val
               /\ pc[peer] = (IF pc[Root] = "put" THEN "get" ELSE "waitSend")
<1>0. Root \in Node /\ peer \in Worker BY WorkerIs DEF Met, TypeOK
<1>1. pc[Root] \in {"putSync", "putSend", "put"} /\ wire[Root].val = Outgoing(Root)
  BY <1>0 DEF Met, WireInv, Putting
<1>2. ASSUME wire[Root].phase = "bits", pc[Root] = "put"
      PROVE  wire[Root].got = wire[Root].val /\ pc[peer] = "get"
  BY <1>0, <1>2 DEF Met, Meets, Sending, AtByte, Heard
<1>3. ASSUME wire[Root].phase = "bits", pc[Root] = "putSend"
      PROVE  wire[Root].got = wire[Root].val /\ pc[peer] = "waitSend"
  <2>1. Calling(peer, call[Root]) BY <1>0, <1>3 DEF Met, Meets
  <2>2. Ready(peer, call[Root]) /\ Heard(Root) BY <1>3, <2>1 DEF Calling
  <2>3. Op(peer) = "gather"
    BY <1>3, <2>2 DEF Met, RootInv, Ready, Op
  <2>4. QED BY <1>0, <1>3, <2>2, <2>3, BodyIs, WorkerIs DEF Ready, Body, Heard
<1>4. QED BY <1>1, <1>2, <1>3

\* Prompt, or a third Pi: the worker that has answered polls by now.
LEMMA PeerPolls ==
  ASSUME Met, Prompt \/ Size > 2, DataBits(Root), InBody
  PROVE  ~(pc[peer] = "putSync" /\ wire[peer].phase = "stop")
<1>1. CASE Prompt BY <1>1 DEF DataBits, Partner
<1>2. CASE Size > 2 BY <1>2 DEF Met, TurnInv
<1>3. QED BY <1>1, <1>2

LEMMA RootDataBitsMeets ==
  ASSUME Met, Prompt \/ Size > 2, DataBits(Root) PROVE \A v \in Worker : Meets(v)'
<1>1. PICK c : c = call[Root] OBVIOUS
<1>2. /\ wire[Root].phase = "start" /\ wire'[Root].phase = "bits"
      /\ wire'[Root].val = wire[Root].val
      /\ wire'[Root].got = IF Listens(peer, Root) THEN wire[Root].val ELSE NoByte
      /\ UNCHANGED <<pc, call, peer, idx, timer>>
  BY WorkerIs DEF DataBits, Met, TypeOK, OnLine, Partner
<1>3. pc[Root] \in {"putSync", "putSend", "put"}
  BY <1>2, SizeAssumption DEF Met, WireInv, Putting
<1>4. \A v \in Worker : Same(v) BY WorkerIs DEF DataBits, Met, TypeOK, Same
<1>5. PICK w \in Worker : w = peer BY DEF Met, TypeOK
<1>6. Meets(w) /\ w \in Nat /\ Partner(w) = Root /\ Partner(Root) = w
  BY <1>5, WorkerIs DEF Met, Partner
<1>7. Listens(w, Root) <=> pc[w] \in Getting BY <1>6 DEF Listens
<1>8. \A d : Waiting(w, d) => Waiting(w, d)' BY <1>4, OwnParts
<1>9. pc[Root] = "putSync" => Requested(w, c)'
  <2>1. Waiting(w, c) /\ pc[w] \in Getting => call[w] = c /\ pc[w] = "waitSync"
    BY DEF Waiting, Leaving, Getting
  <2>2. pc[Root] = "putSync" => Waiting(w, c)
    BY <1>1, <1>2, <1>5, <1>6 DEF Meets, Requested
  <2>3. QED BY <1>2, <1>4, <1>5, <1>7, <1>8, <2>1, <2>2 DEF Requested, Same
<1>10. ASSUME pc[Root] = "put" PROVE Sending(w, c)'
  <2>1. Op(Root) = Prog[c] /\ Prog[c] \in {"bcast", "scatter"}
    BY <1>10, <1>1 DEF Met, RootInv, Op
  <2>2. AtByte(w, c, idx[Root])
    <3>1. AtByte(w, c, idx[Root]) \/ (idx[Root] = 0 /\ Synced(w, c))
      BY <1>1, <1>2, <1>5, <1>6, <1>10 DEF Meets, Sending
    <3>2. Synced(w, c) => Ready(w, c)
      BY <1>5, <1>10, <2>1, PeerPolls DEF Synced, InBody
    <3>3. Ready(w, c) => pc[w] = "get"
      BY <2>1, BodyIs, WorkerIs DEF Ready, Body, Op
    <3>4. QED BY <3>1, <3>2, <3>3 DEF Ready, AtByte
  <2>3. AtByte(w, c, idx[Root])' /\ Heard(Root)'
    BY <1>2, <1>4, <1>5, <1>7, <2>2 DEF AtByte, Same, Heard, Getting, Idle
  <2>4. QED BY <1>2, <2>3 DEF Sending
<1>11. ASSUME pc[Root] = "putSend" PROVE Calling(w, c)'
  <2>1. Op(Root) = Prog[c] /\ Prog[c] = "gather"
    BY <1>11, <1>1 DEF Met, RootInv, Op
  <2>2. Ready(w, c) /\ pc[w] = "waitSend"
    <3>1. Synced(w, c)
      BY <1>1, <1>2, <1>5, <1>6, <1>11 DEF Meets, Calling
    <3>2. Synced(w, c) => Ready(w, c)
      BY <1>5, <1>11, <2>1, PeerPolls DEF Synced, InBody
    <3>3. Ready(w, c) => pc[w] = "waitSend"
      BY <2>1, BodyIs, WorkerIs DEF Ready, Body, Op
    <3>4. QED BY <3>1, <3>2, <3>3
  <2>3. Body(w)' = Body(w) BY <1>2 DEF Body, Op
  <2>4. Ready(w, c)' /\ Heard(Root)'
    BY <1>2, <1>4, <1>5, <1>7, <2>2, <2>3 DEF Ready, Same, Heard, Getting, Idle
  <2>5. QED BY <1>2, <2>4 DEF Calling
<1>12. Meets(peer)'
  BY <1>1, <1>2, <1>3, <1>5, <1>6, <1>9, <1>10, <1>11 DEF Meets, InSync, InBody
<1>13. QED BY <1>2, <1>3, <1>4, <1>12, PeerMeets DEF InSync, InBody

LEMMA RootMisreadMeets ==
  ASSUME Met, Misread(Root) PROVE \A v \in Worker : Meets(v)'
<1>1. PICK c : c = call[Root] OBVIOUS
<1>2. /\ wire[Root].phase = "bits" /\ wire[Root].got = NoByte
      /\ wire'[Root].phase = "bits" /\ Listens(peer, Root)
      /\ UNCHANGED <<pc, call, peer, idx, timer>>
  BY WorkerIs DEF Misread, Met, TypeOK, OnLine, Partner
<1>3. pc[Root] = "putSync"
  <2>1. pc[Root] \in Putting /\ wire[Root].val = Outgoing(Root)
    BY <1>2, SizeAssumption DEF Met, WireInv
  <2>2. wire[Root].val # NoByte
    BY <2>1, OutgoingType, SizeAssumption DEF Met, Byte, NoByte
  <2>3. QED BY <1>2, <2>2, RootHeard
<1>4. \A v \in Worker : Same(v) BY WorkerIs DEF Misread, Met, TypeOK, Same
<1>5. PICK w \in Worker : w = peer BY DEF Met, TypeOK
<1>6. Meets(w) /\ w \in Nat BY <1>5, WorkerIs DEF Met
<1>7. Waiting(w, c) BY <1>1, <1>2, <1>3, <1>5, <1>6 DEF Meets, Requested
<1>8. Waiting(w, c)' BY <1>4, <1>7, OwnParts
<1>9. call[w] = c /\ pc[w] = "waitSync"
  BY <1>2, <1>5, <1>7 DEF Waiting, Leaving, Getting, Listens
<1>10. Requested(w, c)' BY <1>2, <1>8, <1>9 DEF Requested
<1>11. Meets(peer)' BY <1>1, <1>2, <1>3, <1>5, <1>6, <1>10 DEF Meets, InSync, InBody
<1>12. QED BY <1>2, <1>3, <1>4, <1>11, PeerMeets DEF InSync

LEMMA RootStopBitMeets ==
  ASSUME Met, StopBit(Root) PROVE \A v \in Worker : Meets(v)'
<1>1. PICK c \in Nat : c = call[Root]
  BY ProgAssumption, SizeAssumption DEF Met, TypeOK
<1>2. /\ wire[Root].phase = "bits" /\ wire'[Root].phase = "stop" /\ call' = call
      /\ \A n \in Node : n # Root => wire'[n] = wire[n]
      /\ IF wire[Root].got = NoByte
         THEN UNCHANGED <<pc, peer, idx, timer, buf>>
         ELSE Get8Returns(peer, wire[Root].got)
  BY SizeAssumption DEF StopBit, Met, TypeOK, OnLine, Partner
<1>3. PICK w \in Worker : w = peer BY DEF Met, TypeOK
<1>4. Meets(w) /\ w \in Nat /\ w # Root /\ w \in Node /\ Root \in Node /\ wire'[w] = wire[w]
  BY <1>2, <1>3, WorkerIs DEF Met
<1>5. /\ pc[Root] \in {"putSync", "putSend", "put"}
      /\ wire[Root].val = Outgoing(Root) /\ Outgoing(Root) \in Byte
      /\ pc[Root] # "putSync" =>
            /\ wire[Root].got = Outgoing(Root) /\ Outgoing(Root) # NoByte
            /\ pc[w] = (IF pc[Root] = "put" THEN "get" ELSE "waitSend")
  <2>1. wire[Root].val = Outgoing(Root) /\ pc[Root] \in {"putSync", "putSend", "put"}
    BY <1>2, RootHeard
  <2>2. Outgoing(Root) \in Byte
    BY <1>4, <2>1, OutgoingType DEF Met, Putting
  <2>3. Outgoing(Root) # NoByte BY <2>2 DEF Byte, NoByte
  <2>4. QED BY <1>2, <1>3, <2>1, <2>2, <2>3, RootHeard
<1>6. Body(w) # "run" BY <1>4, BodyType
\* Only w moves, and only if the byte reaches it.
<1>7. /\ peer' = peer /\ pc'[Root] = pc[Root] /\ idx'[Root] = idx[Root]
      /\ \A v \in Worker : v # peer => Same(v)
  <2>1. CASE wire[Root].got = NoByte
    BY <1>2, <2>1, WorkerIs DEF Same
  <2>2. CASE wire[Root].got # NoByte
    <3>1. Get8Returns(w, wire[Root].got) BY <1>2, <1>3, <2>2
    <3>2. pc[w] # "getSync" BY <1>4 DEF Met, TypeOK, PcOf, WorkerPc
    <3>3. QED
      BY <1>2, <1>3, <1>4, <3>1, <3>2, WorkerIs
      DEF Same, Get8Returns, WaitSignalReturns, WaitSignalTimeoutReturns, RecvReturns,
          Goto, Met, TypeOK
  <2>3. QED BY <2>1, <2>2
<1>8. CASE pc[Root] = "putSync"
  <2>1. /\ Waiting(w, c)
        /\ wire[Root].got # NoByte => call[w] = c /\ pc[w] = "waitSync"
    BY <1>1, <1>2, <1>3, <1>4, <1>8 DEF Meets, Requested
  <2>2. CASE wire[Root].got = NoByte
    <3>1. Same(w) BY <1>2, <1>4, <2>2 DEF Same
    <3>2. Waiting(w, c)' BY <2>1, <3>1, OwnParts
    <3>3. Requested(w, c)' BY <1>2, <3>2 DEF Requested
    <3>4. Meets(peer)'
      BY <1>1, <1>2, <1>3, <1>4, <1>7, <1>8, <3>3 DEF Meets, InSync, InBody
    <3>5. QED BY <1>2, <1>7, <1>8, <3>4, PeerMeets DEF InSync
  <2>3. CASE wire[Root].got # NoByte
    <3>1. Get8Returns(w, wire[Root].got) BY <1>2, <1>3, <2>3
    <3>2. WaitSignalReturns(w, wire[Root].got)
      BY <2>1, <2>3, <3>1 DEF Get8Returns, WaitSignalTimeoutReturns, RecvReturns
    <3>3. wire[w] = Idle BY <1>4, <2>1, <2>3 DEF Met, WireInv, Putting
    <3>4. \/ pc'[w] = "delaySync" /\ timer'[w] = Delay
          \/ pc'[w] = "waitSync"
      <4>1. CASE wire[Root].got = SyncSignal
        BY <1>4, <2>1, <2>3, <3>2, <4>1, TicksIs DEF WaitSignalReturns, Goto, Met, TypeOK
      <4>2. CASE wire[Root].got # SyncSignal
        BY <1>4, <2>1, <2>3, <3>2, <4>2 DEF WaitSignalReturns
      <4>3. QED BY <4>1, <4>2
    <3>5. Requested(w, c)'
      BY <1>2, <1>4, <2>1, <2>3, <3>3, <3>4 DEF Requested, Waiting, Idle
    <3>6. Meets(peer)'
      BY <1>1, <1>2, <1>3, <1>4, <1>7, <1>8, <3>5 DEF Meets, InSync, InBody
    <3>7. QED BY <1>2, <1>7, <1>8, <3>6, PeerMeets DEF InSync
  <2>4. QED BY <2>2, <2>3
<1>9. CASE pc[Root] = "put"
  <2>1. AtByte(w, c, idx[Root])
    BY <1>1, <1>2, <1>3, <1>4, <1>9 DEF Meets, Sending
  <2>2. RecvReturns(w, Outgoing(Root))
    BY <1>2, <1>3, <1>5, <1>9 DEF Get8Returns, WaitSignalReturns, WaitSignalTimeoutReturns
  <2>3. CASE idx[w] + 1 < Count
    <3>1. pc'[w] = "get" /\ idx'[w] = idx[w] + 1
      BY <1>4, <2>2, <2>3 DEF RecvReturns, Goto, Met, TypeOK
    <3>2. AtByte(w, c, idx[Root] + 1)'
      BY <1>2, <1>4, <2>1, <3>1, <1>7 DEF AtByte, Idle
    <3>3. Sending(w, c)' BY <1>2, <1>7, <2>1, <2>3, <3>2 DEF Sending, AtByte
    <3>4. QED
      BY <1>1, <1>2, <1>3, <1>4, <1>7, <1>9, <3>3, PeerMeets DEF Meets, InSync, InBody
  <2>4. CASE ~(idx[w] + 1 < Count)
    <3>1. pc'[w] = "ret"
      BY <1>4, <2>2, <2>4 DEF RecvReturns, Goto, Met, TypeOK
    <3>2. Waiting(w, c + 1)'
      BY <1>1, <1>2, <1>4, <2>1, <3>1 DEF Waiting, Leaving, AtByte, Idle
    <3>3. Sending(w, c)' BY <1>2, <1>7, <2>1, <2>4, <3>2 DEF Sending, AtByte
    <3>4. QED
      BY <1>1, <1>2, <1>3, <1>4, <1>7, <1>9, <3>3, PeerMeets DEF Meets, InSync, InBody
  <2>5. QED BY <2>3, <2>4
<1>10. CASE pc[Root] = "putSend"
  <2>1. Ready(w, c)
    BY <1>1, <1>2, <1>3, <1>4, <1>10 DEF Meets, Calling
  <2>2. Outgoing(Root) = SendSignal BY <1>10 DEF Outgoing
  <2>3. WaitSignalReturns(w, SendSignal)
    BY <1>2, <1>3, <1>5, <1>10, <2>2
    DEF Get8Returns, RecvReturns, WaitSignalTimeoutReturns
  <2>4. Goto(w, "delay") /\ idx'[w] = 0
    BY <1>4, <1>5, <1>10, <2>3 DEF WaitSignalReturns, Met, TypeOK
  <2>5. pc'[w] = "delay" /\ timer'[w] = Delay
    BY <1>4, <2>4, TicksIs DEF Goto, Met, TypeOK
  <2>6. Calling(w, c)' BY <1>2, <1>4, <2>1, <2>4, <2>5 DEF Calling, Ready, Idle
  <2>7. QED
    BY <1>1, <1>2, <1>3, <1>4, <1>7, <1>10, <2>6, PeerMeets DEF Meets, InSync, InBody
<1>11. QED BY <1>5, <1>8, <1>9, <1>10

LEMMA RootPut8ReturnsMeets ==
  ASSUME Met, Put8Returns(Root) PROVE \A v \in Worker : Meets(v)'
<1>1. PICK c \in Nat : c = call[Root]
  BY ProgAssumption, SizeAssumption DEF Met, TypeOK
<1>2. PICK w \in Worker : w = peer BY DEF Met, TypeOK
<1>3. Meets(w) /\ w \in Nat /\ w # Root /\ w \in Node /\ Root \in Node
  BY WorkerIs DEF Met
<1>4. /\ wire[Root].phase = "stop" /\ wire'[Root] = Idle /\ call' = call
      /\ \A n \in Node : n # Root => wire'[n] = wire[n]
  BY <1>3 DEF Put8Returns, Met, TypeOK
<1>5. idx[Root] \in Nat /\ Count \in Nat /\ idx[Root] < Count
  BY <1>3, ProgAssumption DEF Met, TypeOK, Offset
<1>6. CASE pc[Root] = "putSync"
  <2>1. Goto(Root, "getSync") /\ peer' = peer /\ \A n \in Node : n # Root => idx'[n] = idx[n]
    BY <1>3, <1>6 DEF Put8Returns, Met, TypeOK
  <2>2. pc'[Root] = "getSync" /\ timer'[Root] = Timeout /\ \A v \in Worker : Same(v)
    BY <1>3, <1>4, <2>1, TicksIs, WorkerIs DEF Goto, Met, TypeOK, Same
  <2>3. Answering(w, c)'
    <3>1. Requested(w, c) BY <1>1, <1>2, <1>3, <1>6 DEF Meets
    <3>2. CASE Waiting(w, c) BY <2>2, <3>2, OwnParts DEF Answering
    <3>3. CASE ~Waiting(w, c)
      BY <2>2, <3>1, <3>3, TimeAssumption DEF Requested, Answering, Same, Idle
    <3>4. QED BY <3>2, <3>3
  <2>4. Meets(peer)' BY <1>1, <1>2, <1>3, <1>4, <2>1, <2>2, <2>3 DEF Meets, InSync, InBody
  <2>5. QED BY <1>4, <1>6, <2>1, <2>2, <2>4, PeerMeets DEF InSync
<1>7. CASE pc[Root] = "putSend"
  <2>1. Goto(Root, "get") /\ peer' = peer /\ idx' = idx
    BY <1>7 DEF Put8Returns
  <2>2. pc'[Root] = "get" /\ \A v \in Worker : Same(v)
    BY <1>3, <1>4, <2>1, WorkerIs DEF Goto, Met, TypeOK, Same
  <2>3. Calling(w, c) /\ idx[Root] = 0
    BY <1>1, <1>2, <1>3, <1>7 DEF Meets, Met, RootInv
  <2>4. Collecting(w, c)'
    BY <1>4, <2>1, <2>2, <2>3 DEF Calling, Collecting, Same, Idle
  <2>5. Meets(peer)' BY <1>1, <1>2, <1>3, <1>4, <2>1, <2>2, <2>4 DEF Meets, InSync, InBody
  <2>6. QED BY <1>4, <1>7, <2>1, <2>2, <2>5, PeerMeets DEF InBody
<1>8. CASE pc[Root] = "put" /\ idx[Root] + 1 < Count
  <2>1. idx'[Root] = idx[Root] + 1 /\ UNCHANGED <<pc, peer, timer>>
        /\ \A n \in Node : n # Root => idx'[n] = idx[n]
    BY <1>3, <1>5, <1>8 DEF Put8Returns, Met, TypeOK
  <2>2. \A v \in Worker : Same(v)
    BY <1>3, <1>4, <2>1, WorkerIs DEF Same
  <2>3. AtByte(w, c, idx[Root] + 1)
    BY <1>1, <1>2, <1>3, <1>4, <1>8 DEF Meets, Sending
  <2>4. Sending(w, c)'
    BY <1>4, <2>1, <2>2, <2>3 DEF Sending, AtByte, Same, Idle, OnLine
  <2>5. Meets(peer)'
    BY <1>1, <1>2, <1>3, <1>4, <1>8, <2>1, <2>4 DEF Meets, InSync, InBody
  <2>6. QED BY <1>4, <1>8, <2>1, <2>2, <2>5, PeerMeets DEF InBody
<1>9. CASE pc[Root] = "put" /\ ~(idx[Root] + 1 < Count)
  <2>1. NextInBody BY <1>5, <1>9 DEF Put8Returns
  <2>2. \A v \in Worker : Same(v)
    BY <1>3, <1>4, <2>1, WorkerIs DEF NextInBody, Goto, Met, TypeOK, Same
  <2>3. Waiting(w, c + 1)
    BY <1>1, <1>2, <1>3, <1>4, <1>9 DEF Meets, Sending
  <2>4. Waiting(w, c + 1)' BY <2>2, <2>3, OwnParts
  <2>5. QED BY <1>1, <1>2, <1>4, <1>9, <2>1, <2>2, <2>4, NextInBodyMeets
<1>10. QED
  BY <1>3, <1>4, <1>6, <1>7, <1>8, <1>9, SizeAssumption
  DEF Met, WireInv, TypeOK, PcOf, RootPc, Putting, Put8Returns

\* Every step keeps the workers in place.
LEMMA StepMeets ==
  ASSUME Met, NeverBlowsUp, Prompt \/ Size > 2, [Next]_vars
  PROVE  \A v \in Worker : Meets(v)'
<1>1. ASSUME NEW n \in Node, Step(n) PROVE \A v \in Worker : Meets(v)'
  <2>1. CASE Expire(n) BY <2>1, ExpireMeets
  <2>2. CASE n = Root
    BY <1>1, <2>1, <2>2, RootEnterMeets, RootReturnMeets, RootEndDelayMeets,
       RootStartBitMeets, RootDataBitsMeets, RootMisreadMeets, RootStopBitMeets,
       RootPut8ReturnsMeets
    DEF Step
  <2>3. CASE n \in Worker
    BY <1>1, <2>1, <2>3, EnterMeets, ReturnMeets, EndDelayMeets, StartBitMeets,
       DataBitsMeets, MisreadMeets, WorkerStopBitMeets, Put8ReturnsMeets
    DEF Step
  <2>4. QED BY <2>2, <2>3 DEF Worker
<1>2. CASE Tick BY <1>2, TickMeets
<1>3. ASSUME UNCHANGED vars PROVE \A v \in Worker : Meets(v)'
  BY <1>3, MeetsFrame DEF vars, Same, Met
<1>4. QED BY <1>1, <1>2, <1>3 DEF Next, Terminated

-----------------------------------------------------------------------------
(* WireInv, RootInv and TurnInv.                                           *)

LEMMA OutgoingFrame ==
  ASSUME NEW n \in Node, pc'[n] = pc[n], call'[n] = call[n], idx'[n] = idx[n],
         n = Root => peer' = peer
  PROVE  Outgoing(n)' = Outgoing(n)
<1>1. Op(n)' = Op(n) BY DEF Op
<1>2. DataByte(n)' = DataByte(n) BY <1>1 DEF DataByte
<1>3. QED BY <1>2 DEF Outgoing

\* A get8 that returns moves its caller and nobody else.
LEMMA Get8Moves ==
  ASSUME TypeOK, NEW m \in Node, NEW v, Get8Returns(m, v)
  PROVE  /\ pc[m] \notin Putting
         /\ \A n \in Node : n # m =>
               pc'[n] = pc[n] /\ idx'[n] = idx[n] /\ buf'[n] = buf[n]
         /\ m # Root => peer' = peer
<1>1. CASE WaitSignalReturns(m, v)
  BY <1>1 DEF WaitSignalReturns, Goto, Putting, TypeOK
<1>2. CASE WaitSignalTimeoutReturns(m, v)
  <2>1. m = Root BY <1>2 DEF WaitSignalTimeoutReturns, TypeOK, PcOf, WorkerPc
  <2>2. QED
    BY <1>2, <2>1 DEF WaitSignalTimeoutReturns, NextInSync, Goto, Putting, TypeOK
<1>3. CASE RecvReturns(m, v)
  BY <1>3 DEF RecvReturns, NextInBody, Goto, Putting, TypeOK
<1>4. QED BY <1>1, <1>2, <1>3 DEF Get8Returns

\* Nothing happens to the frame of n and to what n is sending.
Still(n) == /\ wire'[n] = wire[n] /\ pc'[n] = pc[n] /\ call'[n] = call[n]
            /\ idx'[n] = idx[n] /\ (n = Root => peer' = peer)

FrameInv(n) ==
    /\ wire[n].phase = "idle" => wire[n] = Idle
    /\ wire[n].phase # "idle" => pc[n] \in Putting /\ wire[n].val = Outgoing(n)

LEMMA StillFrame == ASSUME NEW n \in Node, FrameInv(n), Still(n) PROVE FrameInv(n)'
BY OutgoingFrame DEF FrameInv, Still, Idle

LEMMA IdleFrame == ASSUME NEW n \in Node, wire'[n] = Idle PROVE FrameInv(n)'
BY DEF FrameInv, Idle, OnLine

LEMMA StepWire ==
  ASSUME Met, [Next]_vars PROVE WireInv'
<1> SUFFICES ASSUME NEW m \in Node PROVE FrameInv(m)' BY DEF WireInv, FrameInv
<1> USE DEF Met
<1>1. FrameInv(m) BY DEF WireInv, FrameInv
<1>2. pc[m] \notin Putting => wire[m] = Idle BY <1>1 DEF FrameInv
<1>3. Root \in Node BY SizeAssumption
<1>4. ASSUME NEW n \in Node, Enter(n) \/ Return(n) \/ EndDelay(n) PROVE FrameInv(m)'
  <2>1. pc[n] \notin Putting /\ wire' = wire /\ n # Root => peer' = peer
    BY <1>4 DEF Enter, Return, EndDelay, Putting
  <2>2. n # m => Still(m) BY <1>3, <1>4 DEF Enter, Return, EndDelay, Goto, TypeOK, Still
  <2>3. n = m => wire'[m] = Idle
    BY <1>2, <1>4 DEF Enter, Return, EndDelay, Putting
  <2>4. QED BY <1>1, <2>2, <2>3, StillFrame, IdleFrame
<1>5. ASSUME NEW n \in Node, Expire(n) PROVE FrameInv(m)'
  <2>1. Get8Returns(n, TimedOut) /\ call' = call /\ wire' = wire BY <1>5 DEF Expire
  <2>2. n # m => Still(m) BY <2>1, Get8Moves DEF Still
  <2>3. n = m => wire'[m] = Idle BY <1>2, <2>1, Get8Moves
  <2>4. QED BY <1>1, <2>2, <2>3, StillFrame, IdleFrame
<1>6. ASSUME NEW n \in Node, StartBit(n) PROVE FrameInv(m)'
  <2>1. n # m => Still(m) BY <1>6 DEF StartBit, TypeOK, Still
  <2>2. CASE n = m
    <3>1. wire'[m] = OnLine("start", Outgoing(m), NoByte) /\ pc[m] \in Putting
      BY <1>6, <2>2 DEF StartBit, TypeOK
    <3>2. pc' = pc /\ Outgoing(m)' = Outgoing(m) BY <1>6, OutgoingFrame DEF StartBit
    <3>3. QED BY <3>1, <3>2 DEF FrameInv, OnLine
  <2>3. QED BY <1>1, <2>1, <2>2, StillFrame
<1>7. ASSUME NEW n \in Node, DataBits(n) \/ Misread(n) PROVE FrameInv(m)'
  <2>1. n # m => Still(m) BY <1>7 DEF DataBits, Misread, TypeOK, Still
  <2>2. CASE n = m
    <3>1. /\ wire[m].phase # "idle" /\ wire'[m].phase = "bits"
          /\ wire'[m].val = wire[m].val
      BY <1>7, <2>2 DEF DataBits, Misread, TypeOK, OnLine
    <3>2. pc' = pc /\ Outgoing(m)' = Outgoing(m)
      BY <1>7, OutgoingFrame DEF DataBits, Misread
    <3>3. QED BY <1>1, <3>1, <3>2 DEF FrameInv
  <2>3. QED BY <1>1, <2>1, <2>2, StillFrame
<1>8. ASSUME NEW n \in Node, StopBit(n) PROVE FrameInv(m)'
  <2>1. /\ wire[n].phase = "bits" /\ wire'[n].phase = "stop" /\ wire'[n].val = wire[n].val
        /\ \A k \in Node : k # n => wire'[k] = wire[k]
        /\ call' = call
    BY <1>8 DEF StopBit, TypeOK, OnLine
  <2>2. pc[n] \in Putting BY <2>1 DEF WireInv
  <2>3. Partner(n) \in Node BY <1>3 DEF Partner, TypeOK, Worker
  <2>4. CASE wire[n].got = NoByte
    <3>1. pc' = pc /\ idx' = idx /\ peer' = peer BY <1>8, <2>4 DEF StopBit
    <3>2. Outgoing(m)' = Outgoing(m) BY <2>1, <3>1, OutgoingFrame
    <3>3. QED BY <1>1, <2>1, <3>1, <3>2, StillFrame DEF FrameInv, Still
  <2>5. CASE wire[n].got # NoByte
    <3>1. Get8Returns(Partner(n), wire[n].got) BY <1>8, <2>5 DEF StopBit
    <3>2. /\ pc[Partner(n)] \notin Putting
          /\ \A k \in Node : k # Partner(n) => pc'[k] = pc[k] /\ idx'[k] = idx[k]
          /\ Partner(n) # Root => peer' = peer
      BY <2>3, <3>1, Get8Moves
    <3>3. CASE m = Partner(n)
      BY <1>2, <2>1, <2>2, <3>2, <3>3, IdleFrame
    <3>4. CASE m # Partner(n)
      <4>1. pc'[m] = pc[m] /\ idx'[m] = idx[m] /\ (m = Root => peer' = peer)
        BY <1>3, <3>2, <3>4 DEF Partner
      <4>2. Outgoing(m)' = Outgoing(m) BY <2>1, <4>1, OutgoingFrame
      <4>3. CASE m = n BY <1>1, <2>1, <4>1, <4>2, <4>3 DEF FrameInv
      <4>4. CASE m # n BY <1>1, <2>1, <4>1, <4>4, StillFrame DEF Still
      <4>5. QED BY <4>3, <4>4
    <3>5. QED BY <3>3, <3>4
  <2>6. QED BY <2>4, <2>5
<1>9. ASSUME NEW n \in Node, Put8Returns(n) PROVE FrameInv(m)'
  <2>1. /\ wire'[n] = Idle /\ call' = call
        /\ \A k \in Node : k # n => wire'[k] = wire[k]
    BY <1>9 DEF Put8Returns, TypeOK
  <2>2. pc[n] = "putSend" => n = Root BY DEF TypeOK, PcOf, WorkerPc
  <2>3. ASSUME m # n PROVE pc'[m] = pc[m] /\ idx'[m] = idx[m] /\ (m = Root => peer' = peer)
    BY <1>3, <1>9, <2>2, <2>3 DEF Put8Returns, NextInBody, Goto, TypeOK
  <2>4. n # m => Still(m) BY <2>1, <2>3 DEF Still
  <2>5. QED BY <1>1, <2>1, <2>4, StillFrame, IdleFrame
<1>10. CASE Tick BY <1>1, <1>10, StillFrame DEF Tick, Still
<1>11. CASE UNCHANGED vars BY <1>1, <1>11, StillFrame DEF vars, Still
<1>12. QED
  BY <1>4, <1>5, <1>6, <1>7, <1>8, <1>9, <1>10, <1>11 DEF Next, Step, Terminated

\* Only these steps move the root, or its loop variables.
RootStep == \/ Enter(Root) \/ Return(Root) \/ EndDelay(Root) \/ Expire(Root)
            \/ (\E w \in Worker : StopBit(w)) \/ Put8Returns(Root)

LEMMA RootStill ==
  ASSUME Met, [Next]_vars, ~RootStep
  PROVE  pc'[Root] = pc[Root] /\ call'[Root] = call[Root] /\ idx'[Root] = idx[Root]
         /\ peer' = peer /\ buf'[Root] = buf[Root]
<1> USE DEF Met
<1>1. Root \in Node BY SizeAssumption
<1>2. ASSUME NEW w \in Worker, Enter(w) \/ Return(w) \/ EndDelay(w) \/ Put8Returns(w)
      PROVE  pc'[Root] = pc[Root] /\ call'[Root] = call[Root] /\ idx'[Root] = idx[Root]
             /\ peer' = peer /\ buf'[Root] = buf[Root]
  <2>1. pc[w] # "putSend" BY WorkerIs DEF TypeOK, PcOf, WorkerPc
  <2>2. QED
    BY <1>1, <1>2, <2>1, WorkerIs
    DEF Enter, Return, EndDelay, Put8Returns, Goto, TypeOK
<1>3. ASSUME NEW w \in Worker, Expire(w)
      PROVE  pc'[Root] = pc[Root] /\ call'[Root] = call[Root] /\ idx'[Root] = idx[Root]
             /\ peer' = peer /\ buf'[Root] = buf[Root]
  <2>1. Get8Returns(w, TimedOut) /\ call' = call BY <1>3 DEF Expire
  <2>2. QED BY <1>1, <2>1, Get8Moves, WorkerIs
<1>4. ASSUME NEW n \in Node, StartBit(n) \/ DataBits(n) \/ Misread(n)
      PROVE  UNCHANGED <<pc, call, idx, peer, buf>>
  BY <1>4 DEF StartBit, DataBits, Misread
<1>5. ASSUME StopBit(Root)
      PROVE  pc'[Root] = pc[Root] /\ call'[Root] = call[Root] /\ idx'[Root] = idx[Root]
             /\ peer' = peer /\ buf'[Root] = buf[Root]
  <2>1. CASE wire[Root].got = NoByte BY <1>5, <2>1 DEF StopBit
  <2>2. CASE wire[Root].got # NoByte
    <3>1. Get8Returns(peer, wire[Root].got) /\ call' = call
      BY <1>5, <2>2 DEF StopBit, Partner
    <3>2. QED BY <1>1, <3>1, Get8Moves DEF TypeOK, Worker
  <2>3. QED BY <2>1, <2>2
<1>6. CASE Tick BY <1>6 DEF Tick
<1>7. CASE UNCHANGED vars BY <1>7 DEF vars
<1>8. QED
  BY <1>2, <1>3, <1>4, <1>5, <1>6, <1>7 DEF Next, Step, Terminated, RootStep, Worker

\* What a worker's byte does to the root.
LEMMA RootGets ==
  ASSUME Met, NEW w \in Worker, StopBit(w)
  PROVE  /\ peer = w /\ call' = call /\ wire[w].val = Outgoing(w)
         /\ \/ pc[Root] = "getSync" /\ NextInSync /\ buf' = buf
            \/ /\ pc[Root] = "get" /\ pc[w] = "put" /\ pc'[w] = "put"
               /\ RecvReturns(Root, DataByte(w)) /\ DataByte(w) \in Byte
               /\ Collecting(w, call[Root]) /\ wire[w].phase = "bits"
<1>1. /\ peer = w /\ wire[w].got = wire[w].val /\ w # Root /\ w \in Node /\ Root \in Node
      /\ \/ pc[Root] = "getSync" /\ pc[w] = "putSync"
         \/ pc[Root] = "get" /\ pc[w] = "put" /\ Collecting(w, call[Root])
      /\ wire[w].phase = "bits"
  BY WorkerHeard, WorkerIs DEF StopBit
<1>2. wire[w].val = Outgoing(w)
  BY <1>1 DEF StopBit, Met, WireInv
<1>3. Outgoing(w) \in Byte BY <1>1, OutgoingType DEF Met, Putting
<1>4. Get8Returns(Root, Outgoing(w))
  BY <1>1, <1>2, <1>3, WorkerIs DEF StopBit, Byte, NoByte
<1>5. pc'[w] = pc[w] BY <1>1, <1>4, Get8Moves DEF Met
<1>6. call' = call BY DEF StopBit
<1>7. CASE pc[Root] = "getSync"
  <2>1. Outgoing(w) = SyncSignal BY <1>1, <1>7 DEF Outgoing
  <2>2. NextInSync /\ buf' = buf
    BY <1>4, <1>7, <2>1
    DEF Get8Returns, WaitSignalReturns, WaitSignalTimeoutReturns, RecvReturns
  <2>3. QED BY <1>1, <1>2, <1>6, <1>7, <2>2
<1>8. CASE pc[Root] = "get"
  <2>1. RecvReturns(Root, Outgoing(w))
    BY <1>4, <1>8 DEF Get8Returns, WaitSignalReturns, WaitSignalTimeoutReturns
  <2>2. Outgoing(w) = DataByte(w) BY <1>1, <1>8 DEF Outgoing
  <2>3. QED BY <1>1, <1>2, <1>3, <1>5, <1>6, <1>8, <2>1, <2>2
<1>9. QED BY <1>1, <1>7, <1>8

LEMMA BodyInv ==
  ASSUME Met, pc[Root] # "run", pc'[Root] = Body(Root), idx'[Root] = 0,
         call'[Root] = call[Root]
  PROVE  RootInv'
<1>1. Op(Root)' = Op(Root) BY DEF Op
<1>2. Root \in Node BY SizeAssumption
<1>3. Op(Root) \in Collective BY RootIs
<1>4. QED BY <1>1, <1>2, <1>3, BodyIs DEF RootInv, Body, Collective

LEMMA StepRoot ==
  ASSUME Met, NeverBlowsUp, [Next]_vars PROVE RootInv'
<1>0. Root \in Node /\ RootInv BY SizeAssumption DEF Met
<1>1. CASE ~RootStep
  <2>1. Op(Root)' = Op(Root) BY <1>1, RootStill DEF Op
  <2>2. QED BY <1>0, <1>1, <2>1, RootStill DEF RootInv
<1>2. CASE Enter(Root) \/ Return(Root) \/ Expire(Root)
  <2>1. pc'[Root] \in {"putSync", "run"}
    <3>1. CASE Enter(Root) \/ Return(Root)
      BY <1>0, <3>1 DEF Enter, Return, Goto, Met, TypeOK
    <3>2. CASE Expire(Root)
      <4>1. pc[Root] \in {"getSync", "get"} /\ timer[Root] = 0 BY <3>2 DEF Expire
      <4>2. pc[Root] = "getSync" BY <1>0, <4>1 DEF NeverBlowsUp
      <4>3. WaitSignalTimeoutReturns(Root, TimedOut)
        BY <3>2, <4>2 DEF Expire, Get8Returns, WaitSignalReturns, RecvReturns
      <4>4. QED
        BY <1>0, <4>3
        DEF WaitSignalTimeoutReturns, Goto, Met, TypeOK, TimedOut, SyncSignal
    <3>3. QED BY <1>2, <3>1, <3>2
  <2>2. QED BY <2>1 DEF RootInv
<1>3. CASE EndDelay(Root)
  <2>1. pc[Root] = "delay" /\ pc'[Root] = "put" /\ call' = call
    BY <1>0, <1>3 DEF EndDelay, Goto, Met, TypeOK, PcOf, RootPc
  <2>2. Op(Root)' = Op(Root) BY <2>1 DEF Op
  <2>3. QED BY <1>0, <2>1, <2>2 DEF RootInv
<1>4. ASSUME NextInBody, call' = call, pc[Root] # "run" PROVE RootInv'
  <2>1. CASE Later(peer) # {}
    <3>1. pc'[Root] = Body(Root) /\ idx'[Root] = 0
      BY <1>0, <1>4, <2>1 DEF NextInBody, Goto, Met, TypeOK
    <3>2. QED BY <1>4, <3>1, BodyInv
  <2>2. CASE Later(peer) = {}
    <3>1. pc'[Root] = "ret"
      BY <1>0, <1>4, <2>2 DEF NextInBody, Goto, Met, TypeOK
    <3>2. QED BY <3>1 DEF RootInv
  <2>3. QED BY <2>1, <2>2
<1>5. ASSUME NEW w \in Worker, StopBit(w) PROVE RootInv'
  <2>1. CASE pc[Root] = "getSync" /\ NextInSync
    <3>1. CASE Later(peer) # {}
      <4>1. pc'[Root] = "putSync"
        BY <1>0, <2>1, <3>1 DEF NextInSync, Goto, Met, TypeOK
      <4>2. QED BY <4>1 DEF RootInv
    <3>2. CASE Later(peer) = {}
      <4>1. pc'[Root] = Body(Root) /\ idx'[Root] = 0
        BY <1>0, <2>1, <3>2 DEF NextInSync, Goto, Met, TypeOK
      <4>2. QED BY <1>5, <2>1, <4>1, BodyInv, RootGets
    <3>3. QED BY <3>1, <3>2
  <2>2. CASE pc[Root] = "get" /\ RecvReturns(Root, DataByte(w))
    <3>1. CASE NextInBody BY <1>4, <1>5, <2>2, <3>1, RootGets
    <3>2. CASE ~NextInBody
      <4>1. pc'[Root] = "get" /\ call' = call
        BY <1>0, <1>5, <2>2, <3>2, RootGets DEF RecvReturns, Goto, Met, TypeOK
      <4>2. Op(Root)' = Op(Root) BY <4>1 DEF Op
      <4>3. QED BY <1>0, <2>2, <4>1, <4>2 DEF RootInv
    <3>3. QED BY <3>1, <3>2
  <2>3. QED BY <1>5, <2>1, <2>2, RootGets
<1>6. CASE Put8Returns(Root)
  <2>1. call' = call /\ Op(Root)' = Op(Root) BY <1>6 DEF Put8Returns, Op
  <2>2. CASE pc[Root] = "putSync"
    <3>1. pc'[Root] = "getSync"
      BY <1>0, <1>6, <2>2 DEF Put8Returns, Goto, Met, TypeOK
    <3>2. QED BY <3>1 DEF RootInv
  <2>3. CASE pc[Root] = "putSend"
    <3>1. pc'[Root] = "get"
      BY <1>0, <1>6, <2>3 DEF Put8Returns, Goto, Met, TypeOK
    <3>2. QED BY <1>0, <2>1, <2>3, <3>1 DEF RootInv
  <2>4. CASE pc[Root] = "put" /\ NextInBody BY <1>4, <2>1, <2>4
  <2>5. CASE pc[Root] = "put" /\ ~NextInBody
    <3>1. pc'[Root] = "put" BY <1>6, <2>5 DEF Put8Returns
    <3>2. QED BY <1>0, <2>1, <2>5, <3>1 DEF RootInv
  <2>6. QED BY <1>6, <2>2, <2>3, <2>4, <2>5 DEF Put8Returns
<1>7. QED BY <1>1, <1>2, <1>3, <1>5, <1>6 DEF RootStep

\* A stop bit of before is the only one that is not new.
LEMMA StopStays ==
  ASSUME Met, [Next]_vars, \A n \in Node : ~StopBit(n),
         NEW k \in Node, wire'[k].phase = "stop"
  PROVE  wire[k] = wire'[k] /\ pc[k] = pc'[k]
<1>0. Root \in Node /\ peer \in Worker /\ WireInv
  BY SizeAssumption DEF Met, TypeOK
<1>1. wire[k] = wire'[k]
  BY DEF Next, Step, Enter, Return, EndDelay, Expire, StartBit, DataBits, Misread,
     Put8Returns, Tick, Terminated, vars, Met, TypeOK, OnLine, Idle
<1>2. pc[k] \in Putting BY <1>0, <1>1 DEF WireInv
<1>3. ~Put8Returns(k) BY DEF Put8Returns, Met, TypeOK, Idle, OnLine
<1>4. ASSUME NEW n \in Node, Step(n) PROVE pc[k] = pc'[k]
  <2>1. CASE Expire(n)
    <3>1. Get8Returns(n, TimedOut) BY <2>1 DEF Expire
    <3>2. QED BY <1>2, <3>1, Get8Moves DEF Met
  <2>2. CASE Put8Returns(n)
    <3>1. pc[n] = "putSend" => n = Root BY DEF Met, TypeOK, PcOf, WorkerPc
    <3>2. QED
      BY <1>0, <1>3, <2>2, <3>1 DEF Put8Returns, NextInBody, Goto, Met, TypeOK
  <2>3. CASE Enter(n) \/ Return(n) \/ EndDelay(n)
    BY <1>2, <2>3 DEF Enter, Return, EndDelay, Goto, Putting, Met, TypeOK
  <2>4. CASE StartBit(n) \/ DataBits(n) \/ Misread(n)
    BY <2>4 DEF StartBit, DataBits, Misread
  <2>5. QED BY <1>4, <2>1, <2>2, <2>3, <2>4 DEF Step
<1>5. QED BY <1>1, <1>4 DEF Next, Tick, Terminated, vars

LEMMA StepTurn ==
  ASSUME Met, NeverBlowsUp, [Next]_vars PROVE TurnInv'
<1>0. Root \in Node /\ peer \in Worker /\ peer' \in Worker /\ TurnInv /\ WireInv
  BY SizeAssumption, StepType DEF Met, TypeOK
<1>1. ASSUME \A n \in Node : ~StopBit(n), NEW k \in Node, wire'[k].phase = "stop"
      PROVE  wire[k] = wire'[k] /\ pc[k] = pc'[k]
  BY <1>1, StopStays
<1>2. ASSUME NEW n \in Node, StopBit(n), NEW k \in Node, wire'[k].phase = "stop"
      PROVE  k = n
  BY <1>2 DEF StopBit, Met, TypeOK
<1>3. ASSUME NEW n \in Node, NEW m \in Node,
             wire'[n].phase = "stop", wire'[m].phase = "stop"
      PROVE  n = m
  BY <1>0, <1>1, <1>2, <1>3 DEF TurnInv
<1>4. ASSUME Size > 2, InBody', pc'[peer'] = "putSync", wire'[peer'].phase = "stop"
      PROVE  FALSE
  <2>1. peer' \in Node /\ peer' # Root BY <1>0, WorkerIs
  <2>2. ASSUME NEW w \in Worker, StopBit(w) PROVE FALSE
    <3>1. peer' = w /\ peer = w BY <1>2, <1>4, <2>1, <2>2, RootGets, WorkerIs
    <3>2. pc[Root] = "getSync" /\ NextInSync BY <1>4, <2>2, <3>1, RootGets
    <3>3. Later(w) = {} /\ w = FirstWorker
      BY <1>0, <1>4, <3>1, <3>2 DEF NextInSync, Goto, InBody, Met, TypeOK
    <3>4. \A v \in Worker : v = w
      BY <3>3, FirstWorkerIsWorker, WorkerIs DEF Later
    <3>5. Size \in Nat /\ 0 \in Node /\ 1 \in Node /\ 2 \in Node
      BY <1>4, SizeAssumption DEF Node, MaxRpis
    <3>6. QED BY <3>4, <3>5 DEF Worker
  <2>3. ~StopBit(Root) BY <1>2, <1>4, <2>1, <1>0
  <2>4. \A n \in Node : ~StopBit(n) BY <2>2, <2>3 DEF Worker
  <2>5. wire[peer'].phase = "stop" /\ pc[peer'] = "putSync"
    BY <1>1, <1>4, <2>1, <2>4
  <2>6. ~(InBody /\ peer' = peer) BY <1>0, <1>4, <2>5 DEF TurnInv
  <2>7. ~(Enter(Root) \/ Return(Root))
    BY <1>0, <1>4 DEF Enter, Return, Goto, InBody, Met, TypeOK
  <2>8. ~EndDelay(Root)
    BY <1>0, <2>6 DEF EndDelay, Met, TypeOK, PcOf, RootPc, InBody
  <2>9. ~Expire(Root)
    <3>1. SUFFICES ASSUME Expire(Root) PROVE FALSE OBVIOUS
    <3>2. pc[Root] \in {"getSync", "get"} /\ timer[Root] = 0 BY <3>1 DEF Expire
    <3>3. pc[Root] = "getSync" BY <1>0, <3>2 DEF NeverBlowsUp
    <3>4. WaitSignalTimeoutReturns(Root, TimedOut)
      BY <3>1, <3>3 DEF Expire, Get8Returns, WaitSignalReturns, RecvReturns
    <3>5. QED
      BY <1>0, <1>4, <3>4
      DEF WaitSignalTimeoutReturns, Goto, Met, TypeOK, TimedOut, SyncSignal, InBody
  <2>10. ~Put8Returns(Root)
    <3>1. wire[Root].phase # "stop" BY <1>0, <2>1, <2>5 DEF TurnInv
    <3>2. QED BY <3>1 DEF Put8Returns
  <2>11. ~RootStep BY <2>4, <2>7, <2>8, <2>9, <2>10, <2>1, WorkerIs DEF RootStep
  <2>12. QED BY <1>4, <2>6, <2>11, RootStill DEF InBody
<1>5. QED BY <1>3, <1>4 DEF TurnInv

-----------------------------------------------------------------------------
(* The receive buffers.                                                    *)

\* What the byte of the root does to the worker it reaches.
LEMMA WorkerGets ==
  ASSUME Met, StopBit(Root), wire[Root].got # NoByte
  PROVE  \/ WaitSignalReturns(peer, wire[Root].got)
         \/ /\ pc[Root] = "put" /\ AtByte(peer, call[Root], idx[Root])
            /\ RecvReturns(peer, DataByte(Root)) /\ DataByte(Root) \in Byte
<1>1. Root \in Node /\ peer \in Worker /\ peer \in Node /\ peer # Root
  BY WorkerIs DEF Met, TypeOK
<1>2. Get8Returns(peer, wire[Root].got) /\ wire[Root].phase = "bits"
  BY DEF StopBit, Partner
<1>3. pc[peer] # "getSync" BY <1>1 DEF Met, TypeOK, PcOf, WorkerPc
<1>4. CASE pc[Root] = "putSync"
  <2>1. pc[peer] = "waitSync" BY <1>1, <1>2, <1>4 DEF Met, Meets, Requested
  <2>2. QED BY <1>2, <2>1 DEF Get8Returns, RecvReturns, WaitSignalTimeoutReturns
<1>5. CASE pc[Root] = "putSend"
  <2>1. pc[peer] = "waitSend" BY <1>2, <1>5, RootHeard
  <2>2. QED BY <1>2, <2>1 DEF Get8Returns, RecvReturns, WaitSignalTimeoutReturns
<1>6. CASE pc[Root] = "put"
  <2>1. AtByte(peer, call[Root], idx[Root])
    BY <1>1, <1>2, <1>6 DEF Met, Meets, Sending
  <2>2. Outgoing(Root) = DataByte(Root) BY <1>6 DEF Outgoing
  <2>3. wire[Root].got = DataByte(Root) BY <1>2, <1>6, <2>2, RootHeard
  <2>4. Outgoing(Root) \in Byte BY <1>1, <1>6, OutgoingType DEF Met, Putting
  <2>5. RecvReturns(peer, DataByte(Root))
    BY <1>2, <2>1, <2>3
    DEF AtByte, Get8Returns, WaitSignalReturns, WaitSignalTimeoutReturns
  <2>6. QED BY <1>6, <2>1, <2>2, <2>4, <2>5
<1>7. QED BY <1>2, <1>4, <1>5, <1>6, RootHeard

\* Only these steps move worker w, or its loop variable.
WorkerStep(w) == \/ Enter(w) \/ Return(w) \/ EndDelay(w) \/ Expire(w) \/ Put8Returns(w)
                 \/ StopBit(Root) /\ peer = w

LEMMA WorkerStill ==
  ASSUME Met, [Next]_vars, NEW w \in Worker, ~WorkerStep(w)
  PROVE  pc'[w] = pc[w] /\ call'[w] = call[w] /\ idx'[w] = idx[w] /\ buf'[w] = buf[w]
<1> USE DEF Met
<1>1. Root \in Node /\ w \in Node /\ w # Root BY WorkerIs
<1>2. ASSUME NEW n \in Node, n # w, Enter(n) \/ Return(n) \/ EndDelay(n) \/ Put8Returns(n)
      PROVE  pc'[w] = pc[w] /\ call'[w] = call[w] /\ idx'[w] = idx[w] /\ buf'[w] = buf[w]
  BY <1>1, <1>2
  DEF Enter, Return, EndDelay, Put8Returns, NextInBody, Goto, TypeOK
<1>3. ASSUME NEW m \in Node, m # w, NEW v, Get8Returns(m, v)
      PROVE  pc'[w] = pc[w] /\ idx'[w] = idx[w] /\ buf'[w] = buf[w]
  BY <1>1, <1>3, Get8Moves
<1>4. ASSUME NEW n \in Node, n # w, Expire(n)
      PROVE  pc'[w] = pc[w] /\ call'[w] = call[w] /\ idx'[w] = idx[w] /\ buf'[w] = buf[w]
  <2>1. Get8Returns(n, TimedOut) /\ call' = call BY <1>4 DEF Expire
  <2>2. QED BY <1>3, <1>4, <2>1
<1>5. ASSUME NEW n \in Node, StopBit(n)
      PROVE  pc'[w] = pc[w] /\ call'[w] = call[w] /\ idx'[w] = idx[w] /\ buf'[w] = buf[w]
  <2>1. call' = call BY <1>5 DEF StopBit
  <2>2. CASE wire[n].got = NoByte BY <1>5, <2>1, <2>2 DEF StopBit
  <2>3. CASE wire[n].got # NoByte
    <3>1. Get8Returns(Partner(n), wire[n].got) BY <1>5, <2>3 DEF StopBit
    <3>2. Partner(n) \in Node /\ Partner(n) # w
      BY <1>1, <1>5 DEF Partner, WorkerStep, TypeOK, Worker
    <3>3. QED BY <1>3, <2>1, <3>1, <3>2
  <2>4. QED BY <2>2, <2>3
<1>6. ASSUME NEW n \in Node, StartBit(n) \/ DataBits(n) \/ Misread(n)
      PROVE  UNCHANGED <<pc, call, idx, buf>>
  BY <1>6 DEF StartBit, DataBits, Misread
<1>7. CASE Tick BY <1>7 DEF Tick
<1>8. CASE UNCHANGED vars BY <1>8 DEF vars
<1>9. QED
  BY <1>2, <1>4, <1>5, <1>6, <1>7, <1>8 DEF Next, Step, Terminated, WorkerStep

\* The jumps of a worker.
LEMMA WorkerJumps ==
  ASSUME Met, NeverBlowsUp, NEW w \in Worker, WorkerStep(w), pc'[w] # "run",
         pc[w] # "run"
  PROVE  /\ call'[w] = call[w] /\ Op(w) \in Collective /\ call[w] \in 1..NCalls
         /\ Op(w)' = Op(w) /\ Op(w) = Prog[call[w]]
         /\ \/ /\ buf'[w] = buf[w]
               /\ \/ pc[w] = "delay" /\ pc'[w] = "put"
                  \/ pc[w] = "waitSend" /\ pc'[w] = "delay"
                  \/ pc'[w] \in {"waitSync", "delaySync", "putSync"}
                     /\ pc[w] \in {"waitSync", "delaySync", "putSync"}
                  \/ pc[w] \in {"waitSend", "put"} /\ pc'[w] = pc[w]
                  \/ pc[w] = "put" /\ pc'[w] = "ret"
                  \/ pc[w] = "putSync" /\ pc'[w] = Body(w) /\ idx'[w] = 0
                  \/ pc'[w] = pc[w] /\ idx'[w] = idx[w]
            \/ /\ pc[w] = "get" /\ peer = w /\ pc[Root] = "put"
               /\ AtByte(w, call[Root], idx[Root])
               /\ RecvReturns(w, DataByte(Root)) /\ DataByte(Root) \in Byte
<1> USE DEF Met
<1>1. Root \in Node /\ w \in Node /\ w # Root BY WorkerIs
<1>2. Op(w) \in Collective /\ call[w] \in 1..NCalls /\ Op(w) = Prog[call[w]]
  BY <1>1, OpIs DEF Op
<1>3. ~Enter(w) /\ ~Return(w)
  BY <1>1 DEF Enter, Return, Goto, TypeOK
<1>4. ~Expire(w)
  <2>1. SUFFICES ASSUME Expire(w) PROVE FALSE OBVIOUS
  <2>2. pc[w] \in {"getSync", "get"} /\ timer[w] = 0 BY <2>1 DEF Expire
  <2>3. pc[w] = "getSync" BY <1>1, <2>2 DEF NeverBlowsUp
  <2>4. QED BY <1>1, <2>3 DEF TypeOK, PcOf, WorkerPc
<1>5. call' = call
  BY <1>3, <1>4 DEF WorkerStep, EndDelay, Put8Returns, StopBit
<1>6. Op(w)' = Op(w) BY <1>5 DEF Op
<1>7. CASE EndDelay(w)
  <2>1. \/ pc[w] = "delay" /\ pc'[w] = "put"
        \/ pc[w] = "delaySync" /\ pc'[w] = "putSync"
    BY <1>1, <1>7 DEF EndDelay, Goto, TypeOK
  <2>2. buf' = buf BY <1>7 DEF EndDelay
  <2>3. QED BY <1>2, <1>5, <1>6, <2>1, <2>2
<1>8. CASE Put8Returns(w)
  <2>1. buf' = buf /\ pc[w] # "putSend"
    BY <1>1, <1>8 DEF Put8Returns, TypeOK, PcOf, WorkerPc
  <2>2. \/ pc[w] = "putSync" /\ pc'[w] = Body(w) /\ idx'[w] = 0
        \/ pc[w] = "put" /\ pc'[w] = "put"
        \/ pc[w] = "put" /\ pc'[w] = "ret"
    BY <1>1, <1>8, <2>1 DEF Put8Returns, Goto, TypeOK
  <2>3. QED BY <1>2, <1>5, <1>6, <2>1, <2>2
<1>9. CASE StopBit(Root) /\ peer = w
  <2>1. CASE wire[Root].got = NoByte
    <3>1. UNCHANGED <<pc, idx, buf>> BY <1>9, <2>1 DEF StopBit
    <3>2. QED BY <1>2, <1>5, <1>6, <3>1
  <2>2. CASE wire[Root].got # NoByte
    <3>1. CASE WaitSignalReturns(w, wire[Root].got)
      <4>1. /\ buf' = buf
            /\ \/ pc[w] = "waitSync" /\ pc'[w] \in {"waitSync", "delaySync"}
               \/ pc[w] = "waitSend" /\ pc'[w] \in {"waitSend", "delay"}
        <5>1. CASE wire[Root].got = SyncSignal
          BY <1>1, <3>1, <5>1 DEF WaitSignalReturns, Goto, TypeOK, SyncSignal, SendSignal
        <5>2. CASE wire[Root].got = SendSignal
          BY <1>1, <3>1, <5>2 DEF WaitSignalReturns, Goto, TypeOK, SyncSignal, SendSignal
        <5>3. CASE wire[Root].got \notin {SyncSignal, SendSignal}
          BY <1>1, <3>1, <5>3 DEF WaitSignalReturns, Goto, TypeOK
        <5>4. QED BY <5>1, <5>2, <5>3
      <4>2. QED BY <1>2, <1>5, <1>6, <4>1
    <3>2. CASE ~WaitSignalReturns(w, wire[Root].got)
      BY <1>2, <1>5, <1>6, <1>9, <2>2, <3>2, WorkerGets DEF AtByte
    <3>3. QED BY <3>1, <3>2
  <2>3. QED BY <2>1, <2>2
<1>10. QED BY <1>3, <1>4, <1>7, <1>8, <1>9 DEF WorkerStep

LEMMA StepWorker ==
  ASSUME Met, WorkerInv, NeverBlowsUp, [Next]_vars PROVE WorkerInv'
<1> SUFFICES ASSUME NEW w \in Worker
             PROVE  /\ pc'[w] \in {"waitSend", "delay", "put"} => Op(w)' = "gather"
                    /\ pc'[w] = "get" => Op(w)' \in {"bcast", "scatter"}
  BY DEF WorkerInv
<1>1. w \in Node /\ w # Root BY WorkerIs
<1>2. CASE ~WorkerStep(w)
  <2>1. Op(w)' = Op(w) BY <1>2, WorkerStill DEF Op
  <2>2. QED BY <1>2, <2>1, WorkerStill DEF WorkerInv
<1>3. CASE WorkerStep(w) /\ pc[w] = "run"
  <2>1. CASE Enter(w)
    <3>1. pc'[w] = "waitSync" BY <1>1, <2>1 DEF Enter, Goto, Met, TypeOK
    <3>2. QED BY <3>1
  <2>2. CASE StopBit(Root) /\ peer = w
    <3>1. CASE wire[Root].got = NoByte
      BY <1>3, <2>2, <3>1 DEF StopBit
    <3>2. CASE wire[Root].got # NoByte
      BY <1>3, <2>2, <3>2, WorkerGets DEF WaitSignalReturns, AtByte
    <3>3. QED BY <3>1, <3>2
  <2>3. QED
    BY <1>3, <2>1, <2>2, WorkerIs DEF WorkerStep, Return, EndDelay, Expire, Put8Returns,
       Met, WireInv, Putting
<1>4. CASE WorkerStep(w) /\ pc[w] # "run" /\ pc'[w] # "run"
  <2>1. CASE pc[w] = "putSync" /\ pc'[w] = Body(w)
    BY <1>1, <1>4, <2>1, WorkerJumps, BodyIs DEF Body, Collective
  <2>2. CASE RecvReturns(w, DataByte(Root))
    <3>1. pc[w] = "get" /\ pc'[w] \in {"get", "ret"}
      BY <1>1, <2>2 DEF RecvReturns, Goto, Met, TypeOK
    <3>2. QED BY <1>4, <3>1, WorkerJumps DEF WorkerInv
  <2>3. QED BY <1>4, <2>1, <2>2, WorkerJumps DEF WorkerInv
<1>5. QED BY <1>2, <1>3, <1>4

Cells(n) ==
    pc[n] # "run" => \A b \in Node, k \in Offset :
        buf[n][b][k] = IF Filled(n, b, k) THEN Result(n, call[n])[b][k] ELSE NoByte

\* The cells stand still, and as many of them count as filled.
LEMMA CellsStill ==
  ASSUME NEW n \in Node, Cells(n), pc[n] # "run", call'[n] = call[n], buf'[n] = buf[n],
         \A b \in Node, k \in Offset : Filled(n, b, k)' = Filled(n, b, k)
  PROVE  Cells(n)'
<1>1. \A b \in Node, k \in Offset : Result(n, call[n])' = Result(n, call[n])
  BY DEF Result
<1>2. QED BY <1>1 DEF Cells

\* A byte is stored where the next one is due.
LEMMA Stored ==
  ASSUME Met, NEW m \in Node, NEW v \in Byte, RecvReturns(m, v)
  PROVE  LET s == IF m = Root THEN peer ELSE 0 IN
         \A b \in Node, k \in Offset :
            buf'[m][b][k] = IF b = s /\ k = idx[m] THEN v ELSE buf[m][b][k]
<1>1. Char(v) = v BY DEF Char, Byte, TimedOut
<1>2. peer \in Node /\ 0 \in Node BY ZeroIsNode DEF Met, TypeOK, Worker
<1>3. buf[m] \in [Node -> [Offset -> Byte \cup {NoByte}]] /\ idx[m] \in Offset
  BY DEF Met, TypeOK
<1>4. CASE m = Root
  <2>1. buf' = [buf EXCEPT ![m][peer][idx[m]] = v] BY <1>1, <1>4 DEF RecvReturns
  <2>2. QED BY <1>2, <1>3, <1>4, <2>1 DEF Met, TypeOK
<1>5. CASE m # Root
  <2>1. buf' = [buf EXCEPT ![m][0][idx[m]] = v] BY <1>1, <1>5 DEF RecvReturns
  <2>2. QED BY <1>2, <1>3, <1>5, <2>1 DEF Met, TypeOK
<1>6. QED BY <1>4, <1>5

LEMMA StepWorkerCells ==
  ASSUME Met, WorkerInv, NeverBlowsUp, [Next]_vars, NEW w \in Worker, Cells(w)
  PROVE  Cells(w)'
<1>1. w \in Node /\ w # Root BY WorkerIs
<1>2. CASE pc'[w] = "run" BY <1>2 DEF Cells
<1>3. CASE pc[w] = "run" /\ pc'[w] # "run"
  <2>1. Enter(w)
    <3>1. WorkerStep(w) BY <1>3, WorkerStill
    <3>2. ~(StopBit(Root) /\ peer = w)
      <4>1. SUFFICES ASSUME StopBit(Root), peer = w PROVE FALSE OBVIOUS
      <4>2. CASE wire[Root].got = NoByte
        BY <1>3, <4>1, <4>2 DEF StopBit
      <4>3. CASE wire[Root].got # NoByte
        BY <1>3, <4>1, <4>3, WorkerGets DEF WaitSignalReturns, AtByte
      <4>4. QED BY <4>2, <4>3
    <3>3. QED
      BY <1>1, <1>3, <3>1, <3>2 DEF WorkerStep, Return, EndDelay, Expire, Put8Returns,
         Met, WireInv, Putting
  <2>2. buf'[w] = Empty /\ pc'[w] = "waitSync"
    BY <1>1, <2>1 DEF Enter, Goto, Met, TypeOK
  <2>3. QED BY <1>1, <2>2 DEF Cells, Filled, Empty
<1>4. CASE pc[w] # "run" /\ ~WorkerStep(w)
  <2>1. pc'[w] = pc[w] /\ call'[w] = call[w] /\ idx'[w] = idx[w] /\ buf'[w] = buf[w]
    BY <1>4, WorkerStill
  <2>2. \A b \in Node, k \in Offset : Filled(w, b, k)' = Filled(w, b, k)
    BY <1>1, <2>1 DEF Filled
  <2>3. QED BY <1>1, <1>4, <2>1, <2>2, CellsStill
<1>5. CASE pc[w] # "run" /\ pc'[w] # "run" /\ WorkerStep(w)
  <2> DEFINE c == call[w]
  <2>1. /\ call'[w] = c /\ c \in 1..NCalls /\ Op(w) = Prog[c] /\ Op(w) \in Collective
    BY <1>5, WorkerJumps
  <2>2. CASE buf'[w] = buf[w] /\ pc[w] \notin {"get", "ret"} /\ pc'[w] \notin {"get", "ret"}
    <3>1. \A b \in Node, k \in Offset : Filled(w, b, k)' = Filled(w, b, k)
      BY <1>1, <2>2 DEF Filled
    <3>2. QED BY <1>1, <1>5, <2>1, <2>2, <3>1, CellsStill
  <2>3. CASE buf'[w] = buf[w] /\ pc'[w] = pc[w] /\ idx'[w] = idx[w]
    <3>1. \A b \in Node, k \in Offset : Filled(w, b, k)' = Filled(w, b, k)
      BY <1>1, <2>3 DEF Filled
    <3>2. QED BY <1>1, <1>5, <2>1, <2>3, <3>1, CellsStill
  \* The results of Gather and Barrier are empty for a worker.
  <2>4. CASE buf'[w] = buf[w] /\ pc'[w] = "ret" /\ Prog[c] \in {"gather", "barrier"}
             /\ pc[w] \in {"put", "putSync"}
    <3>1. \A b \in Node, k \in Offset : buf[w][b][k] = NoByte
      BY <1>1, <1>5, <2>4 DEF Cells, Filled
    <3>2. \A b \in Node, k \in Offset : Result(w, c)[b][k] = NoByte
      BY <1>1, <2>1, <2>4, ResultIs
    <3>3. QED BY <1>1, <2>1, <2>4, <3>1, <3>2 DEF Cells, Filled
  <2>5. CASE buf'[w] = buf[w] /\ pc'[w] = "get" /\ idx'[w] = 0 /\ pc[w] = "putSync"
    <3>1. idx'[w] = 0 /\ \A k \in Offset : ~(k < 0) BY <2>5, ProgAssumption DEF Offset
    <3>2. \A b \in Node, k \in Offset : Filled(w, b, k)' = Filled(w, b, k)
      BY <1>1, <2>5, <3>1 DEF Filled
    <3>3. QED BY <1>1, <1>5, <2>1, <2>5, <3>2, CellsStill
  <2>6. CASE /\ pc[w] = "get" /\ peer = w /\ AtByte(w, call[Root], idx[Root])
             /\ pc[Root] = "put"
             /\ RecvReturns(w, DataByte(Root)) /\ DataByte(Root) \in Byte
    <3>1. c = call[Root] /\ idx[w] = idx[Root] /\ Op(Root) = Prog[c]
          /\ Prog[c] \in {"bcast", "scatter"}
      BY <2>1, <2>6 DEF AtByte, Met, RootInv, Op
    <3>2. 0 \in Node /\ idx[w] \in Offset BY <1>1, ZeroIsNode DEF Met, TypeOK
    <3>3. DataByte(Root) = Result(w, c)[0][idx[w]]
      <4>1. CASE Prog[c] = "bcast"
        BY <1>1, <2>1, <3>1, <3>2, <4>1, ResultIs DEF DataByte
      <4>2. CASE Prog[c] = "scatter"
        BY <1>1, <2>1, <2>6, <3>1, <3>2, <4>2, ResultIs DEF DataByte
      <4>3. QED BY <3>1, <4>1, <4>2
    <3>4. \A b \in Node, k \in Offset : b # 0 => Result(w, c)[b][k] = NoByte
      BY <1>1, <2>1, <3>1, ResultIs
    <3>5. \A b \in Node, k \in Offset :
             buf'[w][b][k] = IF b = 0 /\ k = idx[w] THEN DataByte(Root) ELSE buf[w][b][k]
      BY <1>1, <2>6, Stored
    <3>6. \A b \in Node, k \in Offset :
             buf[w][b][k] = IF b = 0 /\ k < idx[w] THEN Result(w, c)[b][k] ELSE NoByte
      BY <1>1, <2>6 DEF Cells, Filled
    <3>7. \A k \in Offset : k \in Nat /\ k < Count BY ProgAssumption DEF Offset
    <3>8. CASE idx[w] + 1 < Count
      <4>1. pc'[w] = "get" /\ idx'[w] = idx[w] + 1
        BY <1>1, <2>6, <3>8 DEF RecvReturns, Goto, Met, TypeOK
      <4>2. \A b \in Node, k \in Offset :
               buf'[w][b][k] = IF b = 0 /\ k < idx[w] + 1 THEN Result(w, c)[b][k] ELSE NoByte
        BY <3>2, <3>3, <3>5, <3>6, <3>7
      <4>3. QED BY <1>1, <2>1, <4>1, <4>2 DEF Cells, Filled
    <3>9. CASE ~(idx[w] + 1 < Count)
      <4>1. pc'[w] = "ret"
        BY <1>1, <2>6, <3>9 DEF RecvReturns, Goto, Met, TypeOK
      <4>2. \A b \in Node, k \in Offset : buf'[w][b][k] = Result(w, c)[b][k]
        BY <3>2, <3>3, <3>4, <3>5, <3>6, <3>7, <3>9, ProgAssumption
      <4>3. QED BY <1>1, <2>1, <4>1, <4>2 DEF Cells, Filled
    <3>10. QED BY <3>8, <3>9
  <2>7. CASE buf'[w] = buf[w] /\ pc[w] = "putSync" /\ pc'[w] = Body(w) /\ idx'[w] = 0
    <3>1. \/ Body(w) \in {"get", "waitSend"}
          \/ Body(w) = "ret" /\ Prog[c] = "barrier"
      BY <1>1, <2>1, BodyIs DEF Body, Collective
    <3>2. QED BY <2>2, <2>4, <2>5, <2>7, <3>1
  <2>8. pc[w] = "put" => Prog[c] = "gather" BY <2>1 DEF WorkerInv
  <2>9. QED
    BY <1>5, <2>2, <2>3, <2>4, <2>6, <2>7, <2>8, WorkerJumps
<1>6. QED BY <1>2, <1>3, <1>4, <1>5

LEMMA StepRootCells ==
  ASSUME Met, NeverBlowsUp, [Next]_vars, Cells(Root) PROVE Cells(Root)'
<1>0. Root \in Node /\ peer \in Worker /\ peer \in Nat
  BY SizeAssumption, WorkerIs DEF Met, TypeOK
<1>1. CASE pc'[Root] = "run" BY <1>1 DEF Cells
<1>2. CASE ~RootStep
  <2>1. pc'[Root] = pc[Root] /\ call'[Root] = call[Root] /\ idx'[Root] = idx[Root]
        /\ peer' = peer /\ buf'[Root] = buf[Root]
    BY <1>2, RootStill
  <2>2. Op(Root)' = Op(Root) BY <2>1 DEF Op
  <2>3. \A b \in Node, k \in Offset : Filled(Root, b, k)' = Filled(Root, b, k)
    BY <2>1, <2>2 DEF Filled, InBody
  <2>4. CASE pc[Root] = "run" BY <2>1, <2>4 DEF Cells
  <2>5. CASE pc[Root] # "run" BY <1>0, <2>1, <2>3, <2>5, CellsStill
  <2>6. QED BY <2>4, <2>5
<1>3. CASE Enter(Root)
  <2>1. buf'[Root] = Empty /\ pc'[Root] = "putSync"
    BY <1>0, <1>3 DEF Enter, Goto, Met, TypeOK
  <2>2. QED BY <1>0, <2>1 DEF Cells, Filled, Empty, InBody
<1>4. CASE Return(Root)
  BY <1>0, <1>1, <1>4 DEF Return, Goto, Met, TypeOK
\* Nothing is filled, before and after.
<1>5. ASSUME pc[Root] # "run", call'[Root] = call[Root], buf'[Root] = buf[Root],
             \A b \in Node, k \in Offset : ~Filled(Root, b, k),
             \A b \in Node, k \in Offset : ~Filled(Root, b, k)'
      PROVE  Cells(Root)'
  BY <1>5 DEF Cells
<1>6. ASSUME pc[Root] # "run", call'[Root] = call[Root], buf'[Root] = buf[Root],
             Op(Root) # "gather"
      PROVE  Cells(Root)'
  <2>1. Op(Root)' = Op(Root) BY <1>6 DEF Op
  <2>2. \A b \in Node, k \in Offset : ~Filled(Root, b, k)
    BY <1>6 DEF Filled
  <2>3. \A b \in Node, k \in Offset : ~Filled(Root, b, k)'
    BY <1>6, <2>1 DEF Filled
  <2>4. QED BY <1>5, <1>6, <2>2, <2>3
<1>7. CASE Expire(Root)
  <2>1. pc[Root] \in {"getSync", "get"} /\ timer[Root] = 0 /\ call' = call
    BY <1>7 DEF Expire
  <2>2. pc[Root] = "getSync" BY <1>0, <2>1 DEF NeverBlowsUp
  <2>3. WaitSignalTimeoutReturns(Root, TimedOut)
    BY <1>7, <2>2 DEF Expire, Get8Returns, WaitSignalReturns, RecvReturns
  <2>4. pc'[Root] = "putSync" /\ buf' = buf
    BY <1>0, <2>3 DEF WaitSignalTimeoutReturns, Goto, Met, TypeOK, TimedOut, SyncSignal
  <2>5. \A b \in Node, k \in Offset : ~Filled(Root, b, k)
    BY <2>2 DEF Filled, InBody
  <2>6. \A b \in Node, k \in Offset : ~Filled(Root, b, k)'
    BY <2>4 DEF Filled, InBody
  <2>7. QED BY <1>5, <2>1, <2>2, <2>4, <2>5, <2>6
<1>8. CASE EndDelay(Root)
  BY <1>0, <1>6, <1>8 DEF EndDelay, Met, RootInv, TypeOK, PcOf, RootPc
<1>9. CASE Put8Returns(Root)
  <2>1. call' = call /\ buf' = buf BY <1>9 DEF Put8Returns
  <2>2. CASE pc[Root] = "putSync"
    <3>1. pc'[Root] = "getSync"
      BY <1>0, <1>9, <2>2 DEF Put8Returns, Goto, Met, TypeOK
    <3>2. QED BY <1>5, <2>1, <2>2, <3>1 DEF Filled, InBody
  <2>3. CASE pc[Root] = "putSend"
    <3>1. pc'[Root] = "get" /\ peer' = peer /\ idx'[Root] = 0
      BY <1>0, <1>9, <2>3 DEF Put8Returns, Goto, Met, TypeOK, RootInv
    <3>2. Op(Root)' = Op(Root) BY <2>1 DEF Op
    <3>3. \A k \in Offset : ~(k < 0) BY ProgAssumption DEF Offset
    <3>4. \A b \in Node, k \in Offset : Filled(Root, b, k)' = Filled(Root, b, k)
      BY <2>3, <3>1, <3>2, <3>3 DEF Filled, InBody
    <3>5. QED BY <1>0, <2>1, <2>3, <3>4, CellsStill
  <2>4. CASE pc[Root] = "put"
    BY <1>6, <2>1, <2>4 DEF Met, RootInv
  <2>5. QED BY <1>9, <2>2, <2>3, <2>4 DEF Put8Returns
<1>10. ASSUME NEW w \in Worker, StopBit(w) PROVE Cells(Root)'
  <2>1. peer = w /\ call' = call BY <1>10, RootGets
  <2>2. CASE pc[Root] = "getSync" /\ NextInSync /\ buf' = buf
    <3>1. CASE Op(Root) # "gather" BY <1>6, <2>1, <2>2, <3>1
    <3>2. CASE Op(Root) = "gather"
      <4>1. \/ pc'[Root] = "putSync"
            \/ pc'[Root] = "putSend" /\ peer' = FirstWorker
        BY <1>0, <2>2, <3>2, BodyIs DEF NextInSync, Goto, Body, Met, TypeOK
      <4>2. \A b \in Worker : b \in Nat /\ FirstWorker \in Nat /\ ~(b < FirstWorker)
        BY FirstWorkerIsWorker, WorkerIs
      <4>3. \A b \in Node, k \in Offset : ~Filled(Root, b, k)'
        BY <4>1, <4>2 DEF Filled, InBody
      <4>4. \A b \in Node, k \in Offset : ~Filled(Root, b, k)
        BY <2>2 DEF Filled, InBody
      <4>5. QED BY <1>5, <2>1, <2>2, <4>3, <4>4
    <3>3. QED BY <3>1, <3>2
  <2>3. CASE /\ pc[Root] = "get" /\ pc[w] = "put"
             /\ RecvReturns(Root, DataByte(w)) /\ DataByte(w) \in Byte
             /\ Collecting(w, call[Root]) /\ wire[w].phase = "bits"
    <3>1. PICK c \in 1..NCalls : c = call[Root] /\ Op(Root) = Prog[c] /\ Prog[c] = "gather"
      BY <2>3, RootIs DEF Met, RootInv
    <3>2. call[w] = c /\ idx[w] = idx[Root] /\ w \in Node /\ w # Root
      BY <2>3, <3>1, WorkerIs DEF Collecting, Idle, OnLine
    <3>3. idx[Root] \in Offset /\ \A k \in Offset : k \in Nat /\ k < Count
      BY <1>0, ProgAssumption DEF Met, TypeOK, Offset
    <3>4. DataByte(w) = Result(Root, c)[w][idx[Root]]
      BY <1>0, <3>1, <3>2, <3>3, ResultIs DEF DataByte
    <3>5. \A b \in Node, k \in Offset :
             buf'[Root][b][k] = IF b = w /\ k = idx[Root] THEN DataByte(w) ELSE buf[Root][b][k]
      BY <1>0, <2>1, <2>3, Stored
    <3>6. \A b \in Node, k \in Offset :
             buf[Root][b][k] = IF b \in Worker /\ (b < w \/ (b = w /\ k < idx[Root]))
                               THEN Result(Root, c)[b][k] ELSE NoByte
      BY <2>1, <2>3, <3>1 DEF Cells, Filled, InBody
    <3>7. call'[Root] = c /\ Op(Root)' = "gather"
      BY <2>1, <3>1 DEF Op
    <3>8. CASE idx[Root] + 1 < Count
      <4>1. pc'[Root] = "get" /\ idx'[Root] = idx[Root] + 1 /\ peer' = w
        BY <1>0, <2>1, <2>3, <3>8 DEF RecvReturns, Goto, Met, TypeOK
      <4>2. \A b \in Node, k \in Offset :
               buf'[Root][b][k] = IF b \in Worker /\ (b < w \/ (b = w /\ k < idx[Root] + 1))
                                  THEN Result(Root, c)[b][k] ELSE NoByte
        BY <3>3, <3>4, <3>5, <3>6
      <4>3. QED BY <3>7, <4>1, <4>2 DEF Cells, Filled, InBody
    <3>9. CASE ~(idx[Root] + 1 < Count)
      <4>1. NextInBody BY <2>3, <3>9 DEF RecvReturns
      <4>2. \A b \in Node, k \in Offset :
               buf'[Root][b][k] = IF b \in Worker /\ b <= w
                                  THEN Result(Root, c)[b][k] ELSE NoByte
        <5>1. \A k \in Offset : k <= idx[Root] BY <3>3, <3>9, ProgAssumption
        <5>2. \A b \in Worker : b \in Nat /\ w \in Nat BY WorkerIs
        <5>3. QED BY <3>3, <3>4, <3>5, <3>6, <5>1, <5>2
      <4>3. CASE Later(peer) # {}
        <5>1. pc'[Root] = "putSend"
          BY <1>0, <3>1, <4>1, <4>3, BodyIs DEF NextInBody, Goto, Body, Met, TypeOK
        <5>2. peer' \in Worker /\ peer' > w /\ \A b \in Worker : b > w => peer' <= b
          BY <2>1, <4>1, <4>3, NextWorker DEF NextInBody
        <5>3. \A b \in Worker : b \in Nat /\ w \in Nat /\ peer' \in Nat
          BY <5>2, WorkerIs
        <5>4. \A b \in Worker : b < peer' <=> b <= w BY <5>2, <5>3
        <5>5. QED BY <3>7, <4>2, <5>1, <5>4 DEF Cells, Filled, InBody
      <4>4. CASE Later(peer) = {}
        <5>1. pc'[Root] = "ret"
          BY <1>0, <4>1, <4>4 DEF NextInBody, Goto, Met, TypeOK
        <5>2. \A b \in Worker : b <= w BY <2>1, <4>4, WorkerIs DEF Later
        <5>3. QED BY <3>7, <4>2, <5>1, <5>2 DEF Cells, Filled
      <4>5. QED BY <4>3, <4>4
    <3>10. QED BY <3>8, <3>9
  <2>4. QED BY <1>10, <2>2, <2>3, RootGets
<1>11. QED BY <1>2, <1>3, <1>4, <1>7, <1>8, <1>9, <1>10 DEF RootStep

-----------------------------------------------------------------------------
(* Delivered.                                                              *)

LEMMA ResultByCells ==
  ASSUME NEW c, NEW n, NEW F \in [Node -> [Offset -> Byte \cup {NoByte}]],
         \A b \in Node, k \in Offset : F[b][k] = Result(n, c)[b][k]
  PROVE  F = Result(n, c)
<1> DEFINE R(b, k) == CASE Prog[c] = "bcast" /\ n # Root /\ b = 0 -> Data[c][Root][0][k]
                        [] Prog[c] = "scatter" /\ b = 0 -> Data[c][Root][n][k]
                        [] Prog[c] = "gather" /\ n = Root -> Data[c][b][0][k]
                        [] OTHER -> NoByte
<1>1. Result(n, c) = [b \in Node |-> [k \in Offset |-> R(b, k)]] BY DEF Result
<1> HIDE DEF R
<1>2. \A b \in Node : F[b] = [k \in Offset |-> R(b, k)] BY <1>1
<1>3. QED BY <1>1, <1>2

LEMMA Get8Stays ==
  ASSUME TypeOK, NEW m \in Node, NEW v, Get8Returns(m, v)
  PROVE  pc[m] # "run" /\ pc'[m] # "run"
<1>0. Root \in Node /\ Body(Root) # "run" BY SizeAssumption, BodyType
<1>1. CASE WaitSignalReturns(m, v)
  <2>1. CASE v = SyncSignal
    BY <1>1, <2>1 DEF WaitSignalReturns, Goto, TypeOK, SyncSignal, SendSignal
  <2>2. CASE v = SendSignal
    BY <1>1, <2>2 DEF WaitSignalReturns, Goto, TypeOK, SyncSignal, SendSignal
  <2>3. CASE v \notin {SyncSignal, SendSignal}
    BY <1>1, <2>3 DEF WaitSignalReturns, Goto, TypeOK
  <2>4. QED BY <2>1, <2>2, <2>3
<1>2. CASE WaitSignalTimeoutReturns(m, v)
  <2>1. m = Root BY <1>2 DEF WaitSignalTimeoutReturns, TypeOK, PcOf, WorkerPc
  <2>2. QED
    BY <1>0, <1>2, <2>1 DEF WaitSignalTimeoutReturns, NextInSync, Goto, TypeOK
<1>3. CASE RecvReturns(m, v)
  <2>1. pc[m] = "get" BY <1>3 DEF RecvReturns
  <2>2. CASE idx[m] + 1 < Count
    BY <1>3, <2>1, <2>2 DEF RecvReturns, Goto, TypeOK
  <2>3. CASE ~(idx[m] + 1 < Count) /\ m = Root
    <3>1. NextInBody BY <1>3, <2>3 DEF RecvReturns
    <3>2. QED BY <1>0, <2>1, <2>3, <3>1 DEF NextInBody, Goto, TypeOK
  <2>4. CASE ~(idx[m] + 1 < Count) /\ m # Root
    BY <1>3, <2>1, <2>4 DEF RecvReturns, Goto, TypeOK
  <2>5. QED BY <2>2, <2>3, <2>4
<1>4. QED BY <1>1, <1>2, <1>3 DEF Get8Returns

\* Who is out of a collective stays out of it, or has just returned from one.
LEMMA RunIs ==
  ASSUME Met, [Next]_vars, NEW n \in Node, pc'[n] = "run"
  PROVE  \/ Return(n)
         \/ pc[n] = "run" /\ call'[n] = call[n] /\ buf'[n] = buf[n]
<1> USE DEF Met
<1>0. Root \in Node /\ Body(Root) # "run" /\ Body(n) # "run"
  BY SizeAssumption, BodyType
<1>1. ASSUME NEW m \in Node, Enter(m) \/ Return(m) \/ EndDelay(m)
      PROVE  \/ Return(n)
             \/ pc[n] = "run" /\ call'[n] = call[n] /\ buf'[n] = buf[n]
  <2>1. CASE Enter(m)
    BY <1>1, <2>1 DEF Enter, Goto, TypeOK
  <2>2. CASE Return(m)
    <3>1. m # n => pc[n] = "run" BY <2>2 DEF Return, Goto, TypeOK
    <3>2. m # n => call'[n] = call[n] BY <2>2 DEF Return, TypeOK
    <3>3. m # n => buf'[n] = buf[n] BY <2>2 DEF Return, TypeOK
    <3>4. QED BY <2>2, <3>1, <3>2, <3>3
  <2>3. CASE EndDelay(m)
    BY <1>1, <2>3 DEF EndDelay, Goto, TypeOK
  <2>4. QED BY <1>1, <2>1, <2>2, <2>3
<1>2. ASSUME NEW m \in Node, NEW v, Get8Returns(m, v)
      PROVE  pc[n] = "run" /\ buf'[n] = buf[n]
  BY <1>2, Get8Stays, Get8Moves
<1>3. ASSUME NEW m \in Node, Expire(m)
      PROVE  pc[n] = "run" /\ call'[n] = call[n] /\ buf'[n] = buf[n]
  <2>1. Get8Returns(m, TimedOut) /\ call' = call BY <1>3 DEF Expire
  <2>2. QED BY <1>2, <2>1
<1>4. ASSUME NEW m \in Node, StartBit(m) \/ DataBits(m) \/ Misread(m)
      PROVE  pc[n] = "run" /\ call'[n] = call[n] /\ buf'[n] = buf[n]
  BY <1>4 DEF StartBit, DataBits, Misread
<1>5. ASSUME NEW m \in Node, StopBit(m)
      PROVE  pc[n] = "run" /\ call'[n] = call[n] /\ buf'[n] = buf[n]
  <2>1. call' = call /\ Partner(m) \in Node
    BY <1>0, <1>5 DEF StopBit, Partner, TypeOK, Worker
  <2>2. CASE wire[m].got = NoByte BY <1>5, <2>1, <2>2 DEF StopBit
  <2>3. CASE wire[m].got # NoByte
    <3>1. Get8Returns(Partner(m), wire[m].got) BY <1>5, <2>3 DEF StopBit
    <3>2. QED BY <1>2, <2>1, <3>1
  <2>4. QED BY <2>2, <2>3
<1>6. ASSUME NEW m \in Node, Put8Returns(m)
      PROVE  pc[n] = "run" /\ call'[n] = call[n] /\ buf'[n] = buf[n]
  <2>1. call' = call /\ buf' = buf BY <1>6 DEF Put8Returns
  <2>2. Body(m) # "run" BY BodyType
  <2>3. pc[n] = "run"
    BY <1>0, <1>6, <2>2 DEF Put8Returns, NextInBody, Goto, TypeOK
  <2>4. QED BY <2>1, <2>3
<1>7. CASE Tick BY <1>7 DEF Tick
<1>8. CASE UNCHANGED vars BY <1>8 DEF vars
<1>9. QED
  BY <1>1, <1>3, <1>4, <1>5, <1>6, <1>7, <1>8 DEF Next, Step, Terminated

LEMMA StepDelivered ==
  ASSUME Met, Placed, Delivered, \A n \in Node : Cells(n), [Next]_vars
  PROVE  Delivered'
<1> SUFFICES ASSUME NEW n \in Node, pc'[n] = "run", call'[n] > 1
             PROVE  buf'[n] = Result(n, call'[n] - 1)
  BY DEF Delivered, Result
<1>1. CASE pc[n] = "run" /\ call'[n] = call[n] /\ buf'[n] = buf[n]
  BY <1>1 DEF Delivered
<1>2. CASE Return(n)
  <2>1. PICK c \in 1..NCalls : c = call[n] /\ Op(n) = Prog[c] /\ Prog[c] \in Collective
    BY <1>2, OpIs DEF Return, Met, Op
  <2>2. call'[n] - 1 = c BY <1>2, <2>1 DEF Return, Met, TypeOK
  <2>3. pc[n] = "ret" BY <1>2 DEF Return
  <2>4. buf'[n] \in [Node -> [Offset -> Byte \cup {NoByte}]]
    BY StepType DEF Met, TypeOK
  <2>5. 0 \in Node /\ buf[n] \in [Node -> [Offset -> Byte \cup {NoByte}]]
    BY ZeroIsNode DEF Met, TypeOK
  <2>6. \A b \in Node, k \in Offset : buf'[n][b][k] = Result(n, c)[b][k]
    <3>1. CASE n # Root
      <4>1. buf'[n] = buf[n] BY <1>2, <3>1 DEF Return
      <4>2. QED BY <2>1, <2>3, <3>1, <4>1 DEF Cells, Filled
    <3>2. CASE n = Root /\ Prog[c] \in {"bcast", "barrier"}
      <4>1. buf'[n] = buf[n] BY <1>2, <2>1, <3>2 DEF Return
      <4>2. \A b \in Node, k \in Offset : buf[n][b][k] = NoByte
        BY <2>1, <2>3, <3>2 DEF Cells, Filled
      <4>3. QED BY <2>1, <3>2, <4>1, <4>2, ResultIs
    <3>3. CASE n = Root /\ Prog[c] \in {"scatter", "gather"}
      <4>0. Root = 0 BY <2>1, <3>3 DEF Placed
      <4>1. buf' = [buf EXCEPT ![n][0] = Data[c][n][0]] BY <1>2, <2>1, <3>3 DEF Return
      <4>2. buf'[n] = [buf[n] EXCEPT ![0] = Data[c][n][0]] BY <4>1 DEF Met, TypeOK
      <4>3. /\ buf'[n][0] = Data[c][n][0]
            /\ \A b \in Node : b # 0 => buf'[n][b] = buf[n][b]
        BY <2>5, <4>2
      <4>4. CASE Prog[c] = "scatter"
        <5>1. \A b \in Node, k \in Offset : buf[n][b][k] = NoByte
          BY <2>1, <2>3, <3>3, <4>4 DEF Cells, Filled
        <5>2. QED BY <2>1, <2>5, <3>3, <4>0, <4>3, <4>4, <5>1, ResultIs
      <4>5. CASE Prog[c] = "gather"
        <5>1. \A b \in Node, k \in Offset :
                 b # Root => buf[n][b][k] = Result(n, c)[b][k]
          BY <2>1, <2>3, <3>3, <4>5 DEF Cells, Filled, Worker
        <5>2. \A k \in Offset : Result(n, c)[0][k] = Data[c][n][0][k]
          BY <2>1, <2>5, <3>3, <4>0, <4>5, ResultIs
        <5>3. QED BY <2>5, <3>3, <4>0, <4>3, <5>1, <5>2
      <4>6. QED BY <3>3, <4>4, <4>5
    <3>4. QED BY <2>1, <3>1, <3>2, <3>3 DEF Collective
  <2>7. QED BY <2>2, <2>4, <2>6, ResultByCells
<1>3. QED BY <1>1, <1>2, RunIs

-----------------------------------------------------------------------------

LEMMA InitInv == Init => IInv
<1> SUFFICES ASSUME Init PROVE IInv OBVIOUS
<1>1. TypeOK BY InitType
<1>2. Root \in Node /\ \A n \in Node : pc[n] = "run" /\ wire[n] = Idle /\ call[n] = 1
  BY SizeAssumption DEF Init
<1>3. WireInv /\ RootInv /\ TurnInv /\ WorkerInv
  BY <1>2, WorkerIs DEF WireInv, RootInv, TurnInv, WorkerInv, Idle, OnLine, InBody
<1>4. \A w \in Worker : Meets(w)
  BY <1>2, WorkerIs DEF Meets, InSync, InBody, Waiting
<1>5. BufInv BY <1>2 DEF BufInv
<1>6. QED BY <1>1, <1>3, <1>4, <1>5 DEF IInv

LEMMA StepInv ==
  ASSUME Prompt \/ Size > 2, IInv, NeverBlowsUp, [Next]_vars PROVE IInv'
<1>1. Met /\ WorkerInv /\ \A n \in Node : Cells(n)
  BY DEF IInv, Met, BufInv, Cells
<1>2. TypeOK' BY <1>1, StepType DEF Met
<1>3. WireInv' BY <1>1, StepWire
<1>4. RootInv' BY <1>1, StepRoot
<1>5. TurnInv' BY <1>1, StepTurn
<1>6. \A w \in Worker : Meets(w)' BY <1>1, StepMeets
<1>7. WorkerInv' BY <1>1, StepWorker
<1>8. BufInv'
  <2>1. \A n \in Node : Cells(n)'
    BY <1>1, StepWorkerCells, StepRootCells DEF Worker
  <2>2. QED BY <2>1 DEF BufInv, Cells
<1>9. QED BY <1>2, <1>3, <1>4, <1>5, <1>6, <1>7, <1>8 DEF IInv

\* As long as no get8 of recv gives up after its 500 s, and if the root is Pi 0 or
\* the program neither scatters nor gathers, every collective leaves exactly its result in every receive buffer, for every
\* number of Pis, program, data, buffer size and timing that keeps DELAY_MS below
\* TIMEOUT_MS; with two Pis only if get8 is reached within a bit after put8.
THEOREM DeliveredCorrect ==
  ASSUME Placed, Prompt \/ Size > 2
  PROVE  Spec /\ []NeverBlowsUp => []Delivered
<1>1. Init => IInv BY InitInv
<1>2. IInv /\ NeverBlowsUp /\ [Next]_vars => IInv' BY StepInv
<1>3. Init => Delivered BY DEF Init, Delivered
<1>4. IInv /\ Delivered /\ [Next]_vars => Delivered'
  <2>1. IInv => Met /\ \A n \in Node : Cells(n) BY DEF IInv, Met, BufInv, Cells
  <2>2. QED BY <2>1, StepDelivered
<1>5. QED BY <1>1, <1>2, <1>3, <1>4, PTL DEF Spec

-----------------------------------------------------------------------------
(* What follows from the invariant.                                        *)

LEMMA IInvMeets == IInv => Met
BY DEF IInv, Met

\* The invariant holds in every reachable state: every worker is where the
\* root's position in its loops says (fmpi.c:23-163).
THEOREM InvariantCorrect ==
  ASSUME Prompt \/ Size > 2
  PROVE  Spec /\ []NeverBlowsUp => []IInv
<1>1. Init => IInv BY InitInv
<1>2. IInv /\ NeverBlowsUp /\ [Next]_vars => IInv' BY StepInv
<1>3. QED BY <1>1, <1>2, PTL DEF Spec

-----------------------------------------------------------------------------
(* The window of the answer.                                               *)

LEMMA NotDelaying ==
  ASSUME TypeOK, NEW w \in Worker, pc[w] = "delaySync", NEW c
  PROVE  ~Waiting(w, c) /\ ~Synced(w, c) /\ ~Sending(w, c) /\ ~Calling(w, c)
         /\ ~Collecting(w, c)
<1>1. \A d : ~Waiting(w, d) BY DEF Waiting, Leaving
<1>2. ~Ready(w, c)
  <2>1. Body(w) # "delaySync" BY WorkerIs DEF Body, BodyOf
  <2>2. QED BY <2>1 DEF Ready
<1>3. ~Synced(w, c) BY <1>1, <1>2 DEF Synced
<1>4. wire[Root].phase \in {"idle", "start", "bits", "stop"}
  BY WorkerIs DEF TypeOK, Frame
<1>5. \A k : ~AtByte(w, c, k) BY DEF AtByte
<1>6. QED BY <1>1, <1>2, <1>3, <1>4, <1>5 DEF Sending, Calling, Collecting

LEMMA WindowOfMeets == IInv => AnswerInWindow
<1> SUFFICES ASSUME IInv, NEW w \in Worker, pc[w] = "delaySync"
             PROVE  /\ peer = w
                    /\ \/ pc[Root] = "getSync" /\ timer[w] < timer[Root]
                       \/ pc[Root] = "putSync" /\ wire[Root].phase = "stop"
  BY DEF AnswerInWindow
<1> DEFINE c == call[Root]
<1>1. TypeOK /\ Meets(w) BY DEF IInv
<1>2. pc[Root] \in RootPc /\ peer \in Nat /\ w \in Nat
  BY <1>1, WorkerIs DEF TypeOK, PcOf
<1>3. \A d : ~Waiting(w, d) /\ ~Synced(w, d) /\ ~Sending(w, d) /\ ~Calling(w, d)
             /\ ~Collecting(w, d)
  BY <1>1, NotDelaying
<1>4. peer = w /\ pc[Root] \in {"putSync", "getSync"}
  BY <1>1, <1>2, <1>3 DEF Meets, InSync, InBody, RootPc
<1>5. CASE pc[Root] = "putSync"
  <2>1. Requested(w, c) BY <1>1, <1>4, <1>5 DEF Meets
  <2>2. QED BY <1>3, <1>4, <1>5, <2>1 DEF Requested
<1>6. CASE pc[Root] = "getSync"
  <2>1. Answering(w, c) BY <1>1, <1>4, <1>6 DEF Meets
  <2>2. QED BY <1>3, <1>4, <1>6, <2>1 DEF Answering
<1>7. QED BY <1>4, <1>5, <1>6

\* A worker that has taken a SYNC answers while the root polls for it
\* (fmpi.c:23-63: DELAY_MS against TIMEOUT_MS), for every size and timing.
THEOREM AnswerInWindowCorrect ==
  ASSUME Prompt \/ Size > 2
  PROVE  Spec /\ []NeverBlowsUp => []AnswerInWindow
<1>1. Spec /\ []NeverBlowsUp => []IInv BY InvariantCorrect
<1>2. IInv => AnswerInWindow BY WindowOfMeets
<1>3. QED BY <1>1, <1>2, PTL

-----------------------------------------------------------------------------
(* What gets lost.  IInv speaks of the data bits; the rest is that a stop  *)
(* bit keeps what they left.                                               *)

StopHeard ==
    \A n \in Node : wire[n].phase = "stop" /\ ~(n = Root /\ pc[n] = "putSync")
                       => wire[n].got = wire[n].val

LEMMA BitsHeard ==
  ASSUME Met, NEW n \in Node, wire[n].phase = "bits", ~(n = Root /\ pc[n] = "putSync")
  PROVE  wire[n].got = wire[n].val
<1>1. CASE n = Root BY <1>1, RootHeard
<1>2. CASE n # Root
  <2>1. n \in Worker BY <1>2 DEF Worker
  <2>2. QED BY <2>1, WorkerHeard
<1>3. QED BY <1>1, <1>2

LEMMA StepStopHeard ==
  ASSUME Met, StopHeard, [Next]_vars PROVE StopHeard'
<1> SUFFICES ASSUME NEW k \in Node, wire'[k].phase = "stop",
                    ~(k = Root /\ pc'[k] = "putSync")
             PROVE  wire'[k].got = wire'[k].val
  BY DEF StopHeard
<1>1. CASE \A n \in Node : ~StopBit(n)
  <2>1. wire[k] = wire'[k] /\ pc[k] = pc'[k] BY <1>1, StopStays
  <2>2. QED BY <2>1 DEF StopHeard
<1>2. ASSUME NEW n \in Node, StopBit(n) PROVE wire'[k].got = wire'[k].val
  <2>1. k = n BY <1>2 DEF StopBit, Met, TypeOK
  <2>2. /\ wire[k].phase = "bits" /\ wire'[k].got = wire[k].got
        /\ wire'[k].val = wire[k].val
    BY <1>2, <2>1 DEF StopBit, Met, TypeOK, OnLine
  <2>3. ASSUME k = Root, pc[k] = "putSync" PROVE pc'[k] = "putSync"
    <3>1. CASE wire[k].got = NoByte BY <1>2, <2>1, <2>3, <3>1 DEF StopBit
    <3>2. CASE wire[k].got # NoByte
      <4>1. Get8Returns(Partner(k), wire[k].got) BY <1>2, <2>1, <3>2 DEF StopBit
      <4>2. Partner(k) \in Node /\ Partner(k) # k
        BY <2>3, WorkerIs DEF Partner, Met, TypeOK
      <4>3. QED BY <2>3, <4>1, <4>2, Get8Moves DEF Met
    <3>3. QED BY <3>1, <3>2
  <2>4. QED BY <2>2, <2>3, BitsHeard
<1>3. QED BY <1>1, <1>2

\* Every byte but a SYNC request of the root finds its receiver polling and is
\* heard as it was sent (fmpi.c:13-63), for every size and timing.
THEOREM OnlyRequestsLostCorrect ==
  ASSUME Prompt \/ Size > 2
  PROVE  Spec /\ []NeverBlowsUp => []OnlyRequestsLost
<1>1. Spec /\ []NeverBlowsUp => []IInv BY InvariantCorrect
<1>2. Init => StopHeard BY DEF Init, StopHeard, Idle, OnLine
<1>3. IInv /\ StopHeard /\ [Next]_vars => StopHeard' BY IInvMeets, StepStopHeard
<1>4. IInv /\ StopHeard => OnlyRequestsLost
  BY IInvMeets, BitsHeard DEF StopHeard, OnlyRequestsLost
<1>5. QED BY <1>1, <1>2, <1>3, <1>4, PTL DEF Spec

-----------------------------------------------------------------------------
(* The refinement of Collective.                                           *)

\* Every Pi has entered the root's call when the root is through with it.
LEMMA AllEntered ==
  ASSUME Met, pc[Root] = "ret", NEW n \in Node
  PROVE  Entered(n, call[Root])
<1>1. CASE n = Root BY <1>1 DEF Entered
<1>2. CASE n # Root
  <2>1. n \in Worker /\ call[n] \in Int /\ call[Root] \in Int
    BY <1>2, WorkerIs DEF Worker, Met, TypeOK
  <2>2. Waiting(n, call[Root] + 1) BY <2>1 DEF Met, Meets
  <2>3. QED BY <2>1, <2>2 DEF Waiting, Leaving, Entered
<1>3. QED BY <1>1, <1>2

\* The root has entered the call a worker is through with.
LEMMA RootEntered ==
  ASSUME Met, NEW w \in Worker, pc[w] = "ret"
  PROVE  Entered(Root, call[w])
<1> DEFINE c == call[Root]
<1>1. /\ c \in Int /\ call[w] \in Int /\ pc[Root] \in RootPc
      /\ peer \in Nat /\ w \in Nat
      /\ wire[Root].phase \in {"idle", "start", "bits", "stop"}
  BY WorkerIs DEF Met, TypeOK, PcOf, Frame
<1>2. ASSUME NEW d, Waiting(w, d) PROVE call[w] = d - 1
  BY <1>2 DEF Waiting
<1>3. ASSUME call[w] = c - 1 \/ (call[w] = c /\ pc[Root] # "run")
      PROVE  Entered(Root, call[w])
  BY <1>1, <1>3 DEF Entered
<1>4. Meets(w) BY DEF Met
<1>5. CASE Waiting(w, c) BY <1>1, <1>2, <1>3, <1>5
<1>6. CASE pc[Root] # "run" /\ Waiting(w, c + 1)
  <2>1. call[w] = c BY <1>1, <1>2, <1>6
  <2>2. QED BY <1>3, <1>6, <2>1
<1>7. CASE pc[Root] # "run" /\ call[w] = c BY <1>3, <1>7
<1>8. pc[Root] # "run" /\ Synced(w, c) => Entered(Root, call[w])
  BY <1>6, <1>7 DEF Synced, Ready
<1>9. CASE pc[Root] = "run" BY <1>4, <1>5, <1>9 DEF Meets
<1>10. CASE pc[Root] = "ret" BY <1>4, <1>6, <1>10 DEF Meets
<1>11. CASE InSync \/ InBody
  <2>1. pc[Root] # "run" BY <1>11 DEF InSync, InBody
  <2>2. CASE w # peer
    BY <1>1, <1>4, <1>5, <1>6, <1>8, <1>11, <2>1, <2>2 DEF Meets
  <2>3. CASE w = peer
    <3>1. Requested(w, c) => Entered(Root, call[w])
      BY <1>5, <1>7, <2>1 DEF Requested
    <3>2. Answering(w, c) => Entered(Root, call[w])
      BY <1>5, <1>7, <2>1 DEF Answering
    <3>3. Sending(w, c) => Entered(Root, call[w])
      BY <1>1, <1>6, <1>7, <1>8, <2>1 DEF Sending, AtByte
    <3>4. Calling(w, c) => Entered(Root, call[w])
      BY <1>1, <1>7, <1>8, <2>1 DEF Calling, Ready
    <3>5. Collecting(w, c) => Entered(Root, call[w])
      BY <1>7, <2>1 DEF Collecting
    <3>6. QED
      BY <1>4, <1>8, <1>11, <2>1, <2>3, <3>1, <3>2, <3>3, <3>4, <3>5
      DEF Meets, InSync, InBody
  <2>4. QED BY <2>2, <2>3
<1>12. QED BY <1>1, <1>9, <1>10, <1>11 DEF RootPc, InSync, InBody

\* A call is only entered by Enter and left by Return.
LEMMA StaysInside ==
  ASSUME Met, [Next]_vars, \A n \in Node : ~Enter(n) /\ ~Return(n), NEW k \in Node
  PROVE  /\ call'[k] = call[k] /\ (pc'[k] = "run") = (pc[k] = "run")
         /\ pc[k] = "run" => buf'[k] = buf[k]
<1> USE DEF Met
<1>0. Root \in Node /\ call' = call
  BY SizeAssumption
  DEF Next, Step, EndDelay, Expire, StartBit, DataBits, Misread, StopBit,
      Put8Returns, Tick, Terminated, vars
<1>1. pc'[k] = "run" => pc[k] = "run" /\ buf'[k] = buf[k] BY RunIs
<1>2. ASSUME pc[k] = "run" PROVE pc'[k] = "run"
  <2>1. ASSUME NEW n \in Node, NEW v, Get8Returns(n, v) PROVE pc'[k] = pc[k]
    <3>1. CASE n = k
      BY <1>2, <2>1, <3>1
      DEF Get8Returns, WaitSignalReturns, WaitSignalTimeoutReturns, RecvReturns
    <3>2. CASE n # k BY <2>1, <3>2, Get8Moves
    <3>3. QED BY <3>1, <3>2
  <2>2. ASSUME NEW n \in Node, Step(n) PROVE pc'[k] = "run"
    <3>1. CASE EndDelay(n) BY <1>2, <3>1 DEF EndDelay, Goto, TypeOK
    <3>2. CASE Expire(n) BY <1>2, <2>1, <3>2 DEF Expire
    <3>3. CASE StartBit(n) \/ DataBits(n) \/ Misread(n)
      BY <1>2, <3>3 DEF StartBit, DataBits, Misread
    <3>4. CASE StopBit(n)
      <4>1. Partner(n) \in Node BY <1>0 DEF Partner, Worker, TypeOK
      <4>2. QED BY <1>2, <2>1, <3>4, <4>1 DEF StopBit
    <3>5. CASE Put8Returns(n)
      <4>1. pc[n] = "putSend" => n = Root BY DEF PcOf, WorkerPc, TypeOK
      <4>2. QED
        BY <1>0, <1>2, <3>5, <4>1 DEF Put8Returns, NextInBody, Goto, TypeOK
    <3>6. QED BY <2>2, <3>1, <3>2, <3>3, <3>4, <3>5 DEF Step
  <2>3. QED BY <1>2, <2>2 DEF Next, Tick, Terminated, vars
<1>3. QED BY <1>0, <1>1, <1>2

Inside == [n \in Node |-> pc[n] # "run"]
Results == [n \in Node |-> IF pc[n] = "run" THEN buf[n] ELSE Empty]

LEMMA EnterRefines ==
  ASSUME TypeOK, NEW n \in Node, Enter(n) PROVE Promise!Enter(n)
<1>1. pc[n] = "run" /\ call[n] <= NCalls /\ call' = call
  BY ProgAssumption DEF Enter, Finished, TypeOK
<1>2. /\ pc'[n] # "run" /\ \A k \in Node : k # n => pc'[k] = pc[k] /\ buf'[k] = buf[k]
  BY DEF Enter, Goto, TypeOK
<1>3. Inside' = [Inside EXCEPT ![n] = TRUE] BY <1>2 DEF Inside
<1>4. Results' = [Results EXCEPT ![n] = Empty] BY <1>2 DEF Results, Empty
<1>5. QED BY <1>1, <1>3, <1>4 DEF Promise!Enter, Inside, Results

LEMMA ReturnRefines ==
  ASSUME Met, Delivered', NEW n \in Node, Return(n) PROVE Promise!Leave(n)
<1>1. /\ pc[n] = "ret" /\ call' = [call EXCEPT ![n] = @ + 1]
      /\ pc'[n] = "run" /\ call[n] \in Nat /\ call[n] >= 1 /\ call'[n] = call[n] + 1
      /\ \A k \in Node : k # n => pc'[k] = pc[k] /\ buf'[k] = buf[k]
  BY DEF Return, Goto, Met, TypeOK
<1>2. buf'[n] = Result(n, call[n])
  <2>1. \A k \in Node : pc'[k] = "run" /\ call'[k] > 1
                           => buf'[k] = Result(k, call'[k] - 1)
    BY DEF Delivered, Result
  <2>2. call'[n] - 1 = call[n] /\ call'[n] > 1 BY <1>1
  <2>3. QED BY <1>1, <2>1, <2>2
<1>3. Inside' = [Inside EXCEPT ![n] = FALSE] BY <1>1 DEF Inside
<1>4. Results' = [Results EXCEPT ![n] = Result(n, call[n])]
  BY <1>1, <1>2 DEF Results, Empty
<1>5. IF n = Root THEN \A m \in Node : Entered(m, call[n]) ELSE Entered(Root, call[n])
  BY <1>1, AllEntered, RootEntered DEF Worker
<1>6. Root \in Node BY SizeAssumption
<1>7. \A m \in Node : Entered(m, call[n]) => Promise!Entered(m, call[n])
  BY DEF Entered, Promise!Entered
<1>8. QED BY <1>1, <1>3, <1>4, <1>5, <1>6, <1>7 DEF Promise!Leave, Inside, Results

LEMMA OthersRefine ==
  ASSUME Met, [Next]_vars, \A n \in Node : ~Enter(n) /\ ~Return(n)
  PROVE  UNCHANGED Promise!vars
<1>1. call' = call
  BY DEF Next, Step, EndDelay, Expire, StartBit, DataBits, Misread, StopBit,
     Put8Returns, Tick, Terminated, vars
<1>2. Inside' = Inside BY StaysInside DEF Inside
<1>3. Results' = Results BY StaysInside DEF Results, Empty
<1>4. QED BY <1>1, <1>2, <1>3 DEF Promise!vars, Inside, Results

\* The collectives of fmpi.c:84-163, byte by byte and with every loss of a
\* request, implement the calls that deliver their result in one step, for
\* every size, program, data and timing.
THEOREM RefinementCorrect ==
  ASSUME Placed, Prompt \/ Size > 2
  PROVE  Spec /\ []NeverBlowsUp => Implements
<1>1. Init => Promise!Init BY DEF Init, Promise!Init
<1>2. ASSUME IInv, Delivered', [Next]_vars PROVE [Promise!Next]_(Promise!vars)
  <2>1. Met /\ Delivered' BY <1>2, IInvMeets
  <2>2. CASE \E n \in Node : Enter(n)
    BY <2>1, <2>2, EnterRefines DEF Promise!Next, Met
  <2>3. CASE \E n \in Node : Return(n)
    BY <2>1, <2>3, ReturnRefines DEF Promise!Next
  <2>4. CASE \A n \in Node : ~Enter(n) /\ ~Return(n)
    BY <1>2, <2>1, <2>4, OthersRefine
  <2>5. QED BY <2>2, <2>3, <2>4
<1>3. Spec /\ []NeverBlowsUp => []IInv BY InvariantCorrect
<1>4. Spec /\ []NeverBlowsUp => []Delivered BY DeliveredCorrect
<1>5. QED BY <1>1, <1>2, <1>3, <1>4, PTL DEF Spec, Implements, Promise!Spec

-----------------------------------------------------------------------------
(* Why no recv gives up.  First the bounds: with at most four Pis every    *)
(* multiple of a turn or of a delay is a sum.                              *)

\* The parts of the bounds, without their products.
LEMMA TurnIs ==
  /\ Turn \in Nat /\ MaxCompute <= Turn /\ MaxCompute + Timeout + Delay <= Turn
  /\ Delay \in Nat /\ Timeout \in Nat /\ MaxCompute \in Nat /\ GetTimeout \in Nat
  /\ Delay > 0 /\ Delay < Timeout
BY TimeAssumption DEF Turn

\* The places of the workers in the root's loop.
LEMMA RankIs ==
  /\ Size \in {2, 3, 4}
  /\ \A w \in Worker : Rank(w) \in 1..(Size - 1) /\ Rank(w) \in 1..3
  /\ \A v, w \in Worker : v < w <=> Rank(v) < Rank(w)
BY SizeAssumption DEF Worker, Node, MaxRpis, Rank

\* The root turns to FirstWorker first.
LEMMA FirstIs == Rank(FirstWorker) = 1
<1>1. CASE Root = 0
  <2>1. 1 \in Worker BY <1>1, SizeAssumption DEF Worker, Node, MaxRpis
  <2>2. FirstWorker \in Worker /\ FirstWorker <= 1 BY <2>1, FirstWorkerIsWorker
  <2>3. QED BY <1>1, <2>2, SizeAssumption DEF Worker, Node, MaxRpis, Rank
<1>2. CASE Root # 0
  <2>1. 0 \in Worker BY <1>2, SizeAssumption DEF Worker, Node, MaxRpis
  <2>2. FirstWorker \in Worker /\ FirstWorker <= 0 BY <2>1, FirstWorkerIsWorker
  <2>3. QED BY <1>2, <2>2, SizeAssumption DEF Worker, Node, MaxRpis, Rank
<1>3. QED BY <1>1, <1>2

LEMMA TurnsAfterIs ==
  ASSUME NEW i \in Worker
  PROVE  /\ TurnsAfter(i) \in Nat
         /\ \A j \in Worker : j > i => TurnsAfter(j) + Turn <= TurnsAfter(i)
<1>1. Size \in {2, 3, 4} BY RankIs
<1>2. \A j \in Worker : Rank(j) \in 1..(Size - 1) BY RankIs
<1>3. PICK t \in Nat : t = Turn BY TurnIs
<1>4. 0 * t = 0 /\ 1 * t = t /\ 2 * t = t + t BY <1>3
<1>5. \A j \in Worker :
         /\ Size - 1 - Rank(j) \in {0, 1, 2}
         /\ TurnsAfter(j) = IF Size - 1 - Rank(j) = 0 THEN 0
                            ELSE IF Size - 1 - Rank(j) = 1 THEN t ELSE t + t
  <2>1. SUFFICES ASSUME NEW j \in Worker
                 PROVE /\ Size - 1 - Rank(j) \in {0, 1, 2}
                       /\ TurnsAfter(j) = IF Size - 1 - Rank(j) = 0 THEN 0
                            ELSE IF Size - 1 - Rank(j) = 1 THEN t ELSE t + t
    OBVIOUS
  <2>2. PICK k \in {0, 1, 2} : k = Size - 1 - Rank(j) BY <1>1, <1>2
  <2>3. TurnsAfter(j) = k * t BY <1>3, <2>2 DEF TurnsAfter
  <2>4. QED BY <1>4, <2>2, <2>3
<1>6. QED BY <1>1, <1>2, <1>3, <1>5, RankIs

LEMMA DelaysIs ==
  /\ Delays(0) = 0 /\ Delays(1) = Delay /\ Delays(2) = Delay + Delay
  /\ Delays(3) = Delay + Delay + Delay
<1>1. PICK d \in Nat : d = Delay BY TurnIs
<1>2. 0 * d = 0 /\ 1 * d = d /\ 2 * d = d + d /\ 3 * d = d + d + d BY <1>1
<1>3. QED BY <1>1, <1>2 DEF Delays

LEMMA DelaysGrow ==
  ASSUME NEW k \in 0..3
  PROVE  /\ Delays(k) \in Nat
         /\ \A j \in 0..3 : j < k => Delays(j) + Delay <= Delays(k)
BY DelaysIs, TurnIs

\* 500 s are enough for whoever has just begun to poll.
LEMMA PatientIs ==
  ASSUME Patient
  PROVE  /\ \A w, p \in Worker : w < p => GetTimeout > Turn + TurnsAfter(p) + Delays(Rank(w))
         /\ \A w, p \in Worker : p <= w => GetTimeout > Delay + Delays(Rank(w) - Rank(p))
         /\ GetTimeout > Delay
<1>1. Size \in {2, 3, 4} BY RankIs
<1>2. \A j \in Worker : Rank(j) \in 1..(Size - 1) BY RankIs
<1>3. PICK t \in Nat : t = Turn BY TurnIs
<1>4. PICK d \in Nat : d = Delay BY TurnIs
<1>5. \A k \in {0, 1, 2} : k * t = IF k = 0 THEN 0 ELSE IF k = 1 THEN t ELSE t + t
  <2>1. 0 * t = 0 /\ 1 * t = t /\ 2 * t = t + t BY <1>3
  <2>2. QED BY <2>1
<1>6. GetTimeout > (IF Size = 2 THEN t + d
                    ELSE IF Size = 3 THEN t + d + t + d ELSE t + d + t + d + t + d)
  <2>1. PICK s \in Nat : s = t + d BY <1>3, <1>4
  <2>2. 1 * s = s /\ 2 * s = s + s /\ 3 * s = s + s + s BY <2>1
  <2>3. PICK k \in {1, 2, 3} : k = Size - 1 BY <1>1
  <2>4. GetTimeout > k * s BY <1>3, <1>4, <2>1, <2>3 DEF Patient
  <2>5. k * s = IF k = 1 THEN s ELSE IF k = 2 THEN s + s ELSE s + s + s BY <2>2
  <2>6. QED BY <1>1, <1>3, <1>4, <2>1, <2>3, <2>4, <2>5, TurnIs
<1>7. ASSUME NEW w \in Worker, NEW p \in Worker, w < p
      PROVE  GetTimeout > Turn + TurnsAfter(p) + Delays(Rank(w))
  <2>1. PICK k \in {0, 1, 2} : k = Size - 1 - Rank(p) BY <1>1, <1>2
  <2>2. TurnsAfter(p) = k * t BY <1>3, <2>1 DEF TurnsAfter
  <2>3. /\ Rank(w) = 1 \/ (Rank(w) = 2 /\ Size = 4 /\ k = 0)
        /\ Size > 2 /\ (Size = 3 => k = 0) /\ k < 2
    <3>1. /\ Rank(w) \in {1, 2, 3} /\ Rank(p) \in {1, 2, 3}
          /\ Rank(p) < Size /\ Rank(w) < Rank(p)
      BY <1>1, <1>2, <1>7, RankIs
    <3>2. CASE Size = 2 BY <1>7, <3>1, <3>2
    <3>3. CASE Size = 3 BY <1>7, <2>1, <3>1, <3>3
    <3>4. CASE Size = 4 BY <1>7, <2>1, <3>1, <3>4
    <3>5. QED BY <1>1, <3>2, <3>3, <3>4
  <2>4. k * t = (IF k = 0 THEN 0 ELSE t) BY <1>5, <2>3
  <2>5. QED BY <1>1, <1>3, <1>4, <1>6, <2>2, <2>3, <2>4, DelaysIs, TurnIs
<1>8. ASSUME NEW w \in Worker, NEW p \in Worker, p <= w
      PROVE  GetTimeout > Delay + Delays(Rank(w) - Rank(p))
  <2>1. PICK k \in {0, 1, 2} : k = Rank(w) - Rank(p)
    <3>1. Rank(p) <= Rank(w) BY <1>8, WorkerIs, RankIs
    <3>2. QED BY <1>1, <1>2, <3>1
  <2>2. k < Size - 1 BY <1>1, <1>2, <2>1
  <2>3. Delays(Rank(w) - Rank(p)) = (IF k = 0 THEN 0 ELSE IF k = 1 THEN d ELSE d + d)
    BY <1>4, <2>1, DelaysIs
  <2>4. QED BY <1>1, <1>3, <1>4, <1>6, <2>2, <2>3, TurnIs
<1>9. GetTimeout > Delay BY <1>1, <1>3, <1>4, <1>6, TurnIs
<1>10. QED BY <1>7, <1>8, <1>9

-----------------------------------------------------------------------------
(* Where a step can take a Pi, and what its timer says then.               *)

Hop(n) ==
    \/ pc[n] = "run" /\ pc'[n] \in {"putSync", "waitSync"}
    \/ pc[n] = "ret" /\ pc'[n] = "run"
    \/ pc[n] = "delaySync" /\ pc'[n] = "putSync"
    \/ pc[n] = "delay" /\ pc'[n] = "put"
    \/ pc[n] = "waitSync" /\ pc'[n] = "delaySync"
    \/ pc[n] = "waitSend" /\ pc'[n] = "delay"
    \/ pc[n] = "getSync" /\ n = Root /\ pc'[n] \in {"putSync", "put", "delay", "putSend", "ret"}
    \/ pc[n] = "get" /\ pc'[n] \in {"get", "ret"}
    \/ pc[n] \in {"get", "put"} /\ n = Root /\ pc'[n] \in {"put", "delay", "putSend", "ret"}
    \/ pc[n] = "put" /\ pc'[n] = "ret"
    \/ pc[n] = "putSync" /\ n = Root /\ pc'[n] = "getSync"
    \/ pc[n] = "putSync" /\ n # Root /\ pc'[n] \in {"get", "waitSend", "ret"}
    \/ pc[n] = "putSend" /\ pc'[n] = "get"

Rests(n) == pc'[n] = pc[n] /\ timer'[n] = timer[n]
Hops(n) == Hop(n) /\ timer'[n] = Ticks(pc'[n])

LEMMA BodyHop ==
  /\ Body(Root) \in {"put", "delay", "putSend", "ret"}
  /\ \A n \in Node : n # Root => Body(n) \in {"get", "waitSend", "ret"}
BY DEF Body, BodyOf

LEMMA GotoHop ==
  ASSUME TypeOK, NEW m \in Node, NEW p, Goto(m, p)
  PROVE  /\ pc'[m] = p /\ timer'[m] = Ticks(p)
         /\ \A n \in Node : n # m => Rests(n)
BY DEF TypeOK, Goto, Rests

LEMMA LoopHop ==
  ASSUME TypeOK, \/ pc[Root] = "getSync" /\ NextInSync
                 \/ pc[Root] \in {"get", "put"} /\ NextInBody
  PROVE  \A n \in Node : Rests(n) \/ Hops(n)
<1>0. Root \in Node BY SizeAssumption
<1>1. CASE pc[Root] = "getSync" /\ NextInSync
  <2>1. PICK p \in {"putSync", "put", "delay", "putSend", "ret"} : Goto(Root, p)
    BY <1>1, BodyHop DEF NextInSync
  <2>2. Hops(Root) BY <1>0, <1>1, <2>1, GotoHop DEF Hops, Hop
  <2>3. QED BY <1>0, <2>1, <2>2, GotoHop
<1>2. CASE pc[Root] \in {"get", "put"} /\ NextInBody
  <2>1. PICK p \in {"put", "delay", "putSend", "ret"} : Goto(Root, p)
    BY <1>2, BodyHop DEF NextInBody
  <2>2. Hops(Root) BY <1>0, <1>2, <2>1, GotoHop DEF Hops, Hop
  <2>3. QED BY <1>0, <2>1, <2>2, GotoHop
<1>3. QED BY <1>1, <1>2

LEMMA Get8Hop ==
  ASSUME TypeOK, NEW m \in Node, NEW v, Get8Returns(m, v)
  PROVE  \A n \in Node : Rests(n) \/ Hops(n)
<1>1. CASE WaitSignalReturns(m, v)
  <2>1. CASE pc[m] = "waitSync" /\ Goto(m, "delaySync")
    <3>1. Hops(m) BY <2>1, GotoHop DEF Hops, Hop
    <3>2. QED BY <2>1, <3>1, GotoHop
  <2>2. CASE pc[m] = "waitSend" /\ Goto(m, "delay")
    <3>1. Hops(m) BY <2>2, GotoHop DEF Hops, Hop
    <3>2. QED BY <2>2, <3>1, GotoHop
  <2>3. CASE UNCHANGED <<pc, timer>> BY <2>3 DEF Rests
  <2>4. QED BY <1>1, <2>1, <2>2, <2>3 DEF WaitSignalReturns
<1>2. CASE WaitSignalTimeoutReturns(m, v)
  <2>1. m = Root /\ pc[m] = "getSync"
    BY <1>2 DEF WaitSignalTimeoutReturns, TypeOK, PcOf, WorkerPc
  <2>2. CASE NextInSync BY <2>1, <2>2, LoopHop
  <2>3. CASE Goto(m, "putSync")
    <3>1. Hops(m) BY <2>1, <2>3, GotoHop DEF Hops, Hop
    <3>2. QED BY <2>3, <3>1, GotoHop
  <2>4. QED BY <1>2, <2>2, <2>3 DEF WaitSignalTimeoutReturns
<1>3. CASE RecvReturns(m, v)
  <2>1. pc[m] = "get" BY <1>3 DEF RecvReturns
  <2>2. ASSUME NEW p \in {"get", "ret"}, Goto(m, p) PROVE \A n \in Node : Rests(n) \/ Hops(n)
    <3>1. Hops(m) BY <2>1, <2>2, GotoHop DEF Hops, Hop
    <3>2. QED BY <2>2, <3>1, GotoHop
  <2>3. CASE m = Root /\ NextInBody BY <2>1, <2>3, LoopHop
  <2>4. QED BY <1>3, <2>2, <2>3 DEF RecvReturns
<1>4. QED BY <1>1, <1>2, <1>3 DEF Get8Returns

LEMMA StepHop ==
  ASSUME TypeOK, [Next]_vars, ~Tick
  PROVE  \A n \in Node : Rests(n) \/ Hops(n)
<1>0. Root \in Node /\ peer \in Node BY SizeAssumption DEF TypeOK, Worker
<1>1. ASSUME NEW m \in Node, Enter(m) \/ Return(m) \/ EndDelay(m)
      PROVE  \A n \in Node : Rests(n) \/ Hops(n)
  <2>1. Hops(m)
    BY <1>1, GotoHop DEF Enter, Return, EndDelay, Hops, Hop
  <2>2. QED BY <1>1, <2>1, GotoHop DEF Enter, Return, EndDelay
<1>2. ASSUME NEW m \in Node, Expire(m) PROVE \A n \in Node : Rests(n) \/ Hops(n)
  BY <1>2, Get8Hop DEF Expire
<1>3. ASSUME NEW m \in Node, StartBit(m) \/ DataBits(m) \/ Misread(m)
      PROVE  \A n \in Node : Rests(n) \/ Hops(n)
  BY <1>3 DEF StartBit, DataBits, Misread, Rests
<1>4. ASSUME NEW m \in Node, StopBit(m) PROVE \A n \in Node : Rests(n) \/ Hops(n)
  <2>1. CASE wire[m].got = NoByte BY <1>4, <2>1 DEF StopBit, Rests
  <2>2. CASE wire[m].got # NoByte
    <3>1. Partner(m) \in Node BY <1>0 DEF Partner
    <3>2. QED BY <1>4, <2>2, <3>1, Get8Hop DEF StopBit
  <2>3. QED BY <2>1, <2>2
<1>5. ASSUME NEW m \in Node, Put8Returns(m) PROVE \A n \in Node : Rests(n) \/ Hops(n)
  <2>1. CASE pc[m] = "putSync" /\ Goto(m, IF m = Root THEN "getSync" ELSE Body(m))
    <3>1. Hops(m) BY <2>1, GotoHop, BodyHop DEF Hops, Hop
    <3>2. QED BY <2>1, <3>1, GotoHop
  <2>2. CASE pc[m] = "putSend" /\ Goto(m, "get")
    <3>1. Hops(m) BY <2>2, GotoHop DEF Hops, Hop
    <3>2. QED BY <2>2, <3>1, GotoHop
  <2>3. CASE UNCHANGED <<pc, timer>> BY <2>3 DEF Rests
  <2>4. CASE pc[m] = "put" /\ m = Root /\ NextInBody BY <2>4, LoopHop
  <2>5. CASE pc[m] = "put" /\ Goto(m, "ret")
    <3>1. Hops(m) BY <2>5, GotoHop DEF Hops, Hop
    <3>2. QED BY <2>5, <3>1, GotoHop
  <2>6. QED BY <1>5, <2>1, <2>2, <2>3, <2>4, <2>5 DEF Put8Returns
<1>6. CASE UNCHANGED vars BY <1>6 DEF vars, Rests
<1>7. QED
  BY <1>1, <1>2, <1>3, <1>4, <1>5, <1>6 DEF Next, Step, Terminated

\* Only Return counts the calls.
LEMMA StepCall ==
  ASSUME Met, [Next]_vars, NEW n \in Node
  PROVE  \/ call'[n] = call[n] /\ ~(pc[n] = "ret" /\ pc'[n] = "run")
         \/ call'[n] = call[n] + 1 /\ pc[n] = "ret" /\ pc'[n] = "run"
<1>1. CASE \E m \in Node : Return(m)
  <2>1. PICK m \in Node : Return(m) BY <1>1
  <2>2. pc[m] = "ret" /\ call' = [call EXCEPT ![m] = @ + 1] /\ Goto(m, "run")
    BY <2>1 DEF Return
  <2>3. QED BY <2>2, GotoHop DEF Met, TypeOK, Rests
<1>2. CASE \E m \in Node : Enter(m)
  <2>1. PICK m \in Node : Enter(m) BY <1>2
  <2>2. pc[m] = "run" /\ call' = call /\ \E p : Goto(m, p) BY <2>1 DEF Enter
  <2>3. QED BY <2>2, GotoHop DEF Met, TypeOK, Rests
<1>3. CASE \A m \in Node : ~Enter(m) /\ ~Return(m) BY <1>3, StaysInside
<1>4. QED BY <1>1, <1>2, <1>3

-----------------------------------------------------------------------------
(* The turn of a worker in sync_root_last gets shorter, never longer.      *)

InTime == \A n \in Node : timer[n] <= Ticks(pc[n])

LEMMA StepInTime == ASSUME Met, InTime, [Next]_vars PROVE InTime'
<1> SUFFICES ASSUME NEW n \in Node PROVE timer'[n] <= Ticks(pc'[n]) BY DEF InTime
<1>1. timer[n] \in Nat /\ Ticks(pc[n]) \in Nat /\ Ticks(pc'[n]) \in Nat /\ timer[n] <= Ticks(pc[n])
  BY TicksNat DEF Met, TypeOK, InTime
<1>2. CASE Tick
  <2>1. pc'[n] = pc[n] /\ timer'[n] = IF timer[n] > 0 THEN timer[n] - 1 ELSE 0
    BY <1>2 DEF Tick
  <2>2. QED BY <1>1, <2>1
<1>3. CASE ~Tick
  <2>1. Rests(n) \/ Hops(n) BY <1>3, StepHop DEF Met
  <2>2. QED BY <1>1, <2>1 DEF Rests, Hops
<1>4. QED BY <1>2, <1>3

\* Whoever polls in recv is due after the root's present transfer or is in it.
Due(w) == \/ InSync /\ w < peer
          \/ InBody /\ peer <= w /\ pc[Root] # "get"
GetterIsDue == \A w \in Worker : pc[w] = "get" => Due(w)

LEMMA GetIs == Met => GetterIsDue
<1> SUFFICES ASSUME Met, NEW w \in Worker, pc[w] = "get" PROVE Due(w)
  BY DEF GetterIsDue
<1>1. PICK c : c = call[Root] OBVIOUS
<1>2. Meets(w) /\ w \in Nat /\ peer \in Nat /\ w # Root /\ w \in Node
  BY WorkerIs DEF Met, TypeOK
<1>3. \A d : ~Waiting(w, d) BY DEF Waiting, Leaving
<1>4. pc[Root] \in RootPc BY WorkerIs DEF Met, TypeOK, PcOf
<1>5. InSync \/ InBody BY <1>1, <1>2, <1>3, <1>4 DEF Meets, InSync, InBody, RootPc
<1>6. InSync => w < peer
  BY <1>1, <1>2, <1>3 DEF Meets, InSync, Requested, Answering
<1>7. InBody => peer <= w BY <1>1, <1>2, <1>3 DEF Meets
<1>8. pc[Root] # "get"
  <2>1. SUFFICES ASSUME pc[Root] = "get" PROVE FALSE OBVIOUS
  <2>2. Prog[c] = "gather" BY <1>1, <2>1 DEF Met, RootInv, Op
  <2>3. ~Collecting(w, c) BY DEF Collecting
  <2>4. ~Synced(w, c)
    <3>1. Ready(w, c) => Body(w) = "waitSend"
      BY <1>2, <2>2, BodyIs DEF Ready, Body, Op
    <3>2. QED BY <2>2, <3>1 DEF Synced, Ready
  <2>5. QED BY <1>1, <1>2, <1>3, <2>1, <2>3, <2>4 DEF Meets, InBody, InSync
<1>9. QED BY <1>5, <1>6, <1>7, <1>8 DEF Due

\* Where the worker can be whose turn it is.
LEMMA PeerIs ==
  ASSUME Met, InSync
  PROVE  /\ call[peer] \in Nat /\ call[Root] \in 1..NCalls
         /\ \/ call[peer] < call[Root] /\ (pc[peer] = "ret" \/ wire[peer].phase = "stop")
            \/ call[peer] = call[Root] /\ pc[peer] \in {"run", "waitSync", "delaySync", "putSync"}
<1>1. PICK c \in Nat : c = call[Root] /\ c \in 1..NCalls
  BY RootIs DEF InSync
<1>2. /\ Meets(peer) /\ peer \in Node /\ call[peer] \in Nat /\ peer \in Worker
  BY WorkerIs, ProgAssumption DEF Met, TypeOK
<1>3. Waiting(peer, c) =>
         \/ call[peer] < c /\ (pc[peer] = "ret" \/ wire[peer].phase = "stop")
         \/ call[peer] = c /\ pc[peer] \in {"run", "waitSync"}
  BY <1>1, <1>2 DEF Waiting, Leaving
<1>4. Requested(peer, c) \/ Answering(peer, c)
  BY <1>1, <1>2 DEF Meets, InSync
<1>5. QED BY <1>1, <1>2, <1>3, <1>4 DEF Requested, Answering

LEMMA RetryIs == Met /\ InTime /\ InSync => Retry \in Nat /\ Retry <= Timeout
<1> SUFFICES ASSUME Met, InTime, InSync PROVE Retry \in Nat /\ Retry <= Timeout
  OBVIOUS
<1>1. Root \in Node BY SizeAssumption
<1>2. timer[Root] \in Nat /\ (pc[Root] = "getSync" => timer[Root] <= Timeout)
  BY <1>1, TicksIs DEF Met, TypeOK, InTime
<1>3. QED BY <1>2, TurnIs DEF Retry

LEMMA TurnLeftIs == Met /\ InTime /\ InSync => TurnLeft \in Nat /\ TurnLeft <= Turn
<1> SUFFICES ASSUME Met, InTime, InSync PROVE TurnLeft \in Nat /\ TurnLeft <= Turn
  OBVIOUS
<1>1. peer \in Node BY WorkerIs DEF Met, TypeOK
<1>2. /\ timer[peer] \in Nat
      /\ pc[peer] = "run" => timer[peer] <= MaxCompute
      /\ pc[peer] = "delaySync" => timer[peer] <= Delay
  <2>1. Ticks("run") = MaxCompute BY DEF Ticks
  <2>2. QED BY <1>1, <2>1, TicksIs DEF Met, TypeOK, InTime
<1>3. Turn = MaxCompute + Timeout + Delay BY DEF Turn
<1>4. CASE call[peer] < call[Root] BY <1>4, PeerIs, TurnIs DEF TurnLeft
<1>5. CASE ~(call[peer] < call[Root])
  BY <1>2, <1>3, <1>5, PeerIs, RetryIs, TurnIs DEF TurnLeft
<1>6. QED BY <1>4, <1>5

\* Only the Pi itself changes its line.
LEMMA WireMoves ==
  ASSUME Met, [Next]_vars, NEW n \in Node
  PROVE  \/ wire'[n] = wire[n]
         \/ StartBit(n) \/ DataBits(n) \/ Misread(n) \/ StopBit(n) \/ Put8Returns(n)
<1>1. ASSUME NEW m \in Node, m # n,
             StartBit(m) \/ DataBits(m) \/ Misread(m) \/ StopBit(m) \/ Put8Returns(m)
      PROVE  wire'[n] = wire[n]
  BY <1>1 DEF StartBit, DataBits, Misread, StopBit, Put8Returns, Met, TypeOK
<1>2. ASSUME NEW m \in Node, Enter(m) \/ Return(m) \/ EndDelay(m) \/ Expire(m)
      PROVE  wire' = wire
  BY <1>2 DEF Enter, Return, EndDelay, Expire
<1>3. QED BY <1>1, <1>2 DEF Next, Step, Tick, Terminated, vars

\* The root leaves put8 only when put8 returns.
LEMMA RootLeaves ==
  ASSUME Met, [Next]_vars, pc[Root] = "putSync", pc'[Root] # "putSync"
  PROVE  Put8Returns(Root)
<1>1. RootStep BY RootStill
<1>2. ~Enter(Root) /\ ~Return(Root) /\ ~EndDelay(Root) /\ ~Expire(Root)
  BY DEF Enter, Return, EndDelay, Expire
<1>3. \A w \in Worker : ~StopBit(w) BY RootGets
<1>4. QED BY <1>1, <1>2, <1>3 DEF RootStep

LEMMA RetryStep ==
  ASSUME Met, Met', InTime, InTime', [Next]_vars, ~Tick, InSync, InSync', peer' = peer,
         pc[peer] = "waitSync", pc'[peer] = "waitSync"
  PROVE  Retry' <= Retry
<1>1. Root \in Node /\ peer \in Node /\ peer \in Worker /\ peer # Root
  BY WorkerIs DEF Met, TypeOK
<1>2. Retry \in Nat /\ Retry' \in Nat /\ Retry <= Timeout /\ Retry' <= Timeout
  <2>1. Retry \in Nat /\ Retry <= Timeout BY RetryIs
  <2>2. (Met /\ InTime /\ InSync => Retry \in Nat /\ Retry <= Timeout)' BY RetryIs, PTL
  <2>3. QED BY <2>1, <2>2
<1>3. Rests(Root) \/ Hops(Root) BY <1>1, StepHop DEF Met
<1>4. CASE pc[Root] = "getSync" /\ pc'[Root] = "getSync"
  <2>1. timer'[Root] = timer[Root] BY <1>3, <1>4 DEF Rests, Hops, Hop
  <2>2. QED BY <1>2, <1>4, <2>1 DEF Retry
<1>5. CASE pc[Root] = "getSync" /\ pc'[Root] = "putSync"
  <2>1. wire[Root].phase = "idle" BY <1>1, <1>5 DEF Met, WireInv, Putting, TypeOK, Frame
  <2>2. wire'[Root].phase \in {"idle", "start"}
    <3>1. CASE StartBit(Root) BY <1>1, <3>1 DEF StartBit, Met, TypeOK, OnLine
    <3>2. CASE wire'[Root] = wire[Root] BY <2>1, <3>2
    <3>3. QED
      BY <1>1, <2>1, <3>1, <3>2, WireMoves DEF DataBits, Misread, StopBit, Put8Returns
  <2>3. Retry' = 0 BY <1>5, <2>2 DEF Retry, Missed
  <2>4. QED BY <1>2, <2>3
<1>6. CASE pc[Root] = "putSync" /\ pc'[Root] = "getSync"
  <2>1. wire[Root].phase = "stop" BY <1>6, RootLeaves DEF Put8Returns
  <2>2. Retry = Timeout BY <1>6, <2>1 DEF Retry, Missed
  <2>3. QED BY <1>2, <2>2
<1>7. CASE pc[Root] = "putSync" /\ pc'[Root] = "putSync"
  <2>1. CASE wire'[Root] = wire[Root] BY <1>2, <1>7, <2>1 DEF Retry, Missed
  <2>2. CASE StartBit(Root)
    <3>1. wire'[Root].phase = "start" BY <1>1, <2>2 DEF StartBit, Met, TypeOK, OnLine
    <3>2. QED BY <1>2, <1>7, <3>1 DEF Retry, Missed
  <2>3. CASE DataBits(Root)
    <3>1. Listens(peer, Root)
      BY <1>1, WorkerIs DEF Listens, Partner, Getting
    <3>2. wire'[Root].got = wire'[Root].val /\ wire'[Root].phase = "bits"
      BY <1>1, <2>3, <3>1 DEF DataBits, Met, TypeOK, OnLine, Partner
    <3>3. QED BY <1>2, <1>7, <3>2 DEF Retry, Missed
  <2>4. ASSUME wire[Root].phase # "idle" PROVE wire[Root].val = SyncSignal
    <3>1. wire[Root].val = Outgoing(Root) BY <1>1, <2>4 DEF Met, WireInv
    <3>2. QED BY <1>7, <3>1 DEF Outgoing
  <2>5. CASE Misread(Root)
    <3>1. wire[Root].phase = "bits" /\ wire[Root].got = NoByte BY <2>5 DEF Misread
    <3>2. wire[Root].got # wire[Root].val BY <2>4, <3>1 DEF NoByte, SyncSignal
    <3>3. Retry = Timeout BY <1>7, <3>1, <3>2 DEF Retry, Missed
    <3>4. QED BY <1>2, <3>3
  <2>6. CASE StopBit(Root)
    <3>1. wire[Root].phase = "bits" /\ wire[Root].val = SyncSignal
      BY <2>4, <2>6 DEF StopBit
    <3>2. wire[Root].got # SyncSignal
      <4>1. CASE wire[Root].got = NoByte BY <4>1 DEF NoByte, SyncSignal
      <4>2. CASE wire[Root].got # NoByte
        <5>1. WaitSignalReturns(peer, wire[Root].got)
          BY <1>7, <2>6, <4>2, WorkerGets
        <5>2. SUFFICES ASSUME wire[Root].got = SyncSignal PROVE FALSE OBVIOUS
        <5>3. Goto(peer, "delaySync") BY <5>1, <5>2 DEF WaitSignalReturns
        <5>4. QED BY <1>1, <5>3 DEF Goto, Met, TypeOK
      <4>3. QED BY <4>1, <4>2
    <3>3. Retry = Timeout BY <1>7, <3>1, <3>2 DEF Retry, Missed
    <3>4. QED BY <1>2, <3>3
  <2>7. CASE Put8Returns(Root)
    <3>1. Goto(Root, "getSync") BY <1>7, <2>7 DEF Put8Returns
    <3>2. QED BY <1>1, <1>7, <3>1 DEF Goto, Met, TypeOK
  <2>8. QED BY <1>1, <2>1, <2>2, <2>3, <2>5, <2>6, <2>7, WireMoves
<1>8. QED BY <1>4, <1>5, <1>6, <1>7 DEF InSync

LEMMA LeftStep ==
  ASSUME Met, Met', InTime, InTime', [Next]_vars, ~Tick, InSync, InSync', peer' = peer
  PROVE  TurnLeft' <= TurnLeft
<1>1. Root \in Node /\ peer \in Node /\ peer \in Worker /\ peer # Root
  BY WorkerIs DEF Met, TypeOK
<1>2. TurnLeft \in Nat /\ TurnLeft' \in Nat /\ TurnLeft <= Turn /\ TurnLeft' <= Turn
  <2>1. TurnLeft \in Nat /\ TurnLeft <= Turn BY TurnLeftIs
  <2>2. (Met /\ InTime /\ InSync => TurnLeft \in Nat /\ TurnLeft <= Turn)' BY TurnLeftIs, PTL
  <2>3. QED BY <2>1, <2>2
<1>3. call[peer] \in Nat /\ call[Root] \in Nat /\ call[peer] <= call[Root]
  BY <1>1, PeerIs, RootIs DEF InSync
<1>4. call'[Root] = call[Root] BY <1>1, StepCall DEF InSync
<1>5. CASE call[peer] < call[Root]
  <2>1. TurnLeft = Turn BY <1>3, <1>5 DEF TurnLeft
  <2>2. QED BY <1>2, <2>1
<1>6. CASE call[peer] = call[Root]
  <2>1. pc[peer] \in {"run", "waitSync", "delaySync", "putSync"} BY <1>3, <1>6, PeerIs
  <2>2. call'[peer] = call[peer] BY <1>1, <2>1, StepCall
  <2>3. Rests(peer) \/ Hops(peer) BY <1>1, StepHop DEF Met
  <2>4. call'[peer'] = call'[Root] /\ ~(call'[peer'] < call'[Root])
        /\ ~(call[peer] < call[Root])
    BY <1>3, <1>4, <1>6, <2>2
  <2>5. CASE pc'[peer] = "run"
    <3>1. pc[peer] = "run" /\ timer'[peer] = timer[peer]
      BY <2>1, <2>3, <2>5 DEF Rests, Hops, Hop
    <3>2. TurnLeft' = TurnLeft BY <1>6, <2>4, <2>5, <3>1 DEF TurnLeft
    <3>3. QED BY <1>2, <3>2
  <2>6. CASE pc'[peer] = "waitSync"
    <3>0. TurnLeft' = Retry' + Delay BY <2>4, <2>6 DEF TurnLeft
    <3>1. Retry \in Nat /\ Retry' \in Nat /\ Retry' <= Timeout
      <4>1. (Met /\ InTime /\ InSync => Retry \in Nat /\ Retry <= Timeout)' BY RetryIs, PTL
      <4>2. QED BY <4>1, RetryIs
    <3>2. CASE pc[peer] = "run"
      <4>1. TurnLeft = timer[peer] + Timeout + Delay /\ timer[peer] \in Nat
        BY <1>1, <1>6, <2>4, <3>2 DEF TurnLeft, Met, TypeOK
      <4>2. QED BY <3>0, <3>1, <4>1, TurnIs
    <3>3. CASE pc[peer] = "waitSync"
      <4>1. TurnLeft = Retry + Delay BY <1>6, <2>4, <3>3 DEF TurnLeft
      <4>2. Retry' <= Retry BY <2>6, <3>3, RetryStep
      <4>3. \A r, s, d \in Nat : s <= r => s + d <= r + d OBVIOUS
      <4>4. Retry' + Delay <= Retry + Delay BY <3>1, <4>2, <4>3, TurnIs, Zenon
      <4>5. QED BY <3>0, <4>1, <4>4, Zenon
    <3>4. QED BY <2>3, <2>6, <3>2, <3>3 DEF Rests, Hops, Hop
  <2>7. CASE pc'[peer] = "delaySync"
    <3>0. TurnLeft' = timer'[peer] BY <2>4, <2>7 DEF TurnLeft
    <3>1. CASE pc[peer] = "delaySync"
      <4>1. timer'[peer] = timer[peer] BY <2>3, <2>7, <3>1 DEF Rests, Hops, Hop
      <4>2. TurnLeft = timer[peer] BY <1>6, <2>4, <3>1 DEF TurnLeft
      <4>3. QED BY <1>2, <3>0, <4>1, <4>2
    <3>2. CASE pc[peer] = "waitSync"
      <4>1. timer'[peer] = Delay BY <2>3, <2>7, <3>2, TicksIs DEF Rests, Hops, Hop
      <4>2. TurnLeft = Retry + Delay BY <1>6, <2>4, <3>2 DEF TurnLeft
      <4>3. QED BY <3>0, <4>1, <4>2, RetryIs, TurnIs
    <3>3. QED BY <2>3, <2>7, <3>1, <3>2 DEF Rests, Hops, Hop
  <2>8. CASE pc'[peer] \notin {"run", "waitSync", "delaySync"}
    <3>1. TurnLeft' = 0 BY <2>4, <2>8 DEF TurnLeft
    <3>2. QED BY <1>2, <3>1
  <2>9. QED BY <2>5, <2>6, <2>7, <2>8
<1>7. QED BY <1>3, <1>5, <1>6

\* Time passes in a turn.
LEMMA LeftTick ==
  ASSUME Met, InTime, Tick, InSync
  PROVE  TurnLeft' = TurnLeft - 1 /\ TurnLeft > 0
<1>1. Root \in Node /\ peer \in Node /\ peer \in Worker BY WorkerIs DEF Met, TypeOK
<1>2. /\ UNCHANGED <<pc, call, peer, wire>>
      /\ timer'[Root] = (IF timer[Root] > 0 THEN timer[Root] - 1 ELSE 0)
      /\ timer'[peer] = (IF timer[peer] > 0 THEN timer[peer] - 1 ELSE 0)
      /\ pc[Root] = "getSync" /\ timer[Root] > 0 /\ wire[peer] = Idle
      /\ pc[peer] \notin {"putSync", "ret"}
      /\ pc[peer] = "run" => timer[peer] > 0 \/ Finished(peer)
      /\ pc[peer] = "delaySync" => timer[peer] > 0
  BY <1>1 DEF Tick, InSync, Putting
<1>3. /\ call[peer] = call[Root] /\ pc[peer] \in {"run", "waitSync", "delaySync"}
      /\ ~Finished(peer)
  <2>1. call[peer] = call[Root] /\ pc[peer] \in {"run", "waitSync", "delaySync"}
    BY <1>2, PeerIs DEF Idle, OnLine
  <2>2. call[Root] <= NCalls /\ call[Root] \in Nat /\ NCalls \in Nat
    BY PeerIs, ProgAssumption
  <2>3. QED BY <2>1, <2>2 DEF Finished
<1>4. timer[Root] \in Nat /\ timer[peer] \in Nat /\ ~(call[peer] < call[Root])
  BY <1>1, <1>3, PeerIs DEF Met, TypeOK
<1>5. call'[peer'] = call[peer] /\ call'[Root] = call[Root] /\ pc' = pc /\ peer' = peer
  BY <1>2
<1>6. CASE pc[peer] = "run"
  <2>1. TurnLeft = timer[peer] + Timeout + Delay BY <1>3, <1>4, <1>6 DEF TurnLeft
  <2>2. TurnLeft' = timer'[peer] + Timeout + Delay BY <1>3, <1>4, <1>5, <1>6 DEF TurnLeft
  <2>3. QED BY <1>2, <1>3, <1>4, <1>6, <2>1, <2>2, TurnIs
<1>7. CASE pc[peer] = "waitSync"
  <2>1. TurnLeft = timer[Root] + Delay BY <1>2, <1>3, <1>4, <1>7 DEF TurnLeft, Retry
  <2>2. TurnLeft' = timer'[Root] + Delay
    BY <1>2, <1>3, <1>4, <1>5, <1>7 DEF TurnLeft, Retry
  <2>3. QED BY <1>2, <1>4, <2>1, <2>2, TurnIs
<1>8. CASE pc[peer] = "delaySync"
  <2>1. TurnLeft = timer[peer] BY <1>3, <1>4, <1>8 DEF TurnLeft
  <2>2. TurnLeft' = timer'[peer] BY <1>3, <1>4, <1>5, <1>8 DEF TurnLeft
  <2>3. QED BY <1>2, <1>4, <1>8, <2>1, <2>2
<1>9. QED BY <1>3, <1>6, <1>7, <1>8

-----------------------------------------------------------------------------
(* Patience.                                                               *)

SyncPatience(w) ==
    pc[w] = "get" /\ InSync => timer[w] > TurnLeft + TurnsAfter(peer) + Delays(Rank(w))
BodyPatience(w) ==
    pc[w] = "get" /\ InBody => timer[w] > DelayLeft(Root) + Delays(Rank(w) - Rank(peer))
RootPatience == pc[Root] = "get" => timer[Root] > DelayLeft(peer)

LEMMA PatienceIs ==
  Patience <=> /\ InTime /\ RootPatience
               /\ \A w \in Worker : SyncPatience(w) /\ BodyPatience(w)
BY DEF Patience, InTime, RootPatience, SyncPatience, BodyPatience

LEMMA DelayLeftIs ==
  Met /\ InTime => \A n \in Node : DelayLeft(n) \in Nat /\ DelayLeft(n) <= Delay
<1> SUFFICES ASSUME Met, InTime, NEW n \in Node
             PROVE  DelayLeft(n) \in Nat /\ DelayLeft(n) <= Delay
  OBVIOUS
<1>1. timer[n] \in Nat /\ (pc[n] = "delay" => timer[n] <= Delay)
  BY TicksIs DEF Met, TypeOK, InTime
<1>2. QED BY <1>1, TurnIs DEF DelayLeft

LEMMA PatienceBlowsNot ==
  ASSUME Met, Patience PROVE NeverBlowsUp
<1> SUFFICES ASSUME NEW n \in Node, pc[n] = "get" PROVE timer[n] > 0 BY DEF NeverBlowsUp
<1>1. Root \in Node /\ peer \in Node /\ peer \in Worker BY WorkerIs DEF Met, TypeOK
<1>2. InTime BY PatienceIs
<1>3. timer[n] \in Nat BY DEF Met, TypeOK
<1>4. CASE n = Root
  <2>1. timer[Root] > DelayLeft(peer) BY <1>4, PatienceIs DEF RootPatience
  <2>2. DelayLeft(peer) \in Nat BY <1>1, <1>2, DelayLeftIs
  <2>3. QED BY <1>3, <1>4, <2>1, <2>2
<1>5. CASE n # Root
  <2>1. n \in Worker BY <1>5 DEF Worker
  <2>2. CASE InSync
    <3>1. timer[n] > TurnLeft + TurnsAfter(peer) + Delays(Rank(n))
      BY <2>1, <2>2, PatienceIs DEF SyncPatience
    <3>2. TurnLeft \in Nat /\ TurnsAfter(peer) \in Nat
      BY <1>1, <1>2, <2>2, TurnLeftIs, TurnsAfterIs
    <3>3. Delays(Rank(n)) \in Nat
      <4>1. Rank(n) \in 0..3 BY <2>1, RankIs
      <4>2. QED BY <4>1, DelaysGrow
    <3>4. QED BY <1>3, <3>1, <3>2, <3>3
  <2>3. CASE InBody /\ peer <= n
    <3>1. timer[n] > DelayLeft(Root) + Delays(Rank(n) - Rank(peer))
      BY <2>1, <2>3, PatienceIs DEF BodyPatience
    <3>2. DelayLeft(Root) \in Nat BY <1>1, <1>2, DelayLeftIs
    <3>3. Delays(Rank(n) - Rank(peer)) \in Nat
      <4>1. Rank(peer) <= Rank(n) BY <1>1, <2>1, <2>3, WorkerIs, RankIs
      <4>2. Rank(n) - Rank(peer) \in 0..3 BY <1>1, <2>1, <4>1, RankIs
      <4>3. QED BY <4>2, DelaysGrow
    <3>4. QED BY <1>3, <3>1, <3>2, <3>3
  <2>4. QED BY <2>1, <2>2, <2>3, GetIs DEF GetterIsDue, Due
<1>6. QED BY <1>4, <1>5

\* How the root's loops go on.
LEMMA RootPath ==
  ASSUME Met, [Next]_vars
  PROVE  /\ InSync /\ InSync' => peer' = peer \/ (peer' \in Worker /\ peer' > peer)
         /\ InSync /\ InBody' => peer' = FirstWorker
         /\ InBody /\ InBody' =>
               \/ peer' \in Worker /\ peer' > peer /\ pc'[Root] # "get"
               \/ peer' = peer /\ (pc'[Root] = "delay" => pc[Root] = "delay")
<1> DEFINE Path == /\ InSync /\ InSync' => peer' = peer \/ (peer' \in Worker /\ peer' > peer)
                   /\ InSync /\ InBody' => peer' = FirstWorker
                   /\ InBody /\ InBody' =>
                        \/ peer' \in Worker /\ peer' > peer /\ pc'[Root] # "get"
                        \/ peer' = peer /\ (pc'[Root] = "delay" => pc[Root] = "delay")
<1> SUFFICES Path OBVIOUS
<1>0. Root \in Node /\ peer \in Worker BY SizeAssumption DEF Met, TypeOK
<1>1. CASE peer' = peer /\ pc'[Root] = pc[Root]
  BY <1>1 DEF InSync, InBody
<1>2. ASSUME pc[Root] = "getSync", NextInSync PROVE Path
  <2>1. CASE Later(peer) # {}
    <3>1. peer' \in Worker /\ peer' > peer BY <1>0, <2>1, <1>2, NextWorker DEF NextInSync
    <3>2. Goto(Root, "putSync") BY <2>1, <1>2 DEF NextInSync
    <3>3. pc'[Root] = "putSync" BY <1>0, <3>2, GotoHop DEF Met
    <3>4. QED BY <1>2, <3>1, <3>3 DEF InSync, InBody
  <2>2. CASE Later(peer) = {}
    <3>1. peer' = FirstWorker /\ Goto(Root, Body(Root)) BY <2>2, <1>2 DEF NextInSync
    <3>2. pc'[Root] = Body(Root) BY <1>0, <3>1, GotoHop DEF Met
    <3>3. QED BY <1>2, <3>1, <3>2, BodyHop DEF InSync, InBody
  <2>3. QED BY <2>1, <2>2
<1>3. ASSUME pc[Root] \in {"get", "put"}, NextInBody PROVE Path
  <2>1. CASE Later(peer) # {}
    <3>1. peer' \in Worker /\ peer' > peer BY <1>0, <2>1, <1>3, NextWorker DEF NextInBody
    <3>2. Goto(Root, Body(Root)) BY <1>3, <2>1 DEF NextInBody
    <3>3. pc'[Root] # "get" BY <1>0, <3>2, BodyHop, GotoHop DEF Met
    <3>4. QED BY <1>3, <3>1, <3>3 DEF InSync
  <2>2. CASE Later(peer) = {}
    <3>1. Goto(Root, "ret") BY <2>2, <1>3 DEF NextInBody
    <3>2. pc'[Root] = "ret" BY <1>0, <3>1, GotoHop DEF Met
    <3>3. QED BY <3>2 DEF InSync, InBody
  <2>3. QED BY <2>1, <2>2
<1>4. ASSUME NEW p \in {"put", "get", "putSync", "getSync"}, peer' = peer, Goto(Root, p),
             p \in {"putSync", "getSync"} => ~InBody,
             p \in {"put", "get"} => ~InSync
      PROVE  Path
  <2>1. pc'[Root] = p BY <1>0, <1>4, GotoHop DEF Met
  <2>2. QED BY <1>4, <2>1 DEF InSync, InBody
<1>5. ASSUME NEW v, Get8Returns(Root, v) PROVE Path
  <2>1. CASE WaitSignalReturns(Root, v)
    BY <1>0, <2>1 DEF WaitSignalReturns, Met, TypeOK, PcOf, RootPc
  <2>2. CASE WaitSignalTimeoutReturns(Root, v)
    <3>1. pc[Root] = "getSync" /\ ~InBody BY <2>2 DEF WaitSignalTimeoutReturns, InBody
    <3>2. QED BY <1>2, <1>4, <2>2, <3>1 DEF WaitSignalTimeoutReturns
  <2>3. CASE RecvReturns(Root, v)
    <3>1. pc[Root] = "get" /\ ~InSync BY <2>3 DEF RecvReturns, InSync
    <3>2. QED BY <1>3, <1>4, <2>3, <3>1 DEF RecvReturns
  <2>4. QED BY <1>5, <2>1, <2>2, <2>3 DEF Get8Returns
<1>6. CASE Enter(Root) \/ Return(Root)
  <2>1. pc[Root] \in {"run", "ret"} BY <1>6 DEF Enter, Return
  <2>2. QED BY <2>1 DEF InSync, InBody
<1>7. CASE EndDelay(Root)
  <2>1. pc[Root] = "delay" BY <1>0, <1>7 DEF EndDelay, Met, TypeOK, PcOf, RootPc
  <2>2. Goto(Root, "put") /\ peer' = peer /\ ~InSync BY <1>7, <2>1 DEF EndDelay, InSync
  <2>3. QED BY <1>4, <2>2
<1>8. CASE Expire(Root) BY <1>5, <1>8 DEF Expire
<1>9. ASSUME NEW w \in Worker, StopBit(w) PROVE Path
  <2>1. CASE wire[w].got = NoByte BY <1>1, <1>9, <2>1 DEF StopBit
  <2>2. CASE wire[w].got # NoByte BY <1>5, <1>9, <2>2, WorkerIs DEF StopBit
  <2>3. QED BY <2>1, <2>2
<1>10. CASE Put8Returns(Root)
  <2>1. CASE pc[Root] = "putSync"
    <3>1. Goto(Root, "getSync") /\ peer' = peer /\ ~InBody
      BY <1>10, <2>1 DEF Put8Returns, InBody
    <3>2. QED BY <1>4, <3>1
  <2>2. CASE pc[Root] = "putSend"
    <3>1. Goto(Root, "get") /\ peer' = peer /\ ~InSync
      BY <1>10, <2>2 DEF Put8Returns, InSync
    <3>2. QED BY <1>4, <3>1
  <2>3. CASE pc[Root] = "put" BY <1>1, <1>3, <1>10, <2>3 DEF Put8Returns
  <2>4. QED BY <1>10, <2>1, <2>2, <2>3 DEF Put8Returns
<1>11. CASE ~RootStep BY <1>1, <1>11, RootStill
<1>12. QED BY <1>6, <1>7, <1>8, <1>9, <1>10, <1>11 DEF RootStep

LEMMA WorkerRange == ASSUME NEW w \in Worker PROVE Rank(w) \in 0..3
BY RankIs

\* What a Pi that polls in recv has just done.
LEMMA GetTimer ==
  ASSUME Met, [Next]_vars, NEW n \in Node, pc'[n] = "get"
  PROVE  \/ timer'[n] = GetTimeout
         \/ pc[n] = "get" /\ timer'[n] = timer[n] /\ ~Tick
         \/ pc[n] = "get" /\ timer[n] > 0 /\ timer'[n] = timer[n] - 1 /\ Tick
<1>1. CASE Tick
  <2>1. pc[n] = "get" BY <1>1 DEF Tick
  <2>2. timer[n] > 0 BY <1>1, <2>1 DEF Tick
  <2>3. QED BY <1>1, <2>1, <2>2 DEF Tick
<1>2. CASE ~Tick
  <2>1. Ticks("get") = GetTimeout BY DEF Ticks
  <2>2. QED BY <1>2, <2>1, StepHop DEF Met, Rests, Hops
<1>3. QED BY <1>1, <1>2

LEMMA SyncStep ==
  ASSUME Patient, Met, Met', InTime, InTime', [Next]_vars, NEW w \in Worker,
         SyncPatience(w), pc'[w] = "get", InSync'
  PROVE  timer'[w] > TurnLeft' + TurnsAfter(peer') + Delays(Rank(w))
<1>1. /\ w \in Node /\ Root \in Node /\ peer \in Worker /\ peer' \in Worker
      /\ timer[w] \in Nat /\ timer'[w] \in Nat
      /\ peer \in Nat /\ peer' \in Nat
  BY WorkerIs DEF Met, TypeOK
<1>2. w < peer'
  <2>1. (Met => GetterIsDue)' BY GetIs, PTL
  <2>2. ~InBody' BY DEF InSync, InBody
  <2>3. QED BY <2>1, <2>2 DEF GetterIsDue, Due
<1>3. TurnLeft' \in Nat /\ TurnLeft' <= Turn
  <2>1. (Met /\ InTime /\ InSync => TurnLeft \in Nat /\ TurnLeft <= Turn)' BY TurnLeftIs, PTL
  <2>2. QED BY <2>1
<1>4. PICK d \in Nat : d = Delays(Rank(w)) BY WorkerRange, DelaysGrow
<1>5. PICK a \in Nat : a = TurnsAfter(peer') BY <1>1, TurnsAfterIs
<1>6. PICK l \in Nat : l = TurnLeft' /\ l <= Turn BY <1>3
<1>7. PICK t \in Nat : t = timer'[w] BY <1>1
<1>8. t > l + a + d
  <2>1. CASE timer'[w] = GetTimeout
    <3>1. GetTimeout > Turn + TurnsAfter(peer') + Delays(Rank(w)) BY <1>1, <1>2, PatientIs
    <3>2. QED BY <1>4, <1>5, <1>6, <1>7, <2>1, <3>1, TurnIs
  <2>2. CASE pc[w] = "get" /\ timer'[w] = timer[w] /\ ~Tick
    <3>1. InSync
      <4>1. SUFFICES ASSUME InBody, pc[Root] # "get" PROVE FALSE BY <2>2, GetIs DEF GetterIsDue, Due
      <4>2. Rests(Root) \/ Hops(Root) BY <1>1, <2>2, StepHop DEF Met
      <4>3. QED BY <4>1, <4>2 DEF Rests, Hops, Hop, InBody, InSync
    <3>2. PICK m \in Nat : m = TurnLeft BY <3>1, TurnLeftIs
    <3>3. PICK b \in Nat : b = TurnsAfter(peer) BY <1>1, TurnsAfterIs
    <3>4. t > m + b + d
      BY <1>4, <1>7, <2>2, <3>1, <3>2, <3>3 DEF SyncPatience
    <3>5. CASE peer' = peer
      <4>1. a = b BY <1>5, <3>3, <3>5
      <4>2. TurnLeft' <= TurnLeft BY <2>2, <3>1, <3>5, LeftStep
      <4>3. l <= m BY <1>6, <3>2, <4>2, Zenon
      <4>4. QED BY <3>4, <4>1, <4>3
    <3>6. CASE peer' > peer
      <4>1. TurnsAfter(peer') + Turn <= TurnsAfter(peer) BY <1>1, <3>6, TurnsAfterIs
      <4>2. PICK u \in Nat : u = Turn BY TurnIs
      <4>3. a + u <= b /\ l <= u BY <1>5, <1>6, <3>3, <4>1, <4>2
      <4>4. QED BY <3>4, <4>3
    <3>7. QED BY <3>1, <3>5, <3>6, RootPath
  <2>3. CASE pc[w] = "get" /\ timer[w] > 0 /\ timer'[w] = timer[w] - 1 /\ Tick
    <3>1. pc' = pc /\ peer' = peer BY <2>3 DEF Tick
    <3>2. InSync BY <3>1 DEF InSync
    <3>3. PICK m \in Nat : m = TurnLeft BY <3>2, TurnLeftIs
    <3>4. TurnLeft' = TurnLeft - 1 BY <2>3, <3>2, LeftTick
    <3>5. l = m - 1
      <4>1. TurnLeft - 1 = m - 1 BY <3>3
      <4>2. QED BY <1>6, <3>4, <4>1, Zenon
    <3>6. timer[w] > m + a + d BY <1>4, <1>5, <2>3, <3>1, <3>2, <3>3 DEF SyncPatience
    <3>7. QED BY <1>1, <1>7, <2>3, <3>5, <3>6
  <2>4. QED BY <1>1, <2>1, <2>2, <2>3, GetTimer
<1>9. QED BY <1>4, <1>5, <1>6, <1>7, <1>8, Zenon

LEMMA BodyStep ==
  ASSUME Patient, Met, Met', InTime, InTime', [Next]_vars, NEW w \in Worker,
         SyncPatience(w), BodyPatience(w), pc'[w] = "get", InBody'
  PROVE  timer'[w] > DelayLeft(Root)' + Delays(Rank(w) - Rank(peer'))
<1>1. /\ w \in Node /\ Root \in Node /\ peer \in Worker /\ peer' \in Worker
      /\ timer[w] \in Nat /\ timer'[w] \in Nat /\ timer[Root] \in Nat /\ timer'[Root] \in Nat
      /\ Rank(w) \in 1..3 /\ Rank(peer) \in 1..3 /\ Rank(peer') \in 1..3
  BY WorkerIs, RankIs DEF Met, TypeOK
<1>2. peer' <= w
  <2>1. (Met => GetterIsDue)' BY GetIs, PTL
  <2>2. ~InSync' BY DEF InSync, InBody
  <2>3. QED BY <2>1, <2>2 DEF GetterIsDue, Due
<1>3. DelayLeft(Root)' \in Nat /\ DelayLeft(Root)' <= Delay
  <2>1. (Met /\ InTime => \A n \in Node : DelayLeft(n) \in Nat /\ DelayLeft(n) <= Delay)'
    BY DelayLeftIs, PTL
  <2>2. QED BY <1>1, <2>1 DEF DelayLeft
<1>4. PICK l \in Nat : l = DelayLeft(Root)' /\ l <= Delay BY <1>3
<1>5. PICK k \in 0..3 : k = Rank(w) - Rank(peer')
  <2>1. \A a, b \in 1..3 : b <= a => a - b \in 0..3 OBVIOUS
  <2>2. Rank(peer') <= Rank(w) BY <1>1, <1>2, WorkerIs, RankIs
  <2>3. Rank(w) - Rank(peer') \in 0..3 BY <1>1, <2>1, <2>2, Zenon
  <2>4. QED BY <2>3, Zenon
<1>6. PICK d \in Nat : d = Delays(k) BY <1>5, DelaysGrow
<1>7. PICK t \in Nat : t = timer'[w] BY <1>1
<1>8. t > l + d
  <2>1. CASE timer'[w] = GetTimeout
    <3>1. GetTimeout > Delay + Delays(Rank(w) - Rank(peer')) BY <1>1, <1>2, PatientIs
    <3>2. QED BY <1>4, <1>5, <1>6, <1>7, <2>1, <3>1, TurnIs
  <2>2. CASE pc[w] = "get" /\ timer'[w] = timer[w] /\ ~Tick
    <3>1. CASE InSync
      <4>1. Rank(peer') = 1 BY <3>1, RootPath, FirstIs
      <4>2. PICK m \in Nat : m = TurnLeft BY <3>1, TurnLeftIs
      <4>3. PICK b \in Nat : b = TurnsAfter(peer) BY <1>1, TurnsAfterIs
      <4>4. timer[w] > m + b + Delays(Rank(w)) BY <2>2, <3>1, <4>2, <4>3 DEF SyncPatience
      <4>5. Delays(k) + Delay <= Delays(Rank(w)) /\ Delays(Rank(w)) \in Nat
        <5>1. k < Rank(w) BY <1>1, <1>5, <4>1
        <5>2. Rank(w) \in 0..3 BY <1>1
        <5>3. QED BY <5>1, <5>2, DelaysGrow
      <4>6. QED BY <1>1, <1>4, <1>6, <1>7, <2>2, <4>4, <4>5, TurnIs
    <3>2. CASE InBody
      <4>1. peer <= w BY <2>2, <3>2, GetIs DEF GetterIsDue, Due, InSync, InBody
      <4>2. PICK j \in 0..3 : j = Rank(w) - Rank(peer)
        <5>1. Rank(peer) <= Rank(w) BY <1>1, <4>1, WorkerIs, RankIs
        <5>2. QED BY <1>1, <5>1
      <4>3. PICK e \in Nat : e = Delays(j) BY <4>2, DelaysGrow
      <4>4. PICK m \in Nat : m = DelayLeft(Root) BY <1>1, DelayLeftIs
      <4>5. t > m + e BY <1>7, <2>2, <3>2, <4>2, <4>3, <4>4 DEF BodyPatience
      <4>6. CASE peer' > peer
        <5>1. k < j
          <6>1. \A a, b, c \in 1..3 : b > c => a - b < a - c OBVIOUS
          <6>2. Rank(peer) < Rank(peer') BY <1>1, <4>6, RankIs
          <6>3. Rank(w) - Rank(peer') < Rank(w) - Rank(peer) BY <1>1, <6>1, <6>2, Zenon
          <6>4. QED BY <1>5, <4>2, <6>3, Zenon
        <5>2. d + Delay <= e BY <1>6, <4>2, <4>3, <5>1, DelaysGrow
        <5>3. QED BY <1>4, <4>5, <5>2, TurnIs
      <4>7. CASE peer' = peer /\ (pc'[Root] = "delay" => pc[Root] = "delay")
        <5>1. d = e BY <1>5, <1>6, <4>2, <4>3, <4>7
        <5>2. l <= m
          <6>1. CASE pc'[Root] = "delay"
            <7>1. timer'[Root] = timer[Root]
              BY <1>1, <2>2, <4>7, <6>1, StepHop DEF Met, Rests, Hops, Hop
            <7>2. l = m BY <1>4, <4>4, <4>7, <6>1, <7>1 DEF DelayLeft
            <7>3. QED BY <7>2
          <6>2. CASE pc'[Root] # "delay"
            <7>1. l = 0 BY <1>4, <6>2 DEF DelayLeft
            <7>2. QED BY <7>1
          <6>3. QED BY <6>1, <6>2
        <5>3. QED BY <4>5, <5>1, <5>2
      <4>8. QED BY <3>2, <4>6, <4>7, RootPath
    <3>3. QED BY <2>2, <3>1, <3>2, GetIs DEF GetterIsDue, Due
  <2>3. CASE pc[w] = "get" /\ timer[w] > 0 /\ timer'[w] = timer[w] - 1 /\ Tick
    <3>1. pc' = pc /\ peer' = peer BY <2>3 DEF Tick
    <3>2. InBody BY <3>1 DEF InBody
    <3>3. pc[Root] = "delay" /\ timer[Root] > 0 /\ timer'[Root] = timer[Root] - 1
      <4>1. pc[Root] # "get" BY <2>3, <3>2, GetIs DEF GetterIsDue, Due, InSync, InBody
      <4>2. pc[Root] = "delay" BY <1>1, <2>3, <3>2, <4>1 DEF Tick, InBody, Putting
      <4>3. QED BY <1>1, <2>3, <4>2 DEF Tick
    <3>4. l = timer[Root] - 1 BY <1>4, <3>1, <3>3 DEF DelayLeft
    <3>5. DelayLeft(Root) = timer[Root] BY <3>3 DEF DelayLeft
    <3>6. timer[w] > timer[Root] + d
      BY <1>5, <1>6, <2>3, <3>1, <3>2, <3>5 DEF BodyPatience
    <3>7. QED BY <1>1, <1>7, <2>3, <3>3, <3>4, <3>6
  <2>4. QED BY <1>1, <2>1, <2>2, <2>3, GetTimer
<1>9. QED BY <1>4, <1>5, <1>6, <1>7, <1>8, Zenon

LEMMA RootStepPatience ==
  ASSUME Patient, Met, InTime, InTime', Met', [Next]_vars, RootPatience,
         pc'[Root] = "get"
  PROVE  timer'[Root] > DelayLeft(peer)'
<1>1. /\ Root \in Node /\ peer \in Node /\ peer \in Worker /\ peer # Root /\ peer' \in Node
      /\ timer[Root] \in Nat /\ timer'[Root] \in Nat /\ timer[peer] \in Nat
  BY WorkerIs DEF Met, TypeOK
<1>2. DelayLeft(peer)' \in Nat /\ DelayLeft(peer)' <= Delay
  <2>1. (Met /\ InTime => \A n \in Node : DelayLeft(n) \in Nat /\ DelayLeft(n) <= Delay)'
    BY DelayLeftIs, PTL
  <2>2. QED BY <1>1, <2>1 DEF DelayLeft
<1>3. PICK l \in Nat : l = DelayLeft(peer)' /\ l <= Delay BY <1>2
<1>4. PICK t \in Nat : t = timer'[Root] BY <1>1
<1>5. pc[Root] = "get" => pc[peer] \in {"delay", "put"}
  BY <1>1 DEF Met, Meets, Collecting
<1>6. t > l
  <2>1. CASE timer'[Root] = GetTimeout
    <3>1. GetTimeout > Delay BY PatientIs
    <3>2. QED BY <1>3, <1>4, <2>1, <3>1, TurnIs
  <2>2. CASE pc[Root] = "get" /\ timer'[Root] = timer[Root] /\ ~Tick
    <3>1. peer' = peer BY <2>2, RootPath DEF InBody
    <3>2. timer[Root] > DelayLeft(peer) BY <2>2 DEF RootPatience
    <3>3. CASE pc'[peer] = "delay"
      <4>1. pc[peer] = "delay" /\ timer'[peer] = timer[peer]
        BY <1>1, <1>5, <2>2, <3>3, StepHop DEF Met, Rests, Hops, Hop
      <4>2. l = timer[peer] /\ DelayLeft(peer) = timer[peer]
        BY <1>3, <3>1, <3>3, <4>1 DEF DelayLeft
      <4>3. QED BY <1>1, <1>4, <2>2, <3>2, <4>2
    <3>4. CASE pc'[peer] # "delay"
      <4>1. l = 0 BY <1>3, <3>1, <3>4 DEF DelayLeft
      <4>2. PICK m \in Nat : m = DelayLeft(peer) BY <1>1, DelayLeftIs
      <4>3. QED BY <1>1, <1>4, <2>2, <3>2, <4>1, <4>2
    <3>5. QED BY <3>3, <3>4
  <2>3. CASE pc[Root] = "get" /\ timer[Root] > 0 /\ timer'[Root] = timer[Root] - 1 /\ Tick
    <3>1. pc' = pc /\ peer' = peer BY <2>3 DEF Tick
    <3>2. pc[peer] = "delay" /\ timer[peer] > 0 /\ timer'[peer] = timer[peer] - 1
      <4>1. pc[peer] # "put" BY <1>1, <2>3 DEF Tick, Putting
      <4>2. QED BY <1>1, <1>5, <2>3, <4>1 DEF Tick
    <3>3. l = timer[peer] - 1 /\ DelayLeft(peer) = timer[peer]
      BY <1>3, <3>1, <3>2 DEF DelayLeft
    <3>4. timer[Root] > timer[peer] BY <2>3, <3>3 DEF RootPatience
    <3>5. QED BY <1>1, <1>4, <2>3, <3>3, <3>4
  <2>4. QED BY <1>1, <2>1, <2>2, <2>3, GetTimer
<1>7. QED BY <1>3, <1>4, <1>6, Zenon

LEMMA InitPatience == Init => Patience
<1> SUFFICES ASSUME Init PROVE Patience OBVIOUS
<1>1. \A n \in Node : pc[n] = "run" /\ timer[n] = MaxCompute BY DEF Init
<1>2. Ticks("run") = MaxCompute BY DEF Ticks
<1>3. InTime BY <1>1, <1>2, TurnIs DEF InTime
<1>4. \A w \in Worker : SyncPatience(w) /\ BodyPatience(w)
  BY <1>1, WorkerIs DEF SyncPatience, BodyPatience
<1>5. RootPatience BY <1>1, SizeAssumption DEF RootPatience
<1>6. QED BY <1>3, <1>4, <1>5, PatienceIs

LEMMA StepPatience ==
  ASSUME Prompt \/ Size > 2, Patient, IInv, Patience, [Next]_vars
  PROVE  IInv' /\ Patience'
<1>1. Met BY IInvMeets
<1>2. NeverBlowsUp BY <1>1, PatienceBlowsNot
<1>3. IInv' BY <1>2, StepInv
<1>4. Met' BY <1>3, IInvMeets DEF IInv, Met
<1>5. InTime /\ RootPatience /\ \A w \in Worker : SyncPatience(w) /\ BodyPatience(w)
  BY PatienceIs
<1>6. InTime' BY <1>1, <1>5, StepInTime
<1>7. RootPatience' BY <1>1, <1>4, <1>5, <1>6, RootStepPatience DEF RootPatience
<1>8. ASSUME NEW w \in Worker PROVE SyncPatience(w)' /\ BodyPatience(w)'
  <2>1. SyncPatience(w)' BY <1>1, <1>4, <1>5, <1>6, SyncStep DEF SyncPatience
  <2>2. BodyPatience(w)' BY <1>1, <1>4, <1>5, <1>6, BodyStep DEF BodyPatience
  <2>3. QED BY <2>1, <2>2
<1>9. (Patience <=> /\ InTime /\ RootPatience
                    /\ \A w \in Worker : SyncPatience(w) /\ BodyPatience(w))'
  BY PatienceIs, PTL
<1>10. QED BY <1>3, <1>6, <1>7, <1>8, <1>9

\* The two invariants together are inductive once the 500 s of sw_uart_get8
\* outlast a round of turns and transfers (fmpi.c:23-163): no hypothesis on the
\* runs is left.
THEOREM InductiveInvCorrect ==
  ASSUME Prompt \/ Size > 2, Patient
  PROVE  Spec => []InductiveInv
<1>1. Init => InductiveInv BY InitInv, InitPatience DEF InductiveInv
<1>2. InductiveInv /\ [Next]_vars => InductiveInv' BY StepPatience DEF InductiveInv
<1>3. QED BY <1>1, <1>2, PTL DEF Spec

\* No get8 of recv gives up, however many requests of the root are lost, so the
\* -1 of a timeout never ends up in a receive buffer (fmpi.c:13-21, sw-uart.c:96).
THEOREM NeverBlowsUpCorrect ==
  ASSUME Prompt \/ Size > 2, Patient
  PROVE  Spec => []NeverBlowsUp
<1>1. Spec => []InductiveInv BY InductiveInvCorrect
<1>2. InductiveInv => NeverBlowsUp BY IInvMeets, PatienceBlowsNot DEF InductiveInv
<1>3. QED BY <1>1, <1>2, PTL

\* Hence, if the root is Pi 0 or nothing is scattered or gathered, the data of every
\* collective arrives, only requests get lost, answers are in time and the collectives implement what MPI promises (fmpi.c:23-163).
THEOREM CollectivesCorrect ==
  ASSUME Placed, Prompt \/ Size > 2, Patient
  PROVE  Spec => /\ []Delivered /\ []OnlyRequestsLost /\ []AnswerInWindow
                 /\ Implements
<1>1. Spec => []NeverBlowsUp BY NeverBlowsUpCorrect
<1>2. Spec /\ []NeverBlowsUp => []Delivered BY DeliveredCorrect
<1>3. Spec /\ []NeverBlowsUp => []OnlyRequestsLost BY OnlyRequestsLostCorrect
<1>4. Spec /\ []NeverBlowsUp => []AnswerInWindow BY AnswerInWindowCorrect
<1>5. Spec /\ []NeverBlowsUp => Implements BY RefinementCorrect
<1>6. QED BY <1>1, <1>2, <1>3, <1>4, <1>5, PTL

\* What the runs check of every size and root, together (fmpi.c:23-163): the places
\* and ticks of the Pis, that only requests get lost and no recv gives up, and the
\* results wherever the root's own part has its place.
THEOREM SafeCorrect ==
  ASSUME Prompt \/ Size > 2, Patient
  PROVE  Spec => []Safe
<1>1. Spec => []InductiveInv BY InductiveInvCorrect
<1>2. Spec => []NeverBlowsUp BY NeverBlowsUpCorrect
<1>3. Spec /\ []NeverBlowsUp => []OnlyRequestsLost BY OnlyRequestsLostCorrect
<1>4. CASE Placed
  <2>1. Spec /\ []NeverBlowsUp => []Delivered BY <1>4, DeliveredCorrect
  <2>2. InductiveInv /\ OnlyRequestsLost /\ NeverBlowsUp /\ Delivered => Safe BY DEF Safe
  <2>3. QED BY <1>1, <1>2, <1>3, <2>1, <2>2, PTL
<1>5. CASE ~Placed
  <2>1. InductiveInv /\ OnlyRequestsLost /\ NeverBlowsUp => Safe BY <1>5 DEF Safe
  <2>2. QED BY <1>1, <1>2, <1>3, <2>1, PTL
<1>6. QED BY <1>4, <1>5
=============================================================================
