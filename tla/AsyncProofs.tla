---------------------------- MODULE AsyncProofs ----------------------------
(***************************************************************************)
(* PUT and GET for every number of Pis, program, memory and timing of the  *)
(* assumption: which frames may be lost, that the calls implement          *)
(* AsyncStore, and that a handler that reads the pin in time never panics. *)
(* The argument: the target answers only a request the initiator is still  *)
(* waiting for, so the two agree on the index of the packet's byte; all    *)
(* the target ever takes for a packet without its being one starts with a  *)
(* SYNC or a timeout, which is no command.                                 *)
(***************************************************************************)
EXTENDS Async, TLAPS

\* The target has the whole packet of a call that it has not executed yet.
Pending == tpc = "delay" /\ tbuf[1] \in {1, 2}
Packets == done + (IF Pending THEN 1 ELSE 0)
Current == Packet(Ops[op])
Sent(w) == itx.phase \in {"start", "hi", "lo", "stop"} => itx.val = w

\* A byte the target will hear from its start bit on.
Heard(w) ==
    /\ itx.phase # "off" /\ Sent(w)
    /\ itx.phase = "start" => itx.got = NoByte
    /\ itx.phase \in {"hi", "lo", "stop"} => itx.got = w

Frames ==
    /\ itx.phase = "idle" => itx = Idle
    /\ ttx.phase = "idle" => ttx = Idle
    /\ ipc \in {"idle", "getSync", "getData"} => itx = Idle
    /\ tpc \notin {"putSync", "putData"} => ttx = Idle
    /\ ttx.phase # "idle" => ttx.val = Reply
    /\ ttx.phase = "bits" => itx.phase # "stop"
    /\ ttx.phase \in {"bits", "stop"} => ttx.got = ttx.val

Counts ==
    /\ ipc = "idle" => op = Packets
    /\ ipc \in {"putSync", "getSync"} => op = Packets + 1
    /\ ipc = "putPkt" => op = done + 1
    /\ ipc = "getData" => op = Packets /\ op > 0

Words ==
    /\ mem \in [Addresses -> [1..4 -> Byte]]
    /\ Pending => /\ done < op /\ tbuf = Packet(Ops[done + 1])
                  /\ ipc \in {"idle", "putSync", "getSync"} => Ops[done + 1].command = "put"
    /\ tpc = "delay" => tidx = 1

\* The request the target answers is the one the initiator is waiting for.
Answering ==
    /\ tpc = "delaySync" =>
         \/ ipc = "putSync" /\ itx.phase = "stop" /\ ttimer = Delay
         \/ ipc = "getSync" /\ itimer > ttimer
    /\ tpc = "putSync" =>
         IF ttx.phase # "stop"
         THEN ipc = "getSync" /\ itimer > 0
         ELSE /\ itx.phase \in {"idle", "start"}
              /\ \/ ipc = "putSync" /\ Heard(SyncSignal)
                 \/ ipc = "putPkt" /\ iidx = 1 /\ Heard(Current[1])

\* The target takes the packet byte by byte; with three Pis or more it takes
\* the requests of the next round for one.
Receiving ==
    /\ tpc = "recv" => ipc \in {"putSync", "getSync", "putPkt"}
    /\ tpc = "recv" /\ ipc # "putPkt" =>
         /\ tidx > 1 => tbuf[1] \notin {1, 2}
         /\ tidx = 1 => itx.phase # "stop" /\ Heard(SyncSignal)
    /\ ipc = "putPkt" =>
         /\ Heard(Current[iidx])
         /\ \/ tpc = "putSync" /\ ttx.phase = "stop"
            \/ /\ tpc = "recv" /\ ttimer > 0
               /\ tidx = IF itx.phase = "stop" THEN iidx + 1 ELSE iidx
               /\ \A k \in 1..9 : k < tidx => tbuf[k] = Current[k]
            \/ /\ Pending /\ ttimer = Delay
               /\ iidx = 9 /\ itx.phase = "stop"

Replying ==
    /\ ipc = "getData" =>
         /\ tpc \in {"delay", "putData"} /\ Ops[op].command = "get"
         /\ tpc = "delay" => Pending /\ iidx = 1 /\ itimer > ttimer
    /\ tpc = "putData" =>
         /\ tidx \in 1..4
         /\ IF ttx.phase = "stop" /\ tidx = 4
            THEN ipc \in {"idle", "putSync"} /\ itx.phase \in {"idle", "off", "start"}
            ELSE /\ ipc = "getData" /\ itimer > 0
                 /\ iidx = IF ttx.phase = "stop" THEN tidx + 1 ELSE tidx
                 /\ AddressOf(tbuf) = Ops[op].address
                 /\ \A k \in 1..4 : k < iidx => ibuf[k] = mem[Ops[op].address][k]

IInv == TypeOK /\ Frames /\ Counts /\ Words /\ Answering /\ Receiving /\ Replying


-----------------------------------------------------------------------------
(* Constants, frames and packets.                                          *)

LEMMA Constants ==
  /\ Size \in Int /\ Size >= 2 /\ Size <= 4
  /\ NOps \in Nat /\ MaxThink \in Nat /\ Delay \in Nat /\ Delay > 0
  /\ Timeout \in Nat /\ Delay < Timeout /\ SyncWait \in Nat
  /\ GetTimeout \in Nat /\ Delay < GetTimeout
BY AsyncAssumption DEF MaxRpis

LEMMA OnLineIs ==
  ASSUME NEW p, NEW v, NEW g
  PROVE  /\ OnLine(p, v, g).phase = p /\ OnLine(p, v, g).val = v
         /\ OnLine(p, v, g).got = g
BY DEF OnLine

LEMMA IdleIs == Idle.phase = "idle" /\ Idle.val = NoByte /\ Idle.got = NoByte
BY DEF Idle, OnLine

LEMMA OpIs ==
  ASSUME NEW i \in 1..NOps
  PROVE  /\ Ops[i].command \in {"put", "get"} /\ Ops[i].address \in Addresses
         /\ Ops[i].address \in [1..4 -> Byte] /\ Ops[i].word \in [1..4 -> Byte]
BY AsyncAssumption

\* A packet starts with a command, is nine bytes and gives back its address
\* and word.
LEMMA PacketIs ==
  ASSUME NEW i \in 1..NOps
  PROVE  /\ Packet(Ops[i]) \in [1..9 -> Byte]
         /\ Packet(Ops[i])[1] = IF Ops[i].command = "put" THEN 1 ELSE 2
         /\ AddressOf(Packet(Ops[i])) = Ops[i].address
         /\ Ops[i].command = "put" => WordOf(Packet(Ops[i])) = Ops[i].word
<1> DEFINE o == Ops[i]
<1>1. /\ o.command \in {"put", "get"}
      /\ o.address \in [1..4 -> Byte] /\ o.word \in [1..4 -> Byte]
  BY OpIs
<1> HIDE DEF o
<1>2. ASSUME NEW k \in 1..9
      PROVE  /\ Packet(o)[k] \in Byte
             /\ k = 1 => Packet(o)[k] = IF o.command = "put" THEN 1 ELSE 2
             /\ k \in 2..5 => Packet(o)[k] = o.address[k - 1]
             /\ k \in 6..9 /\ o.command = "put" => Packet(o)[k] = o.word[k - 5]
  <2>1. CASE k = 1 BY <2>1 DEF Packet, Byte
  <2>2. CASE k \in 2..5
    <3>1. Packet(o)[k] = o.address[k - 1] BY <2>2 DEF Packet
    <3>2. k - 1 \in 1..4 BY <2>2
    <3>3. QED BY <1>1, <2>2, <3>1, <3>2
  <2>3. CASE k \in 6..9
    <3>1. Packet(o)[k] = IF o.command = "put" THEN o.word[k - 5] ELSE 0
      BY <2>3 DEF Packet
    <3>2. k - 5 \in 1..4 BY <2>3
    <3>3. QED BY <1>1, <2>3, <3>1, <3>2 DEF Byte
  <2>4. QED BY <2>1, <2>2, <2>3
<1>3. Packet(o) \in [1..9 -> Byte] BY <1>2 DEF Packet
<1>4. ASSUME NEW k \in 1..4
      PROVE  /\ AddressOf(Packet(o))[k] = o.address[k]
             /\ o.command = "put" => WordOf(Packet(o))[k] = o.word[k]
  <2>1. k + 1 \in 2..5 /\ k + 5 \in 6..9 /\ (k + 1) - 1 = k /\ (k + 5) - 5 = k
    OBVIOUS
  <2>2. QED BY <2>1, <1>2 DEF AddressOf, WordOf
<1>5. AddressOf(Packet(o)) = o.address BY <1>1, <1>4 DEF AddressOf
<1>6. o.command = "put" => WordOf(Packet(o)) = o.word BY <1>1, <1>4 DEF WordOf
<1>7. QED BY <1>2, <1>3, <1>5, <1>6 DEF o

-----------------------------------------------------------------------------
(* Types.                                                                  *)

LEMMA LineTyped ==
  ASSUME NEW v \in Byte \cup {NoByte}, NEW g \in Byte \cup {NoByte}
  PROVE  /\ \A p \in {"idle", "off", "start", "hi", "lo", "stop"} :
              OnLine(p, v, g) \in [phase : {"idle", "off", "start", "hi", "lo", "stop"},
                                   val : Byte \cup {NoByte}, got : Byte \cup {NoByte}]
         /\ \A p \in {"idle", "start", "bits", "stop"} :
              OnLine(p, v, g) \in [phase : {"idle", "start", "bits", "stop"},
                                   val : Byte \cup {NoByte}, got : Byte \cup {NoByte}]
BY DEF OnLine

LEMMA IdleTyped ==
  /\ Idle \in [phase : {"idle", "off", "start", "hi", "lo", "stop"},
               val : Byte \cup {NoByte}, got : Byte \cup {NoByte}]
  /\ Idle \in [phase : {"idle", "start", "bits", "stop"},
               val : Byte \cup {NoByte}, got : Byte \cup {NoByte}]
BY DEF Idle, OnLine

\* What the two receivers do with a byte keeps the types.
LEMMA SyncReturnsTyped ==
  ASSUME TypeOK, NEW v, SyncReturns(v)
  PROVE  /\ ipc' \in {"putSync", "putPkt"} /\ op' = op
         /\ round' \in 1..(Size - 1) /\ iidx' \in 1..9 /\ itimer' \in Nat
         /\ ibuf' = ibuf /\ answer' = answer
BY Constants DEF TypeOK, SyncReturns

LEMMA CharTyped ==
  ASSUME NEW v \in Byte \cup {NoByte, TimedOut}
  PROVE  Char(v) \in Byte \cup {NoByte} /\ (v \in Byte => Char(v) = v)
BY DEF Char, Byte, NoByte, TimedOut

LEMMA DataReturnsTyped ==
  ASSUME TypeOK, NEW v \in Byte \cup {NoByte, TimedOut}, DataReturns(v)
  PROVE  /\ ipc' \in {"getData", "idle"} /\ op' = op /\ round' = round
         /\ iidx' \in 1..9 /\ itimer' \in Nat
         /\ ibuf' \in [1..4 -> Byte \cup {NoByte}]
         /\ answer' \in [1..4 -> Byte \cup {NoByte}]
<1>1. Char(v) \in Byte \cup {NoByte} BY CharTyped
<1>2. ibuf' \in [1..4 -> Byte \cup {NoByte}] BY <1>1 DEF TypeOK, DataReturns
<1>3. QED BY <1>2, Constants DEF TypeOK, DataReturns, Return

LEMMA TargetGetsTyped ==
  ASSUME TypeOK, NEW v \in Byte \cup {NoByte, TimedOut}, TargetGets(v)
  PROVE  /\ tpc' \in {"delaySync", "recv", "delay"} /\ tidx' \in 1..9
         /\ ttimer' \in Nat /\ tbuf' \in [1..9 -> Byte \cup {NoByte}]
<1>1. Char(v) \in Byte \cup {NoByte} BY CharTyped
<1>2. tbuf' \in [1..9 -> Byte \cup {NoByte}] BY <1>1 DEF TypeOK, TargetGets
<1>3. QED BY <1>2, Constants DEF TypeOK, TargetGets

LEMMA OutgoingTyped ==
  ASSUME TypeOK, Counts, Words, ipc \in {"putSync", "putPkt"}
  PROVE  Outgoing \in Byte
<1>1. CASE ipc = "putSync" BY <1>1 DEF Outgoing, SyncSignal, Byte
<1>2. CASE ipc = "putPkt"
  <2>1. op \in 1..NOps /\ iidx \in 1..9 BY <1>2, Constants DEF Counts, TypeOK
  <2>2. QED BY <1>2, <2>1, PacketIs DEF Outgoing
<1>3. QED BY <1>1, <1>2

LEMMA ReplyTyped ==
  ASSUME TypeOK, Words, Replying, tpc \in {"putSync", "putData"}
  PROVE  Reply \in Byte
<1>1. CASE tpc = "putSync" BY <1>1 DEF Reply, SyncSignal, Byte
<1>2. CASE tpc = "putData"
  <2>1. tidx \in 1..4 BY <1>2 DEF Replying
  <2>2. Loaded(AddressOf(tbuf)) \in [1..4 -> Byte] BY DEF Words, Loaded, Byte
  <2>3. QED BY <1>2, <2>1, <2>2 DEF Reply
<1>3. QED BY <1>1, <1>2

LEMMA InitTypes == Init => TypeOK
<1> SUFFICES ASSUME Init PROVE TypeOK OBVIOUS
<1>1. mem \in [Addresses -> [1..4 -> Byte \cup {NoByte}]]
  BY AsyncAssumption DEF Init
<1>2. round \in 1..(Size - 1) /\ op \in 0..NOps BY Constants DEF Init
<1>3. ibuf \in [1..4 -> Byte \cup {NoByte}] /\ answer \in [1..4 -> Byte \cup {NoByte}]
  BY DEF Init, NoWord
<1>4. tbuf \in [1..9 -> Byte \cup {NoByte}] BY DEF Init
<1>5. handled \in BOOLEAN /\ event \in BOOLEAN BY DEF Init
<1>6. QED BY <1>1, <1>2, <1>3, <1>4, <1>5, IdleTyped, Constants DEF Init, TypeOK

LEMMA StepTypes ==
  ASSUME TypeOK, Counts, Words, Replying, [Next]_vars
  PROVE  TypeOK'
<1>1. CASE Call
  BY <1>1, Constants, LineTyped DEF Call, TypeOK, target, Latch
<1>2. CASE InitiatorExpires
  <2>1. /\ itx' = itx /\ target' = target /\ event' = event /\ ttx' = ttx
        /\ SyncReturns(TimedOut) \/ DataReturns(TimedOut)
    BY <1>2 DEF InitiatorExpires
  <2>2. CASE SyncReturns(TimedOut)
    BY <2>1, <2>2, SyncReturnsTyped DEF TypeOK, target
  <2>3. CASE DataReturns(TimedOut)
    BY <2>1, <2>3, DataReturnsTyped DEF TypeOK, target
  <2>4. QED BY <2>1, <2>2, <2>3
<1>3. CASE StartBit
  <2>1. Outgoing \in Byte BY <1>3, OutgoingTyped DEF StartBit
  <2>2. (2 * Outgoing) % 256 \in Byte BY <2>1 DEF Byte
  <2>3. /\ initiator' = initiator /\ target' = target /\ ttx' = ttx
        /\ event' \in BOOLEAN
        /\ itx' = OnLine("start", Outgoing, (2 * Outgoing) % 256)
           \/ itx' = OnLine("start", Outgoing, NoByte)
    BY <1>3 DEF StartBit, Latch, TypeOK
  <2>4. QED BY <2>1, <2>2, <2>3, LineTyped DEF TypeOK, initiator, target
<1>4. CASE HighBits
  BY <1>4 DEF HighBits, TypeOK, initiator, target, Latch, OnLine
<1>5. CASE LowBits
  BY <1>5 DEF LowBits, TypeOK, initiator, target, Latch
<1>6. CASE StopBit
  <2>1. /\ itx' = [itx EXCEPT !.phase = "stop"] /\ Latch
        /\ initiator' = initiator /\ ttx' = ttx
        /\ \/ target' = target
           \/ /\ \E v \in IF itx.got = NoByte THEN Garbage ELSE {itx.got} : TargetGets(v)
              /\ handled' = handled /\ mem' = mem /\ done' = done
    BY <1>6 DEF StopBit
  <2>2. CASE target' = target
    BY <2>1, <2>2 DEF TypeOK, initiator, target, Latch
  <2>3. CASE target' # target
    <3>1. PICK v \in IF itx.got = NoByte THEN Garbage ELSE {itx.got} : TargetGets(v)
      BY <2>1, <2>3
    <3>2. v \in Byte \cup {NoByte, TimedOut} BY <3>1, AsyncAssumption DEF TypeOK
    <3>3. QED BY <2>1, <2>3, <3>1, <3>2, TargetGetsTyped DEF TypeOK, initiator, Latch
  <2>4. QED BY <2>2, <2>3
<1>7. CASE Put8Returns
  BY <1>7, Constants, IdleTyped DEF Put8Returns, TypeOK, target, Return
<1>8. CASE Startup
  <2>1. event' \in BOOLEAN BY <1>8 DEF Startup
  <2>2. CASE ipc = "getSync"
    <3>1. SyncReturns(255) BY <1>8, <2>2 DEF Startup
    <3>2. QED BY <1>8, <2>1, <3>1, SyncReturnsTyped DEF Startup, TypeOK
  <2>3. CASE ipc # "getSync"
    BY <1>8, <2>1, <2>3 DEF Startup, TypeOK, initiator
  <2>4. QED BY <2>2, <2>3
<1>9. CASE Interrupt BY <1>9 DEF Interrupt, TypeOK, initiator
<1>10. CASE ReadRise
  <2>1. handled' \in BOOLEAN BY <1>10 DEF ReadRise
  <2>2. QED BY <1>10, <2>1 DEF ReadRise, TypeOK, initiator
<1>11. CASE ClearRise
  <2>1. handled' \in BOOLEAN /\ event' \in BOOLEAN BY <1>11 DEF ClearRise
  <2>2. QED BY <1>11, <2>1 DEF ClearRise, TypeOK, initiator
<1>12. CASE ReadFall BY <1>12 DEF ReadFall, TypeOK, initiator
<1>13. CASE SyncReceiver BY <1>13, Constants DEF SyncReceiver, TypeOK, initiator
<1>14. CASE TargetExpires
  <2>1. CASE tpc = "recv"
    <3>1. TargetGets(TimedOut) BY <1>14, <2>1 DEF TargetExpires
    <3>2. QED BY <1>14, <3>1, TargetGetsTyped DEF TargetExpires, TypeOK, initiator
  <2>2. CASE tpc # "recv" BY <1>14, <2>2 DEF TargetExpires, TypeOK, initiator
  <2>3. QED BY <2>1, <2>2
<1>15. CASE EndDelaySync BY <1>15 DEF EndDelaySync, TypeOK, initiator
<1>16. CASE EndDelay
  <2>1. WordOf(tbuf) \in [1..4 -> Byte \cup {NoByte}]
    <3>1. \A k \in 1..4 : k + 5 \in 1..9 OBVIOUS
    <3>2. QED BY <3>1 DEF TypeOK, WordOf
  <2>2. mem' \in [Addresses -> [1..4 -> Byte \cup {NoByte}]]
    BY <1>16, <2>1 DEF EndDelay, TypeOK
  <2>3. done' \in Nat BY <1>16 DEF EndDelay, TypeOK
  <2>4. QED BY <1>16, <2>2, <2>3 DEF EndDelay, TypeOK, initiator
<1>17. CASE Clear
  <2>1. event' \in BOOLEAN BY <1>17 DEF Clear
  <2>2. QED BY <1>17, <2>1 DEF Clear, TypeOK, initiator
<1>18. CASE TargetStartBit
  <2>1. Reply \in Byte BY <1>18, ReplyTyped DEF TargetStartBit
  <2>2. QED BY <1>18, <2>1, LineTyped DEF TargetStartBit, TypeOK, initiator, target
<1>19. CASE TargetDataBits
  BY <1>19 DEF TargetDataBits, TypeOK, initiator, target, OnLine
<1>20. CASE TargetStopBit
  <2>1. /\ ttx' = [ttx EXCEPT !.phase = "stop"]
        /\ itx' = itx /\ target' = target /\ event' = event
        /\ \/ initiator' = initiator
           \/ \E v \in IF ttx.got = NoByte THEN Garbage ELSE {ttx.got} :
                 SyncReturns(v) \/ DataReturns(v)
    BY <1>20 DEF TargetStopBit
  <2>2. CASE initiator' = initiator
    BY <2>1, <2>2 DEF TypeOK, initiator, target
  <2>3. CASE initiator' # initiator
    <3>1. PICK v \in IF ttx.got = NoByte THEN Garbage ELSE {ttx.got} :
                 SyncReturns(v) \/ DataReturns(v)
      BY <2>1, <2>3
    <3>2. v \in Byte \cup {NoByte, TimedOut} BY <3>1, AsyncAssumption DEF TypeOK
    <3>3. CASE SyncReturns(v) BY <2>1, <3>3, SyncReturnsTyped DEF TypeOK, target
    <3>4. CASE DataReturns(v) BY <2>1, <3>2, <3>4, DataReturnsTyped DEF TypeOK, target
    <3>5. QED BY <3>1, <3>3, <3>4
  <2>4. QED BY <2>2, <2>3
<1>21. CASE TargetPut8Returns
  BY <1>21, Constants, IdleTyped DEF TargetPut8Returns, TypeOK, initiator
<1>22. CASE Tick BY <1>22 DEF Tick, TypeOK
<1>23. CASE UNCHANGED vars BY <1>23 DEF TypeOK, vars, initiator, target
<1>24. QED
  BY <1>1, <1>2, <1>3, <1>4, <1>5, <1>6, <1>7, <1>8, <1>9, <1>10, <1>11, <1>12,
     <1>13, <1>14, <1>15, <1>16, <1>17, <1>18, <1>19, <1>20, <1>21, <1>22, <1>23
  DEF Next, Terminated

-----------------------------------------------------------------------------
(* The invariant, action by action.                                        *)

LEMMA Typed ==
  ASSUME TypeOK
  PROVE  /\ ipc \in {"idle", "putSync", "getSync", "putPkt", "getData"}
         /\ op \in Nat /\ op \in 0..NOps /\ done \in Nat /\ iidx \in 1..9 /\ tidx \in 1..9
         /\ itimer \in Nat /\ ttimer \in Nat
         /\ itx.phase \in {"idle", "off", "start", "hi", "lo", "stop"}
         /\ ttx.phase \in {"idle", "start", "bits", "stop"}
BY DEF TypeOK

\* The operators of the state depend on what they read.
LEMMA ReplySame ==
  tpc' = tpc /\ tidx' = tidx /\ tbuf' = tbuf /\ mem' = mem => Reply' = Reply
BY DEF Reply, Loaded, AddressOf

LEMMA PendingSame ==
  ASSUME tpc' = tpc, tbuf' = tbuf, done' = done
  PROVE  (Pending <=> Pending') /\ Packets' = Packets
BY DEF Pending, Packets

LEMMA NotPending ==
  ASSUME TypeOK, tpc # "delay"
  PROVE  ~Pending /\ Packets = done
BY Typed DEF Pending, Packets

LEMMA LowersPhase ==
  ASSUME TypeOK, NEW p, itx' = [itx EXCEPT !.phase = p]
  PROVE  itx'.phase = p /\ itx'.val = itx.val /\ itx'.got = itx.got
BY DEF TypeOK

\* The bytes of the current packet, once the initiator is in a call.
LEMMA CurrentIs ==
  ASSUME TypeOK, op # 0
  PROVE  /\ op \in 1..NOps /\ Current \in [1..9 -> Byte]
         /\ Current[1] \in {1, 2}
         /\ \A k \in 1..9 : Current[k] \in Byte
                            /\ Current[k] # NoByte /\ Char(Current[k]) = Current[k]
<1>1. op \in 1..NOps BY Typed, Constants
<1>2. Current \in [1..9 -> Byte] /\ Current[1] \in {1, 2}
  BY <1>1, PacketIs DEF Current
<1>3. \A v \in Byte : v # NoByte /\ Char(v) = v
  BY DEF Char, Byte, NoByte, TimedOut
<1>4. \A k \in 1..9 : Current[k] \in Byte BY <1>2
<1>5. QED BY <1>1, <1>2, <1>3, <1>4

\* A request taken for a byte of a packet does not make it a command.
LEMMA NoCommand ==
  ASSUME TypeOK, Receiving, tpc = "recv", ipc # "putPkt", NEW v, TargetGets(v),
         tidx = 1 => Char(v) \notin {1, 2}
  PROVE  /\ tbuf'[1] \notin {1, 2} /\ ~Pending'
         /\ tpc' \in {"recv", "delay"} /\ (tpc' = "delay" => tidx' = 1)
         /\ tpc' = "recv" => tidx' > 1
<1>1. /\ tbuf' = [tbuf EXCEPT ![tidx] = Char(v)] /\ tpc' \in {"recv", "delay"}
      /\ tpc' = "delay" => tidx' = 1
      /\ tpc' = "recv" => tidx' = tidx + 1
  BY Typed DEF TargetGets
<1>2. tbuf'[1] = IF tidx = 1 THEN Char(v) ELSE tbuf[1]
  BY <1>1, Typed DEF TypeOK
<1>3. tbuf'[1] \notin {1, 2} BY <1>2, Typed DEF Receiving
<1>4. QED BY <1>1, <1>3, Typed DEF Pending

LEMMA TakesRequest ==
  ASSUME TypeOK, Frames, Counts, Words, Answering, Receiving, Replying,
         tpc = "recv", ipc \in {"putSync", "getSync"}, NEW v, TargetGets(v),
         tidx = 1 => Char(v) \notin {1, 2},
         UNCHANGED <<initiator, mem, done, ttx>>,
         itx' = itx \/ (itx.phase = "lo" /\ itx' = [itx EXCEPT !.phase = "stop"])
  PROVE  Frames' /\ Counts' /\ Words' /\ Answering' /\ Receiving' /\ Replying'
<1>1. /\ ipc' = ipc /\ op' = op /\ mem' = mem /\ done' = done /\ ttx' = ttx
      /\ iidx' = iidx /\ itimer' = itimer /\ ibuf' = ibuf
  BY DEF initiator
<1>2. /\ tbuf'[1] \notin {1, 2} /\ ~Pending' /\ ~Pending
      /\ tpc' \in {"recv", "delay"} /\ (tpc' = "delay" => tidx' = 1)
      /\ tpc' = "recv" => tidx' > 1
  BY NoCommand DEF Pending
<1>3. Packets' = Packets BY <1>1, <1>2 DEF Packets
<1>4. /\ itx'.phase = "idle" => itx' = itx /\ itx.phase = "idle"
      /\ ipc = "getSync" => itx' = itx
  BY LowersPhase, IdleIs DEF Frames
<1>5. Frames' BY <1>1, <1>2, <1>4 DEF Frames, Idle, OnLine
<1>6. Counts' BY <1>1, <1>3 DEF Counts
<1>7. Words' BY <1>1, <1>2 DEF Words
<1>8. Answering' BY <1>2 DEF Answering
<1>9. Receiving' BY <1>1, <1>2 DEF Receiving
<1>10. Replying' BY <1>1, <1>2 DEF Replying
<1>11. QED BY <1>5, <1>6, <1>7, <1>8, <1>9, <1>10

LEMMA CallStep ==
  ASSUME TypeOK, Frames, Counts, Words, Answering, Receiving, Replying, Call
  PROVE  Frames' /\ Counts' /\ Words' /\ Answering' /\ Receiving' /\ Replying'
<1>1. /\ ipc = "idle" /\ ipc' = "putSync" /\ op' = op + 1
      /\ itx' = OnLine("off", NoByte, NoByte) /\ ttx' = ttx
      /\ itimer' = itimer /\ iidx' = iidx /\ ibuf' = ibuf
      /\ tpc' = tpc /\ tidx' = tidx /\ ttimer' = ttimer /\ tbuf' = tbuf
      /\ mem' = mem /\ done' = done
  BY DEF Call, target
<1>2. itx'.phase = "off" BY <1>1, OnLineIs
<1>3. Pending' <=> Pending BY <1>1, PendingSame
<1>4. Packets' = Packets BY <1>1, PendingSame
<1>5. Frames' BY <1>1, <1>2, ReplySame DEF Frames, Idle
<1>6. Counts' BY <1>1, <1>4, Typed DEF Counts
<1>7. Words' BY <1>1, <1>3, Typed DEF Words
<1>8. Answering' BY <1>1, Typed DEF Answering
<1>9. Receiving' BY <1>1 DEF Receiving
<1>10. Replying' BY <1>1, <1>2 DEF Replying
<1>11. QED BY <1>5, <1>6, <1>7, <1>8, <1>9, <1>10

LEMMA StartBitStep ==
  ASSUME TypeOK, Frames, Counts, Words, Answering, Receiving, Replying, StartBit
  PROVE  Frames' /\ Counts' /\ Words' /\ Answering' /\ Receiving' /\ Replying'
<1>1. /\ ipc \in {"putSync", "putPkt"} /\ itx.phase \in {"idle", "off"}
      /\ ipc' = ipc /\ op' = op /\ ttx' = ttx
      /\ itimer' = itimer /\ iidx' = iidx /\ ibuf' = ibuf
      /\ tpc' = tpc /\ tidx' = tidx /\ ttimer' = ttimer /\ tbuf' = tbuf
      /\ mem' = mem /\ done' = done
  BY DEF StartBit, initiator, target
<1>2. /\ itx'.phase = "start"
      /\ itx'.val = IF ipc = "putSync" THEN SyncSignal ELSE Current[iidx]
      /\ itx.phase = "idle" => itx'.got = NoByte
  BY OnLineIs DEF StartBit, Outgoing, Current
<1>3. Pending' <=> Pending BY <1>1, PendingSame
<1>4. Packets' = Packets BY <1>1, PendingSame
<1>5. Current' = Current BY <1>1 DEF Current
<1>6. Frames' BY <1>1, <1>2, ReplySame DEF Frames, Idle
<1>7. Counts' BY <1>1, <1>4 DEF Counts
<1>8. Words' BY <1>1, <1>3 DEF Words
<1>9. Answering'
  BY <1>1, <1>2, <1>5 DEF Answering, Heard, Sent
<1>10. Receiving'
  BY <1>1, <1>2, <1>3, <1>5 DEF Receiving, Heard, Sent
<1>11. Replying' BY <1>1, <1>2 DEF Replying
<1>12. QED BY <1>6, <1>7, <1>8, <1>9, <1>10, <1>11


LEMMA HighBitsStep ==
  ASSUME TypeOK, Frames, Counts, Words, Answering, Receiving, Replying, HighBits
  PROVE  Frames' /\ Counts' /\ Words' /\ Answering' /\ Receiving' /\ Replying'
<1>1. /\ itx.phase = "start" /\ ttx.phase # "stop"
      /\ ipc' = ipc /\ op' = op /\ ttx' = ttx
      /\ itimer' = itimer /\ iidx' = iidx /\ ibuf' = ibuf
      /\ tpc' = tpc /\ tidx' = tidx /\ ttimer' = ttimer /\ tbuf' = tbuf
      /\ mem' = mem /\ done' = done
  BY DEF HighBits, initiator, target
<1>2. /\ itx'.phase = "hi" /\ itx'.val = itx.val
      /\ tpc = "recv" /\ itx.got = NoByte => itx'.got = itx.val
  BY OnLineIs DEF HighBits, Listening
<1>3. Pending' <=> Pending BY <1>1, PendingSame
<1>4. Packets' = Packets BY <1>1, PendingSame
<1>5. Current' = Current BY <1>1 DEF Current
<1>6. ipc \in {"putSync", "putPkt"}
  BY <1>1, IdleIs, Typed DEF Frames
<1>7. Frames' BY <1>1, <1>2, <1>6, ReplySame DEF Frames, Idle
<1>8. Counts' BY <1>1, <1>4 DEF Counts
<1>9. Words' BY <1>1, <1>3 DEF Words
<1>10. Answering' BY <1>1, <1>2, <1>6 DEF Answering
<1>11. Receiving'
  <2>1. ipc = "putPkt" => tpc = "recv" BY <1>1 DEF Receiving, Pending
  <2>2. QED BY <1>1, <1>2, <1>3, <1>5, <2>1 DEF Receiving, Heard, Sent
<1>12. Replying' BY <1>1, <1>2, <1>6 DEF Replying
<1>13. QED BY <1>7, <1>8, <1>9, <1>10, <1>11, <1>12

LEMMA LowBitsStep ==
  ASSUME TypeOK, Frames, Counts, Words, Answering, Receiving, Replying, LowBits
  PROVE  Frames' /\ Counts' /\ Words' /\ Answering' /\ Receiving' /\ Replying'
<1>1. /\ itx.phase = "hi"
      /\ ipc' = ipc /\ op' = op /\ ttx' = ttx
      /\ itimer' = itimer /\ iidx' = iidx /\ ibuf' = ibuf
      /\ tpc' = tpc /\ tidx' = tidx /\ ttimer' = ttimer /\ tbuf' = tbuf
      /\ mem' = mem /\ done' = done
  BY DEF LowBits, initiator, target
<1>2. itx'.phase = "lo" /\ itx'.val = itx.val /\ itx'.got = itx.got
  BY LowersPhase DEF LowBits
<1>3. Pending' <=> Pending BY <1>1, PendingSame
<1>4. Packets' = Packets BY <1>1, PendingSame
<1>5. Current' = Current BY <1>1 DEF Current
<1>6. ipc \in {"putSync", "putPkt"}
  BY <1>1, IdleIs, Typed DEF Frames
<1>7. Frames' BY <1>1, <1>2, <1>6, ReplySame DEF Frames, Idle
<1>8. Counts' BY <1>1, <1>4 DEF Counts
<1>9. Words' BY <1>1, <1>3 DEF Words
<1>10. Answering' BY <1>1, <1>2, <1>6 DEF Answering
<1>11. Receiving' BY <1>1, <1>2, <1>3, <1>5 DEF Receiving, Heard, Sent
<1>12. Replying' BY <1>1, <1>2, <1>6 DEF Replying
<1>13. QED BY <1>7, <1>8, <1>9, <1>10, <1>11, <1>12

\* A byte of the packet arrives whole and in its place.
LEMMA TakesPacket ==
  ASSUME TypeOK, Frames, Counts, Words, Answering, Receiving, Replying,
         StopBit, tpc = "recv", ipc = "putPkt"
  PROVE  Frames' /\ Counts' /\ Words' /\ Answering' /\ Receiving' /\ Replying'
<1>1. /\ itx.phase = "lo" /\ ipc' = ipc /\ op' = op /\ ttx' = ttx
      /\ itimer' = itimer /\ iidx' = iidx /\ ibuf' = ibuf
      /\ mem' = mem /\ done' = done
  BY DEF StopBit, Listening, initiator
<1>2. itx'.phase = "stop" /\ itx'.val = itx.val /\ itx'.got = itx.got
  BY LowersPhase DEF StopBit
<1>3. op = done + 1 /\ op # 0 BY Typed DEF Counts
<1>4. /\ itx.got = Current[iidx] /\ tidx = iidx /\ iidx \in 1..9
      /\ itx.val = Current[iidx]
      /\ \A k \in 1..9 : k < tidx => tbuf[k] = Current[k]
  BY <1>1, Typed DEF Receiving, Heard, Sent, Pending
<1>5. TargetGets(Current[iidx])
  BY <1>1, <1>3, <1>4, CurrentIs DEF StopBit, Listening
<1>6. tbuf' = [tbuf EXCEPT ![iidx] = Current[iidx]]
  BY <1>3, <1>4, <1>5, CurrentIs DEF TargetGets
<1>7. \A k \in 1..9 : k <= iidx => tbuf'[k] = Current[k]
  BY <1>4, <1>6 DEF TypeOK
<1>8. Current' = Current BY <1>1 DEF Current
<1>9. CASE iidx < 9
  <2>1. tidx' = iidx + 1 /\ ttimer' = GetTimeout /\ tpc' = "recv"
    BY <1>4, <1>5, <1>9 DEF TargetGets
  <2>2. ~Pending /\ ~Pending' /\ Packets' = Packets
    BY <1>1, <2>1 DEF Pending, Packets
  <2>3. Frames' BY <1>1, <1>2, <2>1, IdleIs DEF Frames
  <2>4. Counts' BY <1>1, <2>2 DEF Counts
  <2>5. Words' BY <1>1, <2>1, <2>2 DEF Words
  <2>6. Answering' BY <2>1 DEF Answering
  <2>7. Receiving'
    BY <1>1, <1>2, <1>4, <1>7, <1>8, <1>9, <2>1, Constants DEF Receiving, Heard, Sent
  <2>8. Replying' BY <1>1, <2>1 DEF Replying
  <2>9. QED BY <2>3, <2>4, <2>5, <2>6, <2>7, <2>8
<1>10. CASE iidx = 9
  <2>1. tidx' = 1 /\ ttimer' = Delay /\ tpc' = "delay"
    BY <1>4, <1>5, <1>10 DEF TargetGets
  <2>2. tbuf' = Current
    <3>1. tbuf' \in [1..9 -> Byte \cup {NoByte}] BY <1>6, <1>3, <1>4, CurrentIs DEF TypeOK
    <3>2. QED BY <1>3, <1>7, <1>10, <3>1, CurrentIs
  <2>3. ~Pending /\ Pending' BY <1>3, <2>1, <2>2, CurrentIs DEF Pending
  <2>4. Frames' BY <1>1, <1>2, <2>1, IdleIs DEF Frames
  <2>5. Counts' BY <1>1, <1>3 DEF Counts
  <2>6. Words' BY <1>1, <1>3, <2>1, <2>2, Typed DEF Words, Current
  <2>7. Answering' BY <2>1 DEF Answering
  <2>8. Receiving'
    BY <1>1, <1>2, <1>4, <1>8, <1>10, <2>1, <2>3, Constants DEF Receiving, Heard, Sent
  <2>9. Replying' BY <1>1, <2>1 DEF Replying
  <2>10. QED BY <2>4, <2>5, <2>6, <2>7, <2>8, <2>9
<1>11. QED BY <1>4, <1>9, <1>10

LEMMA StopBitStep ==
  ASSUME TypeOK, Frames, Counts, Words, Answering, Receiving, Replying, StopBit
  PROVE  Frames' /\ Counts' /\ Words' /\ Answering' /\ Receiving' /\ Replying'
<1>1. /\ itx.phase = "lo" /\ ipc' = ipc /\ op' = op /\ ttx' = ttx
      /\ itimer' = itimer /\ iidx' = iidx /\ ibuf' = ibuf
      /\ mem' = mem /\ done' = done
  BY DEF StopBit, Listening, initiator, target
<1>2. itx'.phase = "stop" /\ itx'.val = itx.val /\ itx'.got = itx.got
  BY LowersPhase DEF StopBit
<1>3. ipc \in {"putSync", "putPkt"} BY <1>1, IdleIs, Typed DEF Frames
<1>4. CASE ~Listening
  <2>1. tpc' = tpc /\ tidx' = tidx /\ ttimer' = ttimer /\ tbuf' = tbuf
    BY <1>4 DEF StopBit, target
  <2>2. tpc # "recv" BY <1>4 DEF Listening
  <2>3. (Pending' <=> Pending) /\ Packets' = Packets BY <1>1, <2>1, PendingSame
  <2>4. ttx.phase # "bits"
    BY <1>1, <1>3, Typed, IdleIs DEF Frames, Answering, Replying
  <2>5. Frames' BY <1>1, <1>2, <1>3, <2>1, <2>4, ReplySame DEF Frames, Idle
  <2>6. Counts' BY <1>1, <2>3 DEF Counts
  <2>7. Words' BY <1>1, <2>1, <2>3 DEF Words
  <2>8. Answering' BY <1>1, <1>2, <2>1 DEF Answering
  <2>9. ipc = "putSync"
    BY <1>1, <1>3, <2>2 DEF Receiving, Answering
  <2>10. Receiving' BY <1>1, <2>1, <2>2, <2>9 DEF Receiving
  <2>11. tpc # "putData" BY <1>1, <2>9 DEF Replying
  <2>12. Replying' BY <1>1, <2>1, <2>9, <2>11 DEF Replying
  <2>13. QED BY <2>5, <2>6, <2>7, <2>8, <2>10, <2>12
<1>5. CASE tpc = "sync"
  <2>1. ipc = "putSync" BY <1>3, <1>5 DEF Receiving, Pending
  <2>2. tpc' = "delaySync" /\ ttimer' = Delay /\ tidx' = tidx /\ tbuf' = tbuf
    BY <1>5 DEF StopBit, Listening, TargetGets
  <2>3. ~Pending /\ ~Pending' /\ Packets' = Packets
    BY <1>1, <1>5, <2>2 DEF Pending, Packets
  <2>4. Frames' BY <1>1, <1>2, <1>5, <2>1, <2>2, IdleIs DEF Frames
  <2>5. Counts' BY <1>1, <2>3 DEF Counts
  <2>6. Words' BY <1>1, <2>2, <2>3 DEF Words
  <2>7. Answering' BY <1>1, <1>2, <2>1, <2>2 DEF Answering
  <2>8. Receiving' BY <1>1, <2>1, <2>2 DEF Receiving
  <2>9. Replying' BY <1>1, <2>1, <2>2 DEF Replying
  <2>10. QED BY <2>4, <2>5, <2>6, <2>7, <2>8, <2>9
<1>6. CASE tpc = "recv" /\ ipc = "putPkt" BY <1>6, TakesPacket
<1>7. CASE tpc = "recv" /\ ipc = "putSync"
  <2>1. PICK v \in IF itx.got = NoByte THEN Garbage ELSE {itx.got} : TargetGets(v)
    BY <1>7 DEF StopBit, Listening
  <2>2. tidx = 1 => Char(v) \notin {1, 2}
    BY <1>1, <1>7, <2>1 DEF Receiving, Heard, SyncSignal, NoByte, Char, TimedOut
  <2>3. UNCHANGED <<initiator, mem, done, ttx>> BY <1>1 DEF StopBit
  <2>4. itx' = [itx EXCEPT !.phase = "stop"] BY DEF StopBit
  <2>5. QED BY <1>1, <1>7, <2>1, <2>2, <2>3, <2>4, TakesRequest
<1>8. QED BY <1>3, <1>4, <1>5, <1>6, <1>7 DEF Listening


LEMMA Put8ReturnsStep ==
  ASSUME TypeOK, Frames, Counts, Words, Answering, Receiving, Replying, Put8Returns
  PROVE  Frames' /\ Counts' /\ Words' /\ Answering' /\ Receiving' /\ Replying'
<1>1. /\ itx.phase = "stop" /\ itx' = Idle /\ ttx' = ttx /\ op' = op /\ ibuf' = ibuf
      /\ tpc' = tpc /\ tidx' = tidx /\ ttimer' = ttimer /\ tbuf' = tbuf
      /\ mem' = mem /\ done' = done
  BY DEF Put8Returns, target, Return
<1>2. itx'.phase = "idle" BY <1>1, IdleIs
<1>3. (Pending' <=> Pending) /\ Packets' = Packets BY <1>1, PendingSame
<1>4. Current' = Current BY <1>1 DEF Current
<1>5. ttx.phase # "bits" BY <1>1 DEF Frames
<1>6. Frames' BY <1>1, <1>2, <1>5, ReplySame DEF Frames
<1>7. Heard(Current[1])' /\ Heard(SyncSignal)' /\ Heard(Current[iidx])'
  BY <1>2 DEF Heard, Sent
<1>8. tpc # "putSync" /\ tpc # "putData"
  <2>1. ipc \in {"putSync", "putPkt"} BY DEF Put8Returns
  <2>2. QED BY <1>1, <2>1 DEF Answering, Replying
<1>9. CASE ipc = "putSync"
  <2>1. ipc' = "getSync" /\ itimer' = Timeout /\ iidx' = iidx
    BY <1>9 DEF Put8Returns
  <2>2. Counts' BY <1>1, <1>3, <1>9, <2>1 DEF Counts
  <2>3. Words' BY <1>1, <1>3, <1>9, <2>1 DEF Words
  <2>4. Answering' BY <1>1, <1>8, <1>9, <2>1, Constants DEF Answering
  <2>5. Receiving' BY <1>1, <1>2, <1>7, <1>9, <2>1 DEF Receiving
  <2>6. Replying' BY <1>1, <1>8, <2>1 DEF Replying
  <2>7. QED BY <1>6, <2>2, <2>3, <2>4, <2>5, <2>6
<1>10. CASE ipc = "putPkt" /\ iidx < 9
  <2>1. ipc' = ipc /\ itimer' = itimer /\ iidx' = iidx + 1
    BY <1>10 DEF Put8Returns
  <2>2. Counts' BY <1>1, <1>10, <2>1 DEF Counts
  <2>3. Words' BY <1>1, <1>3, <1>10, <2>1 DEF Words
  <2>4. Answering' BY <1>1, <1>8, <1>10, <2>1 DEF Answering
  <2>5. Receiving' BY <1>1, <1>2, <1>4, <1>7, <1>8, <1>10, <2>1 DEF Receiving, Heard, Sent
  <2>6. Replying' BY <1>1, <1>8, <1>10, <2>1 DEF Replying
  <2>7. QED BY <1>6, <2>2, <2>3, <2>4, <2>5, <2>6
<1>11. CASE ipc = "putPkt" /\ iidx = 9
  <2>1. Pending /\ ttimer = Delay /\ tpc = "delay"
    <3>1. ~(tpc = "recv" /\ tidx = 10) BY Typed
    <3>2. QED BY <1>1, <1>8, <1>11, <3>1 DEF Receiving, Pending
  <2>2. op = done + 1 /\ op # 0 /\ op \in 1..NOps
    BY <1>11, Typed, CurrentIs DEF Counts
  <2>3. Packets = op BY <2>1, <2>2 DEF Packets
  <2>4. CASE Ops[op].command = "put"
    <3>1. ipc' = "idle" /\ iidx' = 1 BY <1>11, <2>4 DEF Put8Returns, Return
    <3>2. Counts' BY <1>1, <1>3, <2>3, <3>1 DEF Counts
    <3>3. Words' BY <1>1, <1>3, <2>2, <2>4, <3>1 DEF Words
    <3>4. Answering' BY <1>1, <2>1 DEF Answering
    <3>5. Receiving' BY <1>1, <2>1, <3>1 DEF Receiving
    <3>6. Replying' BY <1>1, <2>1, <3>1 DEF Replying
    <3>7. QED BY <1>6, <3>2, <3>3, <3>4, <3>5, <3>6
  <2>5. CASE Ops[op].command # "put"
    <3>1. ipc' = "getData" /\ iidx' = 1 /\ itimer' = GetTimeout
      BY <1>11, <2>5 DEF Put8Returns
    <3>2. Counts' BY <1>1, <1>3, <2>2, <2>3, <3>1 DEF Counts
    <3>3. Words' BY <1>1, <1>3, <1>11, <3>1 DEF Words
    <3>4. Answering' BY <1>1, <2>1 DEF Answering
    <3>5. Receiving' BY <1>1, <2>1, <3>1 DEF Receiving
    <3>6. Replying'
      BY <1>1, <1>3, <2>1, <2>2, <2>5, <3>1, OpIs, Constants DEF Replying
    <3>7. QED BY <1>6, <3>2, <3>3, <3>4, <3>5, <3>6
  <2>6. QED BY <2>4, <2>5
<1>12. QED BY <1>9, <1>10, <1>11, Typed DEF Put8Returns

\* The initiator's poll returns something that is not the answer, or times
\* out: it asks again.
LEMMA AsksAgain ==
  ASSUME TypeOK, Frames, Counts, Words, Answering, Receiving, Replying,
         NEW v, v # SyncSignal, SyncReturns(v), itx' = itx, ttx' = ttx,
         UNCHANGED <<tidx, tbuf, mem, done>>,
         \/ tpc' = tpc /\ ttimer' = ttimer /\ itimer = 0
         \/ tpc = "boot" /\ tpc' = "main"
  PROVE  Frames' /\ Counts' /\ Words' /\ Answering' /\ Receiving' /\ Replying'
<1>1. /\ ipc = "getSync" /\ ipc' = "putSync" /\ op' = op /\ ibuf' = ibuf
      /\ itx = Idle
  BY DEF SyncReturns, Frames
<1>2. itx.phase = "idle" BY <1>1, IdleIs
<1>3. tpc # "delaySync" /\ tpc # "putData" /\ tpc # "putSync"
  BY <1>1, <1>2, Typed DEF Answering, Replying
<1>4. (Pending' <=> Pending) /\ Packets' = Packets
  BY PendingSame DEF Pending, Packets
<1>5. Frames' BY <1>1, <1>2, <1>3 DEF Frames
<1>6. Counts' BY <1>1, <1>4 DEF Counts
<1>7. Words' BY <1>1, <1>4 DEF Words
<1>8. Answering' BY <1>3 DEF Answering
<1>9. Receiving' BY <1>1, <1>2 DEF Receiving, Heard, Sent
<1>10. Replying' BY <1>1, <1>3 DEF Replying
<1>11. QED BY <1>5, <1>6, <1>7, <1>8, <1>9, <1>10

LEMMA InitiatorExpiresStep ==
  ASSUME TypeOK, Frames, Counts, Words, Answering, Receiving, Replying, InitiatorExpires
  PROVE  Frames' /\ Counts' /\ Words' /\ Answering' /\ Receiving' /\ Replying'
<1>1. /\ itimer = 0 /\ itx' = itx /\ ttx' = ttx /\ tpc' = tpc /\ tidx' = tidx
      /\ ttimer' = ttimer /\ tbuf' = tbuf /\ mem' = mem /\ done' = done
  BY DEF InitiatorExpires, target
<1>2. ~DataReturns(TimedOut)
  <2>1. SUFFICES ASSUME ipc = "getData" PROVE FALSE BY DEF DataReturns
  <2>2. CASE tpc = "delay" BY <1>1, <2>1, <2>2, Typed DEF Replying
  <2>3. CASE tpc = "putData"
    BY <1>1, <2>1, <2>3, Typed DEF Replying
  <2>4. QED BY <2>1, <2>2, <2>3 DEF Replying
<1>3. SyncReturns(TimedOut) BY <1>2 DEF InitiatorExpires
<1>4. TimedOut # SyncSignal BY DEF TimedOut, SyncSignal
<1>5. QED BY <1>1, <1>3, <1>4, AsksAgain

LEMMA StartupStep ==
  ASSUME TypeOK, Frames, Counts, Words, Answering, Receiving, Replying, Startup
  PROVE  Frames' /\ Counts' /\ Words' /\ Answering' /\ Receiving' /\ Replying'
<1>1. /\ tpc = "boot" /\ tpc' = "main" /\ itx' = itx /\ ttx' = ttx /\ tidx' = tidx
      /\ tbuf' = tbuf /\ mem' = mem /\ done' = done
  BY DEF Startup
<1>2. CASE ipc = "getSync"
  <2>1. SyncReturns(255) /\ 255 # SyncSignal BY <1>2 DEF Startup, SyncSignal
  <2>2. QED BY <1>1, <2>1, AsksAgain
<1>3. CASE ipc # "getSync"
  <2>1. ipc' = ipc /\ op' = op /\ iidx' = iidx /\ itimer' = itimer /\ ibuf' = ibuf
    BY <1>3 DEF Startup, initiator
  <2>2. ipc # "putPkt" /\ ipc # "getData"
    BY <1>1 DEF Receiving, Replying, Pending
  <2>3. ~Pending /\ ~Pending' /\ Packets' = Packets
    BY <1>1 DEF Pending, Packets
  <2>4. Frames' BY <1>1, <2>1, IdleIs DEF Frames
  <2>5. Counts' BY <1>1, <2>1, <2>3 DEF Counts
  <2>6. Words' BY <1>1, <2>3 DEF Words
  <2>7. Answering' BY <1>1 DEF Answering
  <2>8. Receiving' BY <1>1, <2>1, <2>2 DEF Receiving
  <2>9. Replying' BY <1>1, <2>1, <2>2 DEF Replying
  <2>10. QED BY <2>4, <2>5, <2>6, <2>7, <2>8, <2>9
<1>4. QED BY <1>2, <1>3

\* The target's steps that neither speak nor listen.
LEMMA QuietStep ==
  ASSUME TypeOK, Frames, Counts, Words, Answering, Receiving, Replying,
         initiator' = initiator, itx' = itx, tidx' = tidx, tbuf' = tbuf,
         mem' = mem, done' = done, ttx' = ttx,
         tpc \in {"main", "rise", "riseClear", "fall", "toSync", "sync", "clear"},
         tpc' \in {"main", "rise", "riseClear", "fall", "toSync", "sync", "clear",
                   "panic"}
  PROVE  Frames' /\ Counts' /\ Words' /\ Answering' /\ Receiving' /\ Replying'
<1>1. /\ ipc' = ipc /\ op' = op /\ iidx' = iidx /\ itimer' = itimer /\ ibuf' = ibuf
      /\ itx' = itx /\ tidx' = tidx /\ tbuf' = tbuf /\ mem' = mem /\ done' = done
      /\ ttx' = ttx
  BY DEF initiator
<1>2. ipc # "putPkt" /\ ipc # "getData"
  BY DEF Receiving, Replying, Pending
<1>3. ~Pending /\ ~Pending' /\ Packets' = Packets
  BY <1>1 DEF Pending, Packets
<1>4. Frames' BY <1>1, IdleIs DEF Frames
<1>5. Counts' BY <1>1, <1>2, <1>3 DEF Counts
<1>6. Words' BY <1>1, <1>3 DEF Words
<1>7. Answering' BY DEF Answering
<1>8. Receiving' BY <1>1, <1>2 DEF Receiving
<1>9. Replying' BY <1>1, <1>2 DEF Replying
<1>10. QED BY <1>4, <1>5, <1>6, <1>7, <1>8, <1>9

LEMMA TargetExpiresStep ==
  ASSUME TypeOK, Frames, Counts, Words, Answering, Receiving, Replying, TargetExpires
  PROVE  Frames' /\ Counts' /\ Words' /\ Answering' /\ Receiving' /\ Replying'
<1>1. /\ ttimer = 0 /\ itx = Idle
      /\ UNCHANGED <<initiator, itx, mem, done, ttx>>
  BY DEF TargetExpires
<1>2. CASE tpc = "sync"
  <2>1. tpc' = "clear" /\ tidx' = tidx /\ tbuf' = tbuf
    BY <1>2 DEF TargetExpires
  <2>2. QED BY <1>1, <1>2, <2>1, QuietStep
<1>3. CASE tpc = "recv"
  <2>1. TargetGets(TimedOut) BY <1>3 DEF TargetExpires
  <2>2. ipc # "putPkt" BY <1>1, <1>3 DEF Receiving, Pending
  <2>3. ipc \in {"putSync", "getSync"} BY <1>3, <2>2 DEF Receiving
  <2>4. Char(TimedOut) \notin {1, 2} BY DEF Char
  <2>5. QED BY <1>1, <1>3, <2>1, <2>3, <2>4, TakesRequest
<1>4. QED BY <1>2, <1>3 DEF TargetExpires, Listening


LEMMA EndDelaySyncStep ==
  ASSUME TypeOK, Frames, Counts, Words, Answering, Receiving, Replying, EndDelaySync
  PROVE  Frames' /\ Counts' /\ Words' /\ Answering' /\ Receiving' /\ Replying'
<1>1. /\ tpc = "delaySync" /\ ttimer = 0 /\ tpc' = "putSync"
      /\ ipc' = ipc /\ op' = op /\ iidx' = iidx /\ itimer' = itimer /\ ibuf' = ibuf
      /\ itx' = itx /\ tidx' = tidx /\ tbuf' = tbuf /\ mem' = mem /\ done' = done
      /\ ttx' = ttx
  BY DEF EndDelaySync, initiator
<1>2. ttx = Idle /\ ttx.phase = "idle" BY <1>1, IdleIs DEF Frames
<1>3. ipc = "getSync" /\ itimer > 0 BY <1>1, Constants DEF Answering
<1>4. ~Pending /\ ~Pending' /\ Packets' = Packets
  BY <1>1 DEF Pending, Packets
<1>5. Frames' BY <1>1, <1>2 DEF Frames
<1>6. Counts' BY <1>1, <1>4 DEF Counts
<1>7. Words' BY <1>1, <1>4 DEF Words
<1>8. Answering' BY <1>1, <1>2, <1>3 DEF Answering
<1>9. Receiving' BY <1>1, <1>3 DEF Receiving
<1>10. Replying' BY <1>1, <1>3 DEF Replying
<1>11. QED BY <1>5, <1>6, <1>7, <1>8, <1>9, <1>10

\* The packet is executed as the call that is due.
LEMMA Executes ==
  ASSUME TypeOK, Words, Pending, EndDelay
  PROVE  /\ done < op /\ done' = done + 1 /\ done' \in 1..NOps
         /\ Ops[done'].command = "put" =>
              tpc' = "clear" /\ mem' = [mem EXCEPT ![Ops[done'].address] = Ops[done'].word]
         /\ Ops[done'].command = "get" => tpc' = "putData" /\ mem' = mem
         /\ AddressOf(tbuf) = Ops[done'].address
<1>1. /\ tpc = "delay" /\ tbuf[1] \in {1, 2} /\ done < op
      /\ tbuf = Packet(Ops[done + 1]) /\ done' = done + 1
  BY DEF Pending, Words, EndDelay
<1>2. done' \in 1..NOps BY <1>1, Typed, Constants
<1>3. /\ AddressOf(tbuf) = Ops[done'].address
      /\ Ops[done'].command = "put" => WordOf(tbuf) = Ops[done'].word /\ tbuf[1] = 1
      /\ Ops[done'].command = "get" => tbuf[1] = 2
  BY <1>1, <1>2, PacketIs
<1>4. QED BY <1>1, <1>2, <1>3 DEF EndDelay

LEMMA EndDelayStep ==
  ASSUME TypeOK, Frames, Counts, Words, Answering, Receiving, Replying, EndDelay
  PROVE  Frames' /\ Counts' /\ Words' /\ Answering' /\ Receiving' /\ Replying'
<1>1. /\ tpc = "delay" /\ ttimer = 0 /\ tpc' \in {"putData", "clear"}
      /\ ipc' = ipc /\ op' = op /\ iidx' = iidx /\ itimer' = itimer /\ ibuf' = ibuf
      /\ itx' = itx /\ tidx' = tidx /\ tbuf' = tbuf /\ ttx' = ttx
  BY DEF EndDelay, initiator
<1>2. ttx = Idle /\ ttx.phase = "idle" /\ tidx = 1 /\ ~Pending' /\ Packets' = done'
  <2>1. done' \in Nat BY Typed DEF EndDelay
  <2>2. ~Pending' BY <1>1 DEF Pending
  <2>3. Packets' = done' + 0 BY <2>2 DEF Packets
  <2>4. \A n \in Nat : n + 0 = n OBVIOUS
  <2>5. done' + 0 = done' BY <2>1, <2>4
  <2>6. Packets' = done' BY <2>3, <2>5
  <2>7. QED BY <1>1, <2>2, <2>6, IdleIs DEF Frames, Words
<1>3. ipc # "putPkt" BY <1>1, Constants DEF Receiving
<1>4. Frames' BY <1>1, <1>2 DEF Frames
<1>5. Answering' BY <1>1 DEF Answering
<1>6. Receiving' BY <1>1, <1>3 DEF Receiving
<1>7. CASE ~Pending
  <2>1. tpc' = "clear" /\ mem' = mem /\ done' = done
    BY <1>1, <1>7 DEF Pending, EndDelay
  <2>2. ipc # "getData" BY <1>1, <1>7 DEF Replying
  <2>3. Packets = done BY <1>7, Typed DEF Packets
  <2>4. Counts' BY <1>1, <1>2, <1>3, <2>1, <2>3 DEF Counts
  <2>5. Words' BY <1>1, <1>2, <2>1 DEF Words
  <2>6. Replying' BY <1>1, <2>1, <2>2 DEF Replying
  <2>7. QED BY <1>4, <1>5, <1>6, <2>4, <2>5, <2>6
<1>8. CASE Pending
  <2>1. /\ done < op /\ done' = done + 1 /\ done' \in 1..NOps
        /\ Ops[done'].command = "put" =>
             tpc' = "clear" /\ mem' = [mem EXCEPT ![Ops[done'].address] = Ops[done'].word]
        /\ Ops[done'].command = "get" => tpc' = "putData" /\ mem' = mem
        /\ AddressOf(tbuf) = Ops[done'].address
    BY <1>8, Executes
  <2>2. Packets = done' BY <1>8, <2>1 DEF Packets
  <2>3. Counts' BY <1>1, <1>2, <1>3, <2>2 DEF Counts
  <2>4. /\ Ops[done'].command \in {"put", "get"} /\ Ops[done'].address \in Addresses
        /\ Ops[done'].word \in [1..4 -> Byte]
    BY <2>1, OpIs
  <2>5. mem' \in [Addresses -> [1..4 -> Byte]]
    <3>1. mem \in [Addresses -> [1..4 -> Byte]] BY DEF Words
    <3>2. QED BY <2>1, <2>4, <3>1
  <2>6. Words' BY <1>1, <1>2, <2>5 DEF Words
  <2>7. Replying'
    <3>1. CASE Ops[done'].command = "put"
      <4>1. ipc # "getData"
        <5>1. SUFFICES ASSUME ipc = "getData" PROVE FALSE OBVIOUS
        <5>2. op = done' /\ Ops[op].command = "get"
          BY <2>2, <5>1 DEF Counts, Replying
        <5>3. QED BY <3>1, <5>2
      <4>2. QED BY <1>1, <2>1, <3>1, <4>1 DEF Replying
    <3>2. CASE Ops[done'].command = "get"
      <4>1. ipc = "getData" /\ iidx = 1 /\ itimer > 0
        <5>1. ipc \notin {"idle", "putSync", "getSync"}
          BY <1>8, <2>1, <3>2 DEF Words
        <5>2. ipc = "getData" BY <1>3, <5>1, Typed
        <5>3. QED BY <1>1, <5>2 DEF Replying
      <4>2. op = done' BY <2>2, <4>1 DEF Counts
      <4>3. AddressOf(tbuf)' = Ops[op].address BY <1>1, <2>1, <4>2 DEF AddressOf
      <4>4. QED BY <1>1, <1>2, <2>1, <3>2, <4>1, <4>2, <4>3 DEF Replying
    <3>3. QED BY <2>4, <3>1, <3>2
  <2>8. QED BY <1>4, <1>5, <1>6, <2>3, <2>6, <2>7
<1>9. QED BY <1>7, <1>8

LEMMA TargetStartBitStep ==
  ASSUME TypeOK, Frames, Counts, Words, Answering, Receiving, Replying, TargetStartBit
  PROVE  Frames' /\ Counts' /\ Words' /\ Answering' /\ Receiving' /\ Replying'
<1>1. /\ tpc \in {"putSync", "putData"} /\ ttx = Idle
      /\ ipc' = ipc /\ op' = op /\ iidx' = iidx /\ itimer' = itimer /\ ibuf' = ibuf
      /\ itx' = itx /\ tpc' = tpc /\ tidx' = tidx /\ ttimer' = ttimer /\ tbuf' = tbuf
      /\ mem' = mem /\ done' = done
  BY DEF TargetStartBit, initiator, target
<1>2. ttx'.phase = "start" /\ ttx'.val = Reply /\ ttx.phase = "idle"
  BY <1>1, OnLineIs, IdleIs DEF TargetStartBit
<1>3. (Pending' <=> Pending) /\ Packets' = Packets BY <1>1, PendingSame
<1>4. Current' = Current BY <1>1 DEF Current
<1>5. Reply' = Reply BY <1>1, ReplySame
<1>6. Frames' BY <1>1, <1>2, <1>5 DEF Frames, Idle
<1>7. Counts' BY <1>1, <1>3 DEF Counts
<1>8. Words' BY <1>1, <1>3 DEF Words
<1>9. Answering' BY <1>1, <1>2 DEF Answering
<1>10. Receiving' BY <1>1, <1>2 DEF Receiving, Pending
<1>11. Replying' BY <1>1, <1>2 DEF Replying, AddressOf
<1>12. QED BY <1>6, <1>7, <1>8, <1>9, <1>10, <1>11

\* While the target sends, the initiator polls.
LEMMA Polling ==
  ASSUME TypeOK, Frames, Answering, Replying, ttx.phase \in {"start", "bits"}
  PROVE  /\ itx = Idle /\ itx.phase = "idle"
         /\ \/ tpc = "putSync" /\ ipc = "getSync" /\ ttx.val = SyncSignal
            \/ tpc = "putData" /\ ipc = "getData"
<1>1. tpc \in {"putSync", "putData"} BY IdleIs DEF Frames
<1>2. \/ tpc = "putSync" /\ ipc = "getSync"
      \/ tpc = "putData" /\ ipc = "getData"
  BY <1>1 DEF Answering, Replying
<1>3. tpc = "putSync" => ttx.val = SyncSignal BY DEF Frames, Reply
<1>4. QED BY <1>2, <1>3, IdleIs DEF Frames

LEMMA TargetDataBitsStep ==
  ASSUME TypeOK, Frames, Counts, Words, Answering, Receiving, Replying, TargetDataBits
  PROVE  Frames' /\ Counts' /\ Words' /\ Answering' /\ Receiving' /\ Replying'
<1>1. /\ ttx.phase = "start"
      /\ ipc' = ipc /\ op' = op /\ iidx' = iidx /\ itimer' = itimer /\ ibuf' = ibuf
      /\ itx' = itx /\ tpc' = tpc /\ tidx' = tidx /\ ttimer' = ttimer /\ tbuf' = tbuf
      /\ mem' = mem /\ done' = done
  BY DEF TargetDataBits, initiator, target
<1>2. itx.phase = "idle" /\ InitiatorListens
      /\ tpc \in {"putSync", "putData"}
  BY <1>1, Polling DEF InitiatorListens
<1>3. ttx'.phase = "bits" /\ ttx'.val = ttx.val /\ ttx'.got = ttx.val
  BY <1>2, OnLineIs DEF TargetDataBits
<1>4. (Pending' <=> Pending) /\ Packets' = Packets BY <1>1, PendingSame
<1>5. Reply' = Reply BY <1>1, ReplySame
<1>6. Frames' BY <1>1, <1>2, <1>3, <1>5 DEF Frames, Idle
<1>7. Counts' BY <1>1, <1>4 DEF Counts
<1>8. Words' BY <1>1, <1>4 DEF Words
<1>9. Answering' BY <1>1, <1>3 DEF Answering
<1>10. Receiving' BY <1>1, <1>2, <1>3 DEF Receiving, Pending
<1>11. Replying'
  <2>1. CASE tpc = "putSync" BY <1>1, <1>3, <2>1, Polling DEF Replying
  <2>2. CASE tpc = "putData"
    <3>1. ipc = "getData" BY <1>1, <2>2, Polling
    <3>2. AddressOf(tbuf)' = AddressOf(tbuf) BY <1>1 DEF AddressOf
    <3>3. QED BY <1>1, <1>3, <2>2, <3>1, <3>2 DEF Replying
  <2>3. QED BY <1>2, <2>1, <2>2
<1>12. QED BY <1>6, <1>7, <1>8, <1>9, <1>10, <1>11


\* The answer ends the round: the last one ends the handshake.
LEMMA AnswerTaken ==
  ASSUME TypeOK, Frames, Counts, Words, Answering, Receiving, Replying,
         TargetStopBit, tpc = "putSync"
  PROVE  Frames' /\ Counts' /\ Words' /\ Answering' /\ Receiving' /\ Replying'
<1>1. /\ ttx.phase = "bits" /\ itx' = itx /\ tpc' = tpc /\ tidx' = tidx
      /\ ttimer' = ttimer /\ tbuf' = tbuf /\ mem' = mem /\ done' = done
  BY DEF TargetStopBit, target
<1>2. ttx'.phase = "stop" /\ ttx'.val = ttx.val /\ ttx'.got = ttx.got
  BY DEF TargetStopBit, TypeOK
<1>3. /\ itx = Idle /\ itx.phase = "idle" /\ ipc = "getSync" /\ ttx.val = SyncSignal
  BY <1>1, Polling
<1>4. ttx.got = SyncSignal BY <1>1, <1>3 DEF Frames
<1>5. SyncReturns(SyncSignal)
  <2>1. SyncSignal # NoByte BY DEF SyncSignal, NoByte
  <2>2. SyncReturns(SyncSignal) \/ DataReturns(SyncSignal)
    BY <1>3, <1>4, <2>1 DEF TargetStopBit, InitiatorListens
  <2>3. QED BY <1>3, <2>2 DEF DataReturns
<1>6. /\ op' = op
      /\ ipc' = "putSync" \/ (ipc' = "putPkt" /\ iidx' = 1)
  BY <1>5 DEF SyncReturns
<1>7. (Pending' <=> Pending) /\ Packets' = Packets /\ Packets = done
  BY <1>1, PendingSame, NotPending
<1>8. Reply' = Reply BY <1>1, ReplySame
<1>9. Heard(SyncSignal)' /\ Heard(Current[1])' /\ Heard(Current[iidx])'
  BY <1>1, <1>3 DEF Heard, Sent
<1>10. Frames' BY <1>1, <1>2, <1>3, <1>6, <1>8 DEF Frames
<1>11. Counts' BY <1>1, <1>3, <1>6, <1>7 DEF Counts
<1>12. Words' BY <1>1, <1>6, <1>7 DEF Words, Pending
<1>13. Answering' BY <1>1, <1>2, <1>3, <1>6, <1>9 DEF Answering
<1>14. Receiving' BY <1>1, <1>2, <1>6, <1>9 DEF Receiving
<1>15. Replying' BY <1>1, <1>6 DEF Replying
<1>16. QED BY <1>10, <1>11, <1>12, <1>13, <1>14, <1>15

\* A byte of the word the target has loaded arrives in its place.
LEMMA WordTaken ==
  ASSUME TypeOK, Frames, Counts, Words, Answering, Receiving, Replying,
         TargetStopBit, tpc = "putData"
  PROVE  /\ Frames' /\ Counts' /\ Words' /\ Answering' /\ Receiving' /\ Replying'
         /\ ipc = "getData" /\ ipc' \in {"getData", "idle"} /\ op' = op
         /\ UNCHANGED <<mem, done>>
         /\ op = done /\ op \in 1..NOps /\ Ops[op].command = "get"
         /\ ipc' = "getData" => answer' = answer
         /\ ipc' = "idle" => answer' = mem[Ops[op].address]
<1>1. /\ ttx.phase = "bits" /\ itx' = itx /\ tpc' = tpc /\ tidx' = tidx
      /\ ttimer' = ttimer /\ tbuf' = tbuf /\ mem' = mem /\ done' = done
  BY DEF TargetStopBit, target
<1>2. ttx'.phase = "stop" /\ ttx'.val = ttx.val /\ ttx'.got = ttx.got
  BY DEF TargetStopBit, TypeOK
<1>3. itx = Idle /\ itx.phase = "idle" /\ ipc = "getData" BY <1>1, Polling
<1> DEFINE word == mem[Ops[op].address]
<1>4. /\ tidx \in 1..4 /\ iidx = tidx /\ Ops[op].command = "get"
      /\ AddressOf(tbuf) = Ops[op].address
      /\ \A k \in 1..4 : k < iidx => ibuf[k] = word[k]
  BY <1>1, <1>3 DEF Replying
<1>5. (Pending' <=> Pending) /\ Packets' = Packets /\ Packets = done /\ op = done
  BY <1>1, <1>3, PendingSame, NotPending DEF Counts
<1>6. op \in 1..NOps BY <1>3, CurrentIs DEF Counts
<1>7. Ops[op].address \in Addresses /\ word \in [1..4 -> Byte]
  BY <1>6, OpIs DEF Words
<1> HIDE DEF word
<1>8. ttx.got = word[iidx]
  BY <1>1, <1>4, <1>7 DEF Frames, Reply, Loaded, word
<1>9. word[iidx] \in Byte /\ Char(word[iidx]) = word[iidx] /\ word[iidx] # NoByte
  <2>1. word[iidx] \in Byte BY <1>4, <1>7
  <2>2. Char(word[iidx]) = word[iidx] BY <2>1, CharTyped
  <2>3. QED BY <2>1, <2>2 DEF Byte, NoByte
<1>10. DataReturns(word[iidx])
  <2>1. SyncReturns(word[iidx]) \/ DataReturns(word[iidx])
    BY <1>3, <1>8, <1>9 DEF TargetStopBit, InitiatorListens
  <2>2. QED BY <1>3, <2>1 DEF SyncReturns
<1>11. ibuf' = [ibuf EXCEPT ![iidx] = word[iidx]] BY <1>9, <1>10 DEF DataReturns
<1>12. \A k \in 1..4 : k <= iidx => ibuf'[k] = word[k]
  BY <1>4, <1>11 DEF TypeOK
<1>13. op' = op /\ ipc' \in {"getData", "idle"} BY <1>3, <1>10 DEF DataReturns, Return
<1>14. Reply' = Reply BY <1>1, ReplySame
<1>15. Frames' BY <1>1, <1>2, <1>3, <1>13, <1>14 DEF Frames
<1>16. Counts' BY <1>1, <1>3, <1>5, <1>13 DEF Counts
<1>17. Words' BY <1>1, <1>5 DEF Words, Pending
<1>18. Answering' BY <1>1 DEF Answering
<1>19. Receiving' BY <1>1, <1>13 DEF Receiving
<1>20. Replying' /\ (ipc' = "getData" => answer' = answer) /\ (ipc' = "idle" => answer' = word)
  <2>1. CASE iidx < 4
    <3>1. /\ ipc' = "getData" /\ iidx' = iidx + 1 /\ itimer' = GetTimeout
          /\ answer' = answer
      BY <1>3, <1>10, <2>1 DEF DataReturns
    <3>2. AddressOf(tbuf)' = AddressOf(tbuf) BY <1>1 DEF AddressOf
    <3>3. \A k \in 1..4 : k < iidx' => ibuf'[k] = mem'[Ops[op'].address][k]
      BY <1>1, <1>4, <1>12, <1>13, <3>1 DEF word
    <3>4. Replying'
      BY <1>1, <1>2, <1>4, <1>13, <2>1, <3>1, <3>2, <3>3, Constants DEF Replying
    <3>5. QED BY <3>1, <3>4
  <2>2. CASE iidx = 4
    <3>1. ipc' = "idle" /\ answer' = ibuf'
      BY <1>10, <2>2 DEF DataReturns, Return
    <3>2. ibuf' \in [1..4 -> Byte \cup {NoByte}] BY <1>9, <1>11 DEF TypeOK
    <3>3. ibuf' = word BY <1>7, <1>12, <2>2, <3>2
    <3>4. Replying' BY <1>1, <1>2, <1>3, <1>4, <2>2, <3>1 DEF Replying
    <3>5. QED BY <3>1, <3>3, <3>4
  <2>3. QED BY <1>4, <2>1, <2>2
<1>21. QED
  BY <1>1, <1>3, <1>4, <1>5, <1>6, <1>13, <1>15, <1>16, <1>17, <1>18, <1>19, <1>20
  DEF word

LEMMA TargetStopBitStep ==
  ASSUME TypeOK, Frames, Counts, Words, Answering, Receiving, Replying, TargetStopBit
  PROVE  Frames' /\ Counts' /\ Words' /\ Answering' /\ Receiving' /\ Replying'
<1>1. tpc \in {"putSync", "putData"} BY Polling DEF TargetStopBit
<1>2. QED BY <1>1, AnswerTaken, WordTaken

LEMMA TargetPut8ReturnsStep ==
  ASSUME TypeOK, Frames, Counts, Words, Answering, Receiving, Replying,
         TargetPut8Returns
  PROVE  Frames' /\ Counts' /\ Words' /\ Answering' /\ Receiving' /\ Replying'
<1>1. /\ ttx.phase = "stop" /\ ttx' = Idle /\ ttx'.phase = "idle"
      /\ ipc' = ipc /\ op' = op /\ iidx' = iidx /\ itimer' = itimer /\ ibuf' = ibuf
      /\ itx' = itx /\ tbuf' = tbuf /\ mem' = mem /\ done' = done
  BY IdleIs DEF TargetPut8Returns, initiator
<1>2. tpc \in {"putSync", "putData"} BY <1>1, IdleIs DEF Frames
<1>3. Frames' BY <1>1 DEF Frames
<1>4. tpc' \in {"recv", "putData", "clear"} BY <1>2 DEF TargetPut8Returns
<1>5. ~Pending /\ ~Pending' /\ Packets' = Packets
  BY <1>1, <1>2, <1>4 DEF Pending, Packets
<1>6. Counts' BY <1>1, <1>5 DEF Counts
<1>7. Words' BY <1>1, <1>4, <1>5 DEF Words
<1>8. Answering' BY <1>4 DEF Answering
<1>9. Current' = Current BY <1>1 DEF Current
<1>10. CASE tpc = "putSync"
  <2>1. tpc' = "recv" /\ ttimer' = GetTimeout /\ tidx' = 1
    BY <1>10 DEF TargetPut8Returns
  <2>2. Receiving'
    BY <1>1, <1>9, <1>10, <2>1, Constants DEF Receiving, Answering, Heard, Sent
  <2>3. ipc # "getData" BY <1>10 DEF Replying
  <2>4. Replying' BY <1>1, <2>1, <2>3 DEF Replying
  <2>5. QED BY <1>3, <1>6, <1>7, <1>8, <2>2, <2>4
<1>11. CASE tpc = "putData"
  <2>1. ipc # "putPkt" BY <1>11 DEF Receiving, Pending
  <2>2. Receiving' BY <1>1, <1>4, <1>11, <2>1 DEF Receiving, TargetPut8Returns
  <2>3. tidx \in 1..4 BY <1>11 DEF Replying
  <2>4. CASE tidx < 4
    <3>1. tpc' = "putData" /\ tidx' = tidx + 1
      BY <1>11, <2>4 DEF TargetPut8Returns
    <3>2. AddressOf(tbuf)' = AddressOf(tbuf) BY <1>1 DEF AddressOf
    <3>3. Replying' BY <1>1, <1>11, <2>3, <2>4, <3>1, <3>2 DEF Replying
    <3>4. QED BY <1>3, <1>6, <1>7, <1>8, <2>2, <3>3
  <2>5. CASE tidx = 4
    <3>1. tpc' = "clear" BY <1>11, <2>5 DEF TargetPut8Returns
    <3>2. Replying' BY <1>1, <1>11, <2>5, <3>1 DEF Replying
    <3>3. QED BY <1>3, <1>6, <1>7, <1>8, <2>2, <3>2
  <2>6. QED BY <2>3, <2>4, <2>5
<1>12. QED BY <1>2, <1>10, <1>11

\* Time passes for both alike: who waits for the other has more of it left.
LEMMA TickStep ==
  ASSUME TypeOK, Frames, Counts, Words, Answering, Receiving, Replying, Tick
  PROVE  Frames' /\ Counts' /\ Words' /\ Answering' /\ Receiving' /\ Replying'
<1>1. /\ ipc' = ipc /\ op' = op /\ iidx' = iidx /\ ibuf' = ibuf
      /\ itx' = itx /\ tpc' = tpc /\ tidx' = tidx /\ tbuf' = tbuf
      /\ mem' = mem /\ done' = done /\ ttx' = ttx
  BY DEF Tick
<1>2. /\ ipc \in {"idle", "getSync", "getData"} /\ itx.phase = "idle"
      /\ tpc \in {"boot", "sync", "recv", "delaySync", "delay", "main", "panic"}
      /\ tpc \in {"recv", "delaySync", "delay"} => ttimer > 0 /\ ttimer' = ttimer - 1
      /\ ipc \in {"getSync", "getData"} => itimer > 0 /\ itimer' = itimer - 1
  BY IdleIs, Typed DEF Tick
<1>3. (Pending' <=> Pending) /\ Packets' = Packets BY <1>1, PendingSame
<1>4. Frames' BY <1>1, <1>2, ReplySame DEF Frames, Idle
<1>5. Counts' BY <1>1, <1>3 DEF Counts
<1>6. Words' BY <1>1, <1>3 DEF Words
<1>7. Answering' BY <1>1, <1>2, Typed DEF Answering
<1>8. Receiving' BY <1>1, <1>2 DEF Receiving, Heard, Sent
<1>9. Replying' BY <1>1, <1>2, <1>3, Typed DEF Replying
<1>10. QED BY <1>4, <1>5, <1>6, <1>7, <1>8, <1>9

LEMMA InitInv == Init => IInv
<1> SUFFICES ASSUME Init PROVE IInv OBVIOUS
<1>1. TypeOK BY InitTypes
<1>2. ipc = "idle" /\ itx = Idle /\ ttx = Idle /\ tpc = "boot" /\ op = 0 /\ done = 0
  BY DEF Init
<1>3. ~Pending /\ Packets = 0 BY <1>2 DEF Pending, Packets
<1>4. Frames BY <1>2, IdleIs DEF Frames
<1>5. Counts BY <1>2, <1>3 DEF Counts
<1>6. Words BY <1>2, <1>3, AsyncAssumption DEF Words, Init
<1>7. Answering /\ Receiving /\ Replying BY <1>2 DEF Answering, Receiving, Replying
<1>8. QED BY <1>1, <1>4, <1>5, <1>6, <1>7 DEF IInv

LEMMA StepInv == IInv /\ [Next]_vars => IInv'
<1> SUFFICES ASSUME TypeOK, Frames, Counts, Words, Answering, Receiving, Replying,
                    [Next]_vars
             PROVE  TypeOK' /\ Frames' /\ Counts' /\ Words' /\ Answering'
                    /\ Receiving' /\ Replying'
  BY DEF IInv
<1>1. TypeOK' BY StepTypes
<1>2. CASE Interrupt
  BY <1>1, <1>2, QuietStep DEF Interrupt
<1>3. CASE ReadRise BY <1>1, <1>3, QuietStep DEF ReadRise
<1>4. CASE ClearRise BY <1>1, <1>4, QuietStep DEF ClearRise
<1>5. CASE ReadFall BY <1>1, <1>5, QuietStep DEF ReadFall
<1>6. CASE SyncReceiver BY <1>1, <1>6, QuietStep DEF SyncReceiver
<1>7. CASE Clear BY <1>1, <1>7, QuietStep DEF Clear
<1>8. CASE UNCHANGED vars
  <2>1. Frames' /\ Counts' /\ Words'
    BY <1>8 DEF vars, initiator, target, Frames, Counts, Words, Pending, Packets,
                Reply, Loaded, AddressOf
  <2>2. Answering' /\ Receiving'
    BY <1>8 DEF vars, initiator, target, Answering, Receiving, Pending, Heard, Sent,
                Current
  <2>3. Replying'
    BY <1>8 DEF vars, initiator, target, Replying, Pending, AddressOf
  <2>4. QED BY <1>1, <2>1, <2>2, <2>3
<1>9. QED
  BY <1>1, <1>2, <1>3, <1>4, <1>5, <1>6, <1>7, <1>8, CallStep, InitiatorExpiresStep,
     StartBitStep, HighBitsStep, LowBitsStep, StopBitStep, Put8ReturnsStep,
     StartupStep, TargetExpiresStep, EndDelaySyncStep, EndDelayStep,
     TargetStartBitStep, TargetDataBitsStep, TargetStopBitStep,
     TargetPut8ReturnsStep, TickStep
  DEF Next, Terminated

-----------------------------------------------------------------------------
(* What follows.                                                           *)

\* The invariant holds of every behaviour: the target's position in its handler
\* and the initiator's in its call belong together (fmpi-async.c:15-100,
\* test-interrupts.c:24-77).
THEOREM InvariantCorrect == Spec => []IInv
<1>1. IInv /\ [Next]_vars => IInv' BY StepInv
<1>2. QED BY InitInv, <1>1, PTL DEF Spec

\* Only a SYNC may be lost: every byte of a packet and of a reply finds its
\* receiver polling, whatever the number of rounds and the timing
\* (fmpi-async.c:15-100).
THEOREM OnlySyncLostCorrect == Spec => []OnlySyncLost
<1>1. ASSUME IInv PROVE OnlySyncLost
  <2>1. itx.phase \in {"hi", "lo", "stop"} /\ ipc = "putPkt" => itx.got = itx.val
    BY <1>1 DEF IInv, Receiving, Heard, Sent
  <2>2. QED BY <1>1, <2>1 DEF IInv, Frames, OnlySyncLost, OnlyRequestsLost
<1>2. QED BY InvariantCorrect, <1>1, PTL

\* A byte that takes the place of a command is one: what the target executes is
\* the packet of the call that is due, however many requests it took for data
\* (test-interrupts.c:38-70).
ExecutesCalls ==
  EndDelay /\ tbuf[1] \in {1, 2} => tbuf = Packet(Ops[done + 1]) /\ done < op

THEOREM ExecutesCallsCorrect == Spec => [][ExecutesCalls]_vars
<1>1. ASSUME IInv PROVE ExecutesCalls
  BY <1>1 DEF IInv, Words, Pending, ExecutesCalls, EndDelay
<1>2. QED BY InvariantCorrect, <1>1, PTL

-----------------------------------------------------------------------------
(* The refinement.                                                         *)

LEMMA InitImplements == Init => Store!Init
BY DEF Init, Store!Init

\* A step of the two Pis is a step of AsyncStore or leaves it as it is.
LEMMA StepImplements ==
  ASSUME IInv, [Next]_vars
  PROVE  [Store!Next]_(Store!vars)
<1> USE DEF IInv
<1>1. CASE Call
  BY <1>1 DEF Call, Store!Next, Store!Call, target
<1>2. CASE EndDelay
  <2>1. CASE Pending
    <3>1. /\ done < op /\ done' = done + 1 /\ done' \in 1..NOps
          /\ Ops[done'].command = "put" =>
               mem' = [mem EXCEPT ![Ops[done'].address] = Ops[done'].word]
          /\ Ops[done'].command = "get" => mem' = mem
      BY <1>2, <2>1, Executes
    <3>2. Ops[done'].command \in {"put", "get"} BY <3>1, OpIs
    <3>3. ipc' = ipc /\ op' = op /\ answer' = answer
      BY <1>2 DEF EndDelay, initiator
    <3>4. Store!Perform BY <3>1, <3>2, <3>3 DEF Store!Perform
    <3>5. QED BY <3>4 DEF Store!Next
  <2>2. CASE ~Pending
    BY <1>2, <2>2 DEF EndDelay, Pending, Store!vars, initiator
  <2>3. QED BY <2>1, <2>2
<1>3. CASE Put8Returns
  <2>1. op' = op /\ answer' = answer /\ mem' = mem /\ done' = done
    BY <1>3 DEF Put8Returns, target, Return
  <2>2. CASE ipc' = "idle"
    <3>1. Ops[op].command = "put" /\ ipc = "putPkt"
      BY <1>3, <2>2 DEF Put8Returns
    <3>2. Store!Return BY <2>1, <2>2, <3>1 DEF Store!Return
    <3>3. QED BY <3>2 DEF Store!Next
  <2>3. CASE ipc' # "idle"
    <3>1. ipc # "idle" BY <1>3 DEF Put8Returns
    <3>2. QED BY <2>1, <2>3, <3>1 DEF Store!vars
  <2>4. QED BY <2>2, <2>3
<1>4. CASE TargetStopBit
  <2>1. tpc \in {"putSync", "putData"}
    BY <1>4, Polling DEF TargetStopBit
  <2>2. CASE tpc = "putSync"
    <3>1. ipc = "getSync" BY <1>4, <2>2, Polling DEF TargetStopBit
    <3>2. /\ op' = op /\ answer' = answer /\ mem' = mem /\ done' = done
          /\ ipc' # "idle"
      BY <1>4, <3>1 DEF TargetStopBit, InitiatorListens, SyncReturns, DataReturns, target
    <3>3. QED BY <3>1, <3>2 DEF Store!vars
  <2>3. CASE tpc = "putData"
    <3>1. /\ ipc = "getData" /\ ipc' \in {"getData", "idle"} /\ op' = op
          /\ mem' = mem /\ done' = done
          /\ op = done /\ Ops[op].command = "get"
          /\ ipc' = "getData" => answer' = answer
          /\ ipc' = "idle" => answer' = mem[Ops[op].address]
      BY <1>4, <2>3, WordTaken
    <3>2. CASE ipc' = "getData" BY <3>1, <3>2 DEF Store!vars
    <3>3. CASE ipc' = "idle"
      <4>1. Store!Return BY <3>1, <3>3 DEF Store!Return
      <4>2. QED BY <4>1 DEF Store!Next
    <3>4. QED BY <3>1, <3>2, <3>3
  <2>4. QED BY <2>1, <2>2, <2>3
<1>5. CASE InitiatorExpires
  <2>1. CASE SyncReturns(TimedOut)
    <3>1. ipc # "idle" /\ ipc' # "idle" /\ op' = op /\ answer' = answer
      BY <2>1 DEF SyncReturns
    <3>2. QED BY <1>5, <3>1 DEF InitiatorExpires, target, Store!vars
  <2>2. CASE DataReturns(TimedOut)
    <3>1. ipc = "getData" /\ itimer = 0 BY <1>5, <2>2 DEF InitiatorExpires, DataReturns
    <3>2. FALSE
      <4>1. CASE tpc = "delay" BY <3>1, <4>1, Typed DEF Replying
      <4>2. CASE tpc = "putData" BY <3>1, <4>2, Typed DEF Replying
      <4>3. QED BY <3>1, <4>1, <4>2 DEF Replying
    <3>3. QED BY <3>2
  <2>3. QED BY <1>5, <2>1, <2>2 DEF InitiatorExpires
<1>6. CASE Startup
  <2>1. op' = op /\ answer' = answer /\ mem' = mem /\ done' = done
        /\ (ipc = "idle" <=> ipc' = "idle")
    BY <1>6 DEF Startup, initiator, SyncReturns
  <2>2. QED BY <2>1 DEF Store!vars
<1>7. ASSUME ipc' = ipc, op' = op, answer' = answer, mem' = mem, done' = done
      PROVE  UNCHANGED Store!vars
  BY <1>7 DEF Store!vars
<1>8. CASE StartBit BY <1>7, <1>8 DEF StartBit, initiator, target
<1>9. CASE HighBits BY <1>7, <1>9 DEF HighBits, initiator, target
<1>10. CASE LowBits BY <1>7, <1>10 DEF LowBits, initiator, target
<1>11. CASE StopBit BY <1>7, <1>11 DEF StopBit, initiator, target
<1>12. CASE Interrupt BY <1>7, <1>12 DEF Interrupt, initiator
<1>13. CASE ReadRise BY <1>7, <1>13 DEF ReadRise, initiator
<1>14. CASE ClearRise BY <1>7, <1>14 DEF ClearRise, initiator
<1>15. CASE ReadFall BY <1>7, <1>15 DEF ReadFall, initiator
<1>16. CASE SyncReceiver BY <1>7, <1>16 DEF SyncReceiver, initiator
<1>17. CASE TargetExpires BY <1>7, <1>17 DEF TargetExpires, initiator
<1>18. CASE EndDelaySync BY <1>7, <1>18 DEF EndDelaySync, initiator
<1>19. CASE Clear BY <1>7, <1>19 DEF Clear, initiator
<1>20. CASE TargetStartBit BY <1>7, <1>20 DEF TargetStartBit, initiator, target
<1>21. CASE TargetDataBits BY <1>7, <1>21 DEF TargetDataBits, initiator, target
<1>22. CASE TargetPut8Returns BY <1>7, <1>22 DEF TargetPut8Returns, initiator
<1>23. CASE Tick BY <1>7, <1>23 DEF Tick
<1>24. CASE UNCHANGED vars BY <1>7, <1>24 DEF vars, initiator, target
<1>25. QED
  BY <1>1, <1>2, <1>3, <1>4, <1>5, <1>6, <1>8, <1>9, <1>10, <1>11, <1>12, <1>13,
     <1>14, <1>15, <1>16, <1>17, <1>18, <1>19, <1>20, <1>21, <1>22, <1>23, <1>24
  DEF Next, Terminated

\* PUT and GET implement AsyncStore: every call takes effect once, in order,
\* with the words and addresses given, and GET returns the word that is there
\* (fmpi-async.c:15-100, test-interrupts.c:24-77).
THEOREM ImplementsCorrect == Spec => Implements
<1>1. IInv /\ [Next]_vars => [Store!Next]_(Store!vars) BY StepImplements
<1>2. QED BY InvariantCorrect, InitImplements, <1>1, PTL DEF Spec, Implements, Store!Spec

-----------------------------------------------------------------------------
(* The panic.                                                              *)

\* A handler that saw the line low finds event and level still there; the line
\* of an initiator out of its calls is high.
Explained ==
  /\ ipc = "idle" => itx.phase = "idle"
  /\ tpc = "rise" => event
  /\ tpc = "fall" /\ ~handled => event /\ Low
  /\ tpc # "panic"

LEMMA InitExplained == Init => Explained
BY IdleIs DEF Init, Explained

LEMMA StepExplained ==
  ASSUME Quick, TypeOK, Frames, Explained, [Next]_vars
  PROVE  Explained'
<1> USE DEF Explained
<1>1. CASE Call BY <1>1, OnLineIs DEF Call, target, Low, Latch
<1>2. CASE StartBit
  <2>1. itx'.phase = "start" BY <1>2, OnLineIs DEF StartBit
  <2>2. /\ ipc' = ipc /\ ipc # "idle" /\ tpc' = tpc /\ handled' = handled
        /\ event' = event \/ tpc = "boot" \/ event'
    BY <1>2 DEF StartBit, initiator, target, Latch
  <2>3. QED BY <2>1, <2>2 DEF Low
<1>3. CASE HighBits \/ LowBits
  BY <1>3 DEF HighBits, LowBits, initiator, target, Latch, Settled, Low, Frames, Idle, OnLine
<1>4. CASE StopBit
  <2>1. /\ tpc \notin {"rise", "riseClear", "fall", "toSync"} /\ ipc' = ipc /\ ipc # "idle"
    BY <1>4, IdleIs, Typed DEF StopBit, Settled, initiator, Frames
  <2>2. tpc' = tpc \/ tpc' \in {"delaySync", "recv", "delay"}
    BY <1>4 DEF StopBit, TargetGets, target
  <2>3. QED BY <2>1, <2>2
<1>5. CASE Put8Returns
  BY <1>5, IdleIs DEF Put8Returns, target, Low
<1>6. CASE Interrupt BY <1>6 DEF Interrupt, initiator
<1>7. CASE ReadRise BY <1>7 DEF ReadRise, initiator, Low
<1>8. CASE ClearRise BY <1>8 DEF ClearRise, initiator
<1>9. CASE ReadFall BY <1>9 DEF ReadFall, initiator
<1>10. CASE SyncReceiver BY <1>10 DEF SyncReceiver, initiator
<1>11. CASE EndDelaySync \/ EndDelay \/ Clear \/ Startup
  BY <1>11 DEF EndDelaySync, EndDelay, Clear, Startup, initiator, SyncReturns
<1>12. CASE TargetExpires
  BY <1>12 DEF TargetExpires, TargetGets, initiator, Listening
<1>13. CASE TargetStartBit \/ TargetDataBits
  BY <1>13 DEF TargetStartBit, TargetDataBits, initiator, target, Low
<1>14. CASE TargetPut8Returns
  BY <1>14 DEF TargetPut8Returns, initiator
<1>15. CASE InitiatorExpires
  BY <1>15, IdleIs
  DEF InitiatorExpires, SyncReturns, DataReturns, Return, target, Low, Frames
<1>16. CASE TargetStopBit
  BY <1>16, IdleIs, Typed
  DEF TargetStopBit, InitiatorListens, SyncReturns, DataReturns, Return, initiator,
      target, Low, Frames
<1>17. CASE Tick BY <1>17 DEF Tick, Low
<1>18. CASE UNCHANGED vars BY <1>18 DEF vars, initiator, target, Low
<1>19. QED
  BY <1>1, <1>2, <1>3, <1>4, <1>5, <1>6, <1>7, <1>8, <1>9, <1>10, <1>11, <1>12,
     <1>13, <1>14, <1>15, <1>16, <1>17, <1>18
  DEF Next, Terminated

\* A target that reads the pin while the level that raised its interrupt lasts
\* never takes an interrupt for one it did not ask for
\* (test-interrupts.c:19 "should have no other interrupts?").
THEOREM NoPanicCorrect == ASSUME Quick PROVE Spec => []NoPanic
<1>1. IInv /\ Explained /\ [Next]_vars => Explained' BY StepExplained DEF IInv
<1>2. Explained => NoPanic BY DEF Explained, NoPanic
<1>3. QED BY InvariantCorrect, InitExplained, <1>1, <1>2, PTL DEF Spec
=============================================================================
