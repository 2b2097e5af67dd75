-------------------------------- MODULE Fmpi --------------------------------
(***************************************************************************)
(* The synchronous collectives of libpi/src/fmpi.c, run by Size Raspberry  *)
(* Pis wired as a star around Root.  Every Pi runs the same program Prog,  *)
(* a list of collectives; each collective first runs sync_root_last and    *)
(* then moves its data one software-UART byte at a time.                   *)
(*                                                                         *)
(* A link has no buffer (libpi/src/sw-uart.c): a byte reaches a Pi only if *)
(* that Pi is already polling in sw_uart_get8 while the start bit is on    *)
(* the line.  A byte is lost when nobody polls and misread when the        *)
(* polling starts in the middle of it.                                     *)
(*                                                                         *)
(* Time: timer[n] holds the ticks left of a delay_ms or of a timeout, Tick *)
(* lets one tick pass for everybody.  A frame takes 21.7 us and a delay    *)
(* 70 ms, so no tick passes while a Pi is in put8 or a frame is on a line. *)
(* Out of the model: get8 is polled again, after a byte, before the stop   *)
(* bit of that byte ends (the loops of recv and wait_signal are short).    *)
(***************************************************************************)
EXTENDS Integers, FiniteSetsExt

CONSTANTS
    Size,        \* number of Pis, byte 0x8001 of the loaded program
    Root,        \* the argument root of FMPI_Init
    NCalls,      \* number of collectives the program calls
    Prog,        \* [1..NCalls -> Collective]
    Count,       \* bytes in a block: count * data_size
    Data,        \* Data[c][n][b][k]: byte k of block b of n's buffer in call c
    Delay,       \* DELAY_MS, in ticks
    Timeout,     \* TIMEOUT_MS, in ticks
    GetTimeout,  \* the 500 s of sw_uart_get8, in ticks
    MaxCompute,  \* bound: longest computation between two collectives
    Garbage,     \* what get8 can return when it starts inside a frame
    Prompt       \* TRUE: get8 is reached within one bit after put8 returns

MaxRpis == 4
SyncSignal == 7
SendSignal == 5
Byte == 0..255
TimedOut == -1      \* the value get8 returns on a timeout
NoByte == -2        \* no value

Collective == {"bcast", "scatter", "gather", "barrier"}
Node == 0..(Size - 1)
Worker == Node \ {Root}
Offset == 0..(Count - 1)

ASSUME SizeAssumption == Size \in 2..MaxRpis /\ Root \in Node
ASSUME ProgAssumption ==
    /\ NCalls \in Nat /\ Prog \in [1..NCalls -> Collective]
    /\ Count \in Nat \ {0}
    /\ Data \in [1..NCalls -> [Node -> [Node -> [Offset -> Byte]]]]
ASSUME TimeAssumption ==
    /\ Delay \in Nat \ {0} /\ Timeout \in Nat /\ Delay < Timeout
    /\ GetTimeout \in Nat \ {0} /\ MaxCompute \in Nat
ASSUME LineAssumption ==
    /\ Garbage \subseteq Byte
    /\ Prompt \in BOOLEAN

VARIABLES
    pc,     \* [Node -> PcOf] where each Pi is
    call,   \* [Node -> 1..NCalls+1] the collective it runs or runs next
    peer,   \* the variable i of the root's loops
    idx,    \* [Node -> Offset] the variable i of send and recv
    timer,  \* [Node -> Nat] ticks left in a delay, a timeout, a computation
    buf,    \* [Node -> [Node -> [Offset -> Byte]]] receive buffers, by block
    wire    \* [Node -> Frame] the tx line of each Pi

vars == <<pc, call, peer, idx, timer, buf, wire>>

Putting == {"putSync", "putSend", "put"}
Getting == {"waitSync", "getSync", "waitSend", "get"}
RootPc == {"run", "putSync", "getSync", "delay", "putSend", "put", "get", "ret"}
WorkerPc == {"run", "waitSync", "delaySync", "putSync", "waitSend", "delay",
             "put", "get", "ret"}
PcOf(n) == IF n = Root THEN RootPc ELSE WorkerPc

\* What a line carries: the frame's phase, the byte val its sender writes and
\* the byte got that the receiver's get8 is going to return.
OnLine(p, v, g) == [phase |-> p, val |-> v, got |-> g]
Idle == OnLine("idle", NoByte, NoByte)
Frame == [phase : {"idle", "start", "bits", "stop"},
          val : Byte \cup {NoByte}, got : Byte \cup {NoByte}]

Empty == [b \in Node |-> [k \in Offset |-> NoByte]]

-----------------------------------------------------------------------------
(* What a state of the program means.                                      *)

Op(n) == Prog[call[n]]
Finished(n) == call[n] > NCalls

\* The two ends of a transfer: the root talks to u[peer], a worker to u[_root].
Partner(n) == IF n = Root THEN peer ELSE Root

\* m polls, in get8, the line n sends on.
Listens(m, n) == pc[m] \in Getting /\ Partner(m) = n /\ Partner(n) = m

\* Variant for mutation: Scatter without + i * sendcount * data_size.
DataByteOfFirstBlock(n) == Data[call[n]][n][0][idx[n]]

\* The byte send puts on the line: of the block its peer is due.
DataByte(n) == LET b == IF n = Root /\ Op(n) = "scatter" THEN peer ELSE 0
               IN  Data[call[n]][n][b][idx[n]]

\* The byte put8 writes.
Outgoing(n) == CASE pc[n] = "putSync" -> SyncSignal
                 [] pc[n] = "putSend" -> SendSignal
                 [] OTHER -> DataByte(n)

\* What a Pi does when sync_root_last is over (root: with its first peer).
BodyOf(n, op) ==
    CASE op = "bcast"   -> IF n = Root THEN "put" ELSE "get"
      [] op = "scatter" -> IF n = Root THEN "delay" ELSE "get"
      [] op = "gather"  -> IF n = Root THEN "putSend" ELSE "waitSend"
      [] OTHER -> "ret"
Body(n) == BodyOf(n, Op(n))

\* Variants for mutation: no delay_ms, a window no longer than the delay, and
\* a recv that waits no longer than wait_signal_timeout.
TicksOf(p, delay, window, get) ==
    CASE p \in {"delaySync", "delay"} -> delay
      [] p = "getSync" -> window
      [] p = "get" -> get
      [] p = "run" -> MaxCompute
      [] OTHER -> 0
TicksNoDelay(p) == TicksOf(p, 0, Timeout, GetTimeout)
TicksShortWindow(p) == TicksOf(p, Delay, Delay, GetTimeout)
TicksShortGet(p) == TicksOf(p, Delay, Timeout, Timeout)

Ticks(p) ==
    CASE p \in {"delaySync", "delay"} -> Delay
      [] p = "getSync" -> Timeout
      [] p = "get" -> GetTimeout
      [] p = "run" -> MaxCompute
      [] OTHER -> 0

Goto(n, p) == /\ pc' = [pc EXCEPT ![n] = p]
              /\ timer' = [timer EXCEPT ![n] = Ticks(p)]

\* ((char *)buffer)[i] = val
Char(v) == IF v = TimedOut THEN 255 ELSE v

FirstWorker == Min(Worker)
Later(i) == {w \in Worker : w > i}

-----------------------------------------------------------------------------
(* Collectives: entering and leaving, and the loops of the root.           *)

Init ==
    /\ pc = [n \in Node |-> "run"]
    /\ call = [n \in Node |-> 1]
    /\ peer = FirstWorker
    /\ idx = [n \in Node |-> 0]
    /\ timer = [n \in Node |-> MaxCompute]
    /\ buf = [n \in Node |-> Empty]
    /\ wire = [n \in Node |-> Idle]

\* The program calls its next collective, which calls sync_root_last.
Enter(n) ==
    /\ pc[n] = "run" /\ ~Finished(n)
    /\ Goto(n, IF n = Root THEN "putSync" ELSE "waitSync")
    /\ peer' = IF n = Root THEN FirstWorker ELSE peer
    /\ buf' = [buf EXCEPT ![n] = Empty]
    /\ UNCHANGED <<call, idx, wire>>

\* The end of the collective: the root's memcpy(recvbuff, sendbuff, ...).
Return(n) ==
    /\ pc[n] = "ret"
    /\ buf' = IF n = Root /\ Op(n) \in {"scatter", "gather"}
              THEN [buf EXCEPT ![n][0] = Data[call[n]][n][0]]
              ELSE buf
    /\ call' = [call EXCEPT ![n] = @ + 1]
    /\ Goto(n, "run")
    /\ UNCHANGED <<peer, idx, wire>>

\* for (i ...) of sync_root_last: worker peer has answered.
NextInSync ==
    /\ idx' = [idx EXCEPT ![Root] = 0]
    /\ IF Later(peer) # {}
       THEN peer' = Min(Later(peer)) /\ Goto(Root, "putSync")
       ELSE peer' = FirstWorker /\ Goto(Root, Body(Root))

\* for (i ...) of the collective: the transfer with worker peer is over.
NextInBody ==
    /\ idx' = [idx EXCEPT ![Root] = 0]
    /\ IF Later(peer) # {}
       THEN peer' = Min(Later(peer)) /\ Goto(Root, Body(Root))
       ELSE peer' = peer /\ Goto(Root, "ret")

\* delay_ms is over: sync_root_last and Gather (worker), Scatter (root).
EndDelay(n) ==
    /\ pc[n] \in {"delaySync", "delay"} /\ timer[n] = 0
    /\ Goto(n, IF pc[n] = "delaySync" THEN "putSync" ELSE "put")
    /\ UNCHANGED <<call, peer, idx, buf, wire>>

-----------------------------------------------------------------------------
(* sw_uart_get8 returns v to the caller.                                   *)

WaitSignalReturns(m, v) ==
    /\ pc[m] \in {"waitSync", "waitSend"}
    /\ CASE pc[m] = "waitSync" /\ v = SyncSignal -> Goto(m, "delaySync")
         [] pc[m] = "waitSend" /\ v = SendSignal -> Goto(m, "delay")
         [] OTHER -> UNCHANGED <<pc, timer>>
    /\ idx' = [idx EXCEPT ![m] = 0]
    /\ UNCHANGED <<peer, buf>>

\* Variants for mutation: the loop ends on any answer; the loop polls again
\* without a new request.
WaitSignalTimeoutTakesAll(m, v) ==
    pc[m] = "getSync" /\ NextInSync /\ UNCHANGED buf
WaitSignalTimeoutPolls(m, v) ==
    /\ pc[m] = "getSync"
    /\ IF v = SyncSignal
       THEN NextInSync
       ELSE Goto(m, "getSync") /\ UNCHANGED <<peer, idx>>
    /\ UNCHANGED buf

WaitSignalTimeoutReturns(m, v) ==
    /\ pc[m] = "getSync"
    /\ IF v = SyncSignal
       THEN NextInSync
       ELSE Goto(m, "putSync") /\ UNCHANGED <<peer, idx>>
    /\ UNCHANGED buf

RecvReturns(m, v) ==
    /\ pc[m] = "get"
    /\ buf' = [buf EXCEPT ![m][IF m = Root THEN peer ELSE 0][idx[m]] = Char(v)]
    /\ IF idx[m] + 1 < Count
       THEN idx' = [idx EXCEPT ![m] = @ + 1] /\ Goto(m, "get") /\ peer' = peer
       ELSE IF m = Root THEN NextInBody
            ELSE idx' = [idx EXCEPT ![m] = 0] /\ Goto(m, "ret") /\ peer' = peer

Get8Returns(m, v) ==
    \/ WaitSignalReturns(m, v)
    \/ WaitSignalTimeoutReturns(m, v)
    \/ RecvReturns(m, v)

\* wait_until_usec gives up.  In wait_signal that only starts get8 again,
\* so waitSync and waitSend carry no timer.
Expire(m) ==
    /\ pc[m] \in {"getSync", "get"} /\ timer[m] = 0
    /\ LET f == wire[Partner(m)] IN
          ~(Partner(Partner(m)) = m
            /\ (f.phase = "start" \/ (f.phase = "bits" /\ f.got # NoByte)))
    /\ Get8Returns(m, TimedOut)
    /\ UNCHANGED <<call, wire>>

-----------------------------------------------------------------------------
(* sw_uart_put8: start bit, eight data bits, stop bit.                     *)

StartBit(n) ==
    /\ pc[n] \in Putting /\ wire[n] = Idle
    /\ wire' = [wire EXCEPT ![n] = OnLine("start", Outgoing(n), NoByte)]
    /\ UNCHANGED <<pc, call, peer, idx, timer, buf>>

\* A receiver that polls during the start bit samples this byte.
DataBits(n) ==
    /\ wire[n].phase = "start"
    /\ Prompt => wire[Partner(n)].phase # "stop"
    /\ wire' = [wire EXCEPT ![n] =
                   OnLine("bits", @.val,
                          IF Listens(Partner(n), n) THEN @.val ELSE NoByte)]
    /\ UNCHANGED <<pc, call, peer, idx, timer, buf>>

\* A receiver that starts polling later takes a data bit for the start bit.
Misread(n) ==
    /\ wire[n].phase = "bits" /\ wire[n].got = NoByte
    /\ Listens(Partner(n), n)
    /\ \E v \in Garbage :
          wire' = [wire EXCEPT ![n] = OnLine("bits", @.val, v)]
    /\ UNCHANGED <<pc, call, peer, idx, timer, buf>>

\* After nine bit times get8 returns while put8 still holds the stop bit.
\* Nobody's stop bit outlasts the data bits of another frame.
StopBit(n) ==
    /\ wire[n].phase = "bits"
    /\ \A m \in Node : wire[m].phase # "stop"
    /\ wire' = [wire EXCEPT ![n] = OnLine("stop", @.val, @.got)]
    /\ IF wire[n].got = NoByte
       THEN UNCHANGED <<pc, peer, idx, timer, buf>>
       ELSE Get8Returns(Partner(n), wire[n].got)
    /\ UNCHANGED call

\* put8 returns to send_signal or send.
Put8Returns(n) ==
    /\ wire[n].phase = "stop"
    /\ wire' = [wire EXCEPT ![n] = Idle]
    /\ \/ /\ pc[n] = "putSync"
          /\ Goto(n, IF n = Root THEN "getSync" ELSE Body(n))
          /\ idx' = [idx EXCEPT ![n] = 0]
          /\ UNCHANGED peer
       \/ /\ pc[n] = "putSend"
          /\ Goto(n, "get")
          /\ UNCHANGED <<peer, idx>>
       \/ /\ pc[n] = "put" /\ idx[n] + 1 < Count
          /\ idx' = [idx EXCEPT ![n] = @ + 1]
          /\ UNCHANGED <<pc, peer, timer>>
       \/ /\ pc[n] = "put" /\ idx[n] + 1 = Count
          /\ IF n = Root THEN NextInBody
             ELSE idx' = [idx EXCEPT ![n] = 0] /\ Goto(n, "ret") /\ peer' = peer
    /\ UNCHANGED <<call, buf>>

-----------------------------------------------------------------------------

\* One tick passes: nobody has anything left to do now.
Tick ==
    /\ \A n \in Node :
          /\ wire[n] = Idle /\ pc[n] \notin Putting \cup {"ret"}
          /\ pc[n] \in {"delaySync", "delay", "getSync", "get"} => timer[n] > 0
          /\ pc[n] = "run" => timer[n] > 0 \/ Finished(n)
    /\ \E n \in Node : timer[n] > 0
    /\ timer' = [n \in Node |-> IF timer[n] > 0 THEN timer[n] - 1 ELSE 0]
    /\ UNCHANGED <<pc, call, peer, idx, buf, wire>>

\* Everybody has called every collective.
Terminated ==
    /\ \A n \in Node : pc[n] = "run" /\ Finished(n)
    /\ UNCHANGED vars

Step(n) ==
    \/ Enter(n) \/ Return(n) \/ EndDelay(n) \/ Expire(n)
    \/ StartBit(n) \/ DataBits(n) \/ Misread(n) \/ StopBit(n) \/ Put8Returns(n)

Next == Tick \/ (\E n \in Node : Step(n)) \/ Terminated

\* The Pis run bare metal and never stop; time passes.
Spec == Init /\ [][Next]_vars /\ WF_vars(Next)

-----------------------------------------------------------------------------
(* Properties.                                                             *)

\* Every variable keeps its type.
TypeOK ==
    /\ pc \in [Node -> RootPc \cup WorkerPc]
    /\ \A n \in Node : pc[n] \in PcOf(n)
    /\ call \in [Node -> 1..(NCalls + 1)]
    /\ \A n \in Node : pc[n] # "run" => call[n] <= NCalls
    /\ peer \in Worker
    /\ idx \in [Node -> Offset]
    /\ timer \in [Node -> Nat]
    /\ buf \in [Node -> [Node -> [Offset -> Byte \cup {NoByte}]]]
    /\ wire \in [Node -> Frame]

\* What MPI promises for n's receive buffer after call c.
Result(n, c) ==
    [b \in Node |-> [k \in Offset |->
        CASE Prog[c] = "bcast" /\ n # Root /\ b = 0 -> Data[c][Root][0][k]
          [] Prog[c] = "scatter" /\ b = 0 -> Data[c][Root][n][k]
          [] Prog[c] = "gather" /\ n = Root -> Data[c][b][0][k]
          [] OTHER -> NoByte]]

\* Whoever has left a collective holds exactly its result: no byte of it was
\* lost, shifted, taken from another Pi or call, and no protocol byte (SYNC,
\* SEND) was taken for data.
Delivered ==
    \A n \in Node : pc[n] = "run" /\ call[n] > 1 =>
                      buf[n] = Result(n, call[n] - 1)

\* Only a SYNC request of the root may find nobody polling: every data byte,
\* SEND signal and SYNC answer is heard, and heard unchanged, because the
\* protocol starts it only when its receiver already polls.
OnlyRequestsLost ==
    \A n \in Node :
        /\ wire[n].phase \in {"bits", "stop"}
        /\ ~(n = Root /\ pc[n] = "putSync")
        => wire[n].got = wire[n].val

\* A worker that has taken a SYNC request answers inside the window in which
\* the root polls for it (DELAY_MS after the request against TIMEOUT_MS): the
\* root does not give up, and send a SYNC the worker would store as data.
AnswerInWindow ==
    \A w \in Worker : pc[w] = "delaySync" =>
        /\ peer = w
        /\ \/ pc[Root] = "getSync" /\ timer[w] < timer[Root]
           \/ pc[Root] = "putSync" /\ wire[Root].phase = "stop"

\* No blocking get8 of recv gives up, so none stores its -1 as a data byte.
NeverBlowsUp ==
    \A n \in Node : pc[n] = "get" => timer[n] > 0

Entered(n, c) == call[n] > c \/ (call[n] = c /\ pc[n] # "run")

\* A barrier: nobody has left call c before everybody has entered it.
BarrierHolds ==
    \A n, m \in Node : \A c \in 1..NCalls :
        Prog[c] = "barrier" /\ call[n] > c => Entered(m, c)

\* The collectives implement what they promise.
Promise == INSTANCE Collective WITH
    NoResult <- Empty,
    inside <- [n \in Node |-> pc[n] # "run"],
    result <- [n \in Node |-> IF pc[n] = "run" THEN buf[n] ELSE Empty]
Implements == Promise!Spec

\* Every Pi gets through the whole program, however many requests are lost.
Termination == <>(\A n \in Node : Finished(n))

-----------------------------------------------------------------------------
(* Why: the invariant that Delivered rests on.  It places every worker     *)
(* relative to the root's position in the root's current call.             *)

\* The root copies its own part to block 0, which is its block only if it is Pi 0.
Placed == Root = 0 \/ \A c \in 1..NCalls : Prog[c] \notin {"scatter", "gather"}

InSync == pc[Root] \in {"putSync", "getSync"}
InBody == pc[Root] \in {"delay", "putSend", "put", "get"}

\* w holds the result of its call and has only to return from it.
Leaving(w) ==
    \/ pc[w] = "ret" /\ wire[w] = Idle
    \/ wire[w].phase = "stop" /\ pc[w] = "put" /\ idx[w] + 1 = Count
    \/ wire[w].phase = "stop" /\ pc[w] = "putSync" /\ Op(w) = "barrier"

\* w is done with all calls before c and has not been asked for call c.
Waiting(w, c) ==
    \/ call[w] = c /\ pc[w] \in {"run", "waitSync"} /\ wire[w] = Idle
    \/ call[w] = c - 1 /\ Leaving(w)

\* w polls for its first byte of call c.
Ready(w, c) ==
    call[w] = c /\ pc[w] = Body(w) /\ wire[w] = Idle /\ idx[w] = 0

\* w has answered SYNC in call c, and its transfer has not begun.
Synced(w, c) ==
    IF Prog[c] = "barrier" THEN Waiting(w, c + 1)
    ELSE \/ call[w] = c /\ pc[w] = "putSync" /\ wire[w].phase = "stop"
         \/ Ready(w, c)

\* The root sends SYNC to w.
Requested(w, c) ==
    \/ /\ Waiting(w, c)
       /\ wire[Root].phase = "bits" /\ wire[Root].got # NoByte =>
             call[w] = c /\ pc[w] = "waitSync"
    \/ /\ call[w] = c /\ pc[w] = "delaySync" /\ wire[w] = Idle
       /\ timer[w] = Delay /\ wire[Root].phase = "stop"

\* The byte on w's line is going to be returned by the root's get8.
Heard(w) == wire[w].phase = "bits" => wire[w].got = wire[w].val

\* The root polls for w's SYNC.
Answering(w, c) ==
    \/ Waiting(w, c)
    \/ /\ call[w] = c /\ pc[w] = "delaySync" /\ wire[w] = Idle
       /\ timer[w] < timer[Root]
    \/ /\ call[w] = c /\ pc[w] = "putSync" /\ wire[w].phase # "stop" /\ Heard(w)
       /\ timer[Root] > 0

\* w polls for byte k of its block.
AtByte(w, c, k) == call[w] = c /\ pc[w] = "get" /\ wire[w] = Idle /\ idx[w] = k

\* The root sends byte idx[Root] of w's data (Bcast, Scatter).
Sending(w, c) ==
    LET p == wire[Root].phase
        k == idx[Root] IN
    /\ p \in {"idle", "start"} => AtByte(w, c, k) \/ (k = 0 /\ Synced(w, c))
    /\ p = "bits" => AtByte(w, c, k) /\ Heard(Root)
    /\ p = "stop" => IF k + 1 < Count THEN AtByte(w, c, k + 1) ELSE Waiting(w, c + 1)

\* The root sends SEND to w (Gather).
Calling(w, c) ==
    LET p == wire[Root].phase IN
    /\ p \in {"idle", "start"} => Synced(w, c)
    /\ p = "bits" => Ready(w, c) /\ Heard(Root)
    /\ p = "stop" => /\ call[w] = c /\ pc[w] = "delay" /\ wire[w] = Idle
                     /\ idx[w] = 0 /\ timer[w] = Delay

\* The root receives byte idx[Root] of w's data (Gather).
Collecting(w, c) ==
    /\ call[w] = c
    /\ \/ pc[w] = "delay" /\ wire[w] = Idle /\ idx[w] = 0 /\ idx[Root] = 0
       \/ pc[w] = "put" /\ wire[w].phase # "stop" /\ Heard(w) /\ idx[w] = idx[Root]
       \/ pc[w] = "put" /\ wire[w].phase = "stop" /\ idx[w] + 1 = idx[Root]

Meets(w) ==
    LET c == call[Root] IN
    /\ pc[Root] = "run" => Waiting(w, c)
    /\ InSync /\ w > peer => Waiting(w, c)
    /\ InSync /\ w < peer => Synced(w, c)
    /\ InBody /\ w > peer => Synced(w, c)
    /\ InBody /\ w < peer => Waiting(w, c + 1)
    /\ pc[Root] = "ret" => Waiting(w, c + 1)
    /\ w = peer =>
          /\ pc[Root] = "putSync" => Requested(w, c)
          /\ pc[Root] = "getSync" => Answering(w, c)
          /\ pc[Root] = "delay"   => Synced(w, c)
          /\ pc[Root] = "put"     => Sending(w, c)
          /\ pc[Root] = "putSend" => Calling(w, c)
          /\ pc[Root] = "get"     => Collecting(w, c)

\* A frame on the line is the one its sender is busy with.
WireInv ==
    \A n \in Node :
        /\ wire[n].phase = "idle" => wire[n] = Idle
        /\ wire[n].phase # "idle" => pc[n] \in Putting /\ wire[n].val = Outgoing(n)

\* The root is in a loop of the collective it runs.
RootInv ==
    /\ pc[Root] = "delay" => Op(Root) = "scatter" /\ idx[Root] = 0
    /\ pc[Root] = "put" => Op(Root) \in {"bcast", "scatter"}
    /\ pc[Root] \in {"putSend", "get"} => Op(Root) = "gather"
    /\ pc[Root] = "putSend" => idx[Root] = 0

\* A worker moves the data of the collective it runs.
WorkerInv ==
    \A w \in Worker :
        /\ pc[w] \in {"waitSend", "delay", "put"} => Op(w) = "gather"
        /\ pc[w] = "get" => Op(w) \in {"bcast", "scatter"}

\* put8 of two Pis do not end together.  With three Pis or more, the worker the
\* root turns to first has been back from its answer for long when the root is
\* through with the others; with two, only Prompt says so.
TurnInv ==
    /\ \A n, m \in Node :
          wire[n].phase = "stop" /\ wire[m].phase = "stop" => n = m
    /\ Size > 2 /\ InBody => ~(pc[peer] = "putSync" /\ wire[peer].phase = "stop")

\* The cells of the receive buffer of n's current call that are already filled.
Filled(n, b, k) ==
    IF n = Root
    THEN /\ Op(n) = "gather" /\ b \in Worker
         /\ \/ pc[n] = "ret"
            \/ InBody /\ b < peer
            \/ pc[n] = "get" /\ b = peer /\ k < idx[n]
    ELSE pc[n] = "ret" \/ (pc[n] = "get" /\ b = 0 /\ k < idx[n])

BufInv ==
    \A n \in Node : pc[n] # "run" =>
        \A b \in Node, k \in Offset :
            buf[n][b][k] = IF Filled(n, b, k) THEN Result(n, call[n])[b][k] ELSE NoByte

IInv == /\ TypeOK /\ WireInv /\ RootInv /\ TurnInv
        /\ \A w \in Worker : Meets(w)
        /\ WorkerInv /\ BufInv

-----------------------------------------------------------------------------
(* Why no recv gives up: what its sender can still spend before it sends.  *)

\* The longest turn of sync_root_last: the worker computes, a request it missed
\* is repeated after TIMEOUT_MS, and it answers after DELAY_MS.
Turn == MaxCompute + Timeout + Delay
Rank(i) == IF i < Root THEN i + 1 ELSE i  \* the root turns to i as the Rank(i)-th
TurnsAfter(i) == (Size - 1 - Rank(i)) * Turn
Delays(k) == k * Delay

\* The 500 s of sw_uart_get8 outlast a round of turns and transfers.
Patient == GetTimeout > (Size - 1) * (Turn + Delay)

\* The request on the root's line is not going to be taken.
Missed == LET f == wire[Root] IN
    f.phase = "stop" \/ (f.phase = "bits" /\ f.got # f.val)

\* Ticks until the root polls again, or the worker has its request.
Retry == IF pc[Root] = "getSync" THEN timer[Root] ELSE IF Missed THEN Timeout ELSE 0

\* Ticks that worker peer can still spend before it answers SYNC.
TurnLeft ==
    CASE call[peer] < call[Root] -> Turn
      [] call[peer] = call[Root] /\ pc[peer] = "run" -> timer[peer] + Timeout + Delay
      [] call[peer] = call[Root] /\ pc[peer] = "waitSync" -> Retry + Delay
      [] call[peer] = call[Root] /\ pc[peer] = "delaySync" -> timer[peer]
      [] OTHER -> 0

\* Ticks left of n's delay_ms.
DelayLeft(n) == IF pc[n] = "delay" THEN timer[n] ELSE 0

\* Whoever is in recv has more ticks left than its sender needs.
Patience ==
    /\ \A n \in Node : timer[n] <= Ticks(pc[n])
    /\ \A w \in Worker : pc[w] = "get" =>
          /\ InSync => timer[w] > TurnLeft + TurnsAfter(peer) + Delays(Rank(w))
          /\ InBody => timer[w] > DelayLeft(Root) + Delays(Rank(w) - Rank(peer))
    /\ pc[Root] = "get" => timer[Root] > DelayLeft(peer)

InductiveInv == IInv /\ Patience

\* With these places and ticks the results arrive, only requests get lost, and no
\* recv gives up.
Safe == InductiveInv /\ OnlyRequestsLost /\ NeverBlowsUp /\ (Placed => Delivered)
=============================================================================
