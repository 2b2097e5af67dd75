------------------------------- MODULE SwUart -------------------------------
(***************************************************************************)
(* The bit-banged UART of libpi/src/sw-uart.c: one Pi sends the bytes of   *)
(* Msg with sw_uart_put8 while another one calls sw_uart_get8 in a loop    *)
(* (send and recv of fmpi.c).  Each measures time with its own cycle       *)
(* counter from the moment it read it; get8 samples a bit one bit time     *)
(* after the start bit was seen, so at the edge of the bit and not in its  *)
(* middle: whether it gets the right one depends on the latencies of both  *)
(* sides, given here as intervals of cycles.                               *)
(*                                                                         *)
(* Abstracted: a byte is a function from bit number to bit (the shifts and *)
(* masks of the code), the cycle counters do not wrap within a byte, and   *)
(* get8's timeout is in Fmpi.                                              *)
(***************************************************************************)
EXTENDS Integers

CONSTANTS
    N,              \* uart->cycle_per_bit
    M, Msg,         \* the bytes sent: Msg \in [1..M -> Bits]
    WMin, WMax,     \* put8: from the due time of an edge to the pin's change
    PMax,           \* get8: from a low line to the poll that reads it, at most
    CMin, CMax,     \* get8: from that poll to s = cycle_cnt_read()
    SMin, SMax,     \* get8: from the due time of a sample to the read of the pin
    TMin, TMax      \* recv: from the end of get8's last loop to the next poll

BitNo == 0..7
Bits == [BitNo -> {0, 1}]

ASSUME LineAssumption ==
    /\ N \in Nat \ {0} /\ M \in Nat /\ Msg \in [1..M -> Bits]
    /\ WMin \in Nat /\ WMax \in Nat /\ WMin <= WMax
    /\ PMax \in Nat
    /\ CMin \in Nat /\ CMax \in Nat /\ CMin <= CMax
    /\ SMin \in Nat /\ SMax \in Nat /\ SMin <= SMax
    /\ TMin \in Nat /\ TMax \in Nat /\ TMin <= TMax

\* The latencies for which sampling on the edge works: a sample never comes
\* before its bit is written, get8 does not poll again before the stop bit is,
\* and all the latencies together are less than a bit.
ASSUME LatencyAssumption ==
    /\ WMax < WMin + CMin + SMin
    /\ WMax < WMin + CMin + TMin
    /\ WMax + PMax + CMax + SMax + TMax < N

VARIABLES
    level,      \* the line: 1 when idle
    spc,        \* sender: "idle" or in "put8"
    sent,       \* sender: calls of put8 so far
    edge,       \* sender: edges of the frame written so far
    sclk,       \* sender: cycles since put8 read s
    rpc,        \* receiver: "poll", "seen", "sample", "out" (between two get8)
    ri,         \* receiver: the loop variable i of get8
    rclk,       \* receiver: cycles since the event that rpc waits from
    val,        \* receiver: the bits read
    nrcv, inbox \* receiver: the bytes returned

vars == <<level, spc, sent, edge, sclk, rpc, ri, rclk, val, nrcv, inbox>>
sender == <<spc, sent, edge, sclk>>
receiver == <<rpc, ri, rclk, val, nrcv, inbox>>

\* The e-th edge of a frame (0: start bit, 1..8: data, 9: stop bit).
Level(b, e) == IF e = 0 THEN 0 ELSE IF e = 9 THEN 1 ELSE b[e - 1]

\* Variants for mutation: a sample at the edge before the bit, and a receiver
\* that is set to half the baud rate of the sender.
DueEarly(i) == i * N
DueHalfRate(i) == (i + 1) * 2 * N

\* When get8 samples bit i, in cycles since s.
Due(i) == (i + 1) * N

NoBits == [i \in BitNo |-> 0]

Init ==
    /\ level = 1
    /\ spc = "idle" /\ sent = 0 /\ edge = 0 /\ sclk = 0
    /\ rpc = "poll" /\ ri = 0 /\ rclk = 0 /\ nrcv = 0
    /\ val = NoBits
    /\ inbox = [j \in 1..M |-> NoBits]

-----------------------------------------------------------------------------
(* sw_uart_put8 *)

Put8 ==
    /\ spc = "idle" /\ sent < M
    /\ spc' = "put8" /\ sent' = sent + 1 /\ edge' = 0 /\ sclk' = 0
    /\ UNCHANGED <<level, receiver>>

\* gpio_set_off / gpio_set_on once edge * N cycles have passed.
WriteEdge ==
    /\ spc = "put8" /\ edge <= 9
    /\ sclk >= edge * N + WMin
    /\ level' = Level(Msg[sent], edge)
    /\ edge' = edge + 1
    /\ rclk' = IF rpc = "poll" /\ level' # level THEN 0 ELSE rclk
    /\ UNCHANGED <<spc, sent, sclk, rpc, ri, val, nrcv, inbox>>

Put8Return ==
    /\ spc = "put8" /\ edge = 10
    /\ sclk >= edge * N
    /\ spc' = "idle" /\ sclk' = 0
    /\ UNCHANGED <<level, sent, edge, receiver>>

-----------------------------------------------------------------------------
(* sw_uart_get8_timeout, called in a loop by recv *)

\* wait_until_usec reads the pin low.
SeeStart ==
    /\ rpc = "poll" /\ level = 0
    /\ rpc' = "seen" /\ rclk' = 0
    /\ UNCHANGED <<level, sender, ri, val, nrcv, inbox>>

\* s = cycle_cnt_read()
ReadClock ==
    /\ rpc = "seen" /\ rclk >= CMin
    /\ rpc' = "sample" /\ ri' = 0 /\ rclk' = 0 /\ val' = NoBits
    /\ UNCHANGED <<level, sender, nrcv, inbox>>

\* gpio_read once (i + 1) * N cycles have passed.
Sample ==
    /\ rpc = "sample" /\ ri <= 7
    /\ rclk >= Due(ri) + SMin
    /\ val' = [val EXCEPT ![ri] = level]
    /\ ri' = ri + 1
    /\ UNCHANGED <<level, sender, rpc, rclk, nrcv, inbox>>

\* 9 * N cycles have passed.
Get8Return ==
    /\ rpc = "sample" /\ ri = 8
    /\ rclk >= Due(ri)
    /\ rpc' = "out" /\ rclk' = 0
    /\ nrcv' = nrcv + 1
    /\ inbox' = [inbox EXCEPT ![nrcv + 1] = val]
    /\ UNCHANGED <<level, sender, ri, val>>

\* recv calls get8 for its next byte.
Get8 ==
    /\ rpc = "out" /\ nrcv < M /\ rclk >= TMin
    /\ rpc' = "poll" /\ rclk' = 0
    /\ UNCHANGED <<level, sender, ri, val, nrcv, inbox>>

-----------------------------------------------------------------------------

\* The time a step may still take: the latencies are at most the maxima.
SenderWaits == spc = "put8" => sclk < edge * N + WMax
Receiving == CASE rpc = "poll" -> level = 0
               [] rpc = "out"  -> nrcv < M
               [] OTHER        -> TRUE
Patience == CASE rpc = "poll"   -> PMax
              [] rpc = "seen"   -> CMax
              [] rpc = "sample" -> Due(ri) + SMax
              [] OTHER          -> TMax

\* One cycle passes.
Tick ==
    /\ spc = "put8" \/ Receiving
    /\ SenderWaits /\ (Receiving => rclk < Patience)
    /\ sclk' = IF spc = "put8" THEN sclk + 1 ELSE sclk
    /\ rclk' = IF Receiving THEN rclk + 1 ELSE rclk
    /\ UNCHANGED <<level, spc, sent, edge, rpc, ri, val, nrcv, inbox>>

\* wait_until_usec reads the pin high and polls again.
Polling == rpc = "poll" /\ level = 1 /\ UNCHANGED vars

\* recv has its M bytes.
Terminated == nrcv = M /\ sent = M /\ spc = "idle" /\ UNCHANGED vars

Next == \/ Put8 \/ WriteEdge \/ Put8Return
        \/ SeeStart \/ ReadClock \/ Sample \/ Get8Return \/ Get8
        \/ Tick \/ Polling \/ Terminated

\* Both Pis keep executing and time passes.
Spec == Init /\ [][Next]_vars /\ WF_vars(Next)

-----------------------------------------------------------------------------
(* Properties.                                                             *)

\* Every variable keeps its type.
TypeOK ==
    /\ level \in {0, 1}
    /\ spc \in {"idle", "put8"} /\ sent \in 0..M /\ edge \in 0..10
    /\ sclk \in Nat
    /\ rpc \in {"poll", "seen", "sample", "out"}
    /\ ri \in 0..8 /\ rclk \in Nat /\ val \in Bits
    /\ nrcv \in 0..M /\ inbox \in [1..M -> Bits]

\* The bytes get8 has returned are the bytes put8 was given, in order: none is
\* shifted by a bit, none is split over two calls, lost or made up.
Intact == nrcv <= sent /\ \A j \in 1..nrcv : inbox[j] = Msg[j]

\* Each sample falls on its own bit: after its edge and before the next one.
OnItsBit == [][Sample => spc = "put8" /\ edge = ri + 2]_vars

\* The message is received to its last byte.
Received == <>(nrcv = M)

=============================================================================
