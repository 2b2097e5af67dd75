-------------------------------- MODULE Async --------------------------------
(***************************************************************************)
(* FMPI_PUT and FMPI_GET of libpi/src/fmpi-async.c: the initiator runs     *)
(* them against the interrupt handlers of libpi/src/test-interrupts.c on   *)
(* the target.  The falling edge of the initiator's line raises the        *)
(* target's interrupt; its handler must still find the line low, takes any *)
(* byte for SYNC, answers and then receives a 9 byte packet.               *)
(*                                                                         *)
(* A byte is a low start bit, high bits, low bits and a high stop bit: the *)
(* levels of SYNC_SIGNAL and of the command 1.  Bytes with more edges look *)
(* the same to a target that is in its handler: the event is latched once. *)
(* Time is as in Fmpi: delays and timeouts take ticks, frames take none.   *)
(* A receiver is back in get8 before the sender's next start bit ends (in  *)
(* Fmpi: Prompt).                                                          *)
(***************************************************************************)
EXTENDS Integers

CONSTANTS
    Size,           \* _size: rounds of the handshake, plus one
    NOps, Ops,      \* the calls: records with command, address and word
    Addresses,      \* the addresses used, sequences of 4 bytes
    Memory,         \* [Addresses -> words] the target's memory at the start
    Delay,          \* DELAY_MS, in ticks
    Timeout,        \* TIMEOUT_MS
    SyncWait,       \* the 1000 ms of sync_receiver
    GetTimeout,     \* the 500 s of sw_uart_get8
    MaxThink,       \* bound: ticks between two calls, and before Startup
    Garbage,        \* what get8 returns when it starts inside a byte
    Quick           \* TRUE: the handler reads the pin within the level of the
                    \* line that raised its interrupt

MaxRpis == 4
SyncSignal == 7
Byte == 0..255
TimedOut == -1
NoByte == -2

ASSUME AsyncAssumption ==
    /\ Size \in 2..MaxRpis /\ NOps \in Nat /\ MaxThink \in Nat
    /\ Ops \in [1..NOps -> [command : {"put", "get"},
                            address : Addresses, word : [1..4 -> Byte]]]
    /\ Addresses \subseteq [1..4 -> Byte] /\ Memory \in [Addresses -> [1..4 -> Byte]]
    /\ Delay \in Nat \ {0} /\ Timeout \in Nat /\ Delay < Timeout
    /\ SyncWait \in Nat /\ GetTimeout \in Nat /\ Delay < GetTimeout
    /\ Garbage \subseteq Byte /\ Quick \in BOOLEAN

VARIABLES
    ipc,        \* where the initiator is
    op,         \* calls so far: the current one
    round,      \* the variable i of sync_me_last
    iidx,       \* the variable i of send_async and recv_async
    itimer,     \* ticks left of its timeout, or before its next call
    ibuf,       \* [1..4 -> Byte] recv_p of FMPI_GET
    answer,     \* what the last FMPI_GET returned
    itx,        \* the line to the target: phase, byte val, target gets got
    tpc,        \* where the target is
    tidx, ttimer,
    tbuf,       \* [1..9 -> Byte] the packet
    handled,    \* what rising_handler returned
    event,      \* the target's event bit of in_pin
    mem,        \* the target's memory
    done,       \* history: commands executed
    ttx         \* the line to the initiator

initiator == <<ipc, op, round, iidx, itimer, ibuf, answer>>
target == <<tpc, tidx, ttimer, tbuf, handled, mem, done>>
vars == <<initiator, itx, target, event, ttx>>

OnLine(p, v, g) == [phase |-> p, val |-> v, got |-> g]
Idle == OnLine("idle", NoByte, NoByte)
Low == itx.phase \in {"off", "start", "lo"}
NoWord == [k \in 1..4 |-> NoByte]

\* The packet of a call: command, address, data.
Packet(o) == [k \in 1..9 |-> CASE k = 1 -> IF o.command = "put" THEN 1 ELSE 2
                               [] k \in 2..5 -> o.address[k - 1]
                               [] OTHER -> IF o.command = "put" THEN o.word[k - 5]
                                                                ELSE 0]
AddressOf(p) == [k \in 1..4 |-> p[k + 1]]
WordOf(p) == [k \in 1..4 |-> p[k + 5]]

Listening == tpc \in {"sync", "recv"}

\* An edge sets the event bit once both detectors are on.
Latch == event' = (event \/ tpc # "boot")

\* The level of the line may change: Quick holds it while the handler is on
\* its way from the interrupt to get8.
Settled == Quick => /\ tpc \notin {"rise", "riseClear", "fall", "toSync"}
                    /\ ~(tpc = "main" /\ event)

Char(v) == IF v = TimedOut THEN 255 ELSE v

Init ==
    /\ ipc = "idle" /\ op = 0 /\ round = 1 /\ iidx = 1 /\ itimer = MaxThink
    /\ ibuf = NoWord /\ answer = NoWord /\ itx = Idle
    /\ tpc = "boot" /\ tidx = 1 /\ ttimer = MaxThink
    /\ tbuf = [k \in 1..9 |-> NoByte] /\ handled = FALSE
    /\ mem = Memory /\ done = 0
    /\ event = FALSE /\ ttx = Idle

-----------------------------------------------------------------------------
(* The initiator: FMPI_PUT, FMPI_GET, sync_me_last.                        *)

\* gpio_set_off(TX_ASYNC), then sync_me_last.
Call ==
    /\ ipc = "idle" /\ op < NOps
    /\ ipc' = "putSync" /\ op' = op + 1 /\ round' = 1
    /\ itx' = OnLine("off", NoByte, NoByte) /\ Latch
    /\ UNCHANGED <<iidx, itimer, ibuf, answer, target, ttx>>

Return ==
    /\ ipc' = "idle" /\ itimer' = MaxThink
    /\ UNCHANGED <<op, round>>

\* Variants for mutation: the loop polls again without a new request; the loop
\* ends on any answer.
SyncReturnsPolls(v) ==
    /\ ipc = "getSync"
    /\ IF v # SyncSignal
       THEN itimer' = Timeout /\ UNCHANGED <<ipc, round, iidx>>
       ELSE /\ ipc' = (IF round + 1 < Size THEN "putSync" ELSE "putPkt")
            /\ round' = round + 1 /\ iidx' = 1 /\ itimer' = 0
    /\ UNCHANGED <<op, ibuf, answer>>
SyncReturnsTakesAll(v) ==
    /\ ipc = "getSync"
    /\ ipc' = (IF round + 1 < Size THEN "putSync" ELSE "putPkt")
    /\ round' = (IF round + 1 < Size THEN round + 1 ELSE round)
    /\ iidx' = 1 /\ itimer' = 0
    /\ UNCHANGED <<op, ibuf, answer>>

\* wait_signal_timeout_async returns v.
SyncReturns(v) ==
    /\ ipc = "getSync"
    /\ IF v # SyncSignal
       THEN ipc' = "putSync" /\ UNCHANGED <<round, iidx>>
       ELSE IF round + 1 < Size
       THEN ipc' = "putSync" /\ round' = round + 1 /\ UNCHANGED iidx
       ELSE ipc' = "putPkt" /\ iidx' = 1 /\ UNCHANGED round
    /\ itimer' = 0
    /\ UNCHANGED <<op, ibuf, answer>>

\* get8 of recv_async returns v; FMPI_GET returns after the fourth byte.
DataReturns(v) ==
    /\ ipc = "getData"
    /\ ibuf' = [ibuf EXCEPT ![iidx] = Char(v)]
    /\ IF iidx < 4
       THEN /\ iidx' = iidx + 1 /\ itimer' = GetTimeout
            /\ UNCHANGED <<ipc, op, round, answer>>
       ELSE Return /\ iidx' = 1 /\ answer' = ibuf'

InitiatorExpires ==
    /\ ipc \in {"getSync", "getData"} /\ itimer = 0
    /\ ttx.phase \notin {"start", "bits"}
    /\ SyncReturns(TimedOut) \/ DataReturns(TimedOut)
    /\ UNCHANGED <<itx, target, event, ttx>>

-----------------------------------------------------------------------------
(* The line to the target: sw_uart_put8 of the initiator.                  *)

\* The target's get8 returns v, to sync_receiver (any byte will do) or to
\* recv_async.
TargetGets(v) ==
    \/ /\ tpc = "sync"
       /\ tpc' = "delaySync" /\ ttimer' = Delay
       /\ UNCHANGED <<tidx, tbuf>>
    \/ /\ tpc = "recv"
       /\ tbuf' = [tbuf EXCEPT ![tidx] = Char(v)]
       /\ IF tidx < 9
          THEN tidx' = tidx + 1 /\ ttimer' = GetTimeout /\ UNCHANGED tpc
          ELSE tidx' = 1 /\ tpc' = "delay" /\ ttimer' = Delay

Outgoing == IF ipc = "putSync" THEN SyncSignal ELSE Packet(Ops[op])[iidx]

\* A get8 that took the level before the start bit for it reads the byte
\* shifted by one bit.
StartBit ==
    /\ ipc \in {"putSync", "putPkt"}
    /\ itx.phase = "off" \/ (itx.phase = "idle" /\ Settled)
    /\ itx' = OnLine("start", Outgoing,
                     IF Listening /\ itx.phase = "off"
                     THEN (2 * Outgoing) % 256 ELSE NoByte)
    /\ IF itx.phase = "idle" THEN Latch ELSE UNCHANGED event
    /\ UNCHANGED <<initiator, target, ttx>>

HighBits ==
    /\ itx.phase = "start" /\ ttx.phase # "stop" /\ Settled
    /\ itx' = OnLine("hi", itx.val,
                     IF Listening /\ itx.got = NoByte THEN itx.val ELSE itx.got)
    /\ Latch
    /\ UNCHANGED <<initiator, target, ttx>>

LowBits ==
    /\ itx.phase = "hi" /\ Settled
    /\ itx' = [itx EXCEPT !.phase = "lo"] /\ Latch
    /\ UNCHANGED <<initiator, target, ttx>>

\* The target's get8 returns; one that began in the low bits reads garbage.
StopBit ==
    /\ itx.phase = "lo" /\ Settled
    /\ itx' = [itx EXCEPT !.phase = "stop"] /\ Latch
    /\ IF ~Listening
       THEN UNCHANGED target
       ELSE /\ \E v \in IF itx.got = NoByte THEN Garbage ELSE {itx.got} : TargetGets(v)
            /\ UNCHANGED <<handled, mem, done>>
    /\ UNCHANGED <<initiator, ttx>>

Put8Returns ==
    /\ itx.phase = "stop" /\ itx' = Idle
    /\ \/ /\ ipc = "putSync" /\ ipc' = "getSync" /\ itimer' = Timeout
          /\ UNCHANGED <<op, round, iidx>>
       \/ /\ ipc = "putPkt" /\ iidx < 9 /\ iidx' = iidx + 1
          /\ UNCHANGED <<ipc, op, round, itimer>>
       \/ /\ ipc = "putPkt" /\ iidx = 9 /\ iidx' = 1
          /\ IF Ops[op].command = "put"
             THEN Return
             ELSE /\ ipc' = "getData" /\ itimer' = GetTimeout
                  /\ UNCHANGED <<op, round>>
    /\ UNCHANGED <<ibuf, answer, target, event, ttx>>

-----------------------------------------------------------------------------
(* The target: interrupt_vector, rising_handler, falling_handler.          *)

\* rise_fall_int_startup.  rising_init pulls the target's own line low until
\* falling_init raises it: an initiator that polls it reads 255.
Startup ==
    /\ tpc = "boot" /\ tpc' = "main" /\ ttimer' = 0 /\ event' = FALSE
    /\ IF ipc = "getSync" THEN SyncReturns(255) ELSE UNCHANGED initiator
    /\ UNCHANGED <<itx, tidx, tbuf, handled, mem, done, ttx>>

Interrupt ==
    /\ tpc = "main" /\ event
    /\ tpc' = "rise"
    /\ UNCHANGED <<initiator, itx, tidx, ttimer, tbuf, handled, event, mem, done, ttx>>

\* rising_handler: if the pin is high, clear the event and return 1.
ReadRise ==
    /\ tpc = "rise"
    /\ tpc' = IF Low THEN "fall" ELSE "riseClear"
    /\ handled' = FALSE
    /\ UNCHANGED <<initiator, itx, tidx, ttimer, tbuf, event, mem, done, ttx>>

\* Variant for mutation: rising_handler clears the event and returns 0.
ClearRiseReturns0 ==
    /\ tpc = "riseClear"
    /\ tpc' = "fall" /\ event' = FALSE
    /\ UNCHANGED <<initiator, itx, tidx, ttimer, tbuf, handled, mem, done, ttx>>

ClearRise ==
    /\ tpc = "riseClear"
    /\ tpc' = "fall" /\ event' = FALSE /\ handled' = TRUE
    /\ UNCHANGED <<initiator, itx, tidx, ttimer, tbuf, mem, done, ttx>>

\* falling_handler: with an event and a low pin, go on; otherwise return 0,
\* and interrupt_vector panics if rising_handler has returned 0 too.
ReadFall ==
    /\ tpc = "fall"
    /\ tpc' = IF event /\ Low THEN "toSync" ELSE IF handled THEN "main" ELSE "panic"
    /\ UNCHANGED <<initiator, itx, tidx, ttimer, tbuf, handled, event, mem, done, ttx>>

\* sync_receiver
SyncReceiver ==
    /\ tpc = "toSync"
    /\ tpc' = "sync" /\ ttimer' = SyncWait
    /\ UNCHANGED <<initiator, itx, tidx, tbuf, handled, event, mem, done, ttx>>

TargetExpires ==
    /\ Listening /\ ttimer = 0 /\ itx = Idle
    /\ \/ /\ tpc = "sync" /\ tpc' = "clear"
          /\ UNCHANGED <<tidx, ttimer, tbuf>>
       \/ tpc = "recv" /\ TargetGets(TimedOut)
    /\ UNCHANGED <<initiator, itx, handled, event, mem, done, ttx>>

EndDelaySync ==
    /\ tpc = "delaySync" /\ ttimer = 0
    /\ tpc' = "putSync"
    /\ UNCHANGED <<initiator, itx, tidx, ttimer, tbuf, handled, event, mem, done, ttx>>

\* The command, after delay_ms: PUT32; or GET32, and send_async to follow.
EndDelay ==
    /\ tpc = "delay" /\ ttimer = 0
    /\ IF tbuf[1] = 1
       THEN mem' = [mem EXCEPT ![AddressOf(tbuf)] = WordOf(tbuf)]
       ELSE UNCHANGED mem
    /\ tpc' = IF tbuf[1] = 2 THEN "putData" ELSE "clear"
    /\ done' = IF tbuf[1] \in {1, 2} THEN done + 1 ELSE done
    /\ UNCHANGED <<initiator, itx, tidx, ttimer, tbuf, handled, event, ttx>>

\* gpio_event_clear, return 1.
Clear ==
    /\ tpc = "clear"
    /\ tpc' = "main" /\ event' = FALSE
    /\ UNCHANGED <<initiator, itx, tidx, ttimer, tbuf, handled, mem, done, ttx>>

-----------------------------------------------------------------------------
(* The line to the initiator: send_signal_async, send_async of the target.  *)

Loaded(a) == IF a \in Addresses THEN mem[a] ELSE [k \in 1..4 |-> 0]
Reply == IF tpc = "putSync" THEN SyncSignal ELSE Loaded(AddressOf(tbuf))[tidx]
InitiatorListens == ipc \in {"getSync", "getData"}

TargetStartBit ==
    /\ tpc \in {"putSync", "putData"} /\ ttx = Idle
    /\ ttx' = OnLine("start", Reply, NoByte)
    /\ UNCHANGED <<initiator, itx, target, event>>

TargetDataBits ==
    /\ ttx.phase = "start" /\ itx.phase # "stop"
    /\ ttx' = OnLine("bits", ttx.val, IF InitiatorListens THEN ttx.val ELSE NoByte)
    /\ UNCHANGED <<initiator, itx, target, event>>

\* The initiator's get8 returns, as the target's in StopBit.
TargetStopBit ==
    /\ ttx.phase = "bits" /\ itx.phase # "stop"
    /\ ttx' = [ttx EXCEPT !.phase = "stop"]
    /\ IF ~InitiatorListens THEN UNCHANGED initiator
       ELSE \E v \in IF ttx.got = NoByte THEN Garbage ELSE {ttx.got} :
               SyncReturns(v) \/ DataReturns(v)
    /\ UNCHANGED <<itx, target, event>>

TargetPut8Returns ==
    /\ ttx.phase = "stop" /\ ttx' = Idle
    /\ \/ /\ tpc = "putSync" /\ tpc' = "recv" /\ ttimer' = GetTimeout
          /\ tidx' = 1
       \/ /\ tpc = "putData" /\ tidx < 4 /\ tidx' = tidx + 1
          /\ UNCHANGED <<tpc, ttimer>>
       \/ /\ tpc = "putData" /\ tidx = 4 /\ tidx' = 1 /\ tpc' = "clear"
          /\ UNCHANGED ttimer
    /\ UNCHANGED <<initiator, itx, tbuf, handled, event, mem, done>>

-----------------------------------------------------------------------------

\* One tick passes: nobody has anything left to do now.
Tick ==
    /\ itx = Idle /\ ttx = Idle
    /\ \/ ipc \in {"getSync", "getData"} /\ itimer > 0
       \/ ipc = "idle" /\ (itimer > 0 \/ op = NOps)
    /\ \/ tpc \in {"boot", "sync", "recv", "delaySync", "delay"} /\ ttimer > 0
       \/ tpc = "main" /\ ~event
       \/ tpc = "panic"
    /\ itimer > 0 \/ ttimer > 0
    /\ itimer' = IF itimer > 0 THEN itimer - 1 ELSE 0
    /\ ttimer' = IF ttimer > 0 THEN ttimer - 1 ELSE 0
    /\ UNCHANGED <<ipc, op, round, iidx, ibuf, answer, itx, tpc, tidx, tbuf,
                   handled, event, mem, done, ttx>>

\* The initiator has called everything and the target is out of its handler.
Terminated ==
    /\ ipc = "idle" /\ op = NOps /\ itimer = 0
    /\ (tpc = "main" /\ ~event) \/ tpc = "panic"
    /\ UNCHANGED vars

Next ==
    \/ Call \/ InitiatorExpires
    \/ StartBit \/ HighBits \/ LowBits \/ StopBit \/ Put8Returns
    \/ Startup \/ Interrupt \/ ReadRise \/ ClearRise \/ ReadFall
    \/ SyncReceiver \/ TargetExpires \/ EndDelaySync \/ EndDelay \/ Clear
    \/ TargetStartBit \/ TargetDataBits
    \/ TargetStopBit \/ TargetPut8Returns
    \/ Tick \/ Terminated

\* Both Pis keep executing and time passes.
Spec == Init /\ [][Next]_vars /\ WF_vars(Next)

-----------------------------------------------------------------------------
(* Properties.                                                             *)

\* Every variable keeps its type, and the two lines their frames.
TypeOK ==
    /\ ipc \in {"idle", "putSync", "getSync", "putPkt", "getData"}
    /\ op \in 0..NOps /\ round \in 1..(Size - 1) /\ iidx \in 1..9
    /\ itimer \in Nat /\ ttimer \in Nat
    /\ ibuf \in [1..4 -> Byte \cup {NoByte}]
    /\ answer \in [1..4 -> Byte \cup {NoByte}]
    /\ itx \in [phase : {"idle", "off", "start", "hi", "lo", "stop"},
                 val : Byte \cup {NoByte}, got : Byte \cup {NoByte}]
    /\ tpc \in {"boot", "main", "rise", "riseClear", "fall", "toSync", "sync",
                "delaySync", "putSync", "recv", "delay", "putData", "clear",
                "panic"}
    /\ tidx \in 1..9 /\ tbuf \in [1..9 -> Byte \cup {NoByte}]
    /\ handled \in BOOLEAN /\ event \in BOOLEAN
    /\ mem \in [Addresses -> [1..4 -> Byte \cup {NoByte}]] /\ done \in Nat
    /\ ttx \in [phase : {"idle", "start", "bits", "stop"},
                 val : Byte \cup {NoByte}, got : Byte \cup {NoByte}]

\* The initiator's calls take effect once each, in order and on the words and
\* addresses it gave, however many requests are lost, misread or taken for data,
\* and FMPI_GET returns the word that is there.
Store == INSTANCE AsyncStore WITH
    called <- op,
    busy <- ipc # "idle",
    NoWord <- NoWord,
    Command <- LAMBDA i : Ops[i].command,
    Address <- LAMBDA i : Ops[i].address,
    Word <- LAMBDA i : Ops[i].word
Implements == Store!Spec

\* Only a SYNC of the initiator may be lost or misread: every byte of a packet,
\* every answer and every byte of the reply finds its receiver polling.
OnlyRequestsLost ==
    /\ itx.phase \in {"hi", "lo", "stop"} /\ ipc = "putPkt" => itx.got = itx.val
    /\ ttx.phase \in {"bits", "stop"} => ttx.got = ttx.val

\* The types hold, and only a SYNC of the initiator may be lost or misread
\* (fmpi-async.c:15-100).
OnlySyncLost == TypeOK /\ OnlyRequestsLost

\* An interrupt is always explained by the level its handlers read:
\* test-interrupts.c:19 "should have no other interrupts?" is never reached.
NoPanic == tpc # "panic"

\* Every call of the program returns.
Completes == <>(op = NOps /\ ipc = "idle")
=============================================================================
