------------------------------ MODULE Console ------------------------------
(***************************************************************************)
(* A program's output and the laptop that echoes it: the mini UART and its *)
(* driver (uart.c), the startup and end of a program (cstart.c, putk.c,    *)
(* clean-reboot.c, reboot.c), a tty for each Pi, and the loop over the     *)
(* ttys that shows what they say, collects the image of render.c and exits *)
(* at the exit string (pi-echo.c), or its predecessor for one Pi           *)
(* (pi-cat.c).  A byte is one of a few kinds; the exit string "DONE!!!\n"  *)
(* is three bytes long and, like it, starts with a byte of its own.        *)
(***************************************************************************)
EXTENDS Integers, Sequences, FiniteSets

CONSTANTS
    NumPis,         \* num_pis
    Output,         \* Output[i]: what the program of Pi i prints before its end
    FifoSize,       \* of the UART, 8 bytes
    ImageSize,      \* N * N * 3 of pi-echo.c, RENDER
    Keys,           \* what the user types, at any time
    MaxUnplugged    \* bound: cables that are pulled

Pi == 1..NumPis
ExitString == <<"D", "!", "n">>
Nul == "0"
Bytes == {"D", "!", "n", Nul, "p", "t", "a", "b", "c", "boot"}

ASSUME ConsoleAssumption ==
    /\ NumPis \in Nat \ {0} /\ FifoSize \in Nat \ {0}
    /\ Output \in [Pi -> Seq(Bytes)] /\ Keys \in Seq(Bytes)

VARIABLES
    pc,             \* Pi: what it does
    out,            \* what it has left to print
    enabled,        \* AUX_MU_CNTL: transmitter and receiver are on
    tx, shift,      \* the transmit FIFO and the byte on the wire
    rx,             \* the receive FIFO
    sent, got,      \* history: what the program gave to and took from the UART
    tty,            \* what the laptop received and nobody has read
    plugged,        \* the tty is there
    tool,           \* "pi_echo" or "pi_cat"
    turn,           \* i of pi_echo's loop
    done, count,    \* done is not initialised
    pos,            \* pi-cat.c's static
    image,          \* image[][][], filled in order
    exited,         \* "no", "clean", "gone" or "died"
    keys,           \* what the user has yet to type, for all Pis
    read,           \* history: what was read from each Pi
    typed,          \* history: what each was sent since its receiver is on
    hidden          \* history: an exit string was obscured by what was read
                    \* before it

uart == <<enabled, tx, shift, rx>>
program == <<pc, out, sent, got>>
laptop == <<tool, turn, done, count, pos, image, exited, keys, read, hidden>>
host == <<laptop, typed>>
vars == <<uart, program, tty, plugged, host>>

EachPi(v) == [i \in Pi |-> v]

\* The bootloader started the programs; what its UART had to say is out.
Init ==
    /\ tool \in {"pi_echo", "pi_cat"}
    /\ pc = [i \in Pi |-> IF tool = "pi_cat" /\ i > 1 THEN "off" ELSE "_cstart"]
    /\ out = Output
    /\ enabled = EachPi(TRUE) /\ tx = EachPi(<<>>) /\ shift = EachPi(<<>>) /\ rx = EachPi(<<>>)
    /\ sent = EachPi(<<>>) /\ got = EachPi(<<>>)
    /\ tty = EachPi(<<>>) /\ plugged = EachPi(TRUE)
    /\ turn = 1 /\ count = 0
    /\ done \in [Pi -> IF tool = "pi_echo" THEN BOOLEAN ELSE {FALSE}] /\ pos = 0
    /\ image = <<>> /\ exited = "no"
    /\ keys = Keys /\ read = EachPi(<<>>) /\ typed = EachPi(<<>>) /\ hidden = FALSE

-----------------------------------------------------------------------------
(* The mini UART.                                                          *)

\* The FIFO's first byte goes to the transmitter, then to the laptop.
Shift(i) ==
    /\ enabled[i] /\ shift[i] = <<>> /\ tx[i] # <<>>
    /\ shift' = [shift EXCEPT ![i] = <<Head(tx[i])>>]
    /\ tx' = [tx EXCEPT ![i] = Tail(tx[i])]
    /\ UNCHANGED <<enabled, rx, program, tty, plugged, host>>

Transmit(i) ==
    /\ enabled[i] /\ shift[i] # <<>>
    /\ shift' = [shift EXCEPT ![i] = <<>>]
    /\ tty' = [tty EXCEPT ![i] = IF plugged[i] THEN tty[i] \o shift[i] ELSE <<>>]
    /\ UNCHANGED <<enabled, tx, rx, program, plugged, host>>

uart_can_put8(i) == Len(tx[i]) < FifoSize

uart_has_data(i) == rx[i] # <<>>

\* Variant for mutation: the FIFO is empty, the transmitter may be busy.
uart_tx_is_emptyFifo(i) == tx[i] = <<>>

uart_tx_is_empty(i) == tx[i] = <<>> /\ shift[i] = <<>>

-----------------------------------------------------------------------------
(* The Pi.                                                                 *)

Goes(i, from, to) == pc[i] = from /\ pc' = [pc EXCEPT ![i] = to]

\* uart_init, up to the bits that clear both FIFOs, off; then on again.
uart_off(i) ==
    /\ Goes(i, "_cstart", "uart_on")
    /\ enabled' = [enabled EXCEPT ![i] = FALSE]
    /\ tx' = [tx EXCEPT ![i] = <<>>] /\ rx' = [rx EXCEPT ![i] = <<>>]
    /\ UNCHANGED <<shift, out, sent, got, tty, plugged, host>>

uart_on(i) ==
    /\ Goes(i, "uart_on", "notmain")
    /\ enabled' = [enabled EXCEPT ![i] = TRUE] /\ typed' = [typed EXCEPT ![i] = <<>>]
    /\ UNCHANGED <<tx, shift, rx, out, sent, got, tty, plugged, laptop>>

\* uart_put8 waits for room.  notmain's output, and then the exit string.
uart_put8(i) ==
    /\ pc[i] \in {"notmain", "clean_reboot", "bootloader"} /\ out[i] # <<>>
    /\ uart_can_put8(i)
    /\ tx' = [tx EXCEPT ![i] = IF Len(@) < FifoSize THEN Append(@, Head(out[i])) ELSE @]
    /\ sent' = [sent EXCEPT ![i] = Append(@, Head(out[i]))]
    /\ out' = [out EXCEPT ![i] = Tail(out[i])]
    /\ UNCHANGED <<enabled, shift, rx, pc, got, tty, plugged, host>>

\* A program may look for input with uart_get8_async, which calls uart_get8
\* when there is some.  An empty FIFO would give anything.
uart_get8(i) ==
    /\ pc[i] = "notmain" /\ uart_has_data(i)
    /\ got' = [got EXCEPT ![i] = Append(@, IF rx[i] = <<>> THEN "t" ELSE Head(rx[i]))]
    /\ rx' = [rx EXCEPT ![i] = IF @ = <<>> THEN @ ELSE Tail(@)]
    /\ UNCHANGED <<enabled, tx, shift, pc, out, sent, tty, plugged, host>>

clean_reboot(i) ==
    /\ out[i] = <<>> /\ Goes(i, "notmain", "clean_reboot")
    /\ out' = [out EXCEPT ![i] = ExitString]
    /\ UNCHANGED <<uart, sent, got, tty, plugged, host>>

uart_flush_tx(i) ==
    /\ out[i] = <<>> /\ uart_tx_is_empty(i) /\ Goes(i, "clean_reboot", "rpi_reboot")
    /\ UNCHANGED <<uart, out, sent, got, tty, plugged, host>>

\* The reset empties the UART; the bootloader says that it wants a program.
rpi_reboot(i) ==
    /\ Goes(i, "rpi_reboot", "bootloader")
    /\ tx' = [tx EXCEPT ![i] = <<>>] /\ shift' = [shift EXCEPT ![i] = <<>>]
    /\ rx' = [rx EXCEPT ![i] = <<>>] /\ got' = [got EXCEPT ![i] = <<>>]
    /\ out' = [out EXCEPT ![i] = <<"boot">>]
    /\ UNCHANGED <<enabled, sent, tty, plugged, host>>

-----------------------------------------------------------------------------
(* The laptop.                                                             *)

\* Variant for mutation: the remainder is not checked after a mismatch.
CompareOnce(s, b) ==
    CASE s.over -> s
      [] ~s.over /\ b = ExitString[s.pos + 1] ->
             [pos |-> s.pos + 1, over |-> s.pos + 1 = Len(ExitString)]
      [] OTHER -> [pos |-> 0, over |-> TRUE]

\* One byte in pi_done's loop: a NUL ends it, and after a mismatch the search
\* goes on behind the mismatch.
Compare(s, b) ==
    CASE s.over -> s
      [] ~s.over /\ b = Nul -> [s EXCEPT !.over = TRUE]
      [] ~s.over /\ b # Nul /\ b = ExitString[s.pos + 1] ->
             [pos |-> s.pos + 1, over |-> s.pos + 1 = Len(ExitString)]
      [] OTHER -> [s EXCEPT !.pos = 0]

\* pi_done: how far into the exit string the buffer gets, from "from".
Scan(from, buf) ==
    LET scan[k \in 0..Len(buf)] == IF k = 0 THEN [pos |-> from, over |-> FALSE]
                                            ELSE Compare(scan[k - 1], buf[k])
    IN  scan[Len(buf)].pos

\* Variant for mutation: the last byte is not compared.
pi_doneEarly(from, buf) == Scan(from, buf) >= Len(ExitString) - 1

pi_done(from, buf) == Scan(from, buf) = Len(ExitString)

\* What the terminal cannot show becomes a space, a NUL too.
remove_nonprint(buf) == [k \in DOMAIN buf |-> IF buf[k] = Nul THEN "p" ELSE buf[k]]

\* The image takes the bytes of the first Pi until it is full; what is left of
\* that read is not shown.
ForImage(i) == tool = "pi_echo" /\ i = 1 /\ Len(image) < ImageSize
update_image(i, buf) ==
    IF ForImage(i)
    THEN image' = SubSeq(image \o buf, 1, IF Len(image) + Len(buf) < ImageSize
                                          THEN Len(image) + Len(buf) ELSE ImageSize)
    ELSE UNCHANGED image

Running == exited = "no"
NextTurn == turn' = (turn % NumPis) + 1

\* What pi_done is given of what was read.
Shown(i, buf) == IF ForImage(i) THEN buf ELSE remove_nonprint(buf)

\* An exit string that ends in buf begins in an earlier read of pi_echo, which
\* starts to look anew in each; or has a NUL of the image before it in its
\* read; or follows bytes that look like its beginning, one of which the
\* search has in hand when the string begins.
Obscured(i, buf) ==
    LET all == read[i] \o buf
        first == IF tool = "pi_cat" THEN 1 ELSE Len(read[i]) + 1
    IN  \E k \in 1..(Len(all) - 2) :
            /\ SubSeq(all, k, k + 2) = ExitString /\ k + 2 > Len(read[i])
            /\ \/ k < first
               \/ ForImage(i) /\ \E j \in first..(k - 1) : all[j] = Nul
               \/ \E n \in 1..2 : k - n >= first /\ SubSeq(all, k - n, k - 1) = SubSeq(ExitString, 1, n)

\* One turn of pi_echo's loop for a Pi that is not done: copy what the user
\* typed, then read up to a buffer of output if there is some.
Skip ==
    /\ Running /\ tool = "pi_echo" /\ NextTurn
    /\ done[turn] \/ (tty[turn] = <<>> /\ plugged[turn])
    /\ UNCHANGED <<uart, program, tty, plugged, tool, done, count, pos, image, exited, keys,
                   read, typed, hidden>>

\* The Pi may be anywhere: a receiver that is off takes nothing, one that is
\* full drops what it has no room for.
Typed ==
    /\ Running /\ tool = "pi_echo" /\ ~done[turn] /\ keys # <<>> /\ plugged[turn]
    /\ keys' = Tail(keys)
    /\ typed' = [typed EXCEPT ![turn] = Append(@, Head(keys))]
    /\ rx' = IF enabled[turn] /\ Len(rx[turn]) < FifoSize
             THEN [rx EXCEPT ![turn] = Append(@, Head(keys))] ELSE rx
    /\ UNCHANGED <<enabled, tx, shift, program, tty, plugged, tool, turn, done, count, pos, image,
                   exited, read, hidden>>

\* write_exact fails.
TypedToNobody ==
    /\ Running /\ tool = "pi_echo" /\ ~done[turn] /\ keys # <<>> /\ ~plugged[turn]
    /\ exited' = "died" /\ keys' = Tail(keys)
    /\ UNCHANGED <<uart, program, tty, plugged, tool, turn, done, count, pos, image, read, typed,
                   hidden>>

Echo(n) ==
    LET buf == SubSeq(tty[turn], 1, n)
        saw == pi_done(0, Shown(turn, buf))
    IN  /\ Running /\ tool = "pi_echo" /\ ~done[turn] /\ plugged[turn]
        /\ n \in 1..Len(tty[turn])
        /\ tty' = [tty EXCEPT ![turn] = SubSeq(@, n + 1, Len(@))]
        /\ read' = [read EXCEPT ![turn] = @ \o buf]
        /\ update_image(turn, buf)
        /\ done' = [done EXCEPT ![turn] = saw]
        /\ count' = IF saw THEN count + 1 ELSE count
        /\ exited' = IF count' = NumPis THEN "clean" ELSE exited
        /\ hidden' = (hidden \/ Obscured(turn, buf))
        /\ NextTurn
        /\ UNCHANGED <<uart, program, plugged, tool, pos, keys, typed>>

\* A read of nothing: the tty is gone, and pi_echo ends for every Pi.
Gone ==
    /\ Running /\ ~plugged[turn] /\ (tool = "pi_echo" => ~done[turn])
    /\ exited' = "gone"
    /\ UNCHANGED <<uart, program, tty, plugged, tool, turn, done, count, pos, image, keys, read,
                   typed, hidden>>

\* pi_cat reads the one tty, and remembers how much of the exit string it saw.
Cat(n) ==
    LET buf == SubSeq(tty[1], 1, n)
    IN  /\ Running /\ tool = "pi_cat" /\ plugged[1] /\ n \in 1..Len(tty[1])
        /\ tty' = [tty EXCEPT ![1] = SubSeq(@, n + 1, Len(@))]
        /\ read' = [read EXCEPT ![1] = @ \o buf]
        /\ pos' = Scan(pos, Shown(1, buf))
        /\ exited' = IF pi_done(pos, Shown(1, buf)) THEN "clean" ELSE exited
        /\ hidden' = (hidden \/ Obscured(1, buf))
        /\ UNCHANGED <<uart, program, plugged, tool, turn, done, count, image, keys, typed>>

\* Bound: cables are pulled before anything is typed.
Unplug(i) ==
    /\ plugged[i] /\ pc[i] = "notmain" /\ keys = Keys
    /\ Cardinality({j \in Pi : ~plugged[j]}) < MaxUnplugged
    /\ plugged' = [plugged EXCEPT ![i] = FALSE] /\ tty' = [tty EXCEPT ![i] = <<>>]
    /\ UNCHANGED <<uart, program, host>>

Program(i) ==
    \/ uart_off(i) \/ uart_on(i) \/ uart_put8(i) \/ uart_get8(i)
    \/ clean_reboot(i) \/ uart_flush_tx(i) \/ rpi_reboot(i)
Line(i) == Shift(i) \/ Transmit(i)
Reader == \/ Skip \/ Gone
          \/ \E n \in 1..(Len(Output[1]) + Len(Output[NumPis]) + 5) : Echo(n) \/ Cat(n)

\* Bound: what happens after the tool has ended is left out.
Next == Running /\ ( \/ \E i \in Pi : Program(i) \/ Line(i) \/ Unplug(i)
                     \/ Reader \/ Typed \/ TypedToNobody )

\* The processors, the UARTs and the laptop's process run; nobody has to type
\* or to pull a plug.
Fairness == /\ \A i \in Pi : WF_vars(Running /\ Program(i)) /\ WF_vars(Running /\ Line(i))
            /\ WF_vars(Reader)

Spec == Init /\ [][Next]_vars /\ Fairness

-----------------------------------------------------------------------------
TypeOK ==
    /\ pc \in [Pi -> {"off", "_cstart", "uart_on", "notmain", "clean_reboot", "rpi_reboot",
                      "bootloader"}]
    /\ out \in [Pi -> Seq(Bytes)] /\ tx \in [Pi -> Seq(Bytes)] /\ shift \in [Pi -> Seq(Bytes)]
    /\ rx \in [Pi -> Seq(Bytes)] /\ sent \in [Pi -> Seq(Bytes)] /\ got \in [Pi -> Seq(Bytes)]
    /\ tty \in [Pi -> Seq(Bytes)] /\ read \in [Pi -> Seq(Bytes)]
    /\ keys \in Seq(Bytes) /\ typed \in [Pi -> Seq(Bytes)] /\ plugged \in [Pi -> BOOLEAN]
    /\ turn \in Pi /\ count \in 0..NumPis

\* No byte of the output is lost, doubled or overtaken between uart_put8 and
\* the laptop, not even by the reboot that follows the last one
\* (uart.c:296-303).
OutputOrder ==
    \A i \in Pi : plugged[i] => read[i] \o tty[i] \o shift[i] \o tx[i] = sent[i]

\* s is t without some of its elements.
LeavesOut(s, t) ==
    \E f \in [1..Len(s) -> 1..Len(t)] :
        /\ \A j, k \in 1..Len(s) : j < k => f[j] < f[k]
        /\ \A k \in 1..Len(s) : s[k] = t[f[k]]

\* Of what the user types after uart_init the program gets nothing twice or
\* out of order, and all of it if the FIFO could hold it.  What was typed
\* before is lost (uart.c:150-157).
InputIntact ==
    \A i \in Pi : pc[i] \in {"notmain", "clean_reboot", "rpi_reboot"} =>
        /\ LeavesOut(got[i] \o rx[i], typed[i])
        /\ Len(typed[i]) <= FifoSize => got[i] \o rx[i] = typed[i]

\* Between uart_put8 and the laptop no byte is lost, doubled or overtaken;
\* between the keyboard and uart_get8 none is doubled or overtaken, and none is
\* lost but those typed before uart_init is through and those for which the
\* FIFO may have had no room (uart.c:150-157, 208-303).
BytesIntact == TypeOK /\ OutputOrder /\ InputIntact

\* pi_echo ends by itself only when it has read all that every Pi had to say,
\* and its image is what the first Pi printed first.
CleanExit ==
    exited = "clean" =>
        /\ \A i \in (IF tool = "pi_cat" THEN {1} ELSE Pi) :
              \E n \in 0..Len(read[i]) : SubSeq(read[i], 1, n) = Output[i] \o ExitString
        /\ tool = "pi_echo" => image = SubSeq(Output[1] \o ExitString, 1, ImageSize)

\* It ends, unless malloc's garbage hides a Pi from it (pi-echo.c:98) or an
\* exit string was cut by a read, came behind a NUL of the image in its read,
\* or right behind bytes that look like its beginning (pi-echo.c:17-33, 145).
EchoEnds ==
    (tool = "pi_echo" => \A i \in Pi : ~done[i]) => <>(exited # "no" \/ hidden)

\* No program prints the exit string before its end, and the image is output.
Unambiguous ==
    /\ \A i \in Pi : \A k \in 1..Len(Output[i]) :
          SubSeq(Output[i] \o ExitString, k, k + 2) # ExitString
    /\ ImageSize \in 0..(Len(Output[1]) + 3)
=============================================================================
