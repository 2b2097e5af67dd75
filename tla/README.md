# Verification of the FMPI message-passing system

The repository turns up to four bare-metal Raspberry Pis into a small parallel
computer.  A laptop loads one program into every Pi over USB serial lines
(`my-install`, `simple_boot`, the Pi bootloader) and then echoes what the Pis print
(`pi_echo`); the programs communicate with MPI-like calls (`FMPI_*`) over GPIO
wires driven as software UARTs.  This directory holds TLA+ models of that code, the
TLC runs that check them and TLAPS proofs of the most important properties.  Paths
below are relative to `src/`.

## 1. Inventory

| Component | Source | State | Operations | Hard part |
|---|---|---|---|---|
| Synchronous collectives | `libpi/src/fmpi.c`, `fmpi.h` | `_rank`, `_size`, `_root`, the links `u[]`; the position in a collective; the receive buffer | `FMPI_Init`, `Bcast`, `Scatter`, `Gather`, `Barrier`, all starting with `sync_root_last` | Links without buffer or acknowledgement: a byte nobody polls for is gone. Correctness rests on delays (70 ms), timeouts (200 ms, 500 s) and on retries |
| Software UART | `libpi/src/sw-uart.c`, `sw-uart.h`, `cycle-util.h` | the pins; cycle counters relative to the start of a frame | `put8`, `get8_timeout`, `get8` | Sampling at bit edges, two clocks, turn-around between two bytes |
| Asynchronous PUT/GET | `libpi/src/fmpi-async.c` | one link (pins 12, 13) | `FMPI_PUT`, `FMPI_GET`, `sync_me_last`, `sync_receiver` | An initiator against an interrupt handler |
| GPIO interrupt handler | `libpi/src/test-interrupts.c`, `gpio-int.c`, `src/gpio_int` | the event latch of the pin, the enabled edges, the counts of the tests | `falling_handler`, `rising_handler`, `interrupt_vector`, `gpio_int_*`, `gpio_event_*` | Events latched while the handler runs; the pin is read after the event |
| Timer interrupt | `libpi/src/timer-int.c`, `interrupts-asm.S`, `src/timer_int`, `tests/2-render/render.c` | the timer, banked registers, the interrupt stack, counts | `timer_init`, the exception, `interrupt_vector`, `elapsed_cycles` | Interrupts between any two instructions; counters that wrap |
| Delays and timeouts | `libpi/staff-src/timer.c`, `libpi/include/timeout.h` | a microsecond counter of 32 bits | `delay_us`, `delay_ms`, `timeout_*` | Wrap-around |
| Circular queue | `libpi/libc/circular.h` | `c_buf`, `head`, `tail` | push, pop, peek, the calls with `n` | One producer and one consumer in different contexts |
| GPIO driver | `libpi/src/gpio.c` | function selects, output latches | `gpio_set_function`, `gpio_write`, `gpio_read` | Read-modify-write of words that hold ten pins |
| Hardware UART, start and end of a program | `libpi/src/uart.c`, `staff-src/cstart.c`, `clean-reboot.c`, `reboot.c` | two FIFOs, the transmitter | `uart_init`, `uart_put8`, `uart_get8`, `uart_flush_tx`, `clean_reboot` | Bytes still inside at a reset |
| Console echo | `libunix/pi-echo.c`, `pi-cat.c` | the flags and count of finished Pis, the image | `pi_echo`, `pi_cat`, `pi_done` | Several outputs, the end recognised in reads of any length |
| Bootloader, Pi side | `src/bootloader/2-pi-side/get-code.h`, `main.c` | memory, position in the exchange | `wait_for_data`, `get_code`, `boot_putk`, `boot_err` | Retry against a slow host, 8 byte receive FIFO, reboot on error |
| Bootloader, Unix side | `src/bootloader/1-unix-side/put-code.c`, `my-install.c` | position in the exchange, the serial line | `main`, `simple_boot`, `get_op`, the loop over Pis | Stale `GET_PROG_INFO`s, error replies |
| Finding and opening a tty | `libunix/find-ttyusb.c`, `open-tty.c` | modification times of the ttys | `find_ttyusb_i`, `open_tty` | The rank of a Pi depends on times alone |
| cmd-watch | `src/bootloader/extension-cmd-watch/cmd-watch.c` | one modification time | `check_activity`, `run` | A scan file by file against saves |
| Test programs | `src/tests/` | matrices, arrays, images | sequences of collectives | shares of rows, the root's result |
| C library of libpi | `libpi/libc` | the arrays of `random.c`; the list of `Q.h` | `random_r`, `setstate_r`, `Q_*`, fields, checksum, memory, strings, `printk` | Boundaries |
| libunix system call wrappers, start-up, caches, counters | `libunix`, `libpi/staff-src` | - | - | not modelled |

How they interact: collectives and PUT/GET call the software UART, byte by byte,
with no state shared between Pis but the level of the wires.  The bootloader's
two sides exchange 32-bit words over the hardware UART; it leaves rank and size
in the first two bytes of the program (0x8000, 0x8001), which `FMPI_Init` reads.
my-install's choice of ttys decides which Pi is the root.  Handlers share the pin's
event bit, the counters and the queue with the code they interrupt.  When a program
ends it prints the exit string, flushes and resets its Pi; that string is how
`pi_echo` knows.

What makes each correct:

* collectives: whoever leaves a collective holds exactly its result; a frame is
  on a line only when its receiver polls (SYNC requests excepted); nobody waits
  for ever; the root leaves after everybody has entered;
* software UART: the bytes returned are the bytes sent, in order;
* PUT/GET: the word is written once, at the right address; GET returns it;
* interrupts: the interrupted code notices nothing; every edge and wrap counts once;
* delays: over at the first look after their time, never before;
* circular queue: FIFO, no loss between the contexts;
* console: every byte in order, and the tool ends after every Pi and not before;
* bootloader: the Pi jumps to exactly the program sent; both sides end;
* ttys: every rank has its own, and the same one the next time;
* programs: the root ends with what one computer computes.

## 2. Modules

| Module | What it is |
|---|---|
| `Collective` | abstract specification: calls entered and left in order, who waits for whom, what the buffers hold |
| `Fmpi` | `fmpi.c` over byte-wise links with time; refines `Collective` |
| `MCFmpi`, `MCFmpiSizes` | instances of `Fmpi`: three Pis; two, four, and another root |
| `FmpiProofs` | the proofs about `Fmpi`: types, the inductive invariant and `Delivered`, what gets lost, the window of the answer, the refinement of `Collective`, and that no `recv` gives up |
| `SwUart`, `MCSwUart`, `SwUartProofs` | `sw-uart.c`: one direction of one link, cycle by cycle; proofs for every bit time, message and latency |
| `AsyncStore` | abstract specification of PUT and GET: each call takes effect once, in order |
| `Async`, `MCAsync`, `AsyncProofs` | `fmpi-async.c` on the initiator against `test-interrupts.c` on the target; refines `AsyncStore`, proved |
| `Loader` | abstract specification: Pis loaded in order, each with its own image, before they are reported; at the address it runs at, unless the exchange was disturbed |
| `Boot`, `MCBoot`, `BootProofs` | `my-install.c`, `put-code.c` against `get-code.h`; refines `Loader`, proved |
| `Fifo` | abstract specification of the circular queue |
| `Circular`, `MCCircular`, `CircularProofs` | `circular.h`, one memory access at a time; refines `Fifo`, proved |
| `TimerInt` | timer interrupts under `timer.c` and `render.c`, instruction by instruction |
| `EdgeInt` | edge interrupts of a GPIO pin under the tests of `gpio_int` |
| `MCInterrupts`, `InterruptProofs` | an instance of each of the two under one specification; its invariants proved |
| `Console`, `MCConsole`, `ConsoleProofs` | UART, start and end of a program, `pi_echo` and `pi_cat`; the order of bytes and the clean exit proved |
| `Install` | my-install's arguments, the choice of ttys and their opening |
| `CmdWatch` | `cmd-watch.c` against an editor |
| `Queue` | `Q.h` |
| `Timeouts` | `delay_us` and `timeout.h` on a counter that wraps |
| `Random` | `random.c`, `pi-random.c` |
| `Bits` | `bit-support.h`, `crc.c`, words as sets of bits |
| `Lib` | memory, string and number functions of `libc` |
| `Programs` | the test programs over `Collective`'s promise |
| `MCLibrary`, `LibraryProofs` | instances of the eight before under one specification; `Queue`, `Timeouts`, `Install`, `CmdWatch` and `Programs` proved |

### Fmpi

One process per Pi.  `pc[n]` is where it is: `run` (outside a collective),
`putSync`/`putSend`/`put` (in `sw_uart_put8`, called by `send_signal` or
`send`), `waitSync`/`waitSend`/`getSync`/`get` (in `sw_uart_get8`, called by
`wait_signal`, `wait_signal_timeout`, `recv`), `delaySync`/`delay` (in
`delay_ms`) and `ret` (at the end of the collective).  `peer` is the loop
variable of the root, `idx` the one of `send` and `recv`, `call` counts the
collectives of the program `Prog`, which every Pi runs.

A frame is a start bit, data bits and a stop bit on the sender's line
(`StartBit`, `DataBits`, `StopBit`, then `Put8Returns`).  A receiver that polls
during the start bit gets the byte; one that starts polling during the data bits
takes a 0 bit for the start bit and gets one of `Garbage` (`Misread`) or nothing,
if no 0 bit is left.  `get8` returns in the stop bit (`StopBit`), so a receiver
is back before its sender, as in the code (9 against 10 bit times).

Time is discrete.  A frame takes 22 us and the delays tens of milliseconds, so
no tick passes while a frame is on a line; a computation between two collectives
takes up to `MaxCompute` ticks.  `Prompt` says that the code between `put8` and
`get8` takes less than a bit (1519 cycles), which the loops of `fmpi.c` do; it
is only needed with two Pis, where the root sends data to the worker whose
answer it has just received, or asks it for data, while that worker is still in
`put8`.  With `Prompt = FALSE` and two Pis `OnlyRequestsLost` does not hold; with
three or more it does without the assumption.

Not in the model: `Size = 1` (no worker, every collective a `memcpy`), a receiver
so slow between two bytes that it is not polling at the next start bit (`SwUart`
has that: `TMax`), the disturbance of bit timing by interrupts (render.c enables
the timer interrupt on the root), wire noise.

### SwUart

The two Pis' clocks run at the same rate and start at different moments: `sclk`
counts cycles since `put8` read its `s`, `rclk` since the receiver's last event.
Latencies are intervals: from the due time of an edge to the pin (`WMin..WMax`),
from a low line to the poll that sees it (`..PMax`), from that to `s`
(`CMin..CMax`), from the due time of a sample to the read (`SMin..SMax`), from
the end of `get8` to the next poll (`TMin..TMax`).  `LatencyAssumption` is what
sampling at bit edges needs: a sample never comes before its bit is written, the
receiver polls again only when the stop bit is up, and all latencies together
are below one bit time.  It links `SwUart` to `Fmpi`, which takes a whole frame
for a step.

### Async

Two processes.  `ipc` is the initiator, in `FMPI_PUT` or `FMPI_GET`: `putSync` and
`getSync` are the loop of `sync_me_last`, `putPkt` sends the packet, `getData`
receives the word of a GET.  `tpc` is the target: `boot` before
`rise_fall_int_startup`, `main` with interrupts on, `rise`, `riseClear`, `fall` in
the two handlers (in the order of the checked-in build,
`tests/0-mpi/fmpi-async.list`), then `falling_handler` from `toSync` to `clear`,
and `panic` in `interrupt_vector`.  `event` is the bit of `in_pin` in GPEDS0: both
edges set it once `test_startup` has run, `gpio_event_clear` resets it whatever
set it.  `itx` is the initiator's line, level by level, because the handlers read
the pin; `ttx` the target's.

A byte is drawn as low start bit, high bits, low bits, high stop bit, which is
what SYNC (7) and the command 1 look like.  A byte with more edges differs only
for a target outside its handler, and those are requests: SYNC.  A packet sent to
a target outside its handler cannot happen (`OnlySyncLost`).  A `get8` that
starts in the high bits waits for the low ones and reads garbage; FMPI_PUT pulls
the line down before the first start bit (`gpio_set_off`), and a `get8` that starts
in that gap reads the byte shifted by one bit.  `rising_init` lowers the target's
own line until `falling_init` raises it, so an initiator that polls it reads 255.

With `_size` above 2 the loop of `sync_me_last` repeats the handshake with the same
target, which answers only the first: it takes the next nine SYNCs for a packet
with command 7, ignores it and leaves its handler, and the tenth SYNC starts a
new handshake.  The call succeeds, about 900 ms later.

`Quick` says that the handlers read the pin before the line changes its level
again, 8.7 us at 115200 baud.  Nothing in the code bounds that time; with
`Quick = FALSE` (`async_slow`) a handler may be arbitrarily slow,
the initiator's calls still take effect correctly, but `interrupt_vector` may panic:
`rising_handler` reads the pin low, the line rises, `falling_handler` reads it high.
`NoPanic` and `Completes` are therefore stated under `Quick` only.

Not in the model: what follows the end of a program (the Pi reboots, its line goes
low), the reboot of a panic, the time `printk` takes, three Pis on one wire
(`TX_ASYNC` and `RX_ASYNC` are the same pins for every peer, so the code supports
one peer).

### Boot

`host` is my-install: `open` between two Pis, then inside `simple_boot`, named after
what it reads (`drain` and `discard` for the first GET_PROG_INFO, `info` for the
drain of further ones, `crc`, `success`), `echo` when all Pis are up, `died` after
a panic or die.  `cur` is the loop variable of the Pis.  `pi[i]` is Pi i inside
`get_code`: `wait` (wait_for_data), `op`, `info`, `put`, `code` for the word or bytes
it reads next, `run` after the branch, `reboot`.  `mem` holds what PUT8 has stored.

The lines are byte streams, because synchronisation is one of the protocol's
problems: a byte remembers its word and its place in it, and four bytes make a word
only in step.  A Pi whose tty is not open sends into the void.  Strings have
lengths 2 to 4, of any residue modulo 4 that matters for being in step.

`get_uint8` dies after 10 s without a byte (VTIME 100, see `set-tty-8n1.c:37`); a Pi
that waits for data sends every 300 ms, so the timeout can only strike when the
Pi is blocked in `boot_get8` or runs the program (`Silent`).  A reboot is assumed to
take less than 10 s.  `crc32` is taken for collision-free, and a garbled byte never
completes a protocol word.

The echoed checksum is read with `get_op`, whose comment forbids it for data: if it
equals PRINT_STRING the program cannot be booted.  The model takes checksums for
different from opcodes.  The collision check adds nbytes to an address that is always
`ARMBASE`; a garbled nbytes that wraps the sum passes it, and the Pi then waits for
bytes my-install does not have, as for any length that is too long.

A garbled address is not noticed: addr is outside the checksum (BOOTLOADER.md Q6
says so).  The model has three addresses, `ARMBASE`, 0 and any other.  At another one the
program is stored and started there, or does not read back (`Fail`); with 0 the bytes and the
checksum are right, the Pi sends BOOT_SUCCESS, `get_code` returns 0 and `notmain` reboots
(`Returns`, `main.c:46`), while my-install goes on to the next Pi.  So what `Loader` promises
is that a Pi that is reported *has been loaded* with its own bytes, in order and once; that it
was loaded at `ARMBASE`, and so runs, holds until something is lost or garbled or loses power
(`Home`, `Away`, `disturbed`).  A garbled `nbytes` is one of 0, one short and one too long.

A garbled length of a string (`PrintString`) is anything: my-install dies of one from 512, takes
as many bytes as any other says and is out of step from there, and with 0, where `nbytes - 1`
wraps, it prints all that comes (`printing`, `PrintAll`).

The two FIFOs of the Pi's UART hold 8 bytes.  While the Pi sends the four bytes of
a GET_PROG_INFO or the eight of GET_CODE and checksum it does not wait for its
transmit FIFO, and at most that many bytes can arrive; while it prints, nothing may
arrive: `QuietWhenPrinting`.

### Circular and Fifo

Every access to `c_buf`, `head` and `tail` that the code's barriers order is a step.
`ppc` and `cpc` are the positions of producer and consumer inside a call; `isr` says which
of them is the interrupt handler: it starts at any step of the other while `ints`
(interrupts enabled) lets it, and runs to its end.  The unsigned difference
`(head - tail) % CQ_N` is right because `CQ_N` divides 2^32, a named assumption.  The
refinement maps the contents of the abstract `Fifo` to the slots between `tail` and `head`.

`cq_peek_n` pops and puts `tail` back.  Nothing in `circular.h` says that interrupts have to
be off for that, and it does not work with a handler that pushes: while `tail` is lent the
handler may overwrite the elements being looked at, and when it pushed anything at all
`assert(sz == cq_nelem(c))` stops the program, unless it pushed exactly `CQ_N` elements, which the
assert cannot see.  `AssertsHold` says so for all asserts, both ways round; `Fifo`
promises nothing any more after a push during a look ahead (`Disturb`), and `PeekSeesFront`
speaks of the peeks without one.  `cq_peek` of one element is not affected.  No program of
the repository calls `cq_peek_n`.

`_push_w_drop` of `circular-T.h` is not modelled (the macro is never instantiated).  Read
against the comment at its head it is wrong: in a handler it moves the consumer's `tail`.

### TimerInt and EdgeInt

`TimerInt` has a processor with registers r0 (caller saved), r4 (callee saved), flags,
a banked `lr` and `spsr`, and programs of a few instructions: the loop of `timer.c`
(`ldr cnt`, `cmp`, `bge`, `add`) and the measurement of `render.c`.  The exception saves
pc + 4 and masks interrupts; `Enter` and `Pop` are the assembly; the C handler leaves
flags, r0 and lr in any state it likes.  The cycle counter has 6 values and the timer
reloads at 3, so the counter wraps between few interrupts, as it does in six seconds
against the timer's period.  `before` remembers the registers at the exception.

`Elapsed` states what render.c really prints, "cycles + 0xffffffff * wraps".  The wraps are
those the handler has counted up to `printk`, which includes any while the image goes out:
they make the printed time too long by whole wraps.  A wrap between `start` and the handler's
first look at the counter is not counted and makes it too short by one; render.c
waits 10 ms before `start`, and the timer's period is longer than that.  And each printed wrap is
one cycle less than 2^32.  The report is exact when there is no wrap at all.

`EdgeInt` has the registers GPREN, GPFEN, GPEDS and the interrupt enable, a wire from
pin 16 to 17 that is slower than a store (`Propagate`), and the two tests.  That a pulse
is over before the next `gpio_write` is the tests' assumption (`2-rise-fall-edge.c:12`):
`WriteTakesLong`.  The tests' text asks for a jumper between 20 and 21; the pins they
use are 16 and 17 (`test-interrupts.h:20`).  The handlers here are those of
`src/gpio_int`; the ones of `libpi/src` are in `Async`.

### Console

Pi i's `pc` follows `_cstart`, `uart_init` (off, on), `notmain`, `clean_reboot` (the exit
string), `uart_flush_tx`, `rpi_reboot` and the bootloader's first message.  `tx`, `shift`
and `rx` are the FIFOs and the byte on the wire, `tty` what the laptop has received.
`Echo(n)` is one turn of `pi_echo` that reads n bytes; `Skip`, `Typed`, `TypedToNobody`,
`Gone` and `Cat` are the other cases.  The user types whenever he likes, also while a Pi is in
`uart_init` or on its way back to the bootloader.  The exit string is three bytes of which the first occurs once,
as in "DONE!!!\n".

What the model says about the code:

* `pi_done` starts over with every read, stops at a NUL, and goes on behind a byte that
  does not match.  `pi_echo` misses an exit string that two reads share, one behind a NUL
  of the image in the same read, and one right behind a "D" (a byte of an image can be one):
  the "D" that begins the string is the byte that does not match.  It then waits for ever.
  `Obscured` names these three cases from what was read, not from what `pi_done` says, and
  `EchoEnds` excepts them and nothing else; it excepts a little more than is missed, since
  of several "D"s in a row every second is harmless.  pi_cat keeps its place between reads and
  has the NULs replaced first, so only the third case is left.
* Keys that reach a Pi before `uart_init` is through are lost: the clear of the FIFOs
  (`uart.c:156`) and the receiver that is off (`uart.c:150`) take them.  `InputIntact` is about
  the keys after that: `typed` starts when the receiver is on.
* A key for a tty that is gone ends the tool with `write_exact`'s panic.
* `done` comes from malloc: a Pi whose flag happens to be set is never read, so
  `EchoEnds` supposes they are clear; `CleanExit` holds whatever they are.
* Text of Pi 0 that shares a read with the end of the image is not shown.
* With `num_pis` = 0 the loop has nobody to wait for and goes on.

### Install and CmdWatch

`find_ttyusb_i(i)` takes the oldest tty whatever i is, up to 4, and panics above.  It works
because booting a Pi writes to its tty and makes it the newest, in seconds as `st_mtime` is
compared (`find-ttyusb.c:95`, `144`).  A short program boots in about one second, so a boot may
leave its tty with the second of another one; then the name decides, the next rank can get
the tty that was just booted, and my-install writes to a Pi that does not answer (`stuck`).
`tied` remembers that.  `Distinct` and `SameRanks` speak of the other runs, and `NoTies` says
when there are only these: if a boot takes longer than the granularity (`BootTime >= Granule`),
which the code does not ensure and the run does not assume (`BootTime = 1`, `Granule = 2`).

`stat` of a tty that has gone since `scandir` saw it ends the tool (`NotFound`), as no tty does.
The options `--first`, `--last` and `--device` choose a tty that the loop then overwrites; after
`--exec` come no more options, and a `todo` where the echo would be.  A negative `num_pis`
(undefined: the length of an array) is left out.

`CmdWatch` keeps the scan of the directory as one step per entry; saves remove and write files
between them.  A save in a second that `last_mtime` has reached already is never noticed, unless
a later one follows: `SavesBuilt` says nothing of it (`Fresh`), although the comment of
`check_activity` speaks of any change.  The comment above `run` says it exits when the command
fails; it only prints.  A fork that fails ends the tool.

### Queue, Timeouts, Random, Bits, Lib

`Queue` keeps the client's sequence `seq` beside `head`, `tail`, `next` and `cnt`;
`Represents` says that they spell it.

`Timeouts` has one process that asks for a wait and looks at the counter at least
every `Gap`.  Delays of nearly the whole range may be over and gone again between two
looks: `NotLate` speaks of those with `us + Gap <= 2^Width`; a timeout_t has no such limit.

`Random` has the real tables' separation and degree, arrays of 8 bytes and of 40 (the
linear and the additive generators), and compares every number with the recurrence.
The seeding's borrow happens for one seed in a hundred: the seeds include one.  The
comment of `initstate_r` says that it saves the current state like setstate; it does not,
so an array that initstate_r leaves is `lost`.  The first `pi_random()` without a seed
returns the second number.  On a 64 bit host seeds from 2^31 on give other numbers than
on the Pi; words are kept below that.

`Bits` and `Lib` are functions without state, compared with reference definitions over
all small arguments.  The references are C's, and four kinds of calls depart from them, each
a definition of its own that `LibraryRight` excepts and that says where the code is wrong:
`memset` returns the end of the bytes and not their beginning (`WrongValue`), `strncmp` goes on
behind a NUL (`ReadsOn`), `%llx` does not pad its low word with zeroes (`Unpadded`), and the
terminator of an output of just the size of its buffer falls one byte behind it, in spite of
the assert of `sprintk.c:8` (`ZeroOutside`).  In these calls the functions do not compute what
they should.

### Programs

A program is a sequence of local steps and collectives, taken as `Collective` promises
them, which `Fmpi` is shown to implement.  The share of one Pi is
written into each program: 128 of 256 rows in `matmul-hard.c`, 2 of 4 in `matmul.c`, 8 of 16
numbers in `mergesort.c`, which fit two Pis, and N / 1 rows in `render.c`, which fit one and is
edited for more.  So `rows_per_process` and `local_size` are constants beside `Size`, and
`Divides` says that there are as many Pis as the shares are for.  Only `matmul.c` asserts that
(`Asserts`).  On more Pis the root of every other program reads behind its array when it scatters
and writes behind it when it gathers (`Room`, `Spills`); that write is the step `Overruns`, and
the model says nothing of the Pi after it.  `mpi.c` divides by the number of processes and is
loaded only where the quotient is the constant.

The instances of `MCLibrary` have two Pis, which the shares `Rows` and `Share` are for, and
four: `RootHasResult` says that the root overruns nothing and has the result on the two,
`ProgramsEnd` that the programs end there and come to the assertion or to the overrun on the
four.  `render.c` as committed, on two Pis, is what the other programs are on four.
`mergesort.c` is written against an older
interface (`FMPI_Init` by value, a Scatter with four arguments): the model has its
algorithm.  The generator and `random_range` of render.c are replaced by arbitrary
circles.

## 3. Runs

| Run | Instance | Checks |
|---|---|---|
| `fmpi_three` | 3 Pis; bcast, scatter, barrier, gather (matmul-hard.c); 2-byte blocks | `Delivered`, `OnlyRequestsLost`, `AnswerInWindow`, `NeverBlowsUp`, `InductiveInv`, refinement of `Collective`, `Termination` |
| `fmpi_sizes` | 2 Pis with a prompt turn-around; 4 Pis, gather, gather, bcast, bcast, scatter; 3 Pis with root 1 | `Safe` (the invariants of `fmpi_three` for each), refinement, `Termination` |
| `fmpi_barrier` | 3 Pis, one barrier | violation of `BarrierHolds` |
| `swuart` | 9 cycles per bit, 3 bytes, latencies that use up `LatencyAssumption` | `Intact`, `OnItsBit`, `Received` |
| `async_slow` | `_size` 2; two PUTs, a GET, a PUT; any interrupt latency; 1000 ms and 500 s scaled to 5 and 8 ticks | `OnlySyncLost`, refinement of `AsyncStore` |
| `async_quick` | `_size` 3, `Quick`, the timeouts of the code | `NoPanic`, `Completes` |
| `boot` | 3 Pis, ttys opened with 0 to 7 leftover bytes, up to 4 queued GET_PROG_INFOs, one lost or garbled byte or one power failure | `TypeOK`, refinement of `Loader`, `QuietWhenPrinting`, `AllBooted` |
| `boot_garbled` | 1 Pi, one lost or garbled byte | violation of `HostEnds` |
| `circular` | 4 slots, calls of up to 2 elements | `AssertsHold`, `PeekSeesFront`, refinement of `Fifo`, `PopReturns` |
| `interrupts` | `timer.c` for 2 interrupts, `render.c`, and the two edge tests | `NoStray`, `EventsCounted`, `Elapsed`, `NothingElseTouched`, `ProgramsEnd` |
| `console` | 2 Pis, FIFOs of 1 byte, an image of 2 bytes with a NUL, output that ends like the exit string begins, 2 keys at any time, every way of cutting the output into reads, at most one cable pulled, before the first key; pi_cat with 1 Pi | `BytesIntact`, `CleanExit`, `EchoEnds` |
| `library` | the nine instances of `MCLibrary`, the test programs on two and on four Pis among them | `Represents`, `StreamsRight`, `TimeoutsExact`, `LibraryRight`, `RootHasResult`, `ToolsRight`, `AllEnd` |

Bounds of `Fmpi`.  A tick is 10 ms: `Delay` 7, `Timeout` 20, `GetTimeout` 50000, as in the
code.  `MaxCompute` 24 is more than a whole SYNC period, so a worker may arrive
in any phase of the root's retry loop, in its put8, in its window and after it,
and arrivals repeat after that.  Blocks have two bytes: a first, a last and a
step between them.  The first byte of each block is unique for call, Pi and
block; the last one has the value of SYNC or SEND, so protocol bytes and data
can be confused if the protocol allows it.  Four Pis is `MAX_RPIS`.

Bounds of `Async`.  A tick is 10 ms; `Delay` 2, `Timeout` 10, `SyncWait` 100,
`GetTimeout` 50000 as in the code, and up to `MaxThink` 12 ticks, more than a SYNC
period, before `Startup` and between calls.  The calls are those of
`tests/0-mpi/fmpi-async.c` and one more PUT to the first word, so that a repeated,
skipped or reordered write shows.  With the code's constants `sync_receiver` never
gives up: the initiator repeats SYNC until it is answered.  `async_slow` scales
the target's timeouts below the initiator's period to reach those branches.

Bounds of `Boot`.  A program has its two header bytes and two more.  `MaxJunk` 7 covers
every offset modulo 4, after a whole junk word and without one.  `MaxQueue` 16 lets
four GET_PROG_INFOs pile up before the host reads, and leaves room for the longest
message.  One fault at every moment, of any Pi's exchange, can leave either side out
of step.  It is fatal except where a reader skips it (the drain before the first
GET_PROG_INFO), since `simple_boot` never starts over; two faults that must conspire
are outside the bound of the run, but not of the theorems.

Other bounds.  `circular`: with four slots and calls of two, the queue runs full and
empty, indices wrap inside a call and calls are refused.  `interrupts`: one more than
twice the interrupts the program waits for, a clock that wraps inside a measurement and
before it, and a time at which it stops.  `console`: outputs longer than the FIFO, so
`uart_put8` waits; one key more than the FIFO holds, before, in and after `uart_init`; all three
ways to obscure an exit string.  `library`: waits of up to 11 microseconds on a counter
of 8 values, so several wraps; four calls of the random functions on two arrays; no
tty, three or five, all ranks up to the one that panics, boots shorter than the
granularity and longer ones, two runs; four seconds of `cmd-watch`; lists of up to four elements;
programs with four rows and 16 numbers, on the two Pis their shares are for and on twice as many.

The violations:

* `fmpi_barrier`: README.md promises a Barrier, and comments in `sync_root_last`
  ("after all ready", "wait for all ready signal") mark where a GO phase was;
  it is commented out.  A worker leaves once it has answered the root, while
  later workers have not arrived.  The data-moving collectives do not need more.
* `boot_garbled`: `simple_boot` ignores what it does not wait for, BOOT_ERROR and
  the GET_PROG_INFO of a rebooted Pi included; these repeats keep `read` from
  timing out, so my-install never ends.

Three more limits of the code shaped the models without a run of their own:

* `FMPI_Gather` (`fmpi.c:152`) and `FMPI_Scatter` (`fmpi.c:123`) copy the root's own block
  to and from block 0.  That is its place only if the root is Pi 0.  Everything else works
  with any root: only the theorems about results need `Placed` (`Root = 0`, or a program
  that neither scatters nor gathers), and the instance with root 1 uses such a program.
* `sw_uart_get8` "does blow up after a large number of seconds" by its comment; the
  panic is commented out, and `recv` stores the -1 as a byte.  `NeverBlowsUp` says that
  no `get8` gets there.
* the failed checks of `get_code` but the last call `panic`, which sends no BOOT_ERROR.

Fairness.  `Fmpi`, `Async`: `WF_vars(Next)`.  The Pis run a single thread on bare metal and
never stop, and time passes; no choice between actions is assumed fair.  That
`Termination` holds with so little is a consequence of the bounded delays: a worker polls
without pause when it waits, and the root's window is longer than the worker's delay.
Interrupts are not postponed for ever because the CPU takes a pending interrupt while
they are enabled.  `Boot` has weak fairness for my-install, for each Pi's reading of what
has arrived, for its repeats and for its reboot: both sides are single loops, and bytes
arrive.  `Circular`: both sides go on with a call they have begun, interrupts that
are switched off come on again, and the producer keeps having something to push whenever
it can (both strong: a blocking pop waits for just that).  `TimerInt`, `EdgeInt`: the
processor runs, the wire settles and time passes.  `Console`: each program, each UART and the
laptop's process go on; nobody need type or pull a plug.  `Install` and `Programs`: the single
process, or each Pi, goes on.  `CmdWatch`: so does the tool, the clock, and the editor writes a
file that it has removed.

## 4. Proofs

| Theorem | Statement | Hypotheses |
|---|---|---|
| `FmpiProofs!TypeCorrect` | `TypeOK` | - |
| `FmpiProofs!InductiveInvCorrect`, `NeverBlowsUpCorrect` | `InductiveInv`, `NeverBlowsUp` | `Prompt \/ Size > 2`, `Patient` |
| `FmpiProofs!SafeCorrect` | `Safe`: these two, `OnlyRequestsLost`, and `Delivered` where `Placed` | the same |
| `FmpiProofs!CollectivesCorrect` | `Delivered`, `OnlyRequestsLost`, `AnswerInWindow`, `Fmpi` implements `Collective` | the same and `Placed` |
| `FmpiProofs!DeliveredCorrect`, `RefinementCorrect`, and `OnlyRequestsLostCorrect`, `AnswerInWindowCorrect`, `InvariantCorrect` | the same and `IInv`, one by one, for a run in which no `recv` gives up | `Prompt \/ Size > 2`, `[]NeverBlowsUp` instead of `Patient`; the first two `Placed` |
| `SwUartProofs!IntactCorrect`, `OnItsBitCorrect`, `InvariantCorrect` | `Intact`, `OnItsBit`, `IInv` | - |
| `AsyncProofs!OnlySyncLostCorrect`, `ExecutesCallsCorrect`, `ImplementsCorrect`, `InvariantCorrect` | `OnlySyncLost`, `ExecutesCalls`, `Async` implements `AsyncStore`, `IInv` | - |
| `AsyncProofs!NoPanicCorrect` | `NoPanic` | `Quick` |
| `BootProofs!ImplementsCorrect`, `TypeCorrect`, `QuietCorrect`, `InvariantCorrect` | `Boot` implements `Loader`, `TypeOK`, `QuietWhenPrinting`, `IInv` | - |
| `CircularProofs!TypeCorrect`, `AssertsCorrect`, `PeekCorrect`, `RefinementCorrect` | `TypeOK`, `AssertsHold`, `PeekSeesFront`, `Circular` implements `Fifo` | - |
| `InterruptProofs!NoStrayCorrect`, `EventsCountedCorrect`, `ElapsedCorrect`, `NothingElseTouchedCorrect` | `NoStray`, `EventsCounted`, `Elapsed`, `NothingElseTouched` | `Frequent`: `Load + 2 * HandlerTime < Width` |
| `ConsoleProofs!BytesIntactCorrect` | `BytesIntact` | - |
| `ConsoleProofs!CleanExitCorrect` | `CleanExit` | `Unambiguous` |
| `LibraryProofs!QueueRepresents` | `Represents` | - |
| `LibraryProofs!TimeoutsCorrect` | `TimeoutsExact` | `Looks`: the counter has a bit, `Gap < 2^Width` |
| `LibraryProofs!ToolsCorrect` | `ToolsRight` | `InstallsWell`: the constants have their types |
| `LibraryProofs!ProgramsCorrect` | `RootHasResult` | `PisRight`: the shares are the whole on `Few` Pis, `Many` are more |

Each holds for all values of the constants that satisfy the assumptions of its module: any
number of Pis, any program, any data, any timing; for `Boot` any number of faults.

What the hypotheses mean.  `Patient` says that the 500 s of `sw_uart_get8` outlast one round
of the root's loop: (`Size` - 1) turns of at most `MaxCompute`, 200 ms and 70 ms, and as many
delays.  With four Pis that is so for programs that compute up to about 166 s between two
collectives; the tests compute for seconds.  `Quick` is described under `Async`.  `Frequent`:
the timer's period and two runs of the handler take less than 2^32 cycles (6 s); the programs
load the timer with at most 0x100000, so their periods are well below that.
`Unambiguous`: no program prints the exit string before its end, and the image is part of the output; a program that does so is taken for finished, as the comment
of `pi_done` admits ("maybe should check if DONE!!! is last thing printed?").

`Fmpi`.  `Delivered` alone is not inductive: that a byte arrives needs to know where its
receiver is when it is sent.  `IInv` (end of `Fmpi`) places every worker relative
to the root's loop (`Meets`): workers the loop has passed have answered SYNC, or
have their data; workers ahead of it wait; the current one is in the state that
matches the root's (`Requested`, `Answering`, `Sending`, `Calling`,
`Collecting`).  `WireInv` ties frames to their senders, `RootInv` and `WorkerInv`
tie a Pi's position to its collective, `TurnInv` says that two stop bits never
overlap (the turn-around), `BufInv` fixes every cell of every receive buffer.
The proof goes conjunct by conjunct (`StepWire`, `StepRoot`, `StepTurn`,
`StepMeets`, `StepWorker`, `StepBuf...`, `StepDelivered`), each by the actions of
`Next`.  The refinement follows: a Pi enters a call of `Collective` when it leaves `run`,
and leaves it, with `BufInv`'s buffer, when it reaches `ret`; `Meets` gives the waiting
that `Collective` demands, and every other step is a stutter.

The step of `IInv` uses that no `recv` gives up in it, because a Pi that leaves a `recv`
with a -1 is nowhere `Meets` would have it.  `Patience` closes that circle.  It gives each Pi
that polls in `recv` more ticks than whoever it polls for can still spend: a worker the root's
turn (`TurnLeft`), a turn for each worker before it in the loop (`TurnsAfter`) and the delays
(`Delays`), counted by the workers' places in that loop (`Rank`, which leaves the root out);
the root the delay of the worker that is about to send.  `InductiveInv` is `IInv`
and `Patience` together, inductive without a hypothesis on the run, and it implies
`NeverBlowsUp`.

`Async`.  `IInv` says, for every position of the initiator, where the target may be: `Frames`
ties the levels of the initiator's wire to its position, `Counts` the calls executed to the
calls made (they differ only between the packet's arrival and the initiator's return), `Words`
the bytes the target has gathered to the packet's, `Answering` and `Receiving` place the target
during the handshake and the packet, and `Replying` during the word of a GET.  `Counts` and
`Words` cover the repeated handshakes of `_size` above 2, where the target takes nine SYNCs for
a packet: its first byte is no command.  `NoPanic` needs one conjunct more (`Explained`): a
handler that saw the line low finds event and level as they were.

`Boot`.  `IInv` is `Types`, `Loop` (which Pis are up), `ToPi` (what can be on its way to the Pi)
and `Exchange`, which lists what may be on the two lines for each pair of positions of
my-install and the Pi.  Faults only take words away or replace them by words no reader takes for
one of the protocol, and a Pi runs a program only when its checksum was right; so nothing in it
depends on their number.  `QuietWhenPrinting` speaks of runs without a fault, in which a stronger
invariant holds (`Exact`): what is on the line to the Pi is the rest of the one message it is
reading.  From it follows `Home`, that the address such a Pi has taken is `ARMBASE`, which the
refinement needs for a `Load` that nothing disturbed.

`SwUart`.  `SenderInv` bounds the sender's clock by its edge, `ReceiverInv` the receiver's
lag, for all latencies within `LatencyAssumption`.

`Circular`.  The invariant gives, for each position of each side, what it has read and
what the other side can have changed since: the producer only shrinks the free space,
the consumer only the contents.  Inside a `cq_peek_n` the distance from its start to `head`
is, modulo the size, what it was and what has been pushed since (`Lent`).  From this the
asserts, and that each of the two writes that take effect is one step of `Fifo`.

`TimerInt` and `EdgeInt`.  `Readings` bounds the cycles since the counter was last read by the
timer's load and two runs of the handler; that this is below `Width` makes each wrap visible as
a reading below the one before.  `Saved` says where the interrupted program's registers are at
each instruction of the exception, `Statics` what handler and program leave in memory.
For the pin, `Edges` says that at most one edge waits, and only before interrupts are enabled
or where the test waits for the wire, so none can be merged in the one event bit.  That `gpio_set_function` touches one pin is
arithmetic on the word of ten fields, for every content of the word.

`Queue`.  The invariant is `Represents` with the links of each position; one lemma per
operation.

`Timeouts`.  A lemma on differences modulo the width (the difference of two readings is
that of the times, as far as it fits, and never more), and an invariant that says a wait
that goes on was not over at the last look.

`Install`.  `Times`: no tty is newer than now.  `Ranked`: if no boot left a tie,
the ttys this run has booted are newer than all others, so the oldest is not one of them while
one is left.  `NoTies` follows from `Times`: at the end of a long boot all others are older.  That there is an
oldest follows from the well-foundedness of inclusion on finite sets.  `InOrder` and `Cycle`:
the ranks of the last run are in the order of the times, so the next run meets them in turn.

`CmdWatch`.  `NoneOvertaken`: while the program sleeps or waits for its command, a file saved
and not yet seen is no older than `last_mtime`, so the next scan misses it only if it fell into
that same second.

`Programs`.  First that the Pis run in step (`Lockstep`): every Pi is where the program brings
it (`After`), and what it gave to each call is what it had at that step, although the Pis that
receive it may be steps behind or ahead (`Progress`, `Arrived`, `GaveInTurn`).  So what a Pi's
arrays hold at a step does not depend on the order.  Then, program by program, what each step
leaves and that the last leaves the result: `ExampleResult`, `HardResult`, `SortResult`,
`RenderResult`.  The sums, `merge` and `merge_sort` need induction over numbers; it is stated of
a set, that a set of numbers closed under successor holds all (`Counting`), and follows from the
well-foundedness of inclusion on finite sets.  For `mergesort.c` the theorem is about the array
that the program fills in, which falls; that `merge` sorts any two sorted stretches is not
stated.  `matmul.c` asserts two Pis and 4 rows: with others it stops there (`Asserts`).  That the root
overruns nothing on as many Pis as the shares are for is the last step's `Room`.

`Console`, the bytes.  `PiInv` adds to the order of the bytes where FIFOs are empty: before
`uart_init` clears them, and after the flush that the reset follows.  The rest is
associativity: a byte that crosses from one part of the line to the next leaves the whole
as it was.  For the keys, the program has an order-preserving choice of what was typed
(`LeavesOutMore`), and a receiver without room has been sent more than its FIFO holds.

`Console`, the end.  `Said`: what went to the UART and what is left to print are the output, then
the exit string, then the bootloader's word; so with the order of the bytes everything read is a
beginning of that.  An induction over the buffer (`Counting`, `ScanInv`) says that `pi_done` finds
the exit string only where it is, and that pi_cat's static position counts exactly the bytes of it
with which the reads so far end.  By `Unambiguous` that is at the end of the output.
`EchoInv`: `count` is the number of Pis that were read and found done, whatever malloc left in
`done`; when it reaches `num_pis` all of them are.

Only model-checked: all liveness; and `StreamsRight` and `LibraryRight`, which state what
recursive definitions, folds and bit operations compute (`Random`, `Bits`, `Lib`) for every
argument, and so need induction over data that the prover does not offer.  Every other
invariant and action property of a run is stated by a theorem; those of `MCFmpiSizes` are the
theorems of `FmpiProofs`, one instance each.

## 5. Not modelled

* single instructions and coprocessor accesses: `memcpy256`, caches, performance
  counters, start-up assembly, memory barriers (the models order what they order);
* wrappers of system calls in libunix (`read_exact`, `write_exact`, `read_file`,
  `set_tty_to_8n1`, `tty_gone`): what they promise is part of their callers' models;
* register setup that only depends on constants: the baud rate of the UART, pull-ups,
  the prescaler of the timer;
* tracing, usage texts, formatting other than of numbers; `fast-hash32.h`, `pretty-time.h`;
* `src/openmpi`, notes, firmware, build products; tests that no longer build.

What would come next: a composition of `SwUart` and `Fmpi` with the timer interrupt that
render.c enables on the root, which disturbs the timing of bits; and theorems for
collectives without blocks under a root other than Pi 0.
