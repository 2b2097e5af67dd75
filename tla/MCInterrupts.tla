---------------------------- MODULE MCInterrupts ----------------------------
(***************************************************************************)
(* Instances of TimerInt and EdgeInt for TLC: the programs of both use the *)
(* one interrupt line, never together, and "which" says whose runs.  The   *)
(* variables the two modules have in common are the processor's.           *)
(***************************************************************************)
CONSTANTS Width, Load, N, HandlerTime, SendTime, MaxClock, Pulses

VARIABLES which,
    program, clock, offset, basic, value, pending, other, table, regs, irqOff,
    ipc, lr, spsr, stack, spent, before, cnt, last, count, firstRead, lastRead,
    readZero, start, end, report,
    test, fsel, latch, level, GPREN, GPFEN, GPEDS, ENIRQ2, vector_reg, pc, i,
    found, n_interrupt, n_rising, n_falling, rises, falls, panic

T == INSTANCE TimerInt
E == INSTANCE EdgeInt WITH N <- Pulses

ASSUME MCInterruptsAssumption == T!Frequent

timerOnly == <<program, clock, offset, basic, value, pending, other, table, regs, lr, spsr,
               stack, spent, before, cnt, last, count, firstRead, lastRead, readZero,
               start, end, report>>
edgeOnly == <<test, fsel, latch, level, GPREN, GPFEN, GPEDS, ENIRQ2, vector_reg, pc, i, found,
              n_interrupt, n_rising, n_falling, rises, falls, panic>>
vars == <<which, timerOnly, edgeOnly, irqOff, ipc>>

Absent(v) == v = "-"

MCInit ==
    \/ /\ which = "timer" /\ T!Init
       /\ Absent(test) /\ Absent(fsel) /\ Absent(latch) /\ Absent(level) /\ Absent(GPREN)
       /\ Absent(GPFEN) /\ Absent(GPEDS) /\ Absent(ENIRQ2) /\ Absent(vector_reg) /\ Absent(pc)
       /\ Absent(i) /\ Absent(found) /\ Absent(n_interrupt) /\ Absent(n_rising)
       /\ Absent(n_falling) /\ Absent(rises) /\ Absent(falls) /\ Absent(panic)
    \/ /\ which = "edge" /\ E!Init
       /\ Absent(program) /\ Absent(clock) /\ Absent(offset) /\ Absent(basic) /\ Absent(value)
       /\ Absent(pending) /\ Absent(other) /\ Absent(table) /\ Absent(regs) /\ Absent(lr)
       /\ Absent(spsr) /\ Absent(stack) /\ Absent(spent) /\ Absent(before) /\ Absent(cnt)
       /\ Absent(last) /\ Absent(count) /\ Absent(firstRead) /\ Absent(lastRead)
       /\ Absent(readZero) /\ Absent(start) /\ Absent(end) /\ Absent(report)

Timer(A) == which = "timer" /\ A /\ UNCHANGED <<which, edgeOnly>>
Edge(A) == which = "edge" /\ A /\ UNCHANGED <<which, timerOnly>>

MCNext == Timer(T!Next) \/ Edge(E!Next)

MCFairness ==
    /\ WF_vars(Timer(T!Handler \/ T!Instructions)) /\ WF_vars(Timer(T!Tick))
    /\ WF_vars(Edge(E!Handler \/ E!Program)) /\ WF_vars(Edge(E!Propagate))

MCSpec == MCInit /\ [][MCNext]_vars /\ MCFairness

\* Each module's properties, of the runs of its programs.

\* No exception is taken before the table is there or inside a handler, and the
\* handler of the edges finds a reason for every interrupt (interrupts-asm.S:79,
\* gpio_int/test-interrupts.c:42).
NoStray ==
    /\ which = "timer" => T!IInv /\ T!NoStrayException
    /\ which = "edge" => E!IInv /\ E!NoPanic

\* Every wrap of the counters, every period and every edge is counted once
\* (timer-int.c:214, timer_int/timer.c, gpio_int/*.c).
EventsCounted ==
    /\ which = "timer" => T!OverflowCounted /\ T!PeriodsAddUp
    /\ which = "edge" => E!EdgesCounted

\* What render.c prints for the time between start and end (render.c:176), and
\* by how much it is off.
Elapsed == [][which = "timer" => T!Reports]_vars

\* An interrupt leaves the registers and flags of the interrupted program alone
\* (interrupts-asm.S:79-107), and setting a pin the other pins (gpio.c:141-147).
NothingElseTouched == [][/\ which = "timer" => T!Resumes
                         /\ which = "edge" => E!SetsOnePin]_vars

\* The loops and tests end although interrupts keep coming.
ProgramsEnd ==
    /\ (which = "timer" /\ program = "timer.c") ~> (which = "timer" /\ T!Done)
    /\ (which = "edge") ~> (which = "edge" /\ E!Done)
=============================================================================
