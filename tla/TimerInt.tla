------------------------------ MODULE TimerInt ------------------------------
(***************************************************************************)
(* Timer interrupts: interrupts-asm.S, libpi/src/timer-int.c and the two   *)
(* programs that use them.  A processor with a banked lr and spsr runs a   *)
(* program instruction by instruction; the ARM timer counts down and sets  *)
(* one pending flag; the exception code saves, calls interrupt_vector and  *)
(* restores.  Program "timer.c" (src/timer_int) loops until N interrupts   *)
(* and sums the periods; "render.c" times a computation with the 32-bit    *)
(* cycle counter, whose wraps the handler of timer-int.c counts.           *)
(***************************************************************************)
EXTENDS Integers, Sequences

CONSTANTS
    Width,          \* 2^32, the modulus of the two free running counters
    Load,           \* the timer's reload value
    N,              \* timer.c: interrupts to wait for
    HandlerTime,    \* bound: time one run of the handler takes at most
    SendTime,       \* render.c: least time the image takes to go out
    MaxClock        \* bound: time stops here

VARIABLES
    program,        \* the program that runs
    clock,          \* time since timer_init
    offset,         \* the counters' value then
    basic,          \* the timer interrupt is enabled in the controller
    value,          \* the timer counts down
    pending,        \* its interrupt flag
    other,          \* a source nobody enabled is about to interrupt, once
    table,          \* the exception table is at address 0
    regs,           \* r0 is caller saved, r4 callee saved, flags are those of cpsr
    irqOff,         \* bit 7 of cpsr
    ipc,            \* the instruction of interrupt_asm, "-" outside of it
    lr, spsr,       \* banked
    stack,          \* at INT_STACK_ADDR
    spent,          \* time in this run of the handler
    before,         \* history: regs and irqOff where the program was interrupted
    cnt, last, count,       \* the handler's statics; last is last_clk or last_cnt,
                            \* count is period_sum or overflow_count
    firstRead, lastRead,    \* history: when it read the counter, unwrapped
    readZero,               \* history: the counter was 0 then
    start, end, report      \* render.c: the readings, unwrapped, and what it prints

clocks == <<clock, offset>>
timer == <<value, pending, other>>
cpu == <<regs, irqOff>>
handler == <<ipc, lr, spsr, stack, spent, before>>
statics == <<cnt, last, count, firstRead, lastRead, readZero>>
timing == <<start, end, report>>
vars == <<program, clocks, basic, timer, table, cpu, handler, statics, timing>>

Code == [p \in {"timer.c", "render.c"} |->
    <<"interrupt_init", "timer_init", "enable_interrupts">> \o
    IF p = "timer.c" THEN <<"ldr", "cmp", "bge", "add", "done">>
                     ELSE <<"start", "end", "report", "done">>]

\* The address of the instruction with this name: they are 4 bytes long.
At(name) == 4 * (CHOOSE i \in DOMAIN Code[program] : Code[program][i] = name)
Addresses == {4 * i : i \in DOMAIN Code[program]}
Instruction == Code[program][regs.pc \div 4]

Now == offset + clock
Reading == Now % Width
Interrupted == (pending /\ basic) \/ other

Init ==
    /\ program \in {"timer.c", "render.c"}
    /\ clock = 0 /\ offset \in 0..(Width - 1)
    /\ basic \in BOOLEAN /\ pending \in BOOLEAN /\ value = 0 /\ other \in BOOLEAN
    /\ table = FALSE
    /\ regs = [r0 |-> 0, r4 |-> 0, flags |-> FALSE, pc |-> 4] /\ irqOff = TRUE
    /\ ipc = "-" /\ lr = 0 /\ spsr = [flags |-> FALSE, irqOff |-> TRUE] /\ stack = <<>>
    /\ spent = 0 /\ before = <<regs, irqOff>>
    /\ cnt = 0 /\ last = 0 /\ count = 0
    /\ firstRead = -1 /\ lastRead = -1 /\ readZero = FALSE
    /\ start = -1 /\ end = -1 /\ report = <<>>

-----------------------------------------------------------------------------
(* Time and the timer.                                                     *)

\* An interrupt that is not masked is taken before anything else happens.
\* Bounds: MaxClock, Load for the time until interrupts are enabled, and the
\* handler takes its time before, between and after its reads.
Tick ==
    /\ value > 0 /\ clock < MaxClock
    /\ ipc = "-" => IF irqOff THEN clock < Load ELSE ~Interrupted
    /\ ipc # "-" => spent < HandlerTime /\ ipc \in {"enter", "count", "pop"}
    /\ clock' = clock + 1
    /\ value' = IF value = 1 THEN Load ELSE value - 1
    /\ pending' = (pending \/ value = 1)
    /\ spent' = IF ipc = "-" THEN 0 ELSE spent + 1
    /\ UNCHANGED <<program, offset, basic, other, table, cpu, ipc, lr, spsr, stack, before, statics, timing>>

-----------------------------------------------------------------------------
(* The exception: the processor's part and interrupt_asm.                  *)

\* The processor saves where it was, 4 bytes ahead, and masks interrupts.
\* Bound: 2 * N + 1 interrupts; time stops before.
Exception ==
    /\ cnt <= 2 * N
    /\ ipc = "-" /\ Interrupted /\ ~irqOff /\ table
    /\ lr' = regs.pc + 4
    /\ spsr' = [flags |-> regs.flags, irqOff |-> irqOff]
    /\ irqOff' = TRUE
    /\ other' = FALSE
    /\ before' = <<regs, irqOff>>
    /\ ipc' = "enter" /\ spent' = 0
    /\ UNCHANGED <<program, clocks, basic, value, pending, table, regs, stack, statics, timing>>

\* Variant for mutation: mov r0, lr comes before the push.
EnterUnsaved ==
    /\ ipc = "enter" /\ ipc' = "vector"
    /\ lr' = lr - 4
    /\ stack' = <<lr', regs.r4, lr'>>
    /\ regs' = [regs EXCEPT !.r0 = lr']
    /\ UNCHANGED <<program, clocks, basic, timer, table, irqOff, spsr, spent, before, statics, timing>>

\* mov sp, #INT_STACK_ADDR; sub lr, lr, #4; push {r0-r12,lr}; mov r0, lr; bl.
Enter ==
    /\ ipc = "enter" /\ ipc' = "vector"
    /\ lr' = lr - 4
    /\ stack' = <<regs.r0, regs.r4, lr'>>
    /\ regs' = [regs EXCEPT !.r0 = lr']
    /\ UNCHANGED <<program, clocks, basic, timer, table, irqOff, spsr, spent, before, statics, timing>>

\* interrupt_vector: some other source, or the timer, whose flag it clears.
Vector ==
    /\ ipc = "vector"
    /\ ipc' = IF pending THEN "count" ELSE "pop"
    /\ pending' = FALSE
    /\ UNCHANGED <<program, clocks, basic, value, other, table, cpu, lr, spsr, stack, spent, before,
                   statics, timing>>

CountReturns ==
    /\ ipc = "count" /\ ipc' = "pop"
    /\ last' = IF program = "render.c" /\ last > Reading THEN last ELSE Reading
    /\ IF program = "timer.c"
       THEN /\ cnt' = cnt + 1
            /\ count' = IF last # 0 THEN (count + ((Reading - last) % Width)) % Width ELSE count
       ELSE /\ count' = IF last > Reading THEN count + 1 ELSE count
            /\ UNCHANGED cnt
    /\ firstRead' = IF firstRead = -1 THEN Now ELSE firstRead
    /\ lastRead' = Now
    /\ readZero' = (readZero \/ Reading = 0)
    /\ UNCHANGED <<program, clocks, basic, timer, table, cpu, lr, spsr, stack, spent, before, timing>>

\* The rest of interrupt_vector: of timer.c, which sums the times since the
\* last interrupt, or of timer-int.c, which counts wraps.
Count ==
    /\ ipc = "count" /\ ipc' = "pop"
    /\ last' = Reading
    /\ IF program = "timer.c"
       THEN /\ cnt' = cnt + 1
            /\ count' = IF last # 0 THEN (count + ((Reading - last) % Width)) % Width ELSE count
       ELSE /\ count' = IF last > Reading THEN count + 1 ELSE count
            /\ UNCHANGED cnt
    /\ firstRead' = IF firstRead = -1 THEN Now ELSE firstRead
    /\ lastRead' = Now
    /\ readZero' = (readZero \/ Reading = 0)
    /\ UNCHANGED <<program, clocks, basic, timer, table, cpu, lr, spsr, stack, spent, before, timing>>

\* pop {r0-r12,lr}, after C has used the flags, the caller saved registers and
\* lr as it liked.
Pop ==
    /\ ipc = "pop" /\ ipc' = "movs"
    /\ regs' = [regs EXCEPT !.r0 = stack[1], !.r4 = stack[2], !.flags = ~before[1].flags]
    /\ lr' = stack[3]
    /\ stack' = <<>>
    /\ UNCHANGED <<program, clocks, basic, timer, table, irqOff, spsr, spent, before, statics, timing>>

\* movs pc, lr.
Movs ==
    /\ ipc = "movs" /\ ipc' = "-"
    /\ regs' = [regs EXCEPT !.pc = lr, !.flags = spsr.flags]
    /\ irqOff' = spsr.irqOff
    /\ UNCHANGED <<program, clocks, basic, timer, table, lr, spsr, stack, spent, before, statics, timing>>

-----------------------------------------------------------------------------
(* The programs.                                                           *)

Runs(name) == ipc = "-" /\ (Interrupted => irqOff) /\ Instruction = name
Next4 == regs.pc + 4
Goto(pc) == regs' = [regs EXCEPT !.pc = pc]

\* interrupt_init: interrupts off, copy the table.
interrupt_init ==
    /\ Runs("interrupt_init") /\ Goto(Next4)
    /\ irqOff' = TRUE /\ table' = TRUE
    /\ UNCHANGED <<program, clocks, basic, timer, handler, statics, timing>>

\* timer_init with one of the prescales: the timer runs.
timer_init ==
    /\ Runs("timer_init") /\ Goto(Next4)
    /\ basic' = TRUE /\ value' = Load
    /\ UNCHANGED <<program, clocks, pending, other, table, irqOff, handler, statics, timing>>

enable_interrupts ==
    /\ Runs("enable_interrupts") /\ Goto(Next4)
    /\ irqOff' = FALSE
    /\ UNCHANGED <<program, clocks, basic, timer, table, handler, statics, timing>>

\* while(cnt < N) iter++: iter is in r4, cnt is volatile.
Ldr == /\ Runs("ldr")
       /\ regs' = [regs EXCEPT !.r0 = cnt, !.pc = Next4]
       /\ UNCHANGED <<program, clocks, basic, timer, table, irqOff, handler, statics, timing>>
Cmp == /\ Runs("cmp")
       /\ regs' = [regs EXCEPT !.flags = (regs.r0 >= N), !.pc = Next4]
       /\ UNCHANGED <<program, clocks, basic, timer, table, irqOff, handler, statics, timing>>
Bge == /\ Runs("bge")
       /\ Goto(IF regs.flags THEN At("done") ELSE Next4)
       /\ UNCHANGED <<program, clocks, basic, timer, table, irqOff, handler, statics, timing>>
Add == /\ Runs("add")
       /\ regs' = [regs EXCEPT !.r4 = (regs.r4 + 1) % 2, !.pc = At("ldr")]
       /\ UNCHANGED <<program, clocks, basic, timer, table, irqOff, handler, statics, timing>>

\* render.c reads start whether the timer has interrupted by then or not ...
ReadStart ==
    /\ Runs("start") /\ Goto(Next4)
    /\ start' = Now
    /\ UNCHANGED <<program, clocks, basic, timer, table, irqOff, handler, statics, end, report>>

ReadEnd ==
    /\ Runs("end") /\ Goto(Next4)
    /\ end' = Now
    /\ UNCHANGED <<program, clocks, basic, timer, table, irqOff, handler, statics, start, report>>

elapsed_cycles(s, e) == IF e >= s THEN e - s ELSE (Width - 1) - s + e + 1
\* Variant for mutation: render.c before it corrected the count.
has_overflowNever(s, e) == 0

has_overflow(s, e) == IF e >= s THEN 0 ELSE 1

\* ... and sends the image before it asks for the overflow count.
Report ==
    /\ Runs("report") /\ clock + offset >= end + SendTime /\ Goto(Next4)
    /\ LET s == start % Width  e == end % Width
       IN  report' = <<elapsed_cycles(s, e), count - has_overflow(s, e)>>
    /\ UNCHANGED <<program, clocks, basic, timer, table, irqOff, handler, statics, start, end>>

Instructions == \/ interrupt_init \/ timer_init \/ enable_interrupts
                \/ Ldr \/ Cmp \/ Bge \/ Add \/ ReadStart \/ ReadEnd \/ Report
Handler == Exception \/ Enter \/ Vector \/ Count \/ Pop \/ Movs

Next == Tick \/ Handler \/ Instructions

\* The processor runs and time passes.
Fairness == WF_vars(Handler \/ Instructions) /\ WF_vars(Tick)

Spec == Init /\ [][Next]_vars /\ Fairness

-----------------------------------------------------------------------------
TypeOK ==
    /\ value \in 0..Load /\ regs.pc \in Addresses /\ regs.flags \in BOOLEAN
    /\ ipc \in {"-", "enter", "vector", "count", "pop", "movs"}
    /\ last \in 0..(Width - 1) /\ cnt \in Nat /\ count \in Nat /\ spent \in 0..HandlerTime

\* The interrupted program goes on where it was, with its registers and flags,
\* as if nothing had happened (interrupts-asm.S:79-107), whatever the handler
\* did with the registers C lets it use.
Resumes == ipc # "-" /\ ipc' = "-" => <<regs', irqOff'>> = before

\* No exception is taken before the table is there, and none in the handler.
NoStrayException == (Interrupted /\ ~irqOff => table) /\ (ipc # "-" => irqOff)

\* Every wrap between two readings of the handler is counted once, since there
\* is a reading more often than the counter wraps.
OverflowCounted ==
    program = "render.c" /\ firstRead # -1 =>
        count = lastRead \div Width - firstRead \div Width

\* The periods add up to the time between the first and the last interrupt,
\* unless the clock read 0, which the handler takes for "no interrupt yet".
PeriodsAddUp ==
    program = "timer.c" /\ firstRead # -1 /\ ~readZero =>
        count = (lastRead - firstRead) % Width

\* What render.c tells its reader took "cycles + 0xffffffff * wraps"
\* (render.c:176): the time from start to end, but one cycle less for each wrap,
\* one wrap more for each the handler counted before start or while the image
\* was on its way to the laptop, and one wrap less when the counter wrapped
\* between start and the first interrupt, which only notes the clock.
Printed(cycles, wraps) == cycles + (Width - 1) * wraps
Reports ==
    report' # report =>
        Printed(report'[1], report'[2]) =
            (end - start) - report'[2]
            + Width * ((start \div Width - firstRead \div Width)
                       + (lastRead \div Width - end \div Width))
Elapsed == [][Reports]_vars

\* timer.c's loop ends: the handler lets it run between the interrupts.
Done == ipc = "-" /\ Instruction = "done" /\ cnt >= N
-----------------------------------------------------------------------------
(* Why: what the variables say of the time and of each other.              *)

Registers == [r0 : Int, r4 : Nat, flags : BOOLEAN, pc : Addresses]

\* The widths of the types, and the parts of a run of the handler.
Types ==
    /\ program \in {"timer.c", "render.c"}
    /\ clock \in Nat /\ offset \in Nat /\ value \in 0..Load /\ spent \in 0..HandlerTime
    /\ basic \in BOOLEAN /\ pending \in BOOLEAN /\ other \in BOOLEAN
    /\ table \in BOOLEAN /\ irqOff \in BOOLEAN
    /\ regs \in Registers
    /\ ipc \in {"-", "enter", "vector", "count", "pop", "movs"}
    /\ last \in 0..(Width - 1) /\ cnt \in Nat /\ count \in Nat
    /\ firstRead \in Int /\ lastRead \in Int /\ start \in Int /\ end \in Int
    /\ readZero \in BOOLEAN

\* What the start-up has done by the program's position; interrupts are masked
\* before its end and in the handler.
SetUp ==
    /\ regs.pc > 4 => table
    /\ regs.pc > 8 => basic /\ value > 0
    /\ irqOff <=> (regs.pc <= 12 \/ ipc # "-")
    /\ ipc # "-" => regs.pc > 12

\* Where the interrupted program's registers are.
Saved ==
    /\ ipc # "-" =>
          /\ before = <<before[1], FALSE>> /\ before[1] \in Registers
          /\ before[1].pc = regs.pc
          /\ spsr = [flags |-> before[1].flags, irqOff |-> FALSE]
    /\ ipc = "enter" => regs = before[1] /\ lr = regs.pc + 4
    /\ ipc \in {"vector", "count", "pop"} => stack = <<before[1].r0, before[1].r4, regs.pc>>
    /\ ipc = "movs" => lr = regs.pc /\ regs.r0 = before[1].r0 /\ regs.r4 = before[1].r4

\* How long ago the last reading was: the timer interrupts once in Load, is
\* served when the handler that runs has returned, and is read by the next.
Since == Now - lastRead
Readings ==
    firstRead # -1 =>
        /\ firstRead \in Nat /\ firstRead <= lastRead /\ lastRead <= Now /\ regs.pc > 12
        /\ ~pending /\ ipc # "count" => Since + value <= Load
        /\ pending /\ ipc = "-" => Since <= Load + HandlerTime
        /\ ipc = "count" \/ (pending /\ ipc \in {"enter", "vector"})
              => Since <= Load + HandlerTime + spent
        /\ pending /\ ipc \in {"pop", "movs"} => Since <= Load + spent

\* What the handler has made of its readings.
Statics ==
    /\ firstRead = -1 => last = 0 /\ count = 0 /\ lastRead = -1
    /\ firstRead # -1 => last = lastRead % Width
    /\ firstRead # -1 /\ ~readZero => last # 0
    /\ OverflowCounted /\ PeriodsAddUp

IInv == Types /\ SetUp /\ Saved /\ Readings /\ Statics

\* The counters are read more often than they wrap.
Frequent ==
    /\ Width \in Nat \ {0} /\ Load \in Nat \ {0} /\ N \in Nat /\ HandlerTime \in Nat
    /\ Load + 2 * HandlerTime < Width
=============================================================================
