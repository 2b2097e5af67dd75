-------------------------- MODULE InterruptProofs ---------------------------
(***************************************************************************)
(* The handlers of timer and edge interrupts, whatever the width of the    *)
(* counters, the period of the timer and the number of pulses: they change *)
(* nothing of what they interrupt, and count every wrap and every edge     *)
(* once, as long as the cycle counter is read more often than it wraps.    *)
(***************************************************************************)
EXTENDS MCInterrupts, Integers, Sequences, TLAPS

-----------------------------------------------------------------------------
(* Quotients and remainders.                                               *)

LEMMA ModFacts ==
  ASSUME NEW M \in Nat \ {0}, NEW a \in Int
  PROVE  a % M \in 0..(M - 1) /\ a \div M \in Int /\ a = M * (a \div M) + (a % M)
OBVIOUS

LEMMA ModUnique ==
  ASSUME NEW M \in Nat \ {0}, NEW k \in Int, NEW r \in 0..(M - 1)
  PROVE  (M * k + r) % M = r
OBVIOUS

LEMMA MulSub ==
  ASSUME NEW M \in Nat \ {0}, NEW k \in Int, NEW j \in Int
  PROVE  M * (k - j) = M * k - M * j
OBVIOUS

LEMMA MulAtLeast ==
  ASSUME NEW M \in Nat \ {0}, NEW k \in Int
  PROVE  (k >= 0 => M * k >= 0) /\ (k <= -1 => M * k <= -M)
OBVIOUS

LEMMA MulAdd ==
  ASSUME NEW M \in Nat \ {0}, NEW k \in Int, NEW j \in Int
  PROVE  M * (k + j) = M * k + M * j
OBVIOUS

LEMMA ModShift ==
  ASSUME NEW M \in Nat \ {0}, NEW k \in Int, NEW z \in Int
  PROVE  (M * k + z) % M = z % M
<1>1. PICK j \in Int, r \in 0..(M - 1) : z = M * j + r /\ r = z % M BY ModFacts
<1>2. M * k \in Int /\ M * j \in Int OBVIOUS
<1>3. PICK p \in Int : p = k + j OBVIOUS
<1>4. M * k + z = M * p + r BY <1>1, <1>2, <1>3, MulAdd
<1>5. (M * p + r) % M = r BY ModUnique
<1>6. QED BY <1>1, <1>4, <1>5

\* A sum may be reduced at once or in parts.
LEMMA ModAdd ==
  ASSUME NEW M \in Nat \ {0}, NEW a \in Int, NEW b \in Int
  PROVE  ((a % M) + (b % M)) % M = (a + b) % M
<1>1. PICK j \in Int, r \in 0..(M - 1) : a = M * j + r /\ r = a % M BY ModFacts
<1>2. PICK k \in Int, q \in 0..(M - 1) : b = M * k + q /\ q = b % M BY ModFacts
<1>3. M * k \in Int /\ M * j \in Int OBVIOUS
<1>4. PICK p \in Int : p = j + k OBVIOUS
<1>5. PICK s \in Int : s = r + q OBVIOUS
<1>6. a + b = M * p + s
  <2>1. M * p = M * j + M * k BY <1>4, MulAdd
  <2>2. M * p \in Int /\ r \in Int /\ q \in Int OBVIOUS
  <2>3. a = M * j + r /\ b = M * k + q BY <1>1, <1>2
  <2>4. QED BY <1>3, <1>5, <2>1, <2>2, <2>3
<1>7. (M * p + s) % M = s % M BY ModShift
<1>8. QED BY <1>1, <1>2, <1>5, <1>6, <1>7

\* The differences of successive readings add up.
LEMMA PeriodAdds ==
  ASSUME NEW M \in Nat \ {0}, NEW f \in Int, NEW a \in Int, NEW b \in Int
  PROVE  (((a - f) % M) + (((b % M) - (a % M)) % M)) % M = (b - f) % M
<1>1. PICK j \in Int, r \in 0..(M - 1) : a = M * j + r /\ r = a % M BY ModFacts
<1>2. PICK k \in Int, q \in 0..(M - 1) : b = M * k + q /\ q = b % M BY ModFacts
<1>3. M * k \in Int /\ M * j \in Int OBVIOUS
<1>4. PICK p \in Int : p = k - j OBVIOUS
<1>5. PICK s \in Int : s = q - r OBVIOUS
<1>6. b - a = M * p + s
  <2>1. M * p = M * k - M * j BY <1>4, MulSub
  <2>2. M * p \in Int /\ r \in Int /\ q \in Int OBVIOUS
  <2>3. a = M * j + r /\ b = M * k + q BY <1>1, <1>2
  <2>4. QED BY <1>3, <1>5, <2>1, <2>2, <2>3
<1>7. (M * p + s) % M = s % M BY ModShift
<1>8. PICK x \in Int : x = a - f OBVIOUS
<1>9. PICK y \in Int : y = b - a OBVIOUS
<1>10. ((x % M) + (y % M)) % M = (x + y) % M BY ModAdd
<1>11. x + y = b - f BY <1>8, <1>9
<1>12. y % M = ((b % M) - (a % M)) % M BY <1>1, <1>2, <1>5, <1>6, <1>7, <1>9
<1>13. QED BY <1>8, <1>10, <1>11, <1>12

\* Two readings less than a width apart show whether the counter has wrapped.
LEMMA Wraps ==
  ASSUME NEW M \in Nat \ {0}, NEW a \in Int, NEW b \in Int, a <= b, b - a < M
  PROVE  b \div M = (a \div M) + IF a % M > b % M THEN 1 ELSE 0
<1>1. PICK j \in Int, r \in 0..(M - 1) : a = M * j + r /\ r = a % M /\ j = a \div M
  BY ModFacts
<1>2. PICK k \in Int, q \in 0..(M - 1) : b = M * k + q /\ q = b % M /\ k = b \div M
  BY ModFacts
<1>3. PICK p \in Int : p = k - j OBVIOUS
<1>4. M * k \in Int /\ M * j \in Int /\ M * p \in Int /\ M * p = M * k - M * j
  BY <1>3, MulSub
<1>5. b - a = M * p + (q - r) BY <1>1, <1>2, <1>4
<1>6. p <= -1 => M * p <= -M BY MulAtLeast
<1>7. p >= 2 => M * p >= M + M
  <2>1. M * (p - 2) = M * p - M * 2 /\ M * 2 = M + M BY MulSub
  <2>2. p >= 2 => M * (p - 2) >= 0 BY MulAtLeast
  <2>3. QED BY <1>4, <2>1, <2>2
<1>8. p = 1 => M * p = M OBVIOUS
<1>9. p = 0 => M * p = 0 OBVIOUS
<1>10. p \in {0, 1} BY <1>4, <1>5, <1>6, <1>7
<1>11. p = IF r > q THEN 1 ELSE 0 BY <1>5, <1>8, <1>9, <1>10
<1>12. QED BY <1>1, <1>2, <1>3, <1>11

-----------------------------------------------------------------------------
(* Timer interrupts.                                                       *)

Kinds == {"timer.c", "render.c"}

LEMMA TimerCode ==
  LET c == T!Code["timer.c"] IN
  /\ DOMAIN c = 1..8
  /\ c[1] = "interrupt_init" /\ c[2] = "timer_init" /\ c[3] = "enable_interrupts"
  /\ c[4] = "ldr" /\ c[5] = "cmp" /\ c[6] = "bge" /\ c[7] = "add" /\ c[8] = "done"
BY DEF T!Code

LEMMA RenderCode ==
  LET c == T!Code["render.c"] IN
  /\ DOMAIN c = 1..7
  /\ c[1] = "interrupt_init" /\ c[2] = "timer_init" /\ c[3] = "enable_interrupts"
  /\ c[4] = "start" /\ c[5] = "end" /\ c[6] = "report" /\ c[7] = "done"
BY DEF T!Code

Steps == IF program = "timer.c" THEN 1..8 ELSE 1..7

LEMMA AddressesAre ==
  ASSUME program \in Kinds
  PROVE  T!Addresses = {4 * k : k \in Steps}
<1>1. CASE program = "timer.c" BY <1>1, TimerCode DEF T!Addresses, Steps
<1>2. CASE program = "render.c" BY <1>2, RenderCode DEF T!Addresses, Steps
<1>3. QED BY <1>1, <1>2 DEF Kinds

\* Where each instruction is.
LEMMA Places ==
  ASSUME program \in Kinds, regs.pc \in T!Addresses
  PROVE  /\ T!Instruction = "interrupt_init" => regs.pc = 4
         /\ T!Instruction = "timer_init" => regs.pc = 8
         /\ T!Instruction = "enable_interrupts" => regs.pc = 12
         /\ T!Instruction = "ldr" => regs.pc = 16 /\ program = "timer.c"
         /\ T!Instruction = "cmp" => regs.pc = 20 /\ program = "timer.c"
         /\ T!Instruction = "bge" => regs.pc = 24 /\ program = "timer.c"
         /\ T!Instruction = "add" => regs.pc = 28 /\ program = "timer.c"
         /\ T!Instruction = "start" => regs.pc = 16 /\ program = "render.c"
         /\ T!Instruction = "end" => regs.pc = 20 /\ program = "render.c"
         /\ T!Instruction = "report" => regs.pc = 24 /\ program = "render.c"
<1>1. PICK k \in Steps : regs.pc = 4 * k BY AddressesAre
<1>2. regs.pc \div 4 = k BY <1>1 DEF Steps
<1>3. T!Instruction = T!Code[program][k] BY <1>2 DEF T!Instruction
<1>4. CASE program = "timer.c"
  <2>1. k \in 1..8 BY <1>4 DEF Steps
  <2>2. QED BY <1>1, <1>3, <1>4, <2>1, TimerCode
<1>5. CASE program = "render.c"
  <2>1. k \in 1..7 BY <1>5 DEF Steps
  <2>2. QED BY <1>1, <1>3, <1>5, <2>1, RenderCode
<1>6. QED BY <1>4, <1>5 DEF Kinds

LEMMA Targets ==
  ASSUME program = "timer.c"
  PROVE  T!At("done") = 32 /\ T!At("ldr") = 16
<1>1. \A k \in DOMAIN T!Code[program] :
         /\ T!Code[program][k] = "done" <=> k = 8
         /\ T!Code[program][k] = "ldr" <=> k = 4
  BY TimerCode
<1>2. 8 \in DOMAIN T!Code[program] /\ 4 \in DOMAIN T!Code[program] BY TimerCode
<1> DEFINE c == T!Code[program]
           atDone == CHOOSE k \in DOMAIN c : c[k] = "done"
           atLdr == CHOOSE k \in DOMAIN c : c[k] = "ldr"
<1>3. T!At("done") = 4 * atDone /\ T!At("ldr") = 4 * atLdr
  BY Zenon DEF T!At
<1>4. \E k \in DOMAIN c : c[k] = "done" BY <1>1, <1>2
<1>5. \E k \in DOMAIN c : c[k] = "ldr" BY <1>1, <1>2
<1> HIDE DEF c
<1>6. atDone \in DOMAIN c /\ c[atDone] = "done" BY <1>4
<1>7. atLdr \in DOMAIN c /\ c[atLdr] = "ldr" BY <1>5
<1> HIDE DEF atDone, atLdr
<1>8. QED BY <1>1, <1>3, <1>6, <1>7 DEF c

-----------------------------------------------------------------------------
(* Timer interrupts.                                                       *)

LEMMA TInit == ASSUME T!Frequent, T!Init PROVE T!IInv
<1> USE DEF T!Init, T!Frequent
<1>1. 4 \in T!Addresses
  <2>1. program \in Kinds BY DEF Kinds
  <2>2. 1 \in Steps BY DEF Steps
  <2>3. 4 = 4 * 1 OBVIOUS
  <2>4. QED BY <2>1, <2>2, <2>3, AddressesAre
<1>2. regs \in T!Registers BY <1>1 DEF T!Registers
<1>3. T!Types
  <2>1. offset \in Nat /\ value \in 0..Load /\ spent \in 0..HandlerTime /\ last \in 0..(Width - 1)
    OBVIOUS
  <2>2. clock = 0 /\ cnt = 0 /\ count = 0 /\ firstRead = -1 /\ lastRead = -1 /\ start = -1 /\ end = -1
    OBVIOUS
  <2>3. /\ program \in {"timer.c", "render.c"} /\ ipc = "-"
        /\ basic \in BOOLEAN /\ pending \in BOOLEAN /\ other \in BOOLEAN
        /\ table \in BOOLEAN /\ irqOff \in BOOLEAN /\ readZero \in BOOLEAN
    BY Zenon
  <2> HIDE DEF T!Init, T!Frequent
  <2>4. QED BY <1>2, <2>1, <2>2, <2>3 DEF T!Types
<1>4. T!SetUp BY DEF T!SetUp
<1>5. T!Saved BY DEF T!Saved
<1>6. T!Readings BY DEF T!Readings
<1>7. T!Statics BY DEF T!Statics, T!OverflowCounted, T!PeriodsAddUp
<1>8. QED BY <1>3, <1>4, <1>5, <1>6, <1>7 DEF T!IInv

\* The parts no instruction of the program can disturb.
LEMMA ProgramKeeps ==
  ASSUME T!Types, T!Readings, T!Statics, ipc = "-",
         UNCHANGED <<program, clock, offset, pending, ipc, lr, spsr, stack, spent, before,
                     cnt, last, count, firstRead, lastRead, readZero>>,
         regs.pc > 12 => value' = value /\ regs'.pc > 12
  PROVE  T!Saved' /\ T!Readings' /\ T!Statics'
<1>1. T!Saved' BY DEF T!Saved
<1>2. T!Readings' BY DEF T!Readings, T!Since, T!Now
<1>3. T!Statics' BY DEF T!Statics, T!OverflowCounted, T!PeriodsAddUp
<1>4. QED BY <1>1, <1>2, <1>3

LEMMA Position == ASSUME T!Types PROVE regs.pc \in 4..32
<1>1. PICK k \in Steps : regs.pc = 4 * k
  BY AddressesAre DEF T!Types, T!Registers, Kinds
<1>2. QED BY <1>1 DEF Steps

LEMMA TickTypes == ASSUME T!Frequent, T!IInv, T!Tick PROVE T!Types'
BY DEF T!Frequent, T!IInv, T!Tick, T!Types, T!cpu, T!statics, T!timing, T!Registers, T!Addresses

LEMMA TickReadings == ASSUME T!Frequent, T!IInv, T!Tick PROVE T!Readings'
<1> USE DEF T!IInv, T!Types
<1>1. CASE firstRead = -1 BY <1>1 DEF T!Tick, T!statics, T!Readings
<1>2. CASE firstRead # -1
  <2>1. /\ firstRead' = firstRead /\ lastRead' = lastRead /\ regs' = regs /\ ipc' = ipc
        /\ clock' = clock + 1 /\ offset' = offset
    BY DEF T!Tick, T!statics, T!cpu
  <2>2. /\ firstRead \in Nat /\ firstRead <= lastRead /\ lastRead <= T!Now /\ regs.pc > 12
    BY <1>2 DEF T!Readings
  <2>3. basic /\ (ipc = "-" => ~irqOff) BY <2>2, Position DEF T!SetUp
  <2>4. /\ ipc = "-" => ~pending
        /\ ipc \in {"-", "enter", "count", "pop"}
        /\ ipc # "-" => spent' = spent + 1 /\ spent' <= HandlerTime
    BY <2>3 DEF T!Tick, T!Interrupted, T!Frequent
  <2>5. /\ value > 0
        /\ value' = IF value = 1 THEN Load ELSE value - 1
        /\ pending' <=> (pending \/ value = 1)
    BY DEF T!Tick
  <2> DEFINE a == T!Since
  <2>6. a \in Int /\ T!Since' = a + 1 BY <2>1 DEF T!Since, T!Now
  <2>7. /\ ~pending /\ ipc # "count" => a + value <= Load
        /\ ipc = "count" \/ (pending /\ ipc \in {"enter", "vector"})
              => a <= Load + HandlerTime + spent
        /\ pending /\ ipc \in {"pop", "movs"} => a <= Load + spent
    BY <1>2 DEF T!Readings
  <2>8. T!Now \in Nat /\ T!Now' = T!Now + 1 BY <2>1 DEF T!Now
  <2> HIDE DEF a
  <2>9. /\ ~pending' /\ ipc # "count" => (a + 1) + value' <= Load
        /\ ipc = "count" \/ (pending' /\ ipc \in {"enter", "vector"})
              => a + 1 <= Load + HandlerTime + spent'
        /\ pending' /\ ipc \in {"pop", "movs"} => a + 1 <= Load + spent'
        /\ pending' /\ ipc = "-" => a + 1 <= Load + HandlerTime
    BY <2>4, <2>5, <2>6, <2>7 DEF T!Frequent
  <2>10. lastRead <= T!Now + 1 BY <2>2, <2>8
  <2>11. QED BY <2>1, <2>2, <2>6, <2>8, <2>9, <2>10 DEF T!Readings
<1>3. QED BY <1>1, <1>2

LEMMA TTick == ASSUME T!Frequent, T!IInv, T!Tick PROVE T!IInv'
<1>1. T!Types' BY TickTypes
<1>2. T!SetUp'
  BY DEF T!Frequent, T!IInv, T!Tick, T!Types, T!SetUp, T!cpu, T!statics
<1>3. T!Saved' BY DEF T!IInv, T!Tick, T!Saved, T!cpu, T!Registers, T!Addresses
<1>4. T!Readings' BY TickReadings
<1>5. T!Statics'
  BY DEF T!IInv, T!Tick, T!Statics, T!statics, T!OverflowCounted, T!PeriodsAddUp
<1>6. QED BY <1>1, <1>2, <1>3, <1>4, <1>5 DEF T!IInv

LEMMA TException == ASSUME T!Frequent, T!IInv, T!Exception PROVE T!IInv'
<1> USE DEF T!IInv
<1>1. /\ ipc = "-" /\ ipc' = "enter" /\ spent' = 0 /\ ~irqOff /\ irqOff' = TRUE /\ other' = FALSE
      /\ lr' = regs.pc + 4 /\ spsr' = [flags |-> regs.flags, irqOff |-> irqOff]
      /\ before' = <<regs, irqOff>>
      /\ UNCHANGED <<program, clock, offset, basic, value, pending, table, regs, stack,
                     cnt, last, count, firstRead, lastRead, readZero, start, end>>
  BY DEF T!Exception, T!clocks, T!statics, T!timing
<1>2. T!Types'
  <2>1. T!Registers' = T!Registers BY <1>1 DEF T!Registers, T!Addresses
  <2>2. 0 \in 0..HandlerTime BY DEF T!Frequent
  <2>3. QED BY <1>1, <2>1, <2>2 DEF T!Types
<1>3. T!SetUp' BY <1>1, Position DEF T!SetUp
<1>4. T!Saved'
  <2>1. irqOff = FALSE BY <1>1 DEF T!Types
  <2>2. regs \in T!Registers /\ regs' \in T!Registers' BY <1>2 DEF T!Types
  <2>3. before' = <<regs', FALSE>> BY <1>1, <2>1
  <2>4. before[1]' = regs' BY <2>3
  <2>5. QED BY <1>1, <2>1, <2>2, <2>3, <2>4 DEF T!Saved
<1>5. T!Readings' BY <1>1 DEF T!Readings, T!Since, T!Now, T!Types, T!Frequent
<1>6. T!Statics' BY <1>1 DEF T!Statics, T!OverflowCounted, T!PeriodsAddUp
<1>7. QED BY <1>2, <1>3, <1>4, <1>5, <1>6

LEMMA TEnter == ASSUME T!Frequent, T!IInv, T!Enter PROVE T!IInv'
<1> USE DEF T!IInv
<1>1. /\ ipc = "enter" /\ ipc' = "vector"
      /\ lr' = lr - 4 /\ stack' = <<regs.r0, regs.r4, lr'>>
      /\ regs' = [regs EXCEPT !.r0 = lr']
      /\ UNCHANGED <<program, clock, offset, basic, value, pending, other, table, irqOff, spsr,
                     spent, before, cnt, last, count, firstRead, lastRead, readZero, start, end>>
  BY DEF T!Enter, T!clocks, T!timer, T!statics, T!timing
<1>2. regs \in T!Registers /\ regs.pc \in 4..32 BY Position DEF T!Types
<1>3. lr' = regs.pc BY <1>1, <1>2 DEF T!Saved
<1>4. regs' \in T!Registers /\ regs'.pc = regs.pc BY <1>1, <1>2, <1>3 DEF T!Registers
<1>5. T!Registers' = T!Registers BY <1>1 DEF T!Registers, T!Addresses
<1>6. T!Types' BY <1>1, <1>4, <1>5 DEF T!Types
<1>7. T!SetUp' BY <1>1, <1>4 DEF T!SetUp
<1>8. T!Saved' BY <1>1, <1>2, <1>3, <1>4, <1>5 DEF T!Saved
<1>9. T!Readings' BY <1>1, <1>4 DEF T!Readings, T!Since, T!Now, T!Types, T!Frequent
<1>10. T!Statics' BY <1>1 DEF T!Statics, T!OverflowCounted, T!PeriodsAddUp
<1>11. QED BY <1>6, <1>7, <1>8, <1>9, <1>10

LEMMA TVector == ASSUME T!Frequent, T!IInv, T!Vector PROVE T!IInv'
<1> USE DEF T!IInv
<1>1. /\ ipc = "vector" /\ ipc' = (IF pending THEN "count" ELSE "pop") /\ pending' = FALSE
      /\ UNCHANGED <<program, clock, offset, basic, value, other, table, regs, irqOff, lr, spsr,
                     stack, spent, before, cnt, last, count, firstRead, lastRead, readZero,
                     start, end>>
  BY DEF T!Vector, T!clocks, T!cpu, T!statics, T!timing
<1>2. T!Types' BY <1>1 DEF T!Types, T!Registers, T!Addresses
<1>3. T!SetUp' BY <1>1 DEF T!SetUp
<1>4. T!Saved' BY <1>1 DEF T!Saved, T!Registers, T!Addresses
<1>5. T!Readings' BY <1>1 DEF T!Readings, T!Since, T!Now
<1>6. T!Statics' BY <1>1 DEF T!Statics, T!OverflowCounted, T!PeriodsAddUp
<1>7. QED BY <1>2, <1>3, <1>4, <1>5, <1>6

\* A reading is taken in time to see every wrap, and its period is the time since
\* the one before.
LEMMA TCountStatics == ASSUME T!Frequent, T!IInv, T!Count PROVE T!Statics'
<1> USE DEF T!IInv
<1> DEFINE b == T!Now
<1>0. Width \in Nat \ {0} BY DEF T!Frequent
<1>1. b \in Nat /\ b % Width \in 0..(Width - 1) BY <1>0, ModFacts DEF T!Types, T!Now
<1>2. /\ last' = b % Width /\ lastRead' = b /\ program' = program
      /\ firstRead' = (IF firstRead = -1 THEN b ELSE firstRead)
      /\ readZero' <=> (readZero \/ b % Width = 0)
      /\ program = "timer.c" =>
            count' = IF last # 0 THEN (count + (((b % Width) - last) % Width)) % Width ELSE count
      /\ program = "render.c" => count' = IF last > b % Width THEN count + 1 ELSE count
  BY DEF T!Count, T!Reading
<1> HIDE DEF b
<1>3. CASE firstRead = -1
  <2>1. last = 0 /\ count = 0 BY <1>3 DEF T!Statics
  <2>2. firstRead' = b /\ b # -1 BY <1>1, <1>2, <1>3
  <2>3. count' = 0 BY <1>1, <1>2, <2>1 DEF T!Types
  <2>4. 0 = (b - b) % Width /\ 0 = (b \div Width) - (b \div Width)
    BY <1>0, <1>1
  <2>5. QED
    BY <1>1, <1>2, <2>2, <2>3, <2>4 DEF T!Statics, T!OverflowCounted, T!PeriodsAddUp
<1>4. CASE firstRead # -1
  <2>1. /\ last = lastRead % Width /\ firstRead' = firstRead
        /\ ~readZero => last # 0
    BY <1>2, <1>4 DEF T!Statics
  <2>2. /\ firstRead \in Int /\ lastRead \in Int /\ lastRead <= b
        /\ b - lastRead < Width
    <3>1. ipc = "count" BY DEF T!Count
    <3>2. lastRead <= b /\ b - lastRead <= Load + HandlerTime + spent
      BY <1>4, <3>1 DEF T!Readings, T!Since, b
    <3>3. QED BY <1>1, <3>2 DEF T!Types, T!Frequent
  <2>3. program = "timer.c" /\ ~readZero' => count' = (b - firstRead) % Width
    <3>1. SUFFICES ASSUME program = "timer.c", ~readZero' PROVE count' = (b - firstRead) % Width
      OBVIOUS
    <3>2. last # 0 /\ ~readZero BY <1>2, <2>1, <3>1
    <3>3. count = (lastRead - firstRead) % Width
      BY <1>4, <3>1, <3>2 DEF T!Statics, T!PeriodsAddUp
    <3>4. count' = (count + (((b % Width) - last) % Width)) % Width
      BY <1>2, <3>1, <3>2
    <3>5. count' = (((lastRead - firstRead) % Width)
                       + (((b % Width) - (lastRead % Width)) % Width)) % Width
      BY <2>1, <3>3, <3>4
    <3>6. b \in Int /\ Width \in Nat \ {0} /\ firstRead \in Int /\ lastRead \in Int
      BY <1>0, <1>1, <2>2
    <3>7. (((lastRead - firstRead) % Width)
             + (((b % Width) - (lastRead % Width)) % Width)) % Width = (b - firstRead) % Width
      BY <3>6, PeriodAdds, Zenon
    <3>8. QED BY <3>5, <3>7, Zenon
  <2>4. program = "render.c" => count' = b \div Width - firstRead \div Width
    <3>1. SUFFICES ASSUME program = "render.c" PROVE count' = b \div Width - firstRead \div Width
      OBVIOUS
    <3>2. count = lastRead \div Width - firstRead \div Width
      BY <1>4, <3>1 DEF T!Statics, T!OverflowCounted
    <3>3. b \div Width = (lastRead \div Width) + IF lastRead % Width > b % Width THEN 1 ELSE 0
      BY <1>0, <1>1, <2>2, Wraps
    <3>4. lastRead \div Width \in Int /\ firstRead \div Width \in Int
      BY <1>0, <2>2
    <3>5. count' = IF lastRead % Width > b % Width THEN count + 1 ELSE count
      BY <1>2, <2>1, <3>1
    <3>6. QED BY <3>2, <3>3, <3>4, <3>5
  <2>5. b % Width # 0 \/ readZero' BY <1>2
  <2>6. QED
    BY <1>2, <1>4, <2>1, <2>3, <2>4, <2>5 DEF T!Statics, T!OverflowCounted, T!PeriodsAddUp
<1>5. QED BY <1>3, <1>4

LEMMA TCount == ASSUME T!Frequent, T!IInv, T!Count PROVE T!IInv'
<1> USE DEF T!IInv
<1>1. /\ ipc = "count" /\ ipc' = "pop" /\ lastRead' = T!Now
      /\ firstRead' = (IF firstRead = -1 THEN T!Now ELSE firstRead)
      /\ last' = T!Now % Width /\ readZero' = (readZero \/ T!Reading = 0)
      /\ UNCHANGED <<program, clock, offset, basic, value, pending, other, table, regs, irqOff, lr,
                     spsr, stack, spent, before, start, end>>
  BY DEF T!Count, T!Reading, T!clocks, T!timer, T!cpu, T!timing
<1>2. T!Now \in Nat /\ T!Now' = T!Now BY <1>1 DEF T!Types, T!Now
<1>3. T!Now % Width \in 0..(Width - 1) BY <1>2, ModFacts DEF T!Frequent
<1>4. cnt' \in Nat /\ count' \in Nat
  <2>1. Width \in Nat \ {0} /\ last \in Int /\ count \in Nat /\ cnt \in Nat
    BY DEF T!Types, T!Frequent
  <2>2. PICK r \in Nat : r = T!Now % Width BY <1>3, <2>1
  <2>3. PICK d \in Nat : d = (r - last) % Width BY <2>1
  <2>4. (count + d) % Width \in Nat BY <2>1
  <2>5. /\ cnt' = cnt + 1 \/ cnt' = cnt
        /\ count' = (count + d) % Width \/ count' = count + 1 \/ count' = count
    BY <2>2, <2>3 DEF T!Count, T!Reading
  <2>6. QED BY <2>1, <2>4, <2>5
<1>5. T!Types'
  <2>1. T!Registers' = T!Registers BY <1>1 DEF T!Registers, T!Addresses
  <2>2. readZero' \in BOOLEAN BY <1>1
  <2>3. QED BY <1>1, <1>2, <1>3, <1>4, <2>1, <2>2 DEF T!Types
<1>6. T!SetUp' BY <1>1, <1>2 DEF T!SetUp
<1>7. T!Saved' BY <1>1 DEF T!Saved, T!Registers, T!Addresses
<1>8. T!Readings'
  <2>1. T!Since' = 0 BY <1>1, <1>2 DEF T!Since
  <2>2. regs.pc > 12 BY <1>1 DEF T!SetUp
  <2>3. firstRead # -1 => firstRead \in Nat /\ firstRead <= lastRead /\ lastRead <= T!Now
    BY DEF T!Readings
  <2>4. /\ firstRead' \in Nat /\ firstRead' <= lastRead' /\ lastRead' <= T!Now'
    BY <1>1, <1>2, <2>3 DEF T!Types
  <2>5. value \in 0..Load /\ spent \in 0..HandlerTime /\ Load \in Nat BY DEF T!Types, T!Frequent
  <2>6. QED BY <1>1, <2>1, <2>2, <2>4, <2>5 DEF T!Readings
<1>9. T!Statics' BY TCountStatics
<1>10. QED BY <1>5, <1>6, <1>7, <1>8, <1>9

LEMMA TPop == ASSUME T!Frequent, T!IInv, T!Pop PROVE T!IInv'
<1> USE DEF T!IInv
<1>1. /\ ipc = "pop" /\ ipc' = "movs"
      /\ regs' = [regs EXCEPT !.r0 = stack[1], !.r4 = stack[2], !.flags = ~before[1].flags]
      /\ lr' = stack[3]
      /\ UNCHANGED <<program, clock, offset, basic, value, pending, other, table, irqOff, spsr,
                     spent, before, cnt, last, count, firstRead, lastRead, readZero, start, end>>
  BY DEF T!Pop, T!clocks, T!timer, T!statics, T!timing
<1>2. /\ stack[1] = before[1].r0 /\ stack[2] = before[1].r4 /\ stack[3] = regs.pc
      /\ before[1] \in T!Registers /\ regs \in T!Registers
  BY <1>1 DEF T!Saved, T!Types
<1>3. /\ regs' \in T!Registers /\ regs'.pc = regs.pc /\ regs'.r0 = before[1].r0
      /\ regs'.r4 = before[1].r4
  BY <1>1, <1>2 DEF T!Registers
<1>4. T!Registers' = T!Registers BY <1>1 DEF T!Registers, T!Addresses
<1>5. T!Types' BY <1>1, <1>3, <1>4 DEF T!Types
<1>6. T!SetUp' BY <1>1, <1>3 DEF T!SetUp
<1>7. T!Saved' BY <1>1, <1>2, <1>3, <1>4 DEF T!Saved
<1>8. T!Readings' BY <1>1, <1>3 DEF T!Readings, T!Since, T!Now
<1>9. T!Statics' BY <1>1 DEF T!Statics, T!OverflowCounted, T!PeriodsAddUp
<1>10. QED BY <1>5, <1>6, <1>7, <1>8, <1>9

LEMMA MovsRestores ==
  ASSUME T!IInv, T!Movs
  PROVE  regs' = before[1] /\ irqOff' = FALSE /\ before = <<before[1], FALSE>>
<1>1. /\ ipc = "movs" /\ regs' = [regs EXCEPT !.pc = lr, !.flags = spsr.flags]
      /\ irqOff' = spsr.irqOff
  BY DEF T!Movs
<1>2. /\ before[1] \in T!Registers /\ regs \in T!Registers /\ before = <<before[1], FALSE>>
      /\ lr = before[1].pc /\ regs.r0 = before[1].r0 /\ regs.r4 = before[1].r4
      /\ spsr.flags = before[1].flags /\ spsr.irqOff = FALSE
  <2>1. ipc = "movs" /\ T!Saved /\ T!Types BY DEF T!IInv, T!Movs
  <2>2. spsr = [flags |-> before[1].flags, irqOff |-> FALSE] BY <2>1 DEF T!Saved
  <2>3. QED BY <2>1, <2>2 DEF T!Saved, T!Types
<1>3. regs' = before[1] BY <1>1, <1>2 DEF T!Registers
<1>4. QED BY <1>1, <1>2, <1>3

LEMMA TMovs == ASSUME T!Frequent, T!IInv, T!Movs PROVE T!IInv'
<1> USE DEF T!IInv
<1>1. /\ ipc = "movs" /\ ipc' = "-" /\ regs' = before[1] /\ irqOff' = FALSE
      /\ UNCHANGED <<program, clock, offset, basic, value, pending, other, table, lr, spsr, stack,
                     spent, before, cnt, last, count, firstRead, lastRead, readZero, start, end>>
  BY MovsRestores DEF T!Movs, T!clocks, T!timer, T!statics, T!timing
<1>2. regs' \in T!Registers /\ regs'.pc = regs.pc BY <1>1 DEF T!Saved
<1>3. T!Registers' = T!Registers BY <1>1 DEF T!Registers, T!Addresses
<1>4. T!Types' BY <1>1, <1>2, <1>3 DEF T!Types
<1>5. T!SetUp' BY <1>1, <1>2, Position DEF T!SetUp
<1>6. T!Saved' BY <1>1 DEF T!Saved
<1>7. T!Readings' BY <1>1, <1>2 DEF T!Readings, T!Since, T!Now, T!Types, T!Frequent
<1>8. T!Statics' BY <1>1 DEF T!Statics, T!OverflowCounted, T!PeriodsAddUp
<1>9. QED BY <1>4, <1>5, <1>6, <1>7, <1>8

\* What an instruction has to respect: where it may go, and what it must have done
\* by then.
LEMMA InstructionStep ==
  ASSUME T!Frequent, T!IInv, ipc = "-",
         UNCHANGED <<program, clock, offset, pending, other, ipc, lr, spsr, stack, spent, before,
                     cnt, last, count, firstRead, lastRead, readZero>>,
         regs' \in T!Registers, basic' \in BOOLEAN, table' \in BOOLEAN, irqOff' \in BOOLEAN,
         value' \in 0..Load, start' \in Int, end' \in Int,
         regs.pc > 12 => value' = value /\ regs'.pc > 12,
         T!SetUp'
  PROVE  T!IInv'
<1>1. T!Registers' = T!Registers BY DEF T!Registers, T!Addresses
<1>2. T!Types' BY <1>1 DEF T!IInv, T!Types
<1>3. T!Saved' /\ T!Readings' /\ T!Statics' BY ProgramKeeps DEF T!IInv
<1>4. QED BY <1>2, <1>3 DEF T!IInv

LEMMA AddressFacts ==
  ASSUME program \in Kinds
  PROVE  /\ 4 \in T!Addresses /\ 8 \in T!Addresses /\ 12 \in T!Addresses /\ 16 \in T!Addresses
         /\ 20 \in T!Addresses /\ 24 \in T!Addresses /\ 28 \in T!Addresses
         /\ program = "timer.c" => 32 \in T!Addresses
<1>1. \A k \in Steps : 4 * k \in T!Addresses BY AddressesAre
<1>2. 1 \in Steps /\ 2 \in Steps /\ 3 \in Steps /\ 4 \in Steps /\ 5 \in Steps /\ 6 \in Steps
      /\ 7 \in Steps /\ (program = "timer.c" => 8 \in Steps)
  BY DEF Steps
<1>3. QED BY <1>1, <1>2

LEMMA Goes ==
  ASSUME T!Types, NEW pc1 \in T!Addresses, T!Goto(pc1)
  PROVE  regs' \in T!Registers /\ regs'.pc = pc1
BY DEF T!Types, T!Registers, T!Goto

LEMMA TStartUp ==
  ASSUME T!Frequent, T!IInv, T!interrupt_init \/ T!timer_init \/ T!enable_interrupts
  PROVE  T!IInv'
<1>0. T!Types /\ program \in Kinds BY DEF T!IInv, T!Types, Kinds
<1>1. CASE T!interrupt_init
  <2>1. ipc = "-" /\ regs.pc = 4
    BY <1>0, <1>1, Places DEF T!interrupt_init, T!Runs, T!Types, T!Registers
  <2>2. regs' \in T!Registers /\ regs'.pc = 8
    BY <1>0, <1>1, <2>1, Goes, AddressFacts DEF T!interrupt_init, T!Next4
  <2>3. /\ irqOff' = TRUE /\ table' = TRUE
        /\ UNCHANGED <<program, clock, offset, basic, value, pending, other, ipc, lr, spsr, stack,
                       spent, before, cnt, last, count, firstRead, lastRead, readZero, start, end>>
    BY <1>1 DEF T!interrupt_init, T!clocks, T!timer, T!handler, T!statics, T!timing
  <2>4. T!SetUp' BY <2>1, <2>2, <2>3 DEF T!SetUp
  <2>5. basic' \in BOOLEAN /\ table' \in BOOLEAN /\ irqOff' \in BOOLEAN
        /\ value' \in 0..Load /\ start' \in Int /\ end' \in Int
    BY <1>0, <2>3 DEF T!Types
  <2>6. QED BY <2>1, <2>2, <2>3, <2>4, <2>5, InstructionStep
<1>2. CASE T!timer_init
  <2>1. ipc = "-" /\ regs.pc = 8
    BY <1>0, <1>2, Places DEF T!timer_init, T!Runs, T!Types, T!Registers
  <2>2. regs' \in T!Registers /\ regs'.pc = 12
    BY <1>0, <1>2, <2>1, Goes, AddressFacts DEF T!timer_init, T!Next4
  <2>3. /\ basic' = TRUE /\ value' = Load
        /\ UNCHANGED <<program, clock, offset, pending, other, table, irqOff, ipc, lr, spsr, stack,
                       spent, before, cnt, last, count, firstRead, lastRead, readZero, start, end>>
    BY <1>2 DEF T!timer_init, T!clocks, T!handler, T!statics, T!timing
  <2>4. T!SetUp' BY <2>1, <2>2, <2>3 DEF T!SetUp, T!IInv, T!Frequent
  <2>5. basic' \in BOOLEAN /\ table' \in BOOLEAN /\ irqOff' \in BOOLEAN
        /\ value' \in 0..Load /\ start' \in Int /\ end' \in Int
    BY <1>0, <2>3 DEF T!Types, T!Frequent
  <2>6. QED BY <2>1, <2>2, <2>3, <2>4, <2>5, InstructionStep
<1>3. CASE T!enable_interrupts
  <2>1. ipc = "-" /\ regs.pc = 12
    BY <1>0, <1>3, Places DEF T!enable_interrupts, T!Runs, T!Types, T!Registers
  <2>2. regs' \in T!Registers /\ regs'.pc = 16
    BY <1>0, <1>3, <2>1, Goes, AddressFacts DEF T!enable_interrupts, T!Next4
  <2>3. /\ irqOff' = FALSE
        /\ UNCHANGED <<program, clock, offset, basic, value, pending, other, table, ipc, lr, spsr,
                       stack, spent, before, cnt, last, count, firstRead, lastRead, readZero,
                       start, end>>
    BY <1>3 DEF T!enable_interrupts, T!clocks, T!timer, T!handler, T!statics, T!timing
  <2>4. T!SetUp' BY <2>1, <2>2, <2>3 DEF T!SetUp, T!IInv
  <2>5. basic' \in BOOLEAN /\ table' \in BOOLEAN /\ irqOff' \in BOOLEAN
        /\ value' \in 0..Load /\ start' \in Int /\ end' \in Int
    BY <1>0, <2>3 DEF T!Types
  <2>6. QED BY <2>1, <2>2, <2>3, <2>4, <2>5, InstructionStep
<1>4. QED BY <1>1, <1>2, <1>3

\* After the start-up an instruction only moves the program on.
LEMMA BodyStep ==
  ASSUME T!Frequent, T!IInv, ipc = "-", regs.pc > 12,
         UNCHANGED <<program, clock, offset, basic, value, pending, other, table, irqOff, ipc, lr,
                     spsr, stack, spent, before, cnt, last, count, firstRead, lastRead, readZero>>,
         regs' \in T!Registers, regs'.pc > 12, start' \in Int, end' \in Int
  PROVE  T!IInv'
<1>1. regs.pc \in Int /\ regs'.pc \in Int
  <2>1. \A a \in T!Addresses : a \in Int BY AddressesAre DEF T!IInv, T!Types, Kinds, Steps
  <2>2. QED BY <2>1 DEF T!IInv, T!Types, T!Registers
<1>2. T!SetUp' BY <1>1 DEF T!IInv, T!SetUp
<1>3. basic' \in BOOLEAN /\ table' \in BOOLEAN /\ irqOff' \in BOOLEAN /\ value' \in 0..Load
  BY DEF T!IInv, T!Types
<1>4. QED BY <1>2, <1>3, InstructionStep

LEMMA TLoop == ASSUME T!Frequent, T!IInv, T!Ldr \/ T!Cmp \/ T!Bge \/ T!Add PROVE T!IInv'
<1>0. T!Types /\ program \in Kinds BY DEF T!IInv, T!Types, Kinds
<1>1. /\ ipc = "-"
      /\ UNCHANGED <<program, clock, offset, basic, value, pending, other, table, irqOff, ipc, lr,
                     spsr, stack, spent, before, cnt, last, count, firstRead, lastRead, readZero,
                     start, end>>
  BY DEF T!Ldr, T!Cmp, T!Bge, T!Add, T!Runs, T!clocks, T!timer, T!handler, T!statics, T!timing
<1>2. /\ program = "timer.c" /\ regs.pc > 12
      /\ regs' \in T!Registers /\ regs'.pc > 12
  <2>0. regs \in T!Registers /\ cnt \in Nat BY <1>0 DEF T!Types
  <2>1. CASE T!Ldr
    <3>1. program = "timer.c" /\ regs.pc = 16
      BY <1>0, <2>0, <2>1, Places DEF T!Ldr, T!Runs, T!Registers
    <3>a. T!Next4 = 20 BY <3>1 DEF T!Next4
    <3>2. regs' = [regs EXCEPT !.r0 = cnt, !.pc = 20] BY <2>1, <3>a, Zenon DEF T!Ldr
    <3>8. 20 \in T!Addresses BY <1>0, AddressFacts
    <3>3. PICK c \in Int : c = cnt BY <2>0
    <3>4. regs' = [regs EXCEPT !.r0 = c, !.pc = 20] BY <3>2, <3>3
    <3>9. regs' \in T!Registers BY <2>0, <3>4, <3>8 DEF T!Registers
    <3>10. regs'.pc = 20 BY <2>0, <3>2 DEF T!Registers
    <3>11. QED BY <3>1, <3>9, <3>10
  <2>2. CASE T!Cmp
    <3>1. program = "timer.c" /\ regs.pc = 20
      BY <1>0, <2>0, <2>2, Places DEF T!Cmp, T!Runs, T!Registers
    <3>a. T!Next4 = 24 BY <3>1 DEF T!Next4
    <3>2. regs' = [regs EXCEPT !.flags = (regs.r0 >= N), !.pc = 24] BY <2>2, <3>a, Zenon DEF T!Cmp
    <3>3. (regs.r0 >= N) \in BOOLEAN OBVIOUS
    <3>8. 24 \in T!Addresses BY <1>0, AddressFacts
    <3>9. regs' \in T!Registers BY <2>0, <3>2, <3>3, <3>8 DEF T!Registers
    <3>10. regs'.pc = 24 BY <2>0, <3>2 DEF T!Registers
    <3>11. QED BY <3>1, <3>9, <3>10
  <2>3. CASE T!Bge
    <3>1. program = "timer.c" /\ regs.pc = 24
      BY <1>0, <2>0, <2>3, Places DEF T!Bge, T!Runs, T!Registers
    <3>2. T!Goto(32) \/ T!Goto(28) BY <2>3, <3>1, Targets DEF T!Bge, T!Next4
    <3>3. QED BY <1>0, <3>1, <3>2, AddressFacts, Goes
  <2>4. CASE T!Add
    <3>1. program = "timer.c" /\ regs.pc = 28
      BY <1>0, <2>0, <2>4, Places DEF T!Add, T!Runs, T!Registers
    <3>2. regs' = [regs EXCEPT !.r4 = (regs.r4 + 1) % 2, !.pc = 16]
      BY <2>4, <3>1, Targets, Zenon DEF T!Add
    <3>3. (regs.r4 + 1) % 2 \in Nat BY <2>0 DEF T!Registers
    <3>8. 16 \in T!Addresses BY <1>0, AddressFacts
    <3>9. regs' \in T!Registers BY <2>0, <3>2, <3>3, <3>8 DEF T!Registers
    <3>10. regs'.pc = 16 BY <2>0, <3>2 DEF T!Registers
    <3>11. QED BY <3>1, <3>9, <3>10
  <2>5. QED BY <2>1, <2>2, <2>3, <2>4
<1>3. start' \in Int /\ end' \in Int BY <1>0, <1>1 DEF T!Types
<1>4. QED BY <1>1, <1>2, <1>3, BodyStep

LEMMA TRender == ASSUME T!Frequent, T!IInv, T!ReadStart \/ T!ReadEnd \/ T!Report PROVE T!IInv'
<1>0. T!Types /\ program \in Kinds /\ regs.pc \in T!Addresses
  BY DEF T!IInv, T!Types, Kinds, T!Registers
<1>1. /\ ipc = "-"
      /\ UNCHANGED <<program, clock, offset, basic, value, pending, other, table, irqOff, ipc, lr,
                     spsr, stack, spent, before, cnt, last, count, firstRead, lastRead, readZero>>
  BY DEF T!ReadStart, T!ReadEnd, T!Report, T!Runs, T!clocks, T!timer, T!handler, T!statics
<1>2. start' \in Int /\ end' \in Int
  <2>1. T!Now \in Int /\ start \in Int /\ end \in Int BY <1>0 DEF T!Types, T!Now
  <2>2. start' \in {start, T!Now} /\ end' \in {end, T!Now} BY DEF T!ReadStart, T!ReadEnd, T!Report
  <2>3. QED BY <2>1, <2>2
<1>3. regs.pc \in {16, 20, 24} /\ T!Goto(regs.pc + 4)
  <2>1. CASE T!ReadStart BY <1>0, <2>1, Places DEF T!ReadStart, T!Runs, T!Next4
  <2>2. CASE T!ReadEnd
    BY <1>0, <2>2, Places DEF T!ReadEnd, T!Runs, T!Next4, T!IInv, T!SetUp
  <2>3. CASE T!Report
    BY <1>0, <2>3, Places DEF T!Report, T!Runs, T!Next4, T!IInv, T!SetUp
  <2>4. QED BY <2>1, <2>2, <2>3
<1>4. regs' \in T!Registers /\ regs'.pc > 12 /\ regs.pc > 12
  BY <1>0, <1>3, AddressFacts, Goes
<1>5. QED BY <1>1, <1>2, <1>3, <1>4, BodyStep

LEMMA TStep == ASSUME T!Frequent, T!IInv, [T!Next]_T!vars PROVE T!IInv'
<1>1. CASE UNCHANGED T!vars
  <2>1. UNCHANGED <<program, clock, offset, basic, value, pending, other, table, regs, irqOff, ipc,
                    lr, spsr, stack, spent, before, cnt, last, count, firstRead, lastRead,
                    readZero, start, end>>
    BY <1>1 DEF T!vars, T!clocks, T!timer, T!cpu, T!handler, T!statics, T!timing
  <2>2. T!Types' BY <2>1 DEF T!IInv, T!Types, T!Registers, T!Addresses
  <2>3. T!SetUp' BY <2>1 DEF T!IInv, T!SetUp
  <2>4. T!Saved' BY <2>1 DEF T!IInv, T!Saved, T!Registers, T!Addresses
  <2>5. T!Readings' BY <2>1 DEF T!IInv, T!Readings, T!Since, T!Now
  <2>6. T!Statics' BY <2>1 DEF T!IInv, T!Statics, T!OverflowCounted, T!PeriodsAddUp
  <2>7. QED BY <2>2, <2>3, <2>4, <2>5, <2>6 DEF T!IInv
<1>2. CASE T!Next
  BY <1>2, TTick, TException, TEnter, TVector, TCount, TPop, TMovs, TStartUp, TLoop, TRender
     DEF T!Next, T!Handler, T!Instructions
<1>3. QED BY <1>1, <1>2

LEMMA TNoStray == ASSUME T!IInv PROVE T!NoStrayException
BY Position DEF T!IInv, T!SetUp, T!NoStrayException, T!Types

\* Only movs goes back to the program.
LEMMA TResumes == ASSUME T!IInv, [T!Next]_T!vars PROVE T!Resumes
<1>1. SUFFICES ASSUME ipc # "-", ipc' = "-" PROVE <<regs', irqOff'>> = before
  BY DEF T!Resumes
<1>2. T!Movs
  <2>1. T!Next BY <1>1 DEF T!vars, T!handler
  <2>2. ~T!Instructions
    BY <1>1 DEF T!Instructions, T!Runs, T!interrupt_init, T!timer_init, T!enable_interrupts,
               T!Ldr, T!Cmp, T!Bge, T!Add, T!ReadStart, T!ReadEnd, T!Report
  <2>3. ~T!Tick /\ ~T!Exception /\ ~T!Enter /\ ~T!Vector /\ ~T!Count /\ ~T!Pop
    BY <1>1 DEF T!Tick, T!Exception, T!Enter, T!Vector, T!Count, T!Pop
  <2>4. QED BY <2>1, <2>2, <2>3 DEF T!Next, T!Handler
<1>3. QED BY <1>2, MovsRestores


\* What render.c computes, whatever the readings.
LEMMA ReportAdds ==
  ASSUME NEW M \in Nat \ {0}, NEW a \in Int, NEW b \in Int, NEW f \in Int, NEW l \in Int,
         NEW c \in Int, c = (l \div M) - (f \div M)
  PROVE  /\ b % M >= a % M =>
                ((b % M) - (a % M)) + M * c
                   = (b - a) + M * (((a \div M) - (f \div M)) + ((l \div M) - (b \div M)))
         /\ b % M < a % M =>
                ((M - 1) - (a % M) + (b % M) + 1) + M * (c - 1)
                   = (b - a) + M * (((a \div M) - (f \div M)) + ((l \div M) - (b \div M)))
<1>1. PICK A \in Int, s \in 0..(M - 1) : a = M * A + s /\ s = a % M /\ A = a \div M BY ModFacts
<1>2. PICK B \in Int, e \in 0..(M - 1) : b = M * B + e /\ e = b % M /\ B = b \div M BY ModFacts
<1>3. PICK F \in Int : F = f \div M BY ModFacts
<1>4. PICK L \in Int : L = l \div M BY ModFacts
<1>5. c = L - F BY <1>3, <1>4
<1>6. PICK MA \in Int, MB \in Int, MF \in Int, ML \in Int :
         MA = M * A /\ MB = M * B /\ MF = M * F /\ ML = M * L
  OBVIOUS
<1>7. M * c = ML - MF BY <1>5, <1>6, MulSub
<1>8. M * (c - 1) = M * c - M BY MulSub
<1>9. M * ((A - F) + (L - B)) = (MA - MF) + (ML - MB)
  <2>1. PICK p \in Int, q \in Int : p = A - F /\ q = L - B OBVIOUS
  <2>2. M * (p + q) = M * p + M * q BY MulAdd
  <2>3. M * p = MA - MF /\ M * q = ML - MB BY <1>6, <2>1, MulSub
  <2>4. QED BY <2>1, <2>2, <2>3
<1>10. a = MA + s /\ b = MB + e BY <1>1, <1>2, <1>6
<1>11. s \in Int /\ e \in Int OBVIOUS
<1>12. PICK T1 \in Int : T1 = M * ((A - F) + (L - B)) OBVIOUS
<1>13. (e - s) + M * c = (b - a) + T1 BY <1>7, <1>9, <1>10, <1>11, <1>12
<1>14. ((M - 1) - s + e + 1) + M * (c - 1) = (b - a) + T1
  BY <1>7, <1>8, <1>9, <1>10, <1>11, <1>12
<1>15. QED BY <1>1, <1>2, <1>3, <1>4, <1>12, <1>13, <1>14

LEMMA TReports == ASSUME T!Frequent, T!IInv, [T!Next]_T!vars PROVE T!Reports
<1>1. SUFFICES ASSUME report' # report PROVE T!Reports BY DEF T!Reports
<1>2. T!Report
  BY <1>1 DEF T!Next, T!Handler, T!Instructions, T!vars, T!timing, T!Tick, T!Exception, T!Enter,
     T!Vector, T!Count, T!Pop, T!Movs, T!interrupt_init, T!timer_init, T!enable_interrupts,
     T!handler, T!statics, T!clocks, T!timer, T!cpu,
     T!Ldr, T!Cmp, T!Bge, T!Add, T!ReadStart, T!ReadEnd
<1>3. program \in Kinds /\ regs.pc \in T!Addresses /\ T!Types
  BY DEF T!IInv, T!Types, T!Registers, Kinds
<1>4. regs.pc = 24 /\ program = "render.c" BY <1>2, <1>3, Places DEF T!Report, T!Runs
<1>5. count = (lastRead \div Width) - (firstRead \div Width)
  <2>1. CASE firstRead # -1 BY <1>4, <2>1 DEF T!IInv, T!Statics, T!OverflowCounted
  <2>2. CASE firstRead = -1
    <3>1. count = 0 /\ lastRead = firstRead BY <2>2 DEF T!IInv, T!Statics
    <3>2. firstRead \div Width \in Int BY <1>3, ModFacts DEF T!Types, T!Frequent
    <3>3. QED BY <3>1, <3>2
  <2>3. QED BY <2>1, <2>2
<1>6. /\ Width \in Nat \ {0} /\ start \in Int /\ end \in Int /\ firstRead \in Int
      /\ lastRead \in Int /\ count \in Int
  BY <1>3 DEF T!Types, T!Frequent
<1>7. PICK s \in Int, e \in Int : s = start % Width /\ e = end % Width BY <1>6, ModFacts
<1>8. report' = <<T!elapsed_cycles(s, e), count - T!has_overflow(s, e)>> BY <1>2, <1>7 DEF T!Report
<1>9. PICK more \in Int :
         more = Width * ((start \div Width - firstRead \div Width)
                         + (lastRead \div Width - end \div Width))
  <2>1. /\ start \div Width \in Int /\ firstRead \div Width \in Int
        /\ lastRead \div Width \in Int /\ end \div Width \in Int
    BY <1>6, ModFacts
  <2>2. QED BY <1>6, <2>1
<1>10. PICK c \in Int, w \in Int :
          report' = <<c, w>> /\ c + Width * w = (end - start) + more
  <2>1. CASE e >= s
    <3>1. report' = <<e - s, count - 0>> BY <1>8, <2>1 DEF T!elapsed_cycles, T!has_overflow
    <3>2. count - 0 = count BY <1>6
    <3>3. (e - s) + Width * count = (end - start) + more
      BY <1>5, <1>6, <1>7, <1>9, <2>1, ReportAdds
    <3>4. QED BY <1>6, <3>1, <3>2, <3>3
  <2>2. CASE e < s
    <3>1. report' = <<(Width - 1) - s + e + 1, count - 1>>
      BY <1>7, <1>8, <2>2 DEF T!elapsed_cycles, T!has_overflow
    <3>2. ((Width - 1) - s + e + 1) + Width * (count - 1) = (end - start) + more
      BY <1>5, <1>6, <1>7, <1>9, <2>2, ReportAdds
    <3>3. QED BY <1>6, <1>7, <3>1, <3>2
  <2>3. QED BY <1>7, <2>1, <2>2
<1>11. (Width - 1) * w = Width * w - w
  <2>1. PICK M \in Int : M = Width BY <1>6
  <2>2. (M - 1) * w = M * w - w OBVIOUS
  <2>3. QED BY <2>1, <2>2
<1>12. c + (Width - 1) * w = (end - start) - w + more
  <2>1. PICK mw \in Int : mw = Width * w BY <1>6
  <2>2. PICK nw : nw = (Width - 1) * w OBVIOUS
  <2>3. c + mw = (end - start) + more /\ nw = mw - w BY <1>10, <1>11, <2>1, <2>2
  <2>4. c + nw = (end - start) - w + more BY <1>6, <2>3
  <2>5. QED BY <2>2, <2>4
<1>13. report'[1] = c /\ report'[2] = w BY <1>10
<1>14. QED BY <1>9, <1>12, <1>13 DEF T!Reports, T!Printed

-----------------------------------------------------------------------------
(* Fields of a register.                                                        *)

LEMMA DivUnique ==
  ASSUME NEW M \in Nat \ {0}, NEW k \in Int, NEW r \in 0..(M - 1)
  PROVE  (M * k + r) \div M = k
OBVIOUS

LEMMA Product ==
  ASSUME NEW a \in Nat, NEW b \in Nat
  PROVE  a * b \in Nat /\ (a > 0 /\ b > 0 => a * b > 0)
OBVIOUS

LEMMA MulMonotone ==
  ASSUME NEW M \in Nat, NEW a \in Nat, NEW b \in Nat, a <= b
  PROVE  M * a <= M * b
OBVIOUS

\* To divide by a product is to divide twice.
LEMMA DivTwice ==
  ASSUME NEW M \in Nat \ {0}, NEW m \in Nat \ {0}, NEW h \in Nat, NEW r \in 0..(M - 1)
  PROVE  (M * h + r) \div (M * m) = h \div m
<1>1. PICK p \in Int, s \in 0..(m - 1) : h = m * p + s /\ p = h \div m BY ModFacts
<1>2. PICK Mm \in Nat \ {0} : Mm = M * m BY Product
<1>3. M * h = Mm * p + M * s
  <2>1. m * p \in Int OBVIOUS
  <2>2. M * h = M * (m * p) + M * s BY <1>1, <2>1, MulAdd
  <2>3. M * (m * p) = (M * m) * p OBVIOUS
  <2>4. QED BY <1>2, <2>2, <2>3
<1>4. PICK Ms \in Nat : Ms = M * s BY Product
<1>5. Ms <= Mm - M
  <2>1. M * s <= M * (m - 1) BY MulMonotone
  <2>2. M * (m - 1) = M * m - M * 1 BY MulSub
  <2>3. QED BY <1>2, <1>4, <2>1, <2>2
<1>6. PICK z \in 0..(Mm - 1) : z = Ms + r BY <1>4, <1>5
<1>7. PICK Mp \in Int : Mp = Mm * p OBVIOUS
<1>8. M * h + r = Mm * p + z BY <1>3, <1>4, <1>6, <1>7
<1>9. (Mm * p + z) \div Mm = p BY DivUnique
<1>10. QED BY <1>1, <1>2, <1>8, <1>9


\* w is v with f in the field of weight u, and the other fields as they were.
SetsOnly(u, v, f, w) ==
    /\ w \in Nat
    /\ (w \div u) % 8 = f
    /\ \A m \in Nat \ {0} : w \div ((8 * u) * m) = v \div ((8 * u) * m)
    /\ \A t \in Nat \ {0}, m \in Nat \ {0} :
          u = (8 * t) * m => (w \div t) % 8 = (v \div t) % 8

LEMMA Field ==
  ASSUME NEW u \in Nat \ {0}, NEW v \in Nat, NEW f \in 0..7, NEW w,
         w = v - u * ((v \div u) % 8) + u * f
  PROVE  SetsOnly(u, v, f, w)
<1>1. PICK q \in Nat, l \in 0..(u - 1) : v = u * q + l /\ q = v \div u
  <2>1. PICK q \in Int, l \in 0..(u - 1) : v = u * q + l /\ q = v \div u BY ModFacts
  <2>2. q >= 0
    <3>1. q <= -1 => u * q <= -u BY MulAtLeast
    <3>2. u * q \in Int OBVIOUS
    <3>3. QED BY <2>1, <3>1, <3>2
  <2>3. q \in Nat BY <2>2
  <2>4. QED BY <2>1, <2>3, Zenon
<1>2. PICK h \in Nat, d \in 0..7 : q = 8 * h + d /\ d = q % 8
  OBVIOUS
<1>3. PICK uh \in Nat, ud \in Nat, uf \in Nat : uh = u * h /\ ud = u * d /\ uf = u * f
  BY Product
<1>4. u * q = 8 * uh + ud
  <2>1. PICK h8 \in Nat : h8 = 8 * h OBVIOUS
  <2>2. u * (h8 + d) = u * h8 + u * d BY MulAdd
  <2>3. u * (8 * h) = 8 * (u * h) OBVIOUS
  <2>4. QED BY <1>2, <1>3, <2>1, <2>2, <2>3
<1>5. v = 8 * uh + ud + l /\ l \in Nat BY <1>1, <1>4
<1>6. w = 8 * uh + uf + l
  <2>1. w = v - ud + uf BY <1>1, <1>2, <1>3
  <2>2. QED BY <1>5, <2>1
<1>7. w \in Nat BY <1>5, <1>6
<1>8. (w \div u) % 8 = f
  <2>1. PICK k \in Nat : k = 8 * h + f OBVIOUS
  <2>2. u * k = 8 * uh + uf
    <3>1. PICK h8 \in Nat : h8 = 8 * h OBVIOUS
    <3>2. u * (h8 + f) = u * h8 + u * f BY MulAdd
    <3>3. u * (8 * h) = 8 * (u * h) OBVIOUS
    <3>4. QED BY <1>3, <2>1, <3>1, <3>2, <3>3
  <2>3. w = u * k + l BY <1>5, <1>6, <2>2
  <2>4. (u * k + l) \div u = k BY DivUnique
  <2>5. k % 8 = f BY <2>1
  <2>6. QED BY <2>3, <2>4, <2>5
<1>9. ASSUME NEW m \in Nat \ {0} PROVE w \div ((8 * u) * m) = v \div ((8 * u) * m)
  <2>1. PICK M \in Nat \ {0} : M = 8 * u OBVIOUS
  <2>2. M * h = 8 * uh
    <3>1. (8 * u) * h = 8 * (u * h) OBVIOUS
    <3>2. QED BY <1>3, <2>1, <3>1
  <2>3. ud <= 7 * u /\ uf <= 7 * u
    <3>1. u * d <= u * 7 /\ u * f <= u * 7 BY MulMonotone
    <3>2. u * 7 = 7 * u OBVIOUS
    <3>3. QED BY <1>3, <3>1, <3>2
  <2>4. ud + l \in 0..(M - 1) /\ uf + l \in 0..(M - 1) BY <1>5, <2>1, <2>3
  <2>5. (M * h + (ud + l)) \div (M * m) = h \div m BY <2>4, DivTwice
  <2>6. (M * h + (uf + l)) \div (M * m) = h \div m BY <2>4, DivTwice
  <2>7. v = M * h + (ud + l) /\ w = M * h + (uf + l) BY <1>5, <1>6, <2>2
  <2>8. QED BY <2>1, <2>5, <2>6, <2>7
<1>10. ASSUME NEW t \in Nat \ {0}, NEW m \in Nat \ {0}, u = (8 * t) * m
       PROVE  (w \div t) % 8 = (v \div t) % 8
  <2>1. PICK a \in Int, r \in 0..(t - 1) : v = t * a + r /\ a = v \div t BY ModFacts
  <2>2. PICK g \in Int : g = m * (f - d) OBVIOUS
  <2>3. w = t * (a + 8 * g) + r
    <3>1. u * (f - d) = uf - ud BY <1>3, MulSub
    <3>2. u * (f - d) = t * (8 * g)
      <4>1. PICK e \in Int : e = f - d OBVIOUS
      <4>2. ((8 * t) * m) * e = t * (8 * (m * e)) OBVIOUS
      <4>3. QED BY <1>10, <2>2, <4>1, <4>2
    <3>3. PICK g8 \in Int : g8 = 8 * g OBVIOUS
    <3>4. t * (a + g8) = t * a + t * g8 BY MulAdd
    <3>5. t * a \in Int /\ t * g8 \in Int OBVIOUS
    <3>6. w = v + (uf - ud) BY <1>5, <1>6
    <3>7. QED BY <2>1, <3>1, <3>2, <3>3, <3>4, <3>5, <3>6
  <2>4. PICK b \in Int : b = a + 8 * g OBVIOUS
  <2>5. (t * b + r) \div t = b BY DivUnique
  <2>6. b % 8 = a % 8 BY <2>4
  <2>7. QED BY <2>1, <2>3, <2>4, <2>5, <2>6
<1>11. QED BY <1>7, <1>8, <1>9, <1>10, Zenon DEF SetsOnly


LEMMA PowerOf ==
  ASSUME NEW pin \in 10..19
  PROVE  8^(pin % 10) \in Nat \ {0}
<1>1. CASE pin = 10 BY <1>1
<1>2. CASE pin = 11 BY <1>2
<1>3. CASE pin = 12 BY <1>3
<1>4. CASE pin = 13 BY <1>4
<1>5. CASE pin = 14 BY <1>5
<1>6. CASE pin = 15 BY <1>6
<1>7. CASE pin = 16 BY <1>7
<1>8. CASE pin = 17 BY <1>8
<1>9. CASE pin = 18 BY <1>9
<1>10. CASE pin = 19 BY <1>10
<1>11. \/ pin = 10 \/ pin = 11 \/ pin = 12 \/ pin = 13 \/ pin = 14 \/ pin = 15
       \/ pin = 16 \/ pin = 17 \/ pin = 18 \/ pin = 19
  OBVIOUS
<1>12. QED
  BY <1>1, <1>2, <1>3, <1>4, <1>5, <1>6, <1>7, <1>8, <1>9, <1>10, <1>11, Zenon

LEMMA Weights16 ==
  ASSUME NEW pin \in 10..19, pin # 16
  PROVE  \E m \in Nat \ {0} :
            8^(pin % 10) = (8 * 8^6) * m \/ 8^6 = (8 * 8^(pin % 10)) * m
<1>1. CASE pin = 10
  <2>1. PICK m \in Nat \ {0} : m = 32768 OBVIOUS
  <2>2. 8^6 = (8 * 8^(pin % 10)) * m BY <1>1, <2>1
  <2>3. QED BY <2>2, Zenon
<1>2. CASE pin = 11
  <2>1. PICK m \in Nat \ {0} : m = 4096 OBVIOUS
  <2>2. 8^6 = (8 * 8^(pin % 10)) * m BY <1>2, <2>1
  <2>3. QED BY <2>2, Zenon
<1>3. CASE pin = 12
  <2>1. PICK m \in Nat \ {0} : m = 512 OBVIOUS
  <2>2. 8^6 = (8 * 8^(pin % 10)) * m BY <1>3, <2>1
  <2>3. QED BY <2>2, Zenon
<1>4. CASE pin = 13
  <2>1. PICK m \in Nat \ {0} : m = 64 OBVIOUS
  <2>2. 8^6 = (8 * 8^(pin % 10)) * m BY <1>4, <2>1
  <2>3. QED BY <2>2, Zenon
<1>5. CASE pin = 14
  <2>1. PICK m \in Nat \ {0} : m = 8 OBVIOUS
  <2>2. 8^6 = (8 * 8^(pin % 10)) * m BY <1>5, <2>1
  <2>3. QED BY <2>2, Zenon
<1>6. CASE pin = 15
  <2>1. PICK m \in Nat \ {0} : m = 1 OBVIOUS
  <2>2. 8^6 = (8 * 8^(pin % 10)) * m BY <1>6, <2>1
  <2>3. QED BY <2>2, Zenon
<1>7. CASE pin = 17
  <2>1. PICK m \in Nat \ {0} : m = 1 OBVIOUS
  <2>2. 8^(pin % 10) = (8 * 8^6) * m BY <1>7, <2>1
  <2>3. QED BY <2>2, Zenon
<1>8. CASE pin = 18
  <2>1. PICK m \in Nat \ {0} : m = 8 OBVIOUS
  <2>2. 8^(pin % 10) = (8 * 8^6) * m BY <1>8, <2>1
  <2>3. QED BY <2>2, Zenon
<1>9. CASE pin = 19
  <2>1. PICK m \in Nat \ {0} : m = 64 OBVIOUS
  <2>2. 8^(pin % 10) = (8 * 8^6) * m BY <1>9, <2>1
  <2>3. QED BY <2>2, Zenon
<1>10. \/ pin = 10 \/ pin = 11 \/ pin = 12 \/ pin = 13 \/ pin = 14 \/ pin = 15
       \/ pin = 17 \/ pin = 18 \/ pin = 19
  OBVIOUS
<1>11. QED
  BY <1>1, <1>2, <1>3, <1>4, <1>5, <1>6, <1>7, <1>8, <1>9, <1>10, Zenon

LEMMA Weights17 ==
  ASSUME NEW pin \in 10..19, pin # 17
  PROVE  \E m \in Nat \ {0} :
            8^(pin % 10) = (8 * 8^7) * m \/ 8^7 = (8 * 8^(pin % 10)) * m
<1>1. CASE pin = 10
  <2>1. PICK m \in Nat \ {0} : m = 262144 OBVIOUS
  <2>2. 8^7 = (8 * 8^(pin % 10)) * m BY <1>1, <2>1
  <2>3. QED BY <2>2, Zenon
<1>2. CASE pin = 11
  <2>1. PICK m \in Nat \ {0} : m = 32768 OBVIOUS
  <2>2. 8^7 = (8 * 8^(pin % 10)) * m BY <1>2, <2>1
  <2>3. QED BY <2>2, Zenon
<1>3. CASE pin = 12
  <2>1. PICK m \in Nat \ {0} : m = 4096 OBVIOUS
  <2>2. 8^7 = (8 * 8^(pin % 10)) * m BY <1>3, <2>1
  <2>3. QED BY <2>2, Zenon
<1>4. CASE pin = 13
  <2>1. PICK m \in Nat \ {0} : m = 512 OBVIOUS
  <2>2. 8^7 = (8 * 8^(pin % 10)) * m BY <1>4, <2>1
  <2>3. QED BY <2>2, Zenon
<1>5. CASE pin = 14
  <2>1. PICK m \in Nat \ {0} : m = 64 OBVIOUS
  <2>2. 8^7 = (8 * 8^(pin % 10)) * m BY <1>5, <2>1
  <2>3. QED BY <2>2, Zenon
<1>6. CASE pin = 15
  <2>1. PICK m \in Nat \ {0} : m = 8 OBVIOUS
  <2>2. 8^7 = (8 * 8^(pin % 10)) * m BY <1>6, <2>1
  <2>3. QED BY <2>2, Zenon
<1>7. CASE pin = 16
  <2>1. PICK m \in Nat \ {0} : m = 1 OBVIOUS
  <2>2. 8^7 = (8 * 8^(pin % 10)) * m BY <1>7, <2>1
  <2>3. QED BY <2>2, Zenon
<1>8. CASE pin = 18
  <2>1. PICK m \in Nat \ {0} : m = 1 OBVIOUS
  <2>2. 8^(pin % 10) = (8 * 8^7) * m BY <1>8, <2>1
  <2>3. QED BY <2>2, Zenon
<1>9. CASE pin = 19
  <2>1. PICK m \in Nat \ {0} : m = 8 OBVIOUS
  <2>2. 8^(pin % 10) = (8 * 8^7) * m BY <1>9, <2>1
  <2>3. QED BY <2>2, Zenon
<1>10. \/ pin = 10 \/ pin = 11 \/ pin = 12 \/ pin = 13 \/ pin = 14 \/ pin = 15
       \/ pin = 16 \/ pin = 18 \/ pin = 19
  OBVIOUS
<1>11. QED
  BY <1>1, <1>2, <1>3, <1>4, <1>5, <1>6, <1>7, <1>8, <1>9, <1>10, Zenon

LEMMA Weights ==
  ASSUME NEW p \in {16, 17}, NEW pin \in 10..19, pin # p
  PROVE  \E m \in Nat \ {0} : \/ 8^(pin % 10) = (8 * 8^(p % 10)) * m
                              \/ 8^(p % 10) = (8 * 8^(pin % 10)) * m
<1>1. CASE p = 16
  <2>1. p % 10 = 6 BY <1>1
  <2>2. QED BY <1>1, <2>1, Weights16, Zenon
<1>2. CASE p = 17
  <2>1. p % 10 = 7 BY <1>2
  <2>2. QED BY <1>2, <2>1, Weights17, Zenon
<1>3. QED BY <1>1, <1>2

\* Setting a function: the pin has it, and the other pins theirs.
LEMMA SetsField ==
  ASSUME fsel \in [1..2 -> Nat], NEW p \in {16, 17}, NEW f \in {0, 1}, E!gpio_set_function(p, f)
  PROVE  /\ fsel' \in [1..2 -> Nat]
         /\ E!Function(fsel', p) = f
         /\ \A pin \in 10..29 : pin # p => E!Function(fsel', pin) = E!Function(fsel, pin)
<1>1. PICK v \in Nat : v = fsel[1] OBVIOUS
<1>2. PICK u \in Nat \ {0} : u = 8^(p % 10)
  <2>1. CASE p = 16 BY <2>1
  <2>2. CASE p = 17 BY <2>2
  <2>3. QED BY <2>1, <2>2
<1>3. PICK w : w = v - u * ((v \div u) % 8) + u * f OBVIOUS
<1>4. p \div 10 = 1 OBVIOUS
<1>5. E!Known(p) /\ f \in 0..7 BY DEF E!Known
<1>6. fsel' = [fsel EXCEPT ![1] = w]
  <2>1. fsel' = [fsel EXCEPT ![p \div 10] =
           fsel[p \div 10] - 8^(p % 10) * ((fsel[p \div 10] \div 8^(p % 10)) % 8) + 8^(p % 10) * f]
    BY <1>5 DEF E!gpio_set_function
  <2>2. QED BY <1>1, <1>2, <1>3, <1>4, <2>1, Zenon
<1>7. /\ w \in Nat /\ (w \div u) % 8 = f
      /\ \A m \in Nat \ {0} : w \div ((8 * u) * m) = v \div ((8 * u) * m)
      /\ \A t \in Nat \ {0}, m \in Nat \ {0} :
               u = (8 * t) * m => (w \div t) % 8 = (v \div t) % 8
  <2>1. f \in 0..7 OBVIOUS
  <2>2. SetsOnly(u, v, f, w) BY <1>3, <2>1, Field, Zenon
  <2>3. QED BY <2>2, Zenon DEF SetsOnly
<1>8. fsel' \in [1..2 -> Nat] /\ fsel'[1] = w /\ fsel'[2] = fsel[2] BY <1>6, <1>7
<1>9. E!Function(fsel', p) = f BY <1>2, <1>4, <1>7, <1>8, Zenon DEF E!Function
<1>10. ASSUME NEW pin \in 10..29, pin # p
       PROVE  E!Function(fsel', pin) = E!Function(fsel, pin)
  <2>1. CASE pin >= 20
    <3>1. pin \div 10 = 2 BY <2>1
    <3>2. QED BY <1>8, <3>1, Zenon DEF E!Function
  <2>2. CASE pin < 20
    <3>1. pin \div 10 = 1 BY <2>2
    <3>2. pin \in 10..19 BY <2>2
    <3>3. PICK t \in Nat \ {0}, m \in Nat \ {0} :
             t = 8^(pin % 10) /\ (t = (8 * u) * m \/ u = (8 * t) * m)
      <4>1. 8^(pin % 10) \in Nat \ {0} BY <3>2, PowerOf
      <4>2. PICK m \in Nat \ {0} : \/ 8^(pin % 10) = (8 * 8^(p % 10)) * m
                                   \/ 8^(p % 10) = (8 * 8^(pin % 10)) * m
        BY <1>10, <3>2, Weights, Zenon
      <4>3. QED BY <1>2, <4>1, <4>2, Zenon
    <3>4. (w \div t) % 8 = (v \div t) % 8 BY <1>7, <3>3, Zenon
    <3>5. QED BY <1>1, <1>8, <3>1, <3>3, <3>4, Zenon DEF E!Function
  <2>3. QED BY <2>1, <2>2
<1>11. QED BY <1>8, <1>9, <1>10

-----------------------------------------------------------------------------
(* Edge interrupts.                                                        *)

LEMMA EdgeCode ==
  /\ E!Code[1] = "int_vec_init" /\ E!Code[2] = "set_output" /\ E!Code[3] = "set_input"
  /\ E!Code[4] = "write_0" /\ E!Code[5] = "wait" /\ E!Code[6] = "rising_edge"
  /\ E!Code[7] = "write_1" /\ E!Code[8] = "wait" /\ E!Code[9] = "falling_edge"
  /\ E!Code[10] = "assert_1" /\ E!Code[11] = "event_clear" /\ E!Code[12] = "int_enable"
  /\ E!Code[13] = "fresh" /\ E!Code[14] = "write_0" /\ E!Code[15] = "wait" /\ E!Code[16] = "fell"
  /\ E!Code[17] = "write_1" /\ E!Code[18] = "wait" /\ E!Code[19] = "rose" /\ E!Code[20] = "done"
BY DEF E!Code, E!Startup

LEMMA EdgePlaces ==
  ASSUME pc \in 1..20
  PROVE  /\ E!Code[pc] = "int_vec_init" => pc = 1
         /\ E!Code[pc] = "set_output" => pc = 2
         /\ E!Code[pc] = "set_input" => pc = 3
         /\ E!Code[pc] = "write_0" => pc = 4 \/ pc = 14
         /\ E!Code[pc] = "wait" => pc = 5 \/ pc = 8 \/ pc = 15 \/ pc = 18
         /\ E!Code[pc] = "rising_edge" => pc = 6
         /\ E!Code[pc] = "write_1" => pc = 7 \/ pc = 17
         /\ E!Code[pc] = "falling_edge" => pc = 9
         /\ E!Code[pc] = "assert_1" => pc = 10
         /\ E!Code[pc] = "event_clear" => pc = 11
         /\ E!Code[pc] = "int_enable" => pc = 12
         /\ E!Code[pc] = "fresh" => pc = 13
         /\ E!Code[pc] = "fell" => pc = 16
         /\ E!Code[pc] = "rose" => pc = 19
<1>1. CASE pc \in 1..5 BY <1>1, EdgeCode
<1>2. CASE pc \in 6..12 BY <1>2, EdgeCode
<1>3. CASE pc \in 13..20 BY <1>3, EdgeCode
<1>4. QED BY <1>1, <1>2, <1>3

LEMMA EInit == ASSUME E!Init PROVE E!IInv
<1>1. E!Types
  <2>1. 2 * 8^4 + 2 * 8^5 \in Nat OBVIOUS
  <2>2. fsel \in [1..2 -> Nat] BY <2>1 DEF E!Init
  <2>3. ENIRQ2 \in BOOLEAN /\ irqOff \in BOOLEAN /\ found \in BOOLEAN BY Zenon DEF E!Init
  <2>4. /\ test \in {"one", "many"} /\ pc = 1 /\ i = 1 /\ latch \in 0..1 /\ level \in 0..1
        /\ GPEDS = {} /\ ipc = "-" /\ n_interrupt = 0 /\ n_rising = 0 /\ n_falling = 0
        /\ rises = 0 /\ falls = 0
    BY Zenon DEF E!Init
  <2>5. QED BY <2>2, <2>3, <2>4 DEF E!Types
<1>2. E!SetUp BY DEF E!Init, E!SetUp, E!in_pin
<1>3. E!Levels BY DEF E!Init, E!Levels
<1>4. E!Edges BY DEF E!Init, E!Edges
<1>5. E!Counts BY DEF E!Init, E!Counts
<1>6. QED BY <1>1, <1>2, <1>3, <1>4, <1>5 DEF E!Init, E!IInv

LEMMA EPropagate == ASSUME E!IInv, E!Propagate PROVE E!IInv'
<1>1. /\ UNCHANGED <<test, pc, i, fsel, latch, GPREN, GPFEN, ENIRQ2, vector_reg, irqOff, ipc,
                     found, n_interrupt, n_rising, n_falling, panic>>
      /\ level' \in E!Wire \ {level}
      /\ GPEDS' = IF 17 \in (IF level' = 1 THEN GPREN ELSE GPFEN) THEN GPEDS \union {17} ELSE GPEDS
      /\ rises' = IF level' = 1 /\ ~irqOff THEN rises + 1 ELSE rises
      /\ falls' = IF level' = 0 /\ ~irqOff THEN falls + 1 ELSE falls
  BY DEF E!Propagate, E!main, E!counters, E!in_pin
<1>2. E!Wire \subseteq 0..1 BY DEF E!Wire, E!IInv, E!Types
<1>3. E!Types' BY <1>1, <1>2 DEF E!IInv, E!Types, E!in_pin
<1>4. E!SetUp' BY <1>1 DEF E!IInv, E!SetUp, E!in_pin
<1>5. pc > 2 => level' = latch /\ level = 1 - latch
  BY <1>1, <1>2 DEF E!IInv, E!Types, E!SetUp, E!Wire
<1>6. E!Levels' BY <1>1, <1>2, <1>5 DEF E!IInv, E!Types, E!Levels
<1>7. ipc = "-" BY <1>1, <1>5 DEF E!IInv, E!Types, E!Levels, E!Counts
<1>8. pc > 12 => pc \in {15, 18} BY <1>5 DEF E!IInv, E!Types, E!Levels
<1>9. pc > 12 => GPEDS = {} BY <1>5, <1>8 DEF E!IInv, E!Types, E!Edges
<1>10. pc > 12 => GPEDS' = {17}
  <2>1. pc > 12 => GPREN = {17} /\ GPFEN = {17} BY DEF E!IInv, E!Types, E!SetUp, E!in_pin
  <2>2. {} \union {17} = {17} OBVIOUS
  <2>3. QED BY <1>1, <1>9, <2>1, <2>2, Zenon
<1>11. pc <= 12 => rises' = rises /\ falls' = falls BY <1>1 DEF E!IInv, E!SetUp
<1>12. pc <= 12 => (GPEDS' # {} => pc \in 8..11)
  BY <1>1, <1>5 DEF E!IInv, E!Types, E!SetUp, E!Levels, E!Edges
<1>13. E!Edges'
  BY <1>1, <1>5, <1>7, <1>8, <1>9, <1>10, <1>11, <1>12 DEF E!IInv, E!Types, E!SetUp, E!Levels, E!Edges
<1>14. E!Counts'
  BY <1>1, <1>5, <1>7, <1>8, <1>9, <1>10, <1>11 DEF E!IInv, E!Types, E!SetUp, E!Levels, E!Edges, E!Counts
<1>15. QED BY <1>1, <1>3, <1>4, <1>6, <1>13, <1>14 DEF E!IInv

-----------------------------------------------------------------------------
LEMMA EException == ASSUME E!IInv, E!Exception PROVE E!IInv'
<1>1. /\ UNCHANGED <<test, pc, i, fsel, latch, level, GPREN, GPFEN, GPEDS, ENIRQ2, vector_reg,
                     n_rising, n_falling, rises, falls, panic>>
      /\ irqOff' = TRUE /\ ipc' = "rising" /\ found' = FALSE /\ n_interrupt' = n_interrupt + 1
      /\ ipc = "-" /\ GPEDS # {} /\ ~irqOff
  BY DEF E!Exception, E!main, E!pins, E!detector, E!history, E!Interrupted
<1>2. pc > 12 BY <1>1 DEF E!IInv, E!SetUp, E!Types
<1>3. pc \in {15, 18} /\ level = latch BY <1>1, <1>2 DEF E!IInv, E!Edges
<1>4. E!Types'
  <2>1. irqOff' \in BOOLEAN /\ found' \in BOOLEAN BY <1>1
  <2>2. QED BY <1>1, <2>1 DEF E!IInv, E!Types
<1>5. E!SetUp' BY <1>1, <1>2 DEF E!IInv, E!SetUp
<1>6. E!Levels' BY <1>1 DEF E!IInv, E!Levels
<1>7. E!Edges' BY <1>1 DEF E!IInv, E!Edges
<1>8. E!Counts' BY <1>1, <1>3 DEF E!IInv, E!Types, E!Counts
<1>9. QED BY <1>1, <1>4, <1>5, <1>6, <1>7, <1>8 DEF E!IInv

\* The level says which edge the handler was called for.
LEMMA EFinds ==
  ASSUME E!IInv
  PROVE  /\ E!gpio_event_detected(E!in_pin) <=> GPEDS # {}
         /\ E!gpio_read(E!in_pin) = level
         /\ ipc # "-" => level = (IF pc = 15 THEN 0 ELSE 1)
<1>1. GPEDS \subseteq {17} /\ pc \in 1..20 BY DEF E!IInv, E!Types, E!in_pin
<1>2. E!gpio_event_detected(E!in_pin) <=> GPEDS # {}
  <2>1. E!gpio_event_detected(E!in_pin) = (17 < 32 /\ 17 \in GPEDS)
    BY Zenon DEF E!gpio_event_detected, E!in_pin
  <2>2. 17 < 32 OBVIOUS
  <2>3. GPEDS # {} => 17 \in GPEDS BY <1>1, Zenon
  <2>4. QED BY <2>1, <2>2, <2>3, Zenon
<1>3. E!gpio_read(E!in_pin) = level BY DEF E!gpio_read, E!Known, E!in_pin
<1>4. ipc # "-" => level = (IF pc = 15 THEN 0 ELSE 1)
  BY <1>1 DEF E!IInv, E!Levels, E!Counts
<1>5. QED BY <1>2, <1>3, <1>4

LEMMA ERising == ASSUME E!IInv, E!rising_handler PROVE E!IInv'
<1>1. /\ UNCHANGED <<test, pc, i, fsel, latch, level, GPREN, GPFEN, ENIRQ2, vector_reg, irqOff,
                     n_interrupt, n_falling, rises, falls, panic>>
      /\ ipc = "rising" /\ ipc' = "falling"
      /\ IF E!gpio_event_detected(E!in_pin) /\ E!gpio_read(E!in_pin) = 1
         THEN n_rising' = n_rising + 1 /\ E!gpio_event_clear(E!in_pin) /\ found' = TRUE
         ELSE UNCHANGED <<n_rising, GPEDS, found>>
  BY DEF E!rising_handler, E!Handles, E!main, E!pins, E!history
<1>2. pc \in {15, 18} /\ level = latch /\ found = FALSE /\ GPEDS = {17}
      /\ n_interrupt = n_rising + n_falling + 1
  BY <1>1 DEF E!IInv, E!Types, E!Counts, E!in_pin
<1>3. pc = 15 => n_rising' = n_rising /\ GPEDS' = GPEDS /\ found' = found
  BY <1>1, <1>2, EFinds
<1>4. pc = 18 => n_rising' = n_rising + 1 /\ GPEDS' = {} /\ found' = TRUE
  BY <1>1, <1>2, EFinds DEF E!gpio_event_clear, E!in_pin
<1>5. E!Types'
  <2>1. n_rising \in Nat BY DEF E!IInv, E!Types
  <2>2. n_rising' \in Nat /\ GPEDS' \subseteq {17} BY <1>2, <1>3, <1>4, <2>1
  <2>3. found' \in BOOLEAN BY <1>2, <1>3, <1>4
  <2>4. QED BY <1>1, <2>2, <2>3 DEF E!IInv, E!Types, E!in_pin
<1>6. E!SetUp' BY <1>1 DEF E!IInv, E!SetUp
<1>7. E!Levels' BY <1>1 DEF E!IInv, E!Levels
<1>8. E!Edges' BY <1>1, <1>2, <1>3, <1>4 DEF E!IInv, E!Edges
<1>9. E!Counts' BY <1>1, <1>2, <1>3, <1>4 DEF E!IInv, E!Types, E!Counts
<1>10. QED BY <1>1, <1>5, <1>6, <1>7, <1>8, <1>9 DEF E!IInv

LEMMA EFalling == ASSUME E!IInv, E!falling_handler PROVE E!IInv'
<1>1. /\ UNCHANGED <<test, pc, i, fsel, latch, level, GPREN, GPFEN, ENIRQ2, vector_reg, irqOff,
                     n_interrupt, n_rising, rises, falls, panic>>
      /\ ipc = "falling" /\ ipc' = "return"
      /\ IF E!gpio_event_detected(E!in_pin) /\ E!gpio_read(E!in_pin) = 0
         THEN n_falling' = n_falling + 1 /\ E!gpio_event_clear(E!in_pin) /\ found' = TRUE
         ELSE UNCHANGED <<n_falling, GPEDS, found>>
  BY DEF E!falling_handler, E!Handles, E!main, E!pins, E!history
<1>2. pc \in {15, 18} /\ level = latch /\ (found <=> GPEDS = {}) /\ (GPEDS # {} <=> pc = 15)
  BY <1>1 DEF E!IInv, E!Counts
<1>3. pc = 18 => n_falling' = n_falling /\ GPEDS' = {} /\ found' = found
  BY <1>1, <1>2, EFinds
<1>4. pc = 15 => n_falling' = n_falling + 1 /\ GPEDS' = {} /\ found' = TRUE
  <2>1. GPEDS \ {17} = {} BY DEF E!IInv, E!Types, E!in_pin
  <2>2. QED BY <1>1, <1>2, <2>1, EFinds DEF E!gpio_event_clear, E!in_pin
<1>5. E!Types'
  <2>1. n_falling \in Nat /\ found \in BOOLEAN BY DEF E!IInv, E!Types
  <2>2. n_falling' \in Nat /\ GPEDS' \subseteq {17} BY <1>2, <1>3, <1>4, <2>1
  <2>3. found' \in BOOLEAN BY <1>2, <1>3, <1>4, <2>1
  <2>4. QED BY <1>1, <2>2, <2>3 DEF E!IInv, E!Types, E!in_pin
<1>6. E!SetUp' BY <1>1 DEF E!IInv, E!SetUp
<1>7. E!Levels' BY <1>1 DEF E!IInv, E!Levels
<1>8. E!Edges' BY <1>1, <1>2, <1>3, <1>4 DEF E!IInv, E!Edges
<1>9. E!Counts' BY <1>1, <1>2, <1>3, <1>4 DEF E!IInv, E!Types, E!Counts
<1>10. QED BY <1>1, <1>5, <1>6, <1>7, <1>8, <1>9 DEF E!IInv

\* The handlers found the event.
LEMMA EReturn == ASSUME E!IInv, E!Return PROVE E!IInv'
<1>1. /\ UNCHANGED <<test, pc, i, fsel, latch, level, GPREN, GPFEN, GPEDS, ENIRQ2, vector_reg, found,
                     n_interrupt, n_rising, n_falling, rises, falls>>
      /\ ipc = "return" /\ ipc' = "-" /\ irqOff' = FALSE /\ panic' = ~found
  BY DEF E!Return, E!Handles, E!main, E!pins, E!detector, E!counters, E!history
<1>2. pc \in {15, 18} /\ GPEDS = {} /\ found /\ pc > 12
  BY <1>1 DEF E!IInv, E!Types, E!SetUp, E!Counts
<1>3. E!Types' BY <1>1 DEF E!IInv, E!Types
<1>4. E!SetUp' BY <1>1, <1>2 DEF E!IInv, E!SetUp
<1>5. E!Levels' BY <1>1 DEF E!IInv, E!Levels
<1>6. E!Edges' BY <1>1 DEF E!IInv, E!Edges
<1>7. E!Counts' BY <1>1, <1>2 DEF E!IInv, E!Counts
<1>8. QED BY <1>1, <1>2, <1>3, <1>4, <1>5, <1>6, <1>7 DEF E!IInv

\* The program goes on with no interrupt waiting, once they are enabled.
LEMMA ERuns ==
  ASSUME E!IInv, NEW s, E!Runs(s)
  PROVE  /\ ipc = "-" /\ ~panic /\ E!Code[pc] = s /\ pc \in 1..20
         /\ pc > 12 => GPEDS = {} /\ irqOff = FALSE
         /\ pc <= 12 => irqOff = TRUE
<1>1. ipc = "-" /\ ~panic /\ E!Code[pc] = s /\ (GPEDS # {} /\ ENIRQ2 => irqOff)
  BY DEF E!Runs, E!Interrupted
<1>2. pc \in 1..20 /\ irqOff \in BOOLEAN BY DEF E!IInv, E!Types
<1>3. /\ pc > 12 => ENIRQ2 /\ ~irqOff
      /\ pc <= 12 => irqOff
  BY <1>1, <1>2 DEF E!IInv, E!SetUp
<1>4. QED BY <1>1, <1>2, <1>3

LEMMA EVector == ASSUME E!IInv, E!int_vec_init PROVE E!IInv'
<1>1. /\ UNCHANGED <<test, i, ipc, found, fsel, latch, level, GPREN, GPFEN, GPEDS,
                     n_interrupt, n_rising, n_falling, rises, falls>>
      /\ E!Runs("int_vec_init") /\ pc' = pc + 1
      /\ irqOff' = TRUE /\ ENIRQ2' = FALSE /\ E!vector_base_set(E!interrupt_vec)
  BY DEF E!int_vec_init, E!Then, E!pins, E!counters, E!history
<1>2. pc = 1 /\ ipc = "-" BY <1>1, ERuns, EdgePlaces
<1>3. vector_reg = 0 BY <1>2 DEF E!IInv, E!SetUp
<1>4. vector_reg' = 32 /\ panic' = panic
  <2>1. E!vector_base_chk(32) BY DEF E!vector_base_chk
  <2>2. QED BY <1>1, <1>3, <2>1 DEF E!vector_base_set, E!interrupt_vec
<1>5. E!Types'
  <2>1. irqOff' \in BOOLEAN /\ ENIRQ2' \in BOOLEAN BY <1>1
  <2>2. QED BY <1>1, <1>2, <2>1 DEF E!IInv, E!Types
<1>6. E!SetUp' BY <1>1, <1>2, <1>4 DEF E!IInv, E!SetUp, E!interrupt_vec
<1>7. E!Levels' BY <1>1, <1>2 DEF E!Levels
<1>8. E!Edges' BY <1>1, <1>2 DEF E!IInv, E!Edges
<1>9. E!Counts' BY <1>1, <1>2 DEF E!IInv, E!Counts
<1>10. QED BY <1>4, <1>5, <1>6, <1>7, <1>8, <1>9 DEF E!IInv

LEMMA ESetFunction == ASSUME E!IInv, E!SetFunction PROVE E!IInv'
<1>1. /\ UNCHANGED <<test, i, ipc, found, latch, level, GPREN, GPFEN, GPEDS, ENIRQ2, vector_reg,
                     irqOff, n_interrupt, n_rising, n_falling, rises, falls, panic>>
      /\ pc' = pc + 1
      /\ \/ E!Runs("set_output") /\ E!gpio_set_function(16, 1)
         \/ E!Runs("set_input") /\ E!gpio_set_function(17, 0)
  BY DEF E!SetFunction, E!Then, E!detector, E!counters, E!history, E!out_pin, E!in_pin
<1>2. fsel \in [1..2 -> Nat] BY DEF E!IInv, E!Types
<1>3. \/ pc = 2 /\ ipc = "-" /\ E!gpio_set_function(16, 1)
      \/ pc = 3 /\ ipc = "-" /\ E!gpio_set_function(17, 0)
  BY <1>1, ERuns, EdgePlaces
<1>4. fsel' \in [1..2 -> Nat] /\ E!Function(fsel', 16) = 1
  <2>1. CASE pc = 2 /\ E!gpio_set_function(16, 1)
    <3>1. 16 \in {16, 17} /\ 1 \in {0, 1} OBVIOUS
    <3>2. QED BY <1>2, <2>1, <3>1, SetsField, Zenon
  <2>2. CASE pc = 3 /\ E!gpio_set_function(17, 0)
    <3>1. 17 \in {16, 17} /\ 0 \in {0, 1} /\ 16 # 17 /\ 16 \in 10..29 OBVIOUS
    <3>2. fsel' \in [1..2 -> Nat] /\ E!Function(fsel', 16) = E!Function(fsel, 16)
      BY <1>2, <2>2, <3>1, SetsField, Zenon
    <3>3. E!Function(fsel, 16) = 1 BY <2>2 DEF E!IInv, E!SetUp, E!out_pin
    <3>4. QED BY <3>2, <3>3
  <2>3. QED BY <1>3, <2>1, <2>2, Zenon
<1>5. pc \in {2, 3} /\ ipc = "-" BY <1>3
<1>6. E!Types' BY <1>1, <1>4, <1>5 DEF E!IInv, E!Types
<1>7. E!SetUp' BY <1>1, <1>4, <1>5 DEF E!IInv, E!SetUp, E!out_pin
<1>8. E!Levels' BY <1>1, <1>5 DEF E!Levels
<1>9. E!Edges' BY <1>1, <1>5 DEF E!IInv, E!Edges
<1>10. E!Counts' BY <1>1, <1>5 DEF E!IInv, E!Counts
<1>11. QED BY <1>1, <1>6, <1>7, <1>8, <1>9, <1>10 DEF E!IInv

LEMMA EWrite == ASSUME E!IInv, E!Write PROVE E!IInv'
<1>1. /\ UNCHANGED <<test, i, ipc, found, fsel, level, GPREN, GPFEN, GPEDS, ENIRQ2, vector_reg,
                     irqOff, n_interrupt, n_rising, n_falling, rises, falls, panic>>
      /\ pc' = pc + 1
      /\ \/ E!Runs("write_0") /\ E!gpio_write(E!out_pin, 0)
         \/ E!Runs("write_1") /\ E!gpio_write(E!out_pin, 1)
  BY DEF E!Write, E!Then, E!detector, E!counters, E!history
<1>2. \/ pc \in {4, 14} /\ latch' = 0
      \/ pc \in {7, 17} /\ latch' = 1
  <2>1. /\ E!gpio_write(E!out_pin, 0) => latch' = 0
        /\ E!gpio_write(E!out_pin, 1) => latch' = 1
    BY DEF E!gpio_write, E!Known, E!out_pin
  <2>2. /\ E!Runs("write_0") => pc \in {4, 14}
        /\ E!Runs("write_1") => pc \in {7, 17}
    BY ERuns, EdgePlaces
  <2>3. QED BY <1>1, <2>1, <2>2, Zenon
<1>3. ipc = "-" /\ (pc > 12 => GPEDS = {}) BY <1>1, ERuns
<1>4. E!Types' BY <1>1, <1>2 DEF E!IInv, E!Types
<1>5. E!SetUp' BY <1>1, <1>2, <1>3 DEF E!IInv, E!SetUp
<1>6. E!Levels' BY <1>1, <1>2 DEF E!IInv, E!Levels
<1>7. E!Edges' BY <1>1, <1>2, <1>3 DEF E!IInv, E!Edges, E!Levels
<1>8. E!Counts' BY <1>1, <1>2, <1>3 DEF E!IInv, E!Counts
<1>9. QED BY <1>1, <1>4, <1>5, <1>6, <1>7, <1>8 DEF E!IInv

LEMMA EWait == ASSUME E!IInv, E!WriteTakesLong PROVE E!IInv'
<1>1. /\ UNCHANGED <<test, i, ipc, found, fsel, latch, level, GPREN, GPFEN, GPEDS, ENIRQ2,
                     vector_reg, irqOff, n_interrupt, n_rising, n_falling, rises, falls, panic>>
      /\ pc' = pc + 1 /\ E!Runs("wait") /\ level \in E!Wire
  BY DEF E!WriteTakesLong, E!Settled, E!Then, E!pins, E!detector, E!counters, E!history
<1>2. pc \in {5, 8, 15, 18} /\ ipc = "-" /\ (pc > 12 => GPEDS = {}) BY <1>1, ERuns, EdgePlaces
<1>3. level = latch BY <1>1, <1>2 DEF E!IInv, E!SetUp, E!Wire
<1>4. E!Types' BY <1>1, <1>2 DEF E!IInv, E!Types
<1>5. E!SetUp' BY <1>1, <1>2 DEF E!IInv, E!SetUp
<1>6. E!Levels' BY <1>1, <1>2, <1>3 DEF E!IInv, E!Levels
<1>7. E!Edges' BY <1>1, <1>2, <1>3 DEF E!IInv, E!Edges, E!Levels
<1>8. E!Counts' BY <1>1, <1>2 DEF E!IInv, E!Counts
<1>9. QED BY <1>1, <1>4, <1>5, <1>6, <1>7, <1>8 DEF E!IInv

LEMMA EDetect == ASSUME E!IInv, E!DetectEdges PROVE E!IInv'
<1>1. /\ UNCHANGED <<test, i, ipc, found, fsel, latch, level, GPEDS, vector_reg, irqOff,
                     n_interrupt, n_rising, n_falling, rises, falls, panic>>
      /\ pc' = pc + 1
      /\ \/ E!Runs("rising_edge") /\ E!gpio_int_rising_edge(E!in_pin) /\ GPFEN' = GPFEN
         \/ E!Runs("falling_edge") /\ E!gpio_int_falling_edge(E!in_pin) /\ GPREN' = GPREN
  BY DEF E!DetectEdges, E!Then, E!pins, E!counters, E!history
<1>2. /\ pc = 6 \/ pc = 9
      /\ pc = 6 => GPREN' = GPREN \union {17} /\ GPFEN' = GPFEN
      /\ pc = 9 => GPFEN' = GPFEN \union {17} /\ GPREN' = GPREN
      /\ ENIRQ2' = TRUE
  <2>1. /\ E!gpio_int_rising_edge(E!in_pin) => GPREN' = GPREN \union {17} /\ ENIRQ2' = TRUE
        /\ E!gpio_int_falling_edge(E!in_pin) => GPFEN' = GPFEN \union {17} /\ ENIRQ2' = TRUE
    BY DEF E!gpio_int_rising_edge, E!gpio_int_falling_edge, E!in_pin
  <2>2. /\ E!Runs("rising_edge") => pc = 6
        /\ E!Runs("falling_edge") => pc = 9
    BY ERuns, EdgePlaces
  <2>3. CASE E!Runs("rising_edge") /\ E!gpio_int_rising_edge(E!in_pin) /\ GPFEN' = GPFEN
    <3>1. pc = 6 /\ GPREN' = GPREN \union {17} /\ ENIRQ2' = TRUE BY <2>1, <2>2, <2>3, Zenon
    <3>2. QED BY <2>3, <3>1
  <2>4. CASE E!Runs("falling_edge") /\ E!gpio_int_falling_edge(E!in_pin) /\ GPREN' = GPREN
    <3>1. pc = 9 /\ GPFEN' = GPFEN \union {17} /\ ENIRQ2' = TRUE BY <2>1, <2>2, <2>4, Zenon
    <3>2. QED BY <2>4, <3>1
  <2>5. QED BY <1>1, <2>3, <2>4, Zenon
<1>3. ipc = "-" BY <1>1, ERuns
<1>4. E!Types'
  <2>1. ENIRQ2' \in BOOLEAN BY <1>2
  <2>2. QED BY <1>1, <1>2, <2>1 DEF E!IInv, E!Types
<1>5. E!SetUp'
  <2>1. /\ pc = 6 => GPREN = {} /\ GPFEN = {}
        /\ pc = 9 => GPREN = {17} /\ GPFEN = {}
    BY DEF E!IInv, E!SetUp, E!in_pin
  <2>2. {} \union {17} = {17} OBVIOUS
  <2>3. GPREN' = {17} /\ GPFEN' = (IF pc = 9 THEN {17} ELSE {})
    BY <1>2, <2>1, <2>2
  <2>4. QED BY <1>1, <1>2, <1>3, <2>3 DEF E!IInv, E!SetUp, E!in_pin
<1>6. E!Levels' BY <1>1, <1>2 DEF E!IInv, E!Levels
<1>7. E!Edges' BY <1>1, <1>2 DEF E!IInv, E!Edges
<1>8. E!Counts' BY <1>1, <1>2, <1>3 DEF E!IInv, E!Counts
<1>9. QED BY <1>1, <1>4, <1>5, <1>6, <1>7, <1>8 DEF E!IInv

LEMMA EKnown == ASSUME E!IInv, E!KnownState PROVE E!IInv'
<1>1. /\ UNCHANGED <<test, i, ipc, found, fsel, latch, level, GPREN, GPFEN, GPEDS, ENIRQ2,
                     vector_reg, irqOff, n_interrupt, n_rising, n_falling, rises, falls>>
      /\ pc' = pc + 1 /\ E!Runs("assert_1") /\ panic' = ~(E!gpio_read(E!in_pin) = 1)
  BY DEF E!KnownState, E!Checks, E!Then, E!pins, E!detector, E!counters, E!history
<1>2. pc = 10 /\ ipc = "-" BY <1>1, ERuns, EdgePlaces
<1>3. level = 1 BY <1>2 DEF E!IInv, E!Levels
<1>4. ~panic' BY <1>1, <1>3, EFinds
<1>5. E!Types' BY <1>1, <1>2 DEF E!IInv, E!Types
<1>6. E!SetUp' BY <1>1, <1>2 DEF E!IInv, E!SetUp
<1>7. E!Levels' BY <1>1, <1>2 DEF E!IInv, E!Levels
<1>8. E!Edges' BY <1>1, <1>2 DEF E!IInv, E!Edges
<1>9. E!Counts' BY <1>1, <1>2 DEF E!IInv, E!Counts
<1>10. QED BY <1>4, <1>5, <1>6, <1>7, <1>8, <1>9 DEF E!IInv

LEMMA EClear == ASSUME E!IInv, E!EventClear PROVE E!IInv'
<1>1. /\ UNCHANGED <<test, i, ipc, found, fsel, latch, level, GPREN, GPFEN, ENIRQ2, vector_reg,
                     irqOff, n_interrupt, n_rising, n_falling, rises, falls, panic>>
      /\ pc' = pc + 1 /\ E!Runs("event_clear") /\ GPEDS' = GPEDS \ {17}
  BY DEF E!EventClear, E!gpio_event_clear, E!in_pin, E!Then, E!pins, E!counters, E!history
<1>2. pc = 11 /\ ipc = "-" BY <1>1, ERuns, EdgePlaces
<1>3. GPEDS' = {} BY <1>1 DEF E!IInv, E!Types, E!in_pin
<1>4. E!Types' BY <1>1, <1>2, <1>3 DEF E!IInv, E!Types
<1>5. E!SetUp' BY <1>1, <1>2 DEF E!IInv, E!SetUp
<1>6. E!Levels' BY <1>1, <1>2 DEF E!IInv, E!Levels
<1>7. E!Edges' BY <1>1, <1>2, <1>3 DEF E!IInv, E!Edges
<1>8. E!Counts' BY <1>1, <1>2 DEF E!IInv, E!Counts
<1>9. QED BY <1>1, <1>4, <1>5, <1>6, <1>7, <1>8 DEF E!IInv

LEMMA EEnable == ASSUME E!IInv, E!cpsr_int_enable PROVE E!IInv'
<1>1. /\ UNCHANGED <<test, i, ipc, found, fsel, latch, level, GPREN, GPFEN, GPEDS, ENIRQ2,
                     vector_reg, n_interrupt, n_rising, n_falling, rises, falls, panic>>
      /\ pc' = pc + 1 /\ E!Runs("int_enable") /\ irqOff' = FALSE
  BY DEF E!cpsr_int_enable, E!Then, E!pins, E!detector, E!counters, E!history
<1>2. pc = 12 /\ ipc = "-" BY <1>1, ERuns, EdgePlaces
<1>3. E!Types'
  <2>1. irqOff' \in BOOLEAN BY <1>1
  <2>2. QED BY <1>1, <1>2, <2>1 DEF E!IInv, E!Types
<1>4. E!SetUp' BY <1>1, <1>2 DEF E!IInv, E!SetUp
<1>5. E!Levels' BY <1>1, <1>2 DEF E!IInv, E!Levels
<1>6. E!Edges' BY <1>1, <1>2 DEF E!IInv, E!Edges
<1>7. E!Counts' BY <1>1, <1>2 DEF E!IInv, E!Counts
<1>8. QED BY <1>1, <1>3, <1>4, <1>5, <1>6, <1>7 DEF E!IInv

LEMMA EFresh == ASSUME E!IInv, E!Fresh PROVE E!IInv'
<1>1. /\ UNCHANGED <<test, i, ipc, found, fsel, latch, level, GPREN, GPFEN, GPEDS, ENIRQ2,
                     vector_reg, irqOff, rises, falls>>
      /\ pc' = pc + 1 /\ E!Runs("fresh")
      /\ n_interrupt' = IF test = "one" THEN 0 ELSE n_interrupt
      /\ n_falling' = IF test = "one" THEN 0 ELSE n_falling
      /\ n_rising' = IF test = "one" THEN 0 ELSE n_rising
      /\ panic' = ~(E!gpio_read(E!in_pin) = 1 /\ n_interrupt' = 0 /\ n_falling' = 0 /\ n_rising' = 0)
  BY DEF E!Fresh, E!Then, E!pins, E!detector, E!history
<1>2. pc = 13 /\ ipc = "-" BY <1>1, ERuns, EdgePlaces
<1>3. i = 1 /\ falls = 0 /\ rises = 0 /\ level = 1
  BY <1>2 DEF E!IInv, E!SetUp, E!Levels, E!Edges
<1>4. n_falling = 0 /\ n_rising = 0 /\ n_interrupt = 0
  BY <1>2, <1>3 DEF E!IInv, E!Counts
<1>5. n_falling' = 0 /\ n_rising' = 0 /\ n_interrupt' = 0 BY <1>1, <1>4
<1>6. ~panic' BY <1>1, <1>3, <1>5, EFinds
<1>7. E!Types' BY <1>1, <1>2, <1>5 DEF E!IInv, E!Types
<1>8. E!SetUp' BY <1>1, <1>2 DEF E!IInv, E!SetUp
<1>9. E!Levels' BY <1>1, <1>2 DEF E!IInv, E!Levels
<1>10. E!Edges' BY <1>1, <1>2 DEF E!IInv, E!Edges
<1>11. E!Counts' BY <1>1, <1>2, <1>3, <1>5 DEF E!Counts
<1>12. QED BY <1>6, <1>7, <1>8, <1>9, <1>10, <1>11 DEF E!IInv

LEMMA EFell == ASSUME E!IInv, E!Fell PROVE E!IInv'
<1>1. /\ UNCHANGED <<test, i, ipc, found, fsel, latch, level, GPREN, GPFEN, GPEDS, ENIRQ2,
                     vector_reg, irqOff, n_interrupt, n_rising, n_falling, rises, falls>>
      /\ pc' = pc + 1 /\ E!Runs("fell")
      /\ panic' = ~(n_falling = i /\ (test = "one" => n_interrupt = 1 /\ n_rising = 0))
  BY DEF E!Fell, E!Checks, E!Then, E!pins, E!detector, E!counters, E!history
<1>2. pc = 16 /\ ipc = "-" /\ GPEDS = {}
  <2>1. pc = 16 /\ ipc = "-" BY <1>1, ERuns, EdgePlaces
  <2>2. pc > 12 => GPEDS = {} BY <1>1, ERuns, Zenon
  <2>3. QED BY <2>1, <2>2
<1>3. falls = i /\ rises = i - 1 /\ (test = "one" => i = 1)
  BY <1>2 DEF E!IInv, E!SetUp, E!Edges
<1>4. n_falling = i /\ n_rising = i - 1 /\ n_interrupt = n_rising + n_falling + 0
  BY <1>2, <1>3 DEF E!IInv, E!Counts
<1>5. ~panic'
  <2>1. test = "one" => n_interrupt = 1 /\ n_rising = 0 BY <1>3, <1>4
  <2>2. QED BY <1>1, <1>4, <2>1, Zenon
<1>6. E!Types' BY <1>1, <1>2 DEF E!IInv, E!Types
<1>7. E!SetUp' BY <1>1, <1>2 DEF E!IInv, E!SetUp
<1>8. E!Levels' BY <1>1, <1>2 DEF E!IInv, E!Levels
<1>9. E!Edges' BY <1>1, <1>2 DEF E!IInv, E!Edges
<1>10. E!Counts' BY <1>1, <1>2 DEF E!IInv, E!Counts
<1>11. QED BY <1>5, <1>6, <1>7, <1>8, <1>9, <1>10 DEF E!IInv

\* The next pulse or the end.
LEMMA ERose == ASSUME E!IInv, E!Rose PROVE E!IInv'
<1>1. /\ UNCHANGED <<test, ipc, found, fsel, latch, level, GPREN, GPFEN, GPEDS, ENIRQ2,
                     vector_reg, irqOff, n_interrupt, n_rising, n_falling, rises, falls>>
      /\ E!Runs("rose")
      /\ panic' = ~(n_rising = i /\ n_falling = i /\ n_interrupt = 2 * i)
      /\ \/ test = "many" /\ pc' = pc - 5 /\ i' = i + 1
         \/ pc' = pc + 1 /\ i' = i
  BY DEF E!Rose, E!Checks, E!Then, E!pins, E!detector, E!counters, E!history
<1>2. pc = 19 /\ ipc = "-" /\ GPEDS = {}
  <2>1. pc = 19 /\ ipc = "-" BY <1>1, ERuns, EdgePlaces
  <2>2. pc > 12 => GPEDS = {} BY <1>1, ERuns, Zenon
  <2>3. QED BY <2>1, <2>2
<1>3. falls = i /\ rises = i /\ i \in Nat \ {0} BY <1>2 DEF E!IInv, E!Types, E!Edges
<1>4. n_falling = i /\ n_rising = i /\ n_interrupt = n_rising + n_falling + 0
  BY <1>2, <1>3 DEF E!IInv, E!Counts
<1>5. ~panic'
  <2>1. n_interrupt = 2 * i BY <1>3, <1>4
  <2>2. QED BY <1>1, <1>4, <2>1, Zenon
<1>6. \/ pc' = 14 /\ i' = i + 1 /\ test = "many"
      \/ pc' = 20 /\ i' = i
  BY <1>1, <1>2
<1>7. E!Types' BY <1>1, <1>3, <1>6 DEF E!IInv, E!Types
<1>8. E!SetUp' BY <1>1, <1>2, <1>6 DEF E!IInv, E!SetUp
<1>9. E!Levels' BY <1>1, <1>2, <1>6 DEF E!IInv, E!Levels
<1>10. E!Edges' BY <1>1, <1>2, <1>3, <1>6 DEF E!Edges
<1>11. E!Counts' BY <1>1, <1>2, <1>3, <1>4, <1>6 DEF E!Counts
<1>12. QED BY <1>5, <1>7, <1>8, <1>9, <1>10, <1>11 DEF E!IInv

-----------------------------------------------------------------------------
LEMMA EStep == ASSUME E!IInv, [E!Next]_E!vars PROVE E!IInv'
<1>1. CASE E!Next
  BY <1>1, EPropagate, EException, ERising, EFalling, EReturn, EVector, ESetFunction, EWrite,
     EWait, EDetect, EKnown, EClear, EEnable, EFresh, EFell, ERose, Zenon
  DEF E!Next, E!Handler, E!Program
<1>2. CASE UNCHANGED E!vars
  <2>1. UNCHANGED <<test, pc, i, ipc, found, fsel, latch, level, GPREN, GPFEN, GPEDS, ENIRQ2,
                    vector_reg, irqOff, n_interrupt, n_rising, n_falling, rises, falls, panic>>
    BY <1>2 DEF E!vars, E!main, E!pins, E!detector, E!counters, E!history
  <2>2. E!Types' BY <2>1 DEF E!IInv, E!Types
  <2>3. E!SetUp' BY <2>1 DEF E!IInv, E!SetUp
  <2>4. E!Levels' BY <2>1 DEF E!IInv, E!Levels
  <2>5. E!Edges' BY <2>1 DEF E!IInv, E!Edges
  <2>6. E!Counts' BY <2>1 DEF E!IInv, E!Counts
  <2>7. QED BY <2>1, <2>2, <2>3, <2>4, <2>5, <2>6 DEF E!IInv
<1>3. QED BY <1>1, <1>2

LEMMA ECounted == ASSUME E!IInv PROVE E!EdgesCounted
<1>1. ipc = "-" /\ GPEDS = {} => n_rising = rises /\ n_falling = falls
  BY DEF E!IInv, E!Counts
<1>2. ENIRQ2 \/ GPEDS = {} BY DEF E!IInv, E!Types, E!SetUp, E!Edges
<1>3. QED BY <1>1, <1>2 DEF E!EdgesCounted, E!Interrupted

\* Only the two steps that set a pin's function change GPFSEL.
LEMMA ESets == ASSUME E!IInv, [E!Next]_E!vars PROVE E!SetsOnePin
<1>1. CASE E!SetFunction
  <2>1. fsel \in [1..2 -> Nat] BY DEF E!IInv, E!Types
  <2>2. \/ E!Code[pc] = "set_output" /\ E!gpio_set_function(16, 1)
        \/ E!Code[pc] = "set_input" /\ E!gpio_set_function(17, 0)
    BY <1>1 DEF E!SetFunction, E!Runs, E!out_pin, E!in_pin
  <2>3. CASE E!Code[pc] = "set_output" /\ E!gpio_set_function(16, 1)
    <3>1. 16 \in {16, 17} /\ 1 \in {0, 1} OBVIOUS
    <3>2. \A pin \in 10..29 : pin # 16 => E!Function(fsel', pin) = E!Function(fsel, pin)
      BY <2>1, <2>3, <3>1, SetsField, Zenon
    <3>3. QED BY <2>3, <3>2, Zenon DEF E!SetsOnePin, E!out_pin
  <2>4. CASE E!Code[pc] = "set_input" /\ E!gpio_set_function(17, 0)
    <3>1. 17 \in {16, 17} /\ 0 \in {0, 1} OBVIOUS
    <3>2. \A pin \in 10..29 : pin # 17 => E!Function(fsel', pin) = E!Function(fsel, pin)
      BY <2>1, <2>4, <3>1, SetsField, Zenon
    <3>3. QED BY <2>4, <3>2, Zenon DEF E!SetsOnePin, E!in_pin
  <2>5. QED BY <2>2, <2>3, <2>4, Zenon
<1>2. CASE fsel' = fsel BY <1>2, Zenon DEF E!SetsOnePin
<1>3. E!SetFunction \/ fsel' = fsel
  BY DEF E!Next, E!Handler, E!Program, E!vars, E!pins, E!Propagate, E!Exception, E!rising_handler,
     E!falling_handler, E!Return, E!int_vec_init, E!Write, E!WriteTakesLong, E!DetectEdges,
     E!KnownState, E!EventClear, E!cpsr_int_enable, E!Fresh, E!Fell, E!Rose, E!Checks
<1>4. QED BY <1>1, <1>2, <1>3

-----------------------------------------------------------------------------
(* The programs of both modules.                                           *)

\* What holds of the module whose program runs.
MCInv ==
    /\ which = "timer" => T!IInv
    /\ which = "edge" => E!IInv

\* The other module's variables stay out of it.
LEMMA StepOfOne ==
  ASSUME [MCNext]_vars
  PROVE  /\ which' = which
         /\ which = "timer" => [T!Next]_T!vars
         /\ which = "edge" => [E!Next]_E!vars
<1>1. CASE MCNext
  <2>1. "timer" # "edge" OBVIOUS
  <2>2. QED BY <1>1, <2>1, Zenon DEF MCNext, Timer, Edge
<1>2. CASE UNCHANGED vars
  <2>1. UNCHANGED T!vars
    BY <1>2 DEF vars, timerOnly, T!vars, T!clocks, T!timer, T!cpu, T!handler, T!statics, T!timing
  <2>2. UNCHANGED E!vars
    BY <1>2 DEF vars, edgeOnly, E!vars, E!main, E!pins, E!detector, E!counters, E!history
  <2>3. QED BY <1>2, <2>1, <2>2 DEF vars
<1>3. QED BY <1>1, <1>2

LEMMA InitInv == ASSUME MCInit PROVE MCInv
<1>1. T!Init => T!IInv BY MCInterruptsAssumption, TInit
<1>2. E!Init => E!IInv BY EInit
<1>3. "timer" # "edge" OBVIOUS
<1>4. QED BY <1>1, <1>2, <1>3, Zenon DEF MCInit, MCInv

LEMMA StepInv == ASSUME MCInv, [MCNext]_vars PROVE MCInv'
<1>1. CASE which = "timer"
  <2>1. T!IInv' BY <1>1, MCInterruptsAssumption, StepOfOne, TStep DEF MCInv
  <2>2. which' # "edge" BY <1>1, StepOfOne
  <2>3. QED BY <2>1, <2>2 DEF MCInv
<1>2. CASE which = "edge"
  <2>1. E!IInv' BY <1>2, StepOfOne, EStep DEF MCInv
  <2>2. which' # "timer" BY <1>2, StepOfOne
  <2>3. QED BY <2>1, <2>2 DEF MCInv
<1>3. CASE which # "timer" /\ which # "edge" BY <1>3, StepOfOne DEF MCInv
<1>4. QED BY <1>1, <1>2, <1>3

\* Each program's inductive invariant, which all the others follow from.
THEOREM MCInvCorrect == MCSpec => []MCInv
<1>1. MCInit => MCInv BY InitInv
<1>2. MCInv /\ [MCNext]_vars => MCInv' BY StepInv
<1>3. QED BY <1>1, <1>2, PTL DEF MCSpec

\* No exception is taken before the table is there or inside a handler, and no
\* assertion of the edge tests fails: their handlers find a reason for every
\* interrupt (interrupts-asm.S:79, gpio_int/test-interrupts.c:42).
THEOREM NoStrayCorrect == MCSpec => []NoStray
<1>1. MCInv => NoStray
  BY TNoStray DEF MCInv, NoStray, E!IInv, E!NoPanic
<1>2. QED BY <1>1, MCInvCorrect, PTL

\* However often the counters wrap and whichever instruction the timer
\* interrupts, each wrap and each period is counted once, and so is each edge
\* of the wire, for any number of pulses (timer-int.c:214, timer_int/timer.c,
\* gpio_int/*.c).
THEOREM EventsCountedCorrect == MCSpec => []EventsCounted
<1>1. T!IInv => T!OverflowCounted /\ T!PeriodsAddUp BY DEF T!IInv, T!Statics
<1>2. MCInv => EventsCounted BY <1>1, ECounted DEF MCInv, EventsCounted
<1>3. QED BY <1>2, MCInvCorrect, PTL

\* What render.c prints is the time between its two readings (render.c:176).
THEOREM ElapsedCorrect == MCSpec => Elapsed
<1>1. MCInv /\ [MCNext]_vars => (which = "timer" => T!Reports)
  BY MCInterruptsAssumption, StepOfOne, TReports DEF MCInv
<1>2. MCInv /\ [MCNext]_vars => [which = "timer" => T!Reports]_vars BY <1>1
<1>3. QED BY <1>2, MCInvCorrect, PTL DEF MCSpec, Elapsed

\* An interrupt leaves the registers and flags of the interrupted program as
\* they were, and setting a pin's function leaves the other pins theirs
\* (interrupts-asm.S:79-107, gpio.c:141-147).
THEOREM NothingElseTouchedCorrect == MCSpec => NothingElseTouched
<1>1. MCInv /\ [MCNext]_vars => /\ which = "timer" => T!Resumes
                                /\ which = "edge" => E!SetsOnePin
  BY StepOfOne, TResumes, ESets DEF MCInv
<1>2. MCInv /\ [MCNext]_vars => [/\ which = "timer" => T!Resumes
                                 /\ which = "edge" => E!SetsOnePin]_vars
  BY <1>1
<1>3. QED BY <1>2, MCInvCorrect, PTL DEF MCSpec, NothingElseTouched
=============================================================================
