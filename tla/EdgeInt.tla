------------------------------ MODULE EdgeInt -------------------------------
(***************************************************************************)
(* Edge interrupts of a GPIO pin: the GPIO driver (gpio.c, gpio-int.c),    *)
(* the vector base register (vector-base.h, interrupt-vec.c), the handlers *)
(* of src/gpio_int/test-interrupts.c and the two tests that write pin 16   *)
(* and count the edges that come back on pin 17, wired to it.  The wire    *)
(* and the detector are slower than a store but, the tests assume, faster  *)
(* than what follows a gpio_write (2-rise-fall-edge.c:12).                 *)
(***************************************************************************)
EXTENDS Integers, Sequences

CONSTANT N          \* 3-N-rise-fall.c: pulses

out_pin == 16
in_pin == 17
interrupt_vec == 32 \* an address: .align 5

VARIABLES
    test,           \* "one", 2-rise-fall-edge.c, or "many", 3-N-rise-fall.c
    fsel,           \* GPFSEL1 and GPFSEL2: 3 bits a pin, 10 pins a word
    latch,          \* what out_pin is to be
    level,          \* GPLEV0: what in_pin is
    GPREN, GPFEN,   \* the pins whose rising and falling edges are detected
    GPEDS,          \* the pins with an event
    ENIRQ2,         \* the interrupt of GPIO_INT0 is enabled
    vector_reg,     \* the vector base register
    irqOff,         \* bit 7 of cpsr
    pc,             \* the step of the program
    i,              \* the pulse
    ipc,            \* the step of interrupt_vector, "-" outside of it
    found,          \* what the handlers returned so far
    n_interrupt, n_rising, n_falling,
    rises, falls,   \* history: the edges since interrupts are enabled
    panic           \* a failed assertion or a panic stopped the program

pins == <<fsel, latch, level>>
detector == <<GPREN, GPFEN, GPEDS, ENIRQ2>>
counters == <<n_interrupt, n_rising, n_falling>>
history == <<rises, falls>>
main == <<test, pc, i>>
vars == <<main, pins, detector, vector_reg, irqOff, ipc, found, counters, history, panic>>

Startup == <<"int_vec_init", "set_output", "set_input", "write_0", "wait", "rising_edge",
             "write_1", "wait", "falling_edge", "assert_1", "event_clear", "int_enable">>
Code == Startup \o <<"fresh", "write_0", "wait", "fell", "write_1", "wait", "rose", "done">>

Init ==
    /\ test \in {"one", "many"}
    /\ fsel = [w \in 1..2 |-> IF w = 1 THEN 2 * 8^4 + 2 * 8^5 ELSE 0]
    /\ latch \in 0..1 /\ level \in 0..1
    /\ GPREN = {} /\ GPFEN = {} /\ GPEDS = {} /\ ENIRQ2 \in BOOLEAN
    /\ vector_reg = 0 /\ irqOff = TRUE
    /\ pc = 1 /\ i = 1 /\ ipc = "-" /\ found = FALSE
    /\ n_interrupt = 0 /\ n_rising = 0 /\ n_falling = 0
    /\ rises = 0 /\ falls = 0
    /\ panic = FALSE

-----------------------------------------------------------------------------
(* The registers.                                                          *)

Known(pin) == pin < 32 \/ pin = 47
Function(word, pin) == (word[pin \div 10] \div 8^(pin % 10)) % 8

\* Clear the pin's three bits, then set them.
gpio_set_function(pin, function) ==
    fsel' = IF Known(pin) /\ function \in 0..7
            THEN LET unit == 8^(pin % 10)
                     value == fsel[pin \div 10]
                 IN  [fsel EXCEPT ![pin \div 10] =
                         value - unit * ((value \div unit) % 8) + unit * function]
            ELSE fsel

gpio_write(pin, v) == latch' = IF Known(pin) /\ pin = out_pin THEN v ELSE latch
gpio_read(pin) == IF Known(pin) THEN level ELSE -1

gpio_int_rising_edge(pin) ==
    IF pin < 32 THEN GPREN' = GPREN \union {pin} /\ ENIRQ2' = TRUE
                ELSE UNCHANGED <<GPREN, ENIRQ2>>
gpio_int_falling_edge(pin) ==
    IF pin < 32 THEN GPFEN' = GPFEN \union {pin} /\ ENIRQ2' = TRUE
                ELSE UNCHANGED <<GPFEN, ENIRQ2>>
gpio_event_detected(pin) == pin < 32 /\ pin \in GPEDS
\* Variant for mutation: it writes a 0.
gpio_event_clearNot(pin) == UNCHANGED GPEDS

gpio_event_clear(pin) == GPEDS' = IF pin < 32 THEN GPEDS \ {pin} ELSE GPEDS

vector_base_chk(vec) == vec # 0 /\ vec % 32 = 0

\* Panics on a bad vector and on one that differs from the one that is set.
vector_base_set(vec) ==
    IF vector_base_chk(vec) /\ vector_reg \in {0, vec}
    THEN vector_reg' = vec /\ UNCHANGED panic
    ELSE panic' = TRUE /\ UNCHANGED vector_reg

Interrupted == GPEDS # {} /\ ENIRQ2

-----------------------------------------------------------------------------
(* The wire.                                                               *)

\* in_pin is what out_pin is, or anything until out_pin is an output.
Wire == IF Function(fsel, out_pin) = 1 THEN {latch} ELSE 0..1

\* in_pin changes, and the detector sees it.
Propagate ==
    /\ \E v \in Wire \ {level} :
          /\ level' = v
          /\ GPEDS' = IF in_pin \in (IF v = 1 THEN GPREN ELSE GPFEN)
                      THEN GPEDS \union {in_pin} ELSE GPEDS
          /\ rises' = IF v = 1 /\ ~irqOff THEN rises + 1 ELSE rises
          /\ falls' = IF v = 0 /\ ~irqOff THEN falls + 1 ELSE falls
    /\ ~panic
    /\ UNCHANGED <<main, fsel, latch, GPREN, GPFEN, ENIRQ2, vector_reg, irqOff, ipc, found,
                   counters, panic>>

\* What a gpio_write caused is over when the program goes on.
Settled == level \in Wire

-----------------------------------------------------------------------------
(* interrupt_vector.                                                       *)

Handles(step) == ipc = step /\ ~panic

\* Bound: 2 * N interrupts; the tests never get further.
Exception ==
    /\ n_interrupt < 2 * N
    /\ ipc = "-" /\ Interrupted /\ ~irqOff /\ vector_reg = interrupt_vec /\ ~panic
    /\ irqOff' = TRUE
    /\ ipc' = "rising" /\ found' = FALSE
    /\ n_interrupt' = n_interrupt + 1
    /\ UNCHANGED <<main, pins, detector, vector_reg, n_rising, n_falling, history, panic>>

\* One after the other: the handlers are joined by "|".
rising_handler ==
    /\ Handles("rising") /\ ipc' = "falling"
    /\ IF gpio_event_detected(in_pin) /\ gpio_read(in_pin) = 1
       THEN n_rising' = n_rising + 1 /\ gpio_event_clear(in_pin) /\ found' = TRUE
       ELSE UNCHANGED <<n_rising, GPEDS, found>>
    /\ UNCHANGED <<main, pins, GPREN, GPFEN, ENIRQ2, vector_reg, irqOff, n_interrupt, n_falling,
                   history, panic>>

falling_handler ==
    /\ Handles("falling") /\ ipc' = "return"
    /\ IF gpio_event_detected(in_pin) /\ gpio_read(in_pin) = 0
       THEN n_falling' = n_falling + 1 /\ gpio_event_clear(in_pin) /\ found' = TRUE
       ELSE UNCHANGED <<n_falling, GPEDS, found>>
    /\ UNCHANGED <<main, pins, GPREN, GPFEN, ENIRQ2, vector_reg, irqOff, n_interrupt, n_rising,
                   history, panic>>

\* An interrupt nobody handled is a panic.
Return ==
    /\ Handles("return") /\ ipc' = "-"
    /\ panic' = ~found
    /\ irqOff' = FALSE
    /\ UNCHANGED <<main, pins, detector, vector_reg, found, counters, history>>

-----------------------------------------------------------------------------
(* The tests.                                                              *)

Runs(step) ==
    ipc = "-" /\ (Interrupted => irqOff) /\ ~panic /\ Code[pc] = step
Then(next) == pc' = next /\ UNCHANGED <<test, ipc, found>>
Checks(fact) == panic' = ~fact /\ UNCHANGED <<pins, detector, vector_reg, irqOff, counters, history>>

\* Interrupts off, no source of the second group, the vector is set.
int_vec_init ==
    /\ Runs("int_vec_init") /\ Then(pc + 1)
    /\ irqOff' = TRUE /\ ENIRQ2' = FALSE
    /\ vector_base_set(interrupt_vec)
    /\ UNCHANGED <<i, pins, GPREN, GPFEN, GPEDS, counters, history>>

\* gpio_set_output, gpio_set_input.
SetFunction ==
    /\ \/ Runs("set_output") /\ gpio_set_function(out_pin, 1)
       \/ Runs("set_input") /\ gpio_set_function(in_pin, 0)
    /\ Then(pc + 1)
    /\ UNCHANGED <<i, latch, level, detector, vector_reg, irqOff, counters, history, panic>>

Write ==
    /\ \/ Runs("write_0") /\ gpio_write(out_pin, 0)
       \/ Runs("write_1") /\ gpio_write(out_pin, 1)
    /\ Then(pc + 1)
    /\ UNCHANGED <<i, fsel, level, detector, vector_reg, irqOff, counters, history, panic>>

\* gpio_write is slower than the wire (2-rise-fall-edge.c:12).
WriteTakesLong ==
    /\ Runs("wait") /\ Settled /\ Then(pc + 1)
    /\ UNCHANGED <<i, pins, detector, vector_reg, irqOff, counters, history, panic>>

\* The end of rising_init and of falling_init.
DetectEdges ==
    /\ \/ Runs("rising_edge") /\ gpio_int_rising_edge(in_pin) /\ UNCHANGED GPFEN
       \/ Runs("falling_edge") /\ gpio_int_falling_edge(in_pin) /\ UNCHANGED GPREN
    /\ Then(pc + 1)
    /\ UNCHANGED <<i, pins, GPEDS, vector_reg, irqOff, counters, history, panic>>

\* rise_fall_init: the wire is there.
KnownState ==
    /\ Runs("assert_1") /\ Then(pc + 1)
    /\ Checks(gpio_read(in_pin) = 1)
    /\ UNCHANGED i

\* Variant for mutation: the queued edge stays.
EventClearForgotten ==
    /\ Runs("event_clear") /\ Then(pc + 1)
    /\ UNCHANGED <<i, pins, detector, vector_reg, irqOff, counters, history, panic>>

\* The edge of falling_init's own write is still queued.
EventClear ==
    /\ Runs("event_clear") /\ Then(pc + 1)
    /\ gpio_event_clear(in_pin)
    /\ UNCHANGED <<i, pins, GPREN, GPFEN, ENIRQ2, vector_reg, irqOff, counters, history, panic>>

cpsr_int_enable ==
    /\ Runs("int_enable") /\ Then(pc + 1)
    /\ irqOff' = FALSE
    /\ UNCHANGED <<i, pins, detector, vector_reg, counters, history, panic>>

\* 2-rise-fall-edge.c resets the counters, 3-N-rise-fall.c wants them at 0.
Fresh ==
    /\ Runs("fresh") /\ Then(pc + 1)
    /\ n_interrupt' = IF test = "one" THEN 0 ELSE n_interrupt
    /\ n_falling' = IF test = "one" THEN 0 ELSE n_falling
    /\ n_rising' = IF test = "one" THEN 0 ELSE n_rising
    /\ panic' = ~(gpio_read(in_pin) = 1 /\ n_interrupt' = 0 /\ n_falling' = 0 /\ n_rising' = 0)
    /\ UNCHANGED <<i, pins, detector, vector_reg, irqOff, history>>

Fell ==
    /\ Runs("fell") /\ Then(pc + 1)
    /\ Checks(n_falling = i /\ (test = "one" => n_interrupt = 1 /\ n_rising = 0))
    /\ UNCHANGED i

Rose ==
    /\ Runs("rose")
    /\ Checks(n_rising = i /\ n_falling = i /\ n_interrupt = 2 * i)
    /\ IF test = "many" /\ i < N THEN Then(pc - 5) /\ i' = i + 1
                                 ELSE Then(pc + 1) /\ UNCHANGED i

Handler == Exception \/ rising_handler \/ falling_handler \/ Return
Program == \/ int_vec_init \/ SetFunction \/ Write \/ WriteTakesLong \/ DetectEdges
           \/ KnownState \/ EventClear \/ cpsr_int_enable \/ Fresh \/ Fell \/ Rose

Next == Propagate \/ Handler \/ Program

\* The processor runs, and the wire conducts.
Fairness == WF_vars(Handler \/ Program) /\ WF_vars(Propagate)

Spec == Init /\ [][Next]_vars /\ Fairness

-----------------------------------------------------------------------------
TypeOK ==
    /\ test \in {"one", "many"} /\ pc \in DOMAIN Code /\ i \in 1..N
    /\ latch \in 0..1 /\ level \in 0..1
    /\ GPREN \subseteq {in_pin} /\ GPFEN \subseteq {in_pin} /\ GPEDS \subseteq {in_pin}
    /\ ipc \in {"-", "rising", "falling", "return"}

\* No assertion of the tests fails and the handlers account for every
\* interrupt, the event falling_init leaves queued included
\* (test-interrupts.c:42, 2-rise-fall-edge.c:18-33, 3-N-rise-fall.c:8-26).
NoPanic == ~panic

\* The interrupt routines count every edge once, and only edges that came
\* after interrupts were enabled.
EdgesCounted ==
    ipc = "-" /\ ~Interrupted => n_rising = rises /\ n_falling = falls

\* Setting a pin's function leaves every other pin as it is, those of its
\* word and the UART's included (gpio.c:141-147).
SetsOnePin ==
    \A pin \in 10..29 :
        Function(fsel', pin) # Function(fsel, pin) =>
            \/ Code[pc] = "set_output" /\ pin = out_pin
            \/ Code[pc] = "set_input" /\ pin = in_pin

\* The test ends: an event that is handled is cleared, so the program goes on.
Done == Code[pc] = "done"
-----------------------------------------------------------------------------
(* Why: what the variables say at each step of the program.                *)

Types ==
    /\ test \in {"one", "many"} /\ pc \in 1..20 /\ i \in Nat \ {0}
    /\ fsel \in [1..2 -> Nat] /\ latch \in 0..1 /\ level \in 0..1
    /\ GPEDS \subseteq {in_pin} /\ ENIRQ2 \in BOOLEAN /\ irqOff \in BOOLEAN
    /\ ipc \in {"-", "rising", "falling", "return"} /\ found \in BOOLEAN
    /\ n_interrupt \in Nat /\ n_rising \in Nat /\ n_falling \in Nat
    /\ rises \in Nat /\ falls \in Nat

\* What the start-up has set by the program's position; interrupts are masked
\* before its end and in the handler.
SetUp ==
    /\ vector_reg = IF pc > 1 THEN interrupt_vec ELSE 0
    /\ pc > 2 => Function(fsel, out_pin) = 1
    /\ pc > 6 => ENIRQ2
    /\ GPREN = (IF pc > 6 THEN {in_pin} ELSE {}) /\ GPFEN = (IF pc > 9 THEN {in_pin} ELSE {})
    /\ irqOff <=> (pc <= 12 \/ ipc # "-")
    /\ ipc # "-" => pc > 12
    /\ pc <= 13 \/ test = "one" => i = 1

\* The wire: what it was set to, and that the program waited for it.
Levels ==
    /\ pc \in {5, 6, 7, 15, 16, 17} => latch = 0
    /\ pc \in (8..14) \union (18..20) => latch = 1
    /\ pc \in {6, 7, 16, 17} => level = 0
    /\ pc \in (9..14) \union {19, 20} => level = 1

\* The edges of this pulse, of which at most one waits for its handler: at the
\* two places where the program waits for the wire.
Edges ==
    /\ falls = IF pc \in 16..20 \/ (pc = 15 /\ level = 0) THEN i ELSE i - 1
    /\ rises = IF pc \in 19..20 \/ (pc = 18 /\ level = 1) THEN i ELSE i - 1
    /\ GPEDS # {} => pc \in 8..11 \/ (pc \in {15, 18} /\ level = latch)

Counts ==
    /\ n_falling = IF pc = 15 /\ GPEDS # {} THEN falls - 1 ELSE falls
    /\ n_rising = IF pc = 18 /\ GPEDS # {} THEN rises - 1 ELSE rises
    /\ n_interrupt = n_rising + n_falling + IF ipc # "-" /\ GPEDS # {} THEN 1 ELSE 0
    /\ ipc # "-" => pc \in {15, 18} /\ level = latch /\ (found <=> GPEDS = {})
    /\ ipc = "rising" => GPEDS # {}
    /\ ipc = "falling" => (GPEDS # {} <=> pc = 15)
    /\ ipc = "return" => GPEDS = {}

IInv == Types /\ SetUp /\ Levels /\ Edges /\ Counts /\ ~panic
=============================================================================
