------------------------------ MODULE Timeouts ------------------------------
(***************************************************************************)
(* Waiting on the microsecond counter, which wraps every 71 minutes: the   *)
(* delays of timer.c, and timeout.h, which follows the counter through its *)
(* wraps for waits that are longer.  Both compare differences, modulo the  *)
(* width of the counter.                                                   *)
(***************************************************************************)
EXTENDS Integers

CONSTANTS
    Width,          \* of uint32_t, in bits
    Thousand,       \* microseconds in a millisecond
    Gap,            \* the most time that passes between two looks
    Arguments,      \* of delay_us and delay_ms
    LastUsec        \* bound: time stops here

VARIABLES
    now,            \* the time
    looked,         \* history: when the program looked last
    waiting,        \* "no", "delay" or "timeout"
    s, us,          \* delay_us
    t,              \* the timeout_t
    begun, asked    \* history: since when it waits, and how long it was to be

delay == <<waiting, s, us, begun, asked>>
timeVars == <<now, looked, delay, t>>

W == 2^Width
timer_get_usec == now % W

\* The counter has a bit, and is looked at more often than it wraps.
Looks == /\ W \in Nat \ {0, 1} /\ Thousand \in Nat /\ Arguments \subseteq Nat
         /\ Gap \in Nat /\ Gap < W

Init ==
    /\ now = W - 2 /\ looked = now
    /\ waiting = "no" /\ s = 0 /\ us = 0 /\ begun = now /\ asked = 0
    /\ t = [time_last |-> 0, time_usecs |-> 0]

-----------------------------------------------------------------------------
Waits(for, micro, usec) ==
    /\ waiting' = for /\ us' = micro /\ asked' = usec /\ begun' = now /\ looked' = now

delay_us(micro) ==
    /\ waiting = "no" /\ Waits("delay", micro, micro)
    /\ s' = timer_get_usec
    /\ UNCHANGED <<now, t>>

\* The product may wrap.
delay_ms(ms) ==
    /\ waiting = "no" /\ Waits("delay", (ms * Thousand) % W, ms * Thousand)
    /\ s' = timer_get_usec
    /\ UNCHANGED <<now, t>>

timeout_start(max) ==
    /\ waiting = "no" /\ Waits("timeout", max, max)
    /\ t' = [time_last |-> timer_get_usec, time_usecs |-> 0]
    /\ UNCHANGED <<now, s>>

\* Variant for mutation: the times are compared, not their difference.
PassedDirect == timer_get_usec >= (s + us) % W
Passed == (timer_get_usec - s) % W >= us

\* One turn of delay_us's loop.
Look ==
    /\ waiting = "delay" /\ looked' = now
    /\ waiting' = IF Passed THEN "no" ELSE waiting
    /\ UNCHANGED <<now, s, us, begun, asked, t>>

timeout_get_usec ==
    [time_usecs |-> t.time_usecs + ((timer_get_usec - t.time_last) % W),
     time_last |-> timer_get_usec]

timeout_usec ==
    /\ waiting = "timeout" /\ looked' = now
    /\ t' = timeout_get_usec
    /\ waiting' = IF t'.time_usecs >= us THEN "no" ELSE waiting
    /\ UNCHANGED <<now, s, us, begun, asked>>

\* The program looks again before Gap has passed.
Tick ==
    /\ now < LastUsec /\ waiting # "no" /\ now < looked + Gap
    /\ now' = now + 1
    /\ UNCHANGED <<looked, delay, t>>

Start == \E a \in Arguments : delay_us(a % W) \/ delay_ms(a) \/ timeout_start(a)
Next == Start \/ Look \/ timeout_usec \/ Tick

Spec == Init /\ [][Next]_timeVars

-----------------------------------------------------------------------------
\* A wait takes as long as it was asked to, across wraps of the counter, if the
\* number of microseconds fits into it; a timeout may be of any length
\* (timer.c:18-25, timeout.h:30-45).
NotEarly == (waiting = "no" /\ us = asked) => now - begun >= asked

\* timeout.h counts every microsecond once.
Exact == waiting = "timeout" => t.time_usecs + (now - looked) = now - begun

\* A wait is over at the first look after its time, so at most Gap late, if the
\* counter cannot wrap past the end of a delay between two looks; a timeout may
\* be longer than the counter (timer.c:18-25, timeout.h:30-51).
NotLate ==
    (waiting = "timeout" \/ (waiting = "delay" /\ us + Gap <= W)) => now - begun <= us + Gap

\* All of it: what waiting on a counter that wraps promises.
TimeoutsExact == NotEarly /\ Exact /\ NotLate

-----------------------------------------------------------------------------
(* Why: what the variables say of the time.                                *)

\* A delay that goes on was not over at the last look; a timeout has counted
\* every microsecond up to it.
IInv ==
    /\ now \in Nat /\ looked \in Nat /\ begun \in Nat
    /\ begun <= looked /\ looked <= now
    /\ us \in Nat /\ asked \in Nat
    /\ t.time_last \in 0..(W - 1) /\ t.time_usecs \in Nat
    /\ waiting \in {"no", "delay", "timeout"}
    /\ waiting # "no" => now <= looked + Gap
    /\ waiting = "no" => (us = asked => now - begun >= asked)
    /\ waiting = "delay" =>
          /\ s = begun % W
          /\ us + Gap <= W /\ looked > begun => looked - begun < us
    /\ waiting = "timeout" =>
          /\ us = asked /\ t.time_last = looked % W /\ t.time_usecs = looked - begun
          /\ looked > begun => looked - begun < us
=============================================================================
