------------------------------ MODULE Circular ------------------------------
(***************************************************************************)
(* The lock-free queue of libpi/libc/circular.h: a producer that alone     *)
(* moves head, a consumer that alone moves tail, one of them the           *)
(* non-interrupt code and the other an interrupt handler, which starts     *)
(* between any two accesses to the shared words that the memory barriers   *)
(* order, with interrupts enabled, and runs to its end.  cq_peek_n lends   *)
(* tail to its pops and puts it back.                                      *)
(***************************************************************************)
EXTENDS Integers, Sequences

CONSTANTS
    CQ_N,           \* slots of c_buf: one always stays free
    Width,          \* 2^32, the modulus of unsigned
    Value,          \* cqe_t
    MaxN            \* bound: the most elements one call moves

\* CQ_N is a power of two, so the difference of two indices survives unsigned
\* arithmetic.
ASSUME CircularAssumption ==
    /\ CQ_N \in Nat \ {0, 1} /\ Width \in Nat \ {0} /\ MaxN \in Nat \ {0}
    /\ \A d \in (1 - CQ_N)..(CQ_N - 1) : (d % Width) % CQ_N = d % CQ_N
    /\ Value # {}

VARIABLES
    c_buf, head, tail,
    isr,        \* the side that is the interrupt handler
    ints,       \* the non-interrupt code has interrupts enabled
    ppc,        \* the producer: idle, 1 before the write, 2 before head moves
    data,       \* what it still has to push
    cpc,        \* the consumer: idle, test, 1, 2, peek, peeked, restore, check
    left,       \* pops its call still has to make
    e,          \* the element it has read
    taken,      \* history: what the last pop returned
    saved,      \* cq_peek_n's copies of tail and nelem, -1 outside of it
    sz,
    seen,       \* history: what the peek has read
    pushed,     \* history: how many elements came during a cq_peek_n
    panicked    \* the message of the panic or assert that stopped the program

producer == <<ppc, data>>
consumer == <<cpc, left, e, taken, saved, sz, seen>>
vars == <<c_buf, head, tail, isr, ints, producer, consumer, pushed, panicked>>

Slot == 0..(CQ_N - 1)
Incr(i) == (i + 1) % CQ_N
cq_empty == head = tail
cq_full == Incr(head) = tail
NElem(h, t) == ((h - t) % Width) % CQ_N
cq_nelem == NElem(head, tail)

\* Variant for mutation: no slot stays free.
cq_nspaceAll == CQ_N - cq_nelem

cq_nspace == CQ_N - 1 - cq_nelem

Init ==
    /\ c_buf \in {[i \in Slot |-> v] : v \in Value}
    /\ head = 0 /\ tail = 0
    /\ isr \in {"producer", "consumer"} /\ ints = TRUE
    /\ ppc = "idle" /\ data = <<>>
    /\ cpc = "idle" /\ left = 0 /\ e = c_buf[0] /\ taken = c_buf[0]
    /\ saved = -1 /\ sz = 0 /\ seen = <<>> /\ pushed = 0 /\ panicked = "no"

Panic(what) == panicked' = what
Running == panicked = "no"

\* A handler starts when interrupts are enabled, and runs to its end before the
\* non-interrupt code goes on.
Starts(side) == isr = side => ints
Proceeds(side, other) == isr = side \/ other = "idle"

-----------------------------------------------------------------------------
(* The producer.                                                           *)

\* cq_push on a queue that is not full, cq_push_n when there is space for all.
CallPush(s) ==
    /\ ppc = "idle" /\ Starts("producer") /\ Proceeds("producer", cpc)
    /\ IF Len(s) = 1 THEN ~cq_full ELSE cq_nspace >= Len(s)
    /\ ppc' = "1" /\ data' = s
    /\ UNCHANGED <<c_buf, head, tail, isr, ints, consumer, pushed, panicked>>

\* Variant for mutation: c_buf[++head] = x.
WriteAhead ==
    /\ ppc = "1" /\ Proceeds("producer", cpc)
    /\ c_buf' = [c_buf EXCEPT ![Incr(head)] = data[1]]
    /\ ppc' = "2"
    /\ UNCHANGED <<head, tail, isr, ints, data, consumer, pushed, panicked>>

\* c_buf[head] = x.  A full queue here: "impossible", or the assert of cq_push.
Write ==
    /\ ppc = "1" /\ Proceeds("producer", cpc)
    /\ IF cq_full \/ cq_nspace = 0
       THEN Panic("buffer should have space") /\ UNCHANGED <<c_buf, ppc>>
       ELSE /\ c_buf' = [c_buf EXCEPT ![head] = data[1]]
            /\ ppc' = "2" /\ UNCHANGED panicked
    /\ UNCHANGED <<head, tail, isr, ints, data, consumer, pushed>>

\* head = (head + 1) % CQ_N: the element is visible.
Publish ==
    /\ ppc = "2" /\ Proceeds("producer", cpc)
    /\ head' = Incr(head)
    /\ data' = Tail(data)
    /\ ppc' = IF Len(data) = 1 THEN "idle" ELSE "1"
    /\ pushed' = IF saved = -1 THEN pushed ELSE pushed + 1
    /\ UNCHANGED <<c_buf, tail, isr, ints, consumer, panicked>>

-----------------------------------------------------------------------------
(* The consumer.                                                           *)

Calls == cpc = "idle" /\ Starts("consumer") /\ Proceeds("consumer", ppc)
Consumes(step) == cpc = step /\ Proceeds("consumer", ppc)

\* cq_pop, cq_pop_n, cq_pop32.
CallPop(n) ==
    /\ Calls
    /\ cpc' = "test" /\ left' = n
    /\ UNCHANGED <<c_buf, head, tail, isr, ints, producer, e, taken, saved, sz, seen, pushed, panicked>>

\* cq_pop_nonblock, cq_pop_n_noblk: return 0 when there are fewer.
CallPopNonblock(n) == cq_nelem >= n /\ CallPop(n)

\* cq_peek_n: remembers tail and pops.  Bound: none after one that was disturbed
\* and returned.
CallPeekN(n) ==
    /\ Calls /\ cq_nelem >= n
    /\ pushed = 0
    /\ cpc' = "test" /\ left' = n /\ saved' = tail /\ sz' = cq_nelem /\ seen' = <<>>
    /\ UNCHANGED <<c_buf, head, tail, isr, ints, producer, e, taken, pushed, panicked>>

\* Whether cpsr_int_enabled, which it is not in a handler.
cpsr_int_enabled == ints /\ isr = "producer"

\* Variant for mutation: cq_pop polls whether interrupts are enabled or not.
TestPolls ==
    /\ Consumes("test") /\ ~cq_empty
    /\ cpc' = "1"
    /\ UNCHANGED <<c_buf, head, tail, isr, ints, producer, left, e, taken, saved, sz, seen, pushed, panicked>>

\* cq_pop polls an empty queue; with interrupts off nobody can fill it.
Test ==
    /\ Consumes("test")
    /\ ~(cq_empty /\ cpsr_int_enabled)
    /\ IF cq_empty THEN Panic("will deadlock") /\ UNCHANGED cpc
                   ELSE cpc' = "1" /\ UNCHANGED panicked
    /\ UNCHANGED <<c_buf, head, tail, isr, ints, producer, left, e, taken, saved, sz, seen, pushed>>

\* Variant for mutation: tail moves before the element is read.
ReadLate ==
    /\ Consumes("1")
    /\ e' = c_buf[Incr(tail)] /\ cpc' = "2"
    /\ seen' = IF saved = -1 THEN seen ELSE Append(seen, e')
    /\ UNCHANGED <<c_buf, head, tail, isr, ints, producer, left, taken, saved, sz, pushed, panicked>>

\* *e = c_buf[tail].
Read ==
    /\ Consumes("1")
    /\ e' = c_buf[tail] /\ cpc' = "2"
    /\ seen' = IF saved = -1 THEN seen ELSE Append(seen, e')
    /\ UNCHANGED <<c_buf, head, tail, isr, ints, producer, left, taken, saved, sz, pushed, panicked>>

\* tail = (tail + 1) % CQ_N: the slot is free.
Release ==
    /\ Consumes("2")
    /\ tail' = Incr(tail)
    /\ left' = left - 1
    /\ taken' = IF saved = -1 THEN e ELSE taken
    /\ cpc' = IF left > 1 THEN "test" ELSE IF saved = -1 THEN "idle" ELSE "restore"
    /\ UNCHANGED <<c_buf, head, isr, ints, producer, e, saved, sz, seen, pushed, panicked>>

\* cq_peek_n puts tail back ...
Restore ==
    /\ Consumes("restore")
    /\ tail' = saved /\ cpc' = "check"
    /\ UNCHANGED <<c_buf, head, isr, ints, producer, left, e, taken, saved, sz, seen, pushed, panicked>>

\* ... and asserts that the queue is what it was.
Check ==
    /\ Consumes("check")
    /\ IF cq_nelem = sz
       THEN cpc' = "peeked" /\ saved' = -1 /\ UNCHANGED panicked
       ELSE Panic("sz == cq_nelem(c)") /\ UNCHANGED <<cpc, saved>>
    /\ UNCHANGED <<c_buf, head, tail, isr, ints, producer, left, e, taken, sz, seen, pushed>>

\* cq_peek.
CallPeek ==
    /\ Calls /\ ~cq_empty
    /\ cpc' = "peek"
    /\ UNCHANGED <<c_buf, head, tail, isr, ints, producer, left, e, taken, saved, sz, seen, pushed, panicked>>

Peek ==
    /\ Consumes("peek")
    /\ e' = c_buf[tail] /\ seen' = <<e'>> /\ cpc' = "peeked"
    /\ UNCHANGED <<c_buf, head, tail, isr, ints, producer, left, taken, saved, sz, pushed, panicked>>

PeekReturns ==
    /\ Consumes("peeked") /\ cpc' = "idle" /\ seen' = <<>>
    /\ UNCHANGED <<c_buf, head, tail, isr, ints, producer, left, e, taken, saved, sz, pushed, panicked>>

\* cpsr_int_disable and cpsr_int_enable around a call: no handler is running.
SwitchInterrupts ==
    /\ cpc = "idle" /\ ppc = "idle"
    /\ ints' = ~ints
    /\ UNCHANGED <<c_buf, head, tail, isr, producer, consumer, pushed, panicked>>

-----------------------------------------------------------------------------
Blocks == UNION {[1..n -> Value] : n \in 1..MaxN}

Produce == Write \/ Publish
Consume == Test \/ Read \/ Release \/ Restore \/ Check \/ Peek \/ PeekReturns
CallConsumer == \/ \E n \in 1..MaxN : CallPop(n) \/ CallPopNonblock(n) \/ CallPeekN(n)
                \/ CallPeek

Next == /\ Running
        /\ \/ Produce \/ \E s \in Blocks : CallPush(s)
           \/ Consume \/ CallConsumer \/ SwitchInterrupts

\* Both sides keep running, interrupts do not stay off, and bytes keep coming.
Fairness == /\ WF_vars(Running /\ Produce) /\ WF_vars(Running /\ Consume)
            /\ SF_vars(Running /\ ~ints /\ SwitchInterrupts)
            /\ SF_vars(Running /\ \E x \in Value : CallPush(<<x>>))

Spec == Init /\ [][Next]_vars /\ Fairness

-----------------------------------------------------------------------------
TypeOK ==
    /\ c_buf \in [Slot -> Value] /\ head \in Slot /\ tail \in Slot
    /\ isr \in {"producer", "consumer"} /\ ints \in BOOLEAN
    /\ ppc \in {"idle", "1", "2"} /\ data \in Seq(Value)
    /\ cpc \in {"idle", "test", "1", "2", "peek", "peeked", "restore", "check"}
    /\ left \in Nat /\ e \in Value /\ taken \in Value /\ seen \in Seq(Value)
    /\ saved \in Slot \cup {-1} /\ sz \in 0..(CQ_N - 1) /\ pushed \in Nat
    /\ panicked \in {"no", "buffer should have space", "will deadlock", "sz == cq_nelem(c)"}

\* The oldest element's slot: cq_peek_n only lends tail.
Oldest == IF saved = -1 THEN tail ELSE saved
Held(first) == (head - first) % CQ_N
Contents == [k \in 1..Held(Oldest) |-> c_buf[(Oldest + k - 1) % CQ_N]]

\* A push between the two halves of a cq_peek_n took tail for where it stood.
Disturbed == pushed > 0

\* Through every interleaving of the accesses the queue is a FIFO of CQ_N - 1
\* elements: a push takes effect when head moves, a pop when tail does, and a
\* peek never; until a handler pushes while a cq_peek_n has lent tail
\* (circular.h:64-192).
Queue == INSTANCE Fifo WITH
             queue <- IF Disturbed THEN <<>> ELSE Contents, Capacity <- CQ_N - 1,
             looking <- saved # -1, broken <- Disturbed
Implements == Queue!Spec

\* Which asserts and panics of circular.h hold (94, 106, 154, 170): the space
\* cq_push_n counted stays there while it pushes; a blocking pop panics only on
\* an empty queue that nobody can fill.  The assert of cq_peek_n does not hold:
\* it fails if elements came during the call, and only then, and lets through
\* no disturbed call unless a whole round of the ring came.
AssertsHold ==
    /\ panicked # "buffer should have space"
    /\ panicked = "will deadlock" => cq_empty /\ ~cpsr_int_enabled /\ saved = -1
    /\ panicked = "sz == cq_nelem(c)" => Disturbed
    /\ Disturbed /\ saved = -1 => pushed >= CQ_N

\* A peek that returns has seen the front of the queue, cq_peek whatever was
\* pushed since and cq_peek_n all of the n elements (circular.h:116, 142).
PeekSeesFront ==
    cpc = "peeked" /\ ~Disturbed =>
        Len(seen) <= Len(Contents) /\ \A k \in 1..Len(seen) : seen[k] = Contents[k]

\* A blocking pop returns as long as bytes keep coming.
PopReturns == (cpc # "idle") ~> (cpc = "idle" \/ ~Running)
=============================================================================
