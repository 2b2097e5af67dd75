------------------------------- MODULE Random -------------------------------
(***************************************************************************)
(* random.c, the additive feedback generator whose numbers all programs    *)
(* have to agree on, and pi-random.c, which wraps it.  A generator works   *)
(* in an array of its caller; setstate_r leaves one array for another and  *)
(* may come back later, and the word in front of an array keeps the place. *)
(***************************************************************************)
EXTENDS Integers, Sequences, SequencesExt

CONSTANTS
    Arrays,         \* the callers' arrays
    Sizes,          \* their sizes in bytes, as initstate_r is told
    Seeds,
    MaxCalls        \* bound: calls

None == "none"
MaxWord == 2147483647       \* also the modulus of the seeding
MAX_TYPES == 5
SEPS == <<0, 3, 1, 3, 1>>
DEGREES == <<0, 7, 15, 31, 63>>
STATESIZE == 128

VARIABLES
    buf, r,         \* struct random_data of the callers, of pi-random.c: the
                    \* array, rand_type and the two pointers, as indices
    mem,            \* the arrays: [saved |-> state[-1], word |-> state]
    initialized_p,
    status,         \* "ok", or "panic" after a failed assertion
    calls,
    origin          \* history, of each array: the seed, how many numbers it
                    \* gave, and whether its place was not saved

randomVars == <<buf, r, mem, initialized_p, status, calls, origin>>

Statebuf == "statebuf"
Empty == [state |-> None, rand_type |-> 0, fptr |-> 0, rptr |-> 0]

Init ==
    /\ buf = Empty /\ r = Empty
    /\ mem = [a \in Arrays \union {Statebuf} |-> [saved |-> 0, word |-> <<>>]]
    /\ initialized_p = FALSE /\ status = "ok" /\ calls = 0
    /\ origin = [a \in Arrays \union {Statebuf} |-> [seed |-> 0, given |-> 0, lost |-> TRUE]]

-----------------------------------------------------------------------------
(* Words of 32 bits, signed.                                               *)

Add32(a, b) ==
    IF a > 0 /\ b > MaxWord - a THEN (a - MaxWord - 1) + (b - MaxWord - 1)
    ELSE IF a < 0 /\ b < (-MaxWord - 1) - a THEN (a + MaxWord + 1) + (b + MaxWord + 1)
    ELSE a + b

\* (val >> 1) & 0x7fffffff
Chuck(val) == IF val < 0 THEN (val \div 2) + MaxWord + 1 ELSE val \div 2

\* (x * 1103515245 + 12345) & 0x7fffffff, in two halves.
Lcg(x) ==
    LET low == (x % 32768) * 20077 + 12345
        high == ((x % 32768) * 33676) + (((x \div 32768) * 20077) % 65536) + (low \div 32768)
    IN  (high % 65536) * 32768 + (low % 32768)

-----------------------------------------------------------------------------
(* A generator is its pointers and the words of its array.                 *)

DEG(g) == DEGREES[g.rand_type + 1]
SEP(g) == SEPS[g.rand_type + 1]

Advance(g) ==
    IF g.fptr + 1 >= DEG(g) THEN [g EXCEPT !.fptr = 0, !.rptr = @ + 1]
    ELSE [g EXCEPT !.fptr = @ + 1, !.rptr = IF @ + 1 >= DEG(g) THEN 0 ELSE @ + 1]

\* The first word of the array is word[1].
random_r(s) ==
    LET g == s.g  word == s.word
        val == Add32(word[g.fptr + 1], word[g.rptr + 1])
    IN  IF g.rand_type = 0
        THEN [g |-> g, word |-> <<Lcg(word[1])>>, result |-> Lcg(word[1])]
        ELSE [g |-> Advance(g), word |-> [word EXCEPT ![g.fptr + 1] = val], result |-> Chuck(val)]

\* Variant for mutation: the high part is subtracted once too little.
SchrageFloor(word) ==
    LET v == 16807 * (word % 127773) - 2836 * (word \div 127773)
    IN  IF v < 0 THEN v + MaxWord - 1 ELSE v

\* (16807 * word) % 2147483647 without overflow.
Schrage(word) ==
    LET v == 16807 * (word % 127773) - 2836 * (word \div 127773)
    IN  IF v < 0 THEN v + MaxWord ELSE v

Upto(n) == [i \in 1..n |-> i]
Seeded(deg, seed) ==
    FoldLeft(LAMBDA w, i : Append(w, Schrage(w[i])), <<IF seed = 0 THEN 1 ELSE seed>>,
             Upto(deg - 1))

\* The pointers rand_sep apart, then ten times around.
srandom_r(g, seed) ==
    FoldLeft(LAMBDA s, i : IF g.rand_type = 0 THEN s
                           ELSE FoldLeft(LAMBDA x, j : random_r(x), s, Upto(DEG(s.g))),
             [g |-> IF g.rand_type = 0 THEN g ELSE [g EXCEPT !.fptr = SEP(g), !.rptr = 0],
              word |-> Seeded(DEG(g), seed), result |-> 0],
             Upto(10))

TypeFor(n) == IF n >= 128 THEN (IF n < 256 THEN 3 ELSE 4)
              ELSE IF n < 32 THEN 0 ELSE IF n < 64 THEN 1 ELSE 2

Saved(g) == IF g.rand_type = 0 THEN 0 ELSE MAX_TYPES * g.rptr + g.rand_type

Now(g) == [g |-> g, word |-> mem[g.state].word]

Restored(a, saved) ==
    LET g == [buf EXCEPT !.state = a, !.rand_type = saved % MAX_TYPES]
        rear == saved \div MAX_TYPES
    IN  IF g.rand_type = 0 THEN g
        ELSE [g EXCEPT !.rptr = rear, !.fptr = (rear + SEP(g)) % DEG(g)]

-----------------------------------------------------------------------------
Call == calls < MaxCalls /\ status = "ok" /\ calls' = calls + 1

\* The caller draws a number.
Random_r ==
    /\ Call /\ buf.state # None
    /\ LET s == random_r(Now(buf))
       IN  buf' = s.g /\ mem' = [mem EXCEPT ![buf.state].word = s.word]
    /\ origin' = [origin EXCEPT ![buf.state].given = @ + 1]
    /\ UNCHANGED <<r, initialized_p, status>>

Srandom_r(seed) ==
    /\ Call /\ buf.state # None
    /\ LET s == srandom_r(buf, seed)
       IN  buf' = s.g /\ mem' = [mem EXCEPT ![buf.state].word = s.word]
    /\ origin' = [origin EXCEPT ![buf.state] = [seed |-> seed, given |-> 0, lost |-> FALSE]]
    /\ UNCHANGED <<r, initialized_p, status>>

\* An array of less than BREAK_0 bytes is refused.  The place in the array that
\* is left is not saved, against the comment before the function.
Initstate_r(seed, a, n) ==
    /\ Call /\ n >= 8
    /\ LET s == srandom_r([state |-> a, rand_type |-> TypeFor(n), fptr |-> buf.fptr,
                           rptr |-> buf.rptr], seed)
       IN  buf' = s.g /\ mem' = [mem EXCEPT ![a] = [saved |-> Saved(s.g), word |-> s.word]]
    /\ origin' = [b \in DOMAIN origin |->
                    IF b = a THEN [seed |-> seed, given |-> 0, lost |-> FALSE]
                    ELSE IF b = buf.state /\ mem[b].saved # Saved(buf)
                         THEN [origin[b] EXCEPT !.lost = TRUE] ELSE origin[b]]
    /\ UNCHANGED <<r, initialized_p, status>>

\* The place is saved, and that of the other array restored; it may be the same.
Setstate_r(a) ==
    /\ Call /\ buf.state # None /\ mem[a].word # <<>>
    /\ mem' = [mem EXCEPT ![buf.state].saved = Saved(buf)]
    /\ buf' = Restored(a, mem'[a].saved)
    /\ UNCHANGED <<r, initialized_p, status, origin>>

-----------------------------------------------------------------------------
(* pi-random.c                                                             *)

Fresh(x) == srandom_r([Empty EXCEPT !.state = Statebuf, !.rand_type = TypeFor(STATESIZE)], x)

pi_random_seed(x) ==
    /\ Call /\ initialized_p' = TRUE
    /\ LET s == Fresh(x)
       IN  r' = s.g /\ mem' = [mem EXCEPT ![Statebuf] = [saved |-> Saved(s.g), word |-> s.word]]
    /\ origin' = [origin EXCEPT ![Statebuf] = [seed |-> x, given |-> 0, lost |-> FALSE]]
    /\ UNCHANGED <<buf, status>>

\* The first call seeds, checks the first number and gives the second.
pi_random ==
    /\ Call /\ initialized_p' = TRUE
    /\ LET f == Fresh(0)
           first == random_r(f)
           s == IF initialized_p THEN random_r(Now(r))
                                 ELSE random_r(first)
       IN  /\ r' = s.g
           /\ mem' = [mem EXCEPT ![Statebuf].word = s.word,
                                 ![Statebuf].saved = IF initialized_p THEN @ ELSE Saved(f.g)]
           /\ status' = IF ~initialized_p /\ first.result # 1804289383 THEN "panic" ELSE "ok"
    /\ origin' = [origin EXCEPT ![Statebuf] =
                    IF initialized_p THEN [@ EXCEPT !.given = @ + 1]
                    ELSE [seed |-> 0, given |-> 2, lost |-> FALSE]]
    /\ UNCHANGED buf

Next ==
    \/ Random_r \/ pi_random
    \/ \E seed \in Seeds : \/ Srandom_r(seed) \/ pi_random_seed(seed)
                           \/ \E a \in Arrays, n \in Sizes : Initstate_r(seed, a, n)
    \/ \E a \in Arrays : Setstate_r(a)

Spec == Init /\ [][Next]_randomVars

-----------------------------------------------------------------------------
(* The mathematics: the sequence of words of which an array is a window.   *)

AddMod(a, b) == IF a - MaxWord + b < 0 THEN a + b ELSE a - MaxWord + b
Times7(x) == FoldLeft(LAMBDA s, i : AddMod(s, x), 0, [i \in 1..7 |-> i])
MinStd(x) == FoldLeft(LAMBDA s, i : Times7(s), x, [i \in 1..5 |-> i])

\* The window of rand_deg words that the front pointer is about to replace
\* starts rand_sep words into the seeded ones.
Window(seed, deg, sep) ==
    LET w == FoldLeft(LAMBDA s, i : Append(s, MinStd(s[i])),
                      <<IF seed = 0 THEN 1 ELSE seed>>, Upto(deg - 1))
    IN  SubSeq(w, sep + 1, deg) \o SubSeq(w, 1, sep)
Grow(s, deg, sep, n) ==
    FoldLeft(LAMBDA x, i : Append(x, Add32(x[Len(x) + 1 - sep], x[Len(x) + 1 - deg])), s, Upto(n))

\* The k-th number, from 0, of a seed.
Number(seed, type, k) ==
    LET deg == DEGREES[type + 1]  sep == SEPS[type + 1]
        words == FoldLeft(LAMBDA s, i : IF s = <<>> THEN s ELSE Grow(s, deg, sep, deg),
                          Window(seed, deg, sep), Upto(10))
        all == Grow(words, deg, sep, k + 1)
    IN  IF type = 0 THEN FoldLeft(LAMBDA x, i : Lcg(x), IF seed = 0 THEN 1 ELSE seed, Upto(k + 1))
                    ELSE Chuck(all[Len(all)])

\* The pointers stay rand_sep words apart, so that they never wrap together
\* (random.c:137-139).
Apart(g) == g.rand_type # 0 =>
    /\ g.fptr \in 0..(DEG(g) - 1) /\ g.rptr \in 0..(DEG(g) - 1)
    /\ g.fptr - g.rptr \in {SEP(g), SEP(g) - DEG(g)}
FrontRear == Apart(buf) /\ Apart(r)

\* Every array gives the numbers of its seed in order, whatever other array is
\* used meanwhile, if it is left with setstate_r; and the number that
\* pi_random_init asserts is the one it gets (pi-random.c:24-31).
Place(a) == IF a = Statebuf THEN r ELSE IF a = buf.state THEN buf ELSE Restored(a, mem[a].saved)
Stream ==
    /\ status = "ok"
    /\ \A a \in DOMAIN mem : mem[a].word # <<>> /\ ~origin[a].lost =>
         random_r(Now(Place(a))).result
             = Number(origin[a].seed, Place(a).rand_type, origin[a].given)
=============================================================================
