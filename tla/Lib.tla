-------------------------------- MODULE Lib --------------------------------
(***************************************************************************)
(* The functions of libpi/libc on memory, strings and numbers, which stand *)
(* in for the C library on the Pi: each is its loop over bytes, and the    *)
(* machine calls it with every argument.                                   *)
(***************************************************************************)
EXTENDS Integers, Sequences, SequencesExt

CONSTANTS
    Memory,         \* the number of bytes
    Chars, Room,    \* of the strings, and of the arrays they are in
    Width,          \* of uint32_t, in bits
    Buffers         \* sizes that vsnprintk is given

VARIABLE call
libVars == call

Address == 0..(Memory - 1)
Upto(n) == [i \in 1..n |-> i]
Least(S) == CHOOSE x \in S : \A y \in S : x <= y

-----------------------------------------------------------------------------
(* Memory: a function from addresses to bytes.                             *)

aligned(a, n) == a % n = 0

\* One access of step bytes.
Moved(mem, dst, src, step) ==
    [a \in DOMAIN mem |-> IF a \in dst..(dst + step - 1) THEN mem[src + a - dst] ELSE mem[a]]

Copied(mem, dst, src, nbytes, step) ==
    FoldLeft(LAMBDA m, i : Moved(m, dst + step * (i - 1), src + step * (i - 1), step),
             mem, Upto(nbytes \div step))

memcpy(mem, dst, src, nbytes) ==
    LET all(n) == aligned(dst, n) /\ aligned(src, n) /\ aligned(nbytes, n)
    IN  Copied(mem, dst, src, nbytes, IF all(8) THEN 8 ELSE IF all(4) THEN 4 ELSE 1)

\* Variant for mutation: upwards always.
memmoveUp(mem, dst, src, count) == Copied(mem, dst, src, count, 1)

\* Upwards if the source is above, or else downwards.
memmove(mem, dst, src, count) ==
    IF src = dst THEN mem
    ELSE IF src > dst THEN Copied(mem, dst, src, count, 1)
    ELSE FoldLeft(LAMBDA m, i : Moved(m, dst + count - i, src + count - i, 1), mem, Upto(count))

\* Zeroes may be stored by words.
memset(mem, dst, c, n) ==
    LET step == IF c = 0 /\ aligned(dst, 8) /\ aligned(n, 8) THEN 8
                ELSE IF c = 0 /\ aligned(dst, 4) /\ aligned(n, 4) THEN 4 ELSE 1
    IN  [value |-> dst + n,
         mem |-> FoldLeft(LAMBDA m, i : [a \in DOMAIN m |->
                     IF a \in (dst + step * (i - 1))..(dst + step * i - 1) THEN c ELSE m[a]],
                 mem, Upto(n \div step))]

memcmp(mem, s1, s2, nbytes) ==
    LET differ == {i \in 0..(nbytes - 1) : mem[s1 + i] # mem[s2 + i]}
    IN  IF differ = {} THEN 0 ELSE mem[s1 + Least(differ)] - mem[s2 + Least(differ)]

memiszero(mem, p, n) == \A i \in 0..(n - 1) : mem[p + i] = 0

-----------------------------------------------------------------------------
(* Strings: arrays with a zero somewhere; char is unsigned on the Pi.      *)

Strings == {s \in [1..Room -> Chars] : \E k \in 1..Room : s[k] = 0}

strlen(p) == Least({k \in DOMAIN p : p[k] = 0}) - 1

strcmp(a, b) ==
    LET k == Least({j \in DOMAIN a : a[j] = 0 \/ a[j] # b[j]}) IN a[k] - b[k]

\* It does not stop at the end of the strings.
strncmp(a, b, n) ==
    LET differ == {j \in 1..n : a[j] # b[j]}
    IN  IF differ = {} THEN 0 ELSE a[Least(differ)] - b[Least(differ)]

\* The first len bytes of a copied to the offset of dest.
Put(dest, offset, a, len) ==
    [k \in DOMAIN dest |-> IF k - offset \in 1..len THEN a[k - offset] ELSE dest[k]]

strcpy(s1, s2) == Put(s1, 0, s2, strlen(s2) + 1)

strcat(dest, src) == Put(dest, strlen(dest), src, strlen(src) + 1)

\* The offset, or -1 for NULL; the final zero is found too.
strchr(s, c) ==
    LET found == {k \in 1..(strlen(s) + 1) : s[k] = c} IN IF found = {} THEN -1 ELSE Least(found) - 1

safe_strcpy(dst, src, n) ==
    IF n = 0 THEN dst
    ELSE IF strlen(src) < n - 1 THEN Put(dst, 0, src, strlen(src) + 1)
    ELSE [Put(dst, 0, src, n - 1) EXCEPT ![n] = 0]

-----------------------------------------------------------------------------
(* printk.c and sprintk.c, which repeats it: a text is the sequence of its *)
(* digits, with "-" and "0x" before it.                                    *)

Limit == 2^Width

\* Digits last first, then emitted backwards.
emit_val(base, u) ==
    LET rest[k \in 0..Width] == IF k = 0 THEN u ELSE rest[k - 1] \div base
        n == Least({k \in 1..Width : rest[k] = 0})
    IN  [i \in 1..n |-> rest[n - i] % base]

\* %d: -v of the least int is itself, and as an unsigned its absolute value.
emit_int(v) ==
    IF v < 0 THEN <<"-">> \o emit_val(10, (Limit - (v + Limit)) % Limit) ELSE emit_val(10, v)

emit_hex(u) == <<"0", "x">> \o emit_val(16, u)

\* %llx: the low word is not padded with zeroes.
emit_llx(hi, lo) ==
    <<"0", "x">> \o (IF hi # 0 THEN emit_val(16, hi) ELSE <<>>) \o emit_val(16, lo)

\* The offset after the last byte written; panics at the first byte that does
\* not fit, but does not ask whether the zero fits.
vsnprintk(n, text) ==
    IF Len(text) > n THEN [status |-> "panic", end |-> n]
                     ELSE [status |-> "ok", end |-> Len(text) + 1]

-----------------------------------------------------------------------------
Init == call = [fn |-> "none"]

Return == call.fn # "none" /\ call' = [fn |-> "none"]
CallMemory ==
    \E dst, src \in Address : \E n \in 0..Memory :
        /\ dst + n <= Memory /\ src + n <= Memory
        /\ call' = [fn |-> "memory", dst |-> dst, src |-> src, n |-> n]
CallString ==
    \E a, b \in Strings, n \in 0..Room : call' = [fn |-> "string", a |-> a, b |-> b, n |-> n]
CallNumber ==
    \E hi \in {0, 1, Limit - 1}, u \in 0..(Limit - 1), n \in Buffers :
        call' = [fn |-> "number", hi |-> hi, u |-> u, n |-> n]

Next == Return \/ (call.fn = "none" /\ (CallMemory \/ CallString \/ CallNumber))
Spec == Init /\ [][Next]_libVars

-----------------------------------------------------------------------------
(* What C demands of these functions, and the places where the code departs *)
(* from it: each is a definition of its own, and the properties say        *)
(* nothing of the calls it holds for.                                      *)

Overlap(dst, src, n) == dst < src + n /\ src < dst + n
Str(a) == SubSeq(a, 1, strlen(a))
Smaller(x, y) ==
    \E k \in 0..Len(x) : /\ k < Len(y) /\ SubSeq(x, 1, k) = SubSeq(y, 1, k)
                         /\ k = Len(x) \/ x[k + 1] < y[k + 1]
Value(base, digits) == FoldLeft(LAMBDA v, d : v * base + d, 0, digits)

\* memset returns dst in C, and the end of the bytes here (memset.c:17, 24, 31).
WrongValue(n) == n > 0

\* strncmp stops at the end of the strings in C; here it compares the bytes
\* behind them, if they are equal (strncmp.c:6-9).
ReadsOn(a, b, n) == Str(a) = Str(b) /\ n > strlen(a) + 1

\* %llx does not pad the low word with zeroes (printk.c:72-74).
Unpadded(hi, lo) == hi # 0 /\ 16 * lo < Limit

\* putchar asserts that it stays in the buffer (sprintk.c:8), but the zero is
\* written without it (109).
ZeroOutside(n, text) == Len(text) = n

\* The bytes of the source as they were before the call are in the destination
\* after it and no other byte changes, memmove also when the two overlap and
\* memcpy whatever it copies at a time; memset fills just its bytes; and a
\* comparison is zero just when the bytes are equal (memmove.c, memcpy.c:24-55,
\* memset.c:7-32, memcmp.c).
Before == [a \in Address |-> a + 1]
MemoryRight ==
    call.fn = "memory" =>
    LET dst == call.dst  src == call.src  n == call.n
        wanted == [a \in Address |-> IF a \in dst..(dst + n - 1) THEN Before[src + a - dst] ELSE Before[a]]
    IN  /\ memmove(Before, dst, src, n) = wanted
        /\ ~Overlap(dst, src, n) => memcpy(Before, dst, src, n) = wanted
        /\ memcmp(wanted, dst, src, n) = 0 <=> (dst = src \/ n = 0 \/ ~Overlap(dst, src, n))
        /\ \A c \in {0, 7} : memset(Before, dst, c, n).mem
               = [a \in Address |-> IF a \in dst..(dst + n - 1) THEN c ELSE Before[a]]
        /\ WrongValue(n) \/ memset(Before, dst, 0, n).value = dst
        /\ memiszero(memset(Before, dst, 0, n).mem, dst, n)

\* The string functions agree with the strings the arrays stand for, and
\* safe_strcpy leaves a string and nothing past its n bytes; strncmp where it
\* does not read on (libc/str*.c, safe-strcpy.c).
StringsRight ==
    call.fn = "string" =>
    LET a == call.a  b == call.b  n == call.n
        head(x) == SubSeq(x, 1, IF n < Len(x) THEN n ELSE Len(x))
    IN  /\ strcmp(a, b) = 0 <=> Str(a) = Str(b)
        /\ strcmp(a, b) < 0 <=> Smaller(Str(a), Str(b))
        /\ \/ ReadsOn(a, b, n)
           \/ /\ strncmp(a, b, n) = 0 <=> head(Str(a)) = head(Str(b))
              /\ strncmp(a, b, n) < 0 <=> Smaller(head(Str(a)), head(Str(b)))
        /\ Str(strcpy(a, b)) = Str(b)
        /\ Len(Str(a)) + Len(Str(b)) < Room => Str(strcat(a, b)) = Str(a) \o Str(b)
        /\ \A c \in Chars : LET k == strchr(a, c)
                            IN  IF k = -1 THEN c # 0 /\ \A i \in DOMAIN Str(a) : Str(a)[i] # c
                                ELSE a[k + 1] = c /\ \A i \in 1..k : a[i] \notin {c, 0}
        /\ n > 0 => /\ Str(safe_strcpy(a, b, n))
                            = SubSeq(b, 1, IF n - 1 < strlen(b) THEN n - 1 ELSE strlen(b))
                    /\ \A k \in (n + 1)..Room : safe_strcpy(a, b, n)[k] = a[k]

\* A number is printed so that it reads back, the least int included, and one of
\* two words where its low one needs no padding; a text and its zero are in the
\* buffer if they fit, and a longer one stops the Pi before it leaves the
\* buffer; a text of just its size is the case left out (printk.c:7-103,
\* sprintk.c:7-111).
Fits(base, u) == Value(base, emit_val(base, u)) = u /\ (u > 0 => emit_val(base, u)[1] > 0)
NumbersRight ==
    call.fn = "number" =>
    LET u == call.u  hi == call.hi
        v == IF u < Limit \div 2 THEN u ELSE u - Limit
        digits(text) == SubSeq(text, 3, Len(text))
        text == emit_int(v)
        printed == vsnprintk(call.n, text)
    IN  /\ \A base \in {2, 10, 16} : Fits(base, u)
        /\ IF v < 0 THEN text[1] = "-" /\ Value(10, Tail(text)) = -v ELSE Value(10, text) = v
        /\ Value(16, digits(emit_hex(u))) = u
        /\ Unpadded(hi, u) \/ Value(16, digits(emit_llx(hi, u))) = hi * Limit + u
        /\ \/ ZeroOutside(call.n, text)
           \/ /\ printed.end <= call.n
              /\ printed.status = "ok" <=> Len(text) + 1 <= call.n
=============================================================================
