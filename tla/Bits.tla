-------------------------------- MODULE Bits --------------------------------
(***************************************************************************)
(* Words as the sets of their bits that are on: bit-support.h, through     *)
(* which the drivers reach fields of device registers, and the checksum of *)
(* crc.c, which the bootloader computes over a program in one go and the   *)
(* Pi's copy may compute in pieces.  The machine calls one function after  *)
(* another with every argument.                                            *)
(***************************************************************************)
EXTENDS Integers, Sequences, SequencesExt

CONSTANTS
    W,              \* the width of a word of bit-support.h
    Bytes,          \* of the messages, as sets of bits
    MaxLen          \* their length

VARIABLE call
bitsVars == call

Bit == 0..(W - 1)
Word == SUBSET Bit

Not(x) == Bit \ x
Shl(x, k) == {b + k : b \in {c \in x : c + k < W}}
Shr(x, k) == {b - k : b \in {c \in x : c >= k}}
Xor(x, y) == (x \ y) \union (y \ x)
One == {0}
\* x - 1: the lowest bit goes off, those under it on.
Minus1(x) ==
    IF x = {} THEN Bit
    ELSE LET low == CHOOSE b \in x : \A c \in x : b <= c IN (x \ {low}) \union 0..(low - 1)

-----------------------------------------------------------------------------
(* bit-support.h                                                           *)

bit_clr(x, bit) == x \ Shl(One, bit)
bit_set(x, bit) == x \union Shl(One, bit)
bit_not(x, bit) == Xor(x, Shl(One, bit))
bit_is_on(x, bit) == Shr(x, bit) \intersect One # {}

bits_mask(nbits) == IF nbits = W THEN Bit ELSE Minus1(Shl(One, nbits))

bits_get(x, lb, ub) == Shr(x, lb) \intersect bits_mask(ub - lb + 1)
bits_clr(x, lb, ub) == x \intersect Not(Shl(bits_mask(ub - lb + 1), lb))
bits_set(x, lb, ub, v) == bits_clr(x, lb, ub) \union Shl(v, lb)
bits_eq(x, lb, ub, val) == bits_get(x, lb, ub) = val
bits_diff(A, B) == A \intersect Not(B)

-----------------------------------------------------------------------------
(* crc.c, with words of 32 bits.                                           *)

\* 0xEDB88320
Poly == {31, 30, 29, 27, 26, 24, 23, 21, 20, 19, 15, 9, 8, 5}
Ones == 0..31
Low == 0..7

Divide(c) == LET half == {b - 1 : b \in c \ {0}} IN IF 0 \in c THEN Xor(half, Poly) ELSE half

\* The table of the C source, by its rule.
crc32_tab[i \in SUBSET Low] == FoldLeft(LAMBDA c, k : Divide(c), i, <<1, 2, 3, 4, 5, 6, 7, 8>>)

our_crc32_inc(buf, crc) ==
    Xor(FoldLeft(LAMBDA c, p : Xor(crc32_tab[Xor(c, p) \intersect Low], {b - 8 : b \in c \ Low}),
                 Xor(crc, Ones), buf), Ones)
our_crc32(buf) == our_crc32_inc(buf, {})

-----------------------------------------------------------------------------
Init == call = [fn |-> "none"]

Field(x, lb, ub, v) ==
    /\ lb <= ub /\ v \subseteq 0..(ub - lb)
    /\ call' = [fn |-> "field", x |-> x, lb |-> lb, ub |-> ub, v |-> v]
Single(x, bit) == call' = [fn |-> "bit", x |-> x, bit |-> bit]
Sum(a, b) == call' = [fn |-> "crc", a |-> a, b |-> b]
Return == call.fn # "none" /\ call' = [fn |-> "none"]

Messages == UNION {[1..n -> Bytes] : n \in 0..MaxLen}

Next ==
    \/ Return
    \/ /\ call.fn = "none"
       /\ \/ \E x \in Word, lb, ub \in Bit, v \in Word : Field(x, lb, ub, v)
          \/ \E x \in Word, bit \in Bit : Single(x, bit)
          \/ \E a, b \in Messages : Sum(a, b)

Spec == Init /\ [][Next]_bitsVars

-----------------------------------------------------------------------------
\* A field reads back what was written into it and the rest of the word stays
\* as it was, the whole word included, where bits_mask would shift by the
\* width (bit-support.h:39-53, 75-91).
FieldRight(x, lb, ub, v) ==
    LET y == bits_set(x, lb, ub, v)
    IN  /\ bits_get(y, lb, ub) = v /\ bits_eq(y, lb, ub, v)
        /\ \A b \in Bit : b \notin lb..ub => (b \in y <=> b \in x)
        /\ y \in Word /\ bits_diff(y, bits_clr(y, lb, ub)) = Shl(v, lb)
        /\ bits_get(bits_clr(x, lb, ub), lb, ub) = {}
BitRight(x, bit) ==
    /\ bit_is_on(bit_set(x, bit), bit) /\ ~bit_is_on(bit_clr(x, bit), bit)
    /\ bit_is_on(bit_not(x, bit), bit) = ~bit_is_on(x, bit)
    /\ \A y \in {bit_set(x, bit), bit_clr(x, bit), bit_not(x, bit)} :
         y \ {bit} = x \ {bit} /\ y \in Word
BitsRight ==
    /\ call.fn = "field" => FieldRight(call.x, call.lb, call.ub, call.v)
    /\ call.fn = "bit" => BitRight(call.x, call.bit)

\* The remainder bit by bit, without the table.
Remainder(buf) ==
    Xor(FoldLeft(LAMBDA c, p : FoldLeft(LAMBDA d, k : Divide(d), Xor(c, p), <<1, 2, 3, 4, 5, 6, 7, 8>>),
                 Ones, buf), Ones)

\* The sum is the remainder of the division, may be computed in pieces, and
\* tells any two programs apart that differ in one byte (crc.c:54-65; what
\* the bootloader relies on in put-code.c and get-code.h).
CrcRight ==
    call.fn = "crc" =>
        /\ our_crc32(call.a) = Remainder(call.a)
        /\ our_crc32_inc(call.b, our_crc32(call.a)) = our_crc32(call.a \o call.b)
        /\ \A k \in DOMAIN call.a : \A p \in Bytes \ {call.a[k]} :
             our_crc32([call.a EXCEPT ![k] = p]) # our_crc32(call.a)
=============================================================================
