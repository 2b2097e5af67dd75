------------------------------ MODULE MCSwUart ------------------------------
(***************************************************************************)
(* Instances of SwUart for TLC: bytes are given as numbers.                *)
(***************************************************************************)
EXTENDS SwUart

BitsOf(v) == [i \in BitNo |-> (v \div 2^i) % 2]

\* A signal and two bytes that end in a 0 and in a 1 bit.
ThreeBytes == <<BitsOf(7), BitsOf(90), BitsOf(165)>>
=============================================================================
