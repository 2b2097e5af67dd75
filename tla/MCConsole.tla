----------------------------- MODULE MCConsole -----------------------------
(***************************************************************************)
(* Console for TLC: the root's image is a 0 and the first byte of the exit *)
(* string, and the other Pi prints what looks like the beginning of the    *)
(* exit string before it says that it is done.  The user types one byte    *)
(* more than the FIFO holds.                                               *)
(***************************************************************************)
EXTENDS Console

MCOutput == [i \in 1..NumPis |-> IF i = 1 THEN <<Nul>> ELSE <<"D">>]
MCKeys == <<"a", "b">>

ASSUME MCConsoleAssumption == Unambiguous

=============================================================================
