---------------------------- MODULE MCFmpiSizes ----------------------------
(***************************************************************************)
(* Fmpi for the other numbers of Pis: two, where the root turns to the Pi  *)
(* it has just heard and Prompt is needed; four, which is MAX_RPIS; and    *)
(* three with a root that is not Pi 0, in the collectives without blocks.  *)
(***************************************************************************)
EXTENDS Integers

VARIABLES which, pc, call, peer, idx, timer, buf, wire

fmpi == <<pc, call, peer, idx, timer, buf, wire>>
vars == <<which, fmpi>>

\* The first byte of a block tells call, Pi and block apart; the last one has
\* the value of a signal.
Blocks(size, calls) ==
    [c \in 1..calls |-> [n \in 0..(size - 1) |-> [b \in 0..(size - 1) |-> [k \in 0..1 |->
        IF k = 0 THEN 16 + 16 * c + 4 * n + b ELSE IF n = b THEN 7 ELSE 5]]]]

MatMul == <<"bcast", "scatter", "barrier", "gather">>
Twice == <<"gather", "gather", "bcast", "bcast", "scatter">>
Whole == <<"bcast", "barrier", "bcast">>

Two == INSTANCE Fmpi WITH
    Size <- 2, Root <- 0, NCalls <- 4, Prog <- MatMul, Count <- 2, Data <- Blocks(2, 4),
    Delay <- 7, Timeout <- 20, GetTimeout <- 50000, MaxCompute <- 24,
    Garbage <- {5, 7, 240}, Prompt <- TRUE
Four == INSTANCE Fmpi WITH
    Size <- 4, Root <- 0, NCalls <- 5, Prog <- Twice, Count <- 2, Data <- Blocks(4, 5),
    Delay <- 7, Timeout <- 20, GetTimeout <- 50000, MaxCompute <- 24,
    Garbage <- {5, 7, 240}, Prompt <- FALSE
Other == INSTANCE Fmpi WITH
    Size <- 3, Root <- 1, NCalls <- 3, Prog <- Whole, Count <- 2, Data <- Blocks(3, 3),
    Delay <- 7, Timeout <- 20, GetTimeout <- 50000, MaxCompute <- 24,
    Garbage <- {5, 7, 240}, Prompt <- FALSE

Init ==
    \/ which = "two" /\ Two!Init
    \/ which = "four" /\ Four!Init
    \/ which = "other" /\ Other!Init

Next ==
    /\ UNCHANGED which
    /\ \/ which = "two" /\ Two!Next
       \/ which = "four" /\ Four!Next
       \/ which = "other" /\ Other!Next

Spec == Init /\ [][Next]_vars /\ WF_vars(Next)

-----------------------------------------------------------------------------
\* Each size keeps the places and ticks of the inductive invariant, delivers the
\* results, loses nothing but requests and never blows up, implements Collective,
\* and its programs end (fmpi.c:23-163).
Safe ==
    /\ which = "two" => Two!Safe
    /\ which = "four" => Four!Safe
    /\ which = "other" => Other!Safe
Implements ==
    /\ which = "two" => Two!Promise!Init
    /\ which = "four" => Four!Promise!Init
    /\ which = "other" => Other!Promise!Init
    /\ [][/\ which = "two" => Two!Promise!Next \/ UNCHANGED Two!Promise!vars
          /\ which = "four" => Four!Promise!Next \/ UNCHANGED Four!Promise!vars
          /\ which = "other" => Other!Promise!Next \/ UNCHANGED Other!Promise!vars]_vars
Termination ==
    <>(/\ which = "two" => \A n \in Two!Node : Two!Finished(n)
       /\ which = "four" => \A n \in Four!Node : Four!Finished(n)
       /\ which = "other" => \A n \in Other!Node : Other!Finished(n))
=============================================================================
