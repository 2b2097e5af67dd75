------------------------------ MODULE Collective ------------------------------
(***************************************************************************)
(* What the collectives of libpi/src/fmpi.c promise, without links, bytes  *)
(* or time: every Pi enters and leaves the calls of the program in order,  *)
(* the root leaves a call after everybody has entered it, a worker leaves  *)
(* it after the root has entered it, and whoever leaves holds the result.  *)
(* A worker may leave before another worker has entered: sync_root_last    *)
(* only meets the root ("root last").                                      *)
(***************************************************************************)
EXTENDS Integers

CONSTANTS
    Node, Root,
    NCalls,
    Result(_, _)    \* Result(n, c): what n's receive buffer holds after call c

VARIABLES
    call,           \* [Node -> 1..NCalls+1]
    inside,         \* [Node -> BOOLEAN] the Pi is in call[n]
    result          \* [Node -> results] of the last call each Pi has left

vars == <<call, inside, result>>

CONSTANT NoResult   \* before the first call returns

Entered(n, c) == call[n] > c \/ (call[n] = c /\ inside[n])

Init ==
    /\ call = [n \in Node |-> 1]
    /\ inside = [n \in Node |-> FALSE]
    /\ result = [n \in Node |-> NoResult]

Enter(n) ==
    /\ ~inside[n] /\ call[n] <= NCalls
    /\ inside' = [inside EXCEPT ![n] = TRUE]
    /\ result' = [result EXCEPT ![n] = NoResult]
    /\ UNCHANGED call

Leave(n) ==
    /\ inside[n]
    /\ IF n = Root THEN \A m \in Node : Entered(m, call[n])
                   ELSE Entered(Root, call[n])
    /\ inside' = [inside EXCEPT ![n] = FALSE]
    /\ call' = [call EXCEPT ![n] = @ + 1]
    /\ result' = [result EXCEPT ![n] = Result(n, call[n])]

Next == \E n \in Node : Enter(n) \/ Leave(n)

Spec == Init /\ [][Next]_vars
=============================================================================
