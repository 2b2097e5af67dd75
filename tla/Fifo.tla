-------------------------------- MODULE Fifo --------------------------------
(***************************************************************************)
(* What the queue of libpi/libc/circular.h promises its two users: a       *)
(* bounded first-in first-out queue whose elements are taken in the order  *)
(* they were put in, none twice and none lost, which can be looked ahead   *)
(* into.  It promises nothing any more after a push during a look ahead.   *)
(***************************************************************************)
EXTENDS Naturals, Sequences

CONSTANTS Value, Capacity

VARIABLES
    queue,      \* the elements in the queue, oldest first
    taken,      \* the element the last pop returned
    looking,    \* a look ahead is under way
    broken      \* something was pushed during one

Init == queue = <<>> /\ taken \in Value /\ looking = FALSE /\ broken = FALSE

Push(x) == /\ ~broken /\ ~looking /\ Len(queue) < Capacity
           /\ queue' = Append(queue, x)
           /\ UNCHANGED <<taken, looking, broken>>

Pop == /\ ~broken /\ ~looking /\ queue # <<>>
       /\ taken' = Head(queue)
       /\ queue' = Tail(queue)
       /\ UNCHANGED <<looking, broken>>

Look == /\ ~broken
        /\ looking' = ~looking
        /\ UNCHANGED <<queue, taken, broken>>

\* A push nobody is allowed: what is in the queue from here on is unknown.
Disturb == /\ looking
           /\ queue' = <<>> /\ broken' = TRUE
           /\ UNCHANGED <<taken, looking>>

Unknown == /\ broken
           /\ taken' \in Value /\ looking' \in BOOLEAN
           /\ UNCHANGED <<queue, broken>>

Next == Pop \/ Look \/ Disturb \/ Unknown \/ \E x \in Value : Push(x)

Spec == Init /\ [][Next]_<<queue, taken, looking, broken>>
=============================================================================
