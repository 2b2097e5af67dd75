----------------------------- MODULE MCCircular -----------------------------
(***************************************************************************)
(* Instances of Circular for TLC: a queue of three slots, calls that move  *)
(* up to two elements, so that head and tail wrap inside a call, the queue *)
(* runs full and empty, and cq_push_n asks for more than there is.         *)
(***************************************************************************)
EXTENDS Circular
=============================================================================
