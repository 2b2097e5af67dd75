------------------------------- MODULE MCFmpi -------------------------------
(***************************************************************************)
(* Instances of Fmpi for TLC.  A tick is 10 ms: DELAY_MS is 7 ticks and    *)
(* TIMEOUT_MS 20.  The first byte of every block tells call, Pi and block  *)
(* apart; the last byte has the value of the SYNC or of the SEND signal.   *)
(***************************************************************************)
EXTENDS Fmpi, Sequences

\* The programs: the collectives of matmul-hard.c, and a barrier alone.
MatMul == <<"bcast", "scatter", "barrier", "gather">>
JustBarrier == <<"barrier">>

MCData == [c \in 1..NCalls |-> [n \in Node |-> [b \in Node |-> [k \in Offset |->
              IF k = 0 THEN 16 + 16 * c + 4 * n + b
              ELSE IF n = b THEN SyncSignal ELSE SendSignal]]]]
MCGarbage == {SyncSignal, SendSignal, 240}
=============================================================================
