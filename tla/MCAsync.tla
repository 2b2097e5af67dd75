------------------------------ MODULE MCAsync ------------------------------
(***************************************************************************)
(* Instances of Async for TLC: the program of src/tests/0-mpi/fmpi-async.c *)
(* (two PUTs, a GET) and one more PUT to the first word, on a tick of      *)
(* 10 ms.                                                                  *)
(***************************************************************************)
EXTENDS Async

First == <<1, 2, 7, 1>>
Second == <<2, 1, 7, 7>>
Addresses2 == {First, Second}

Op1(c, a, w) == [command |-> c, address |-> a, word |-> w]
Program == <<Op1("put", First, <<7, 1, 2, 3>>), Op1("put", Second, <<1, 7, 2, 4>>),
             Op1("get", Second, <<0, 0, 0, 0>>), Op1("put", First, <<2, 7, 7, 5>>)>>

Zeros == [a \in Addresses2 |-> <<0, 0, 0, 0>>]
MCGarbage == {7, 224}
=============================================================================
