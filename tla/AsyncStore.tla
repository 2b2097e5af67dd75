------------------------------ MODULE AsyncStore ------------------------------
(***************************************************************************)
(* What FMPI_PUT and FMPI_GET of libpi/src/fmpi-async.c promise: the       *)
(* initiator's operations take effect on the other Pi's memory one by one, *)
(* each once and in the order of the calls.  FMPI_GET returns after its    *)
(* effect, with the word it read; FMPI_PUT may return before its effect.   *)
(***************************************************************************)
EXTENDS Integers

CONSTANTS
    NOps, Command(_), Address(_), Word(_),  \* the calls of the initiator
    Memory                                  \* the memory at the start

VARIABLES
    called,     \* calls so far
    busy,       \* the initiator is in a call
    done,       \* operations that took effect
    mem,        \* [addresses -> words]
    answer      \* the word the last FMPI_GET returned

vars == <<called, busy, done, mem, answer>>

CONSTANT NoWord

Init ==
    /\ called = 0 /\ done = 0 /\ ~busy
    /\ mem = Memory /\ answer = NoWord

Call ==
    /\ ~busy /\ called < NOps
    /\ busy' = TRUE /\ called' = called + 1
    /\ UNCHANGED <<done, mem, answer>>

Perform ==
    /\ done < called
    /\ done' = done + 1
    /\ mem' = IF Command(done') = "put"
              THEN [mem EXCEPT ![Address(done')] = Word(done')]
              ELSE mem
    /\ UNCHANGED <<called, busy, answer>>

Return ==
    /\ busy /\ busy' = FALSE
    /\ IF Command(called) = "get"
       THEN done = called /\ answer' = mem[Address(called)]
       ELSE UNCHANGED answer
    /\ UNCHANGED <<called, done, mem>>

Next == Call \/ Perform \/ Return

Spec == Init /\ [][Next]_vars
=============================================================================
