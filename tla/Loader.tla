-------------------------------- MODULE Loader --------------------------------
(***************************************************************************)
(* What my-install and the bootloader promise: the Pis are loaded one      *)
(* after the other, each once and with its own image, and my-install goes  *)
(* on to the next Pi only when the last one has been loaded.  An image is  *)
(* loaded at Home, where it runs, unless the exchange has been disturbed.  *)
(***************************************************************************)
EXTENDS Integers

CONSTANTS NPis, Image(_), Nothing, Home, Away, Nowhere

VARIABLES
    loaded,     \* [Pis -> images] what each Pi was loaded with
    returned,   \* [Pis -> places] and where
    reported,   \* Pis my-install believes to be started
    disturbed   \* something was lost or garbled, or a Pi lost power

vars == <<loaded, returned, reported, disturbed>>

Init ==
    /\ loaded = [i \in 0..(NPis - 1) |-> Nothing]
    /\ returned = [i \in 0..(NPis - 1) |-> Nowhere]
    /\ reported = 0 /\ disturbed = FALSE

Load ==
    /\ reported < NPis /\ loaded[reported] = Nothing
    /\ loaded' = [loaded EXCEPT ![reported] = Image(reported)]
    /\ \E p \in {Home} \cup Away :
        /\ p = Home \/ disturbed
        /\ returned' = [returned EXCEPT ![reported] = p]
    /\ UNCHANGED <<reported, disturbed>>

Report ==
    /\ reported < NPis /\ loaded[reported] = Image(reported)
    /\ reported' = reported + 1
    /\ UNCHANGED <<loaded, returned, disturbed>>

Disturb ==
    /\ disturbed' = TRUE
    /\ UNCHANGED <<loaded, returned, reported>>

Next == Load \/ Report \/ Disturb

Spec == Init /\ [][Next]_vars
=============================================================================
