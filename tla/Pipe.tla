-------------------------------- MODULE Pipe --------------------------------
(***************************************************************************)
(* What the console promises: the characters that write() accepts reach    *)
(* the host in order and exactly once, and no more than Capacity of them   *)
(* are under way.  Characters are numbered in the order of acceptance.     *)
(***************************************************************************)
EXTENDS Naturals

CONSTANT Capacity

VARIABLES
    accepted,       \* characters accepted
    delivered       \* the last character the host took

Init == accepted = 0 /\ delivered = 0

Accept ==
    /\ \E n \in 1..Capacity : accepted' = accepted + n
    /\ accepted' - delivered <= Capacity
    /\ UNCHANGED delivered

Deliver ==
    /\ delivered < accepted
    /\ delivered' = delivered + 1
    /\ UNCHANGED accepted

Next == Accept \/ Deliver
Spec == Init /\ [][Next]_<<accepted, delivered>>
=============================================================================
