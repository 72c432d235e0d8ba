--------------------------- MODULE CommandStream ---------------------------
(***************************************************************************)
(* What the host and the micro-controller want from their serial link: a   *)
(* stream of message blocks, numbered from first on, each dispatched once  *)
(* and in order, and confirmed to the host only after it was dispatched.   *)
(***************************************************************************)
EXTENDS Integers, Sequences

VARIABLES
    first,      \* the number of the first block of the session
    issued,     \* the number the next new block gets
    delivered,  \* the blocks dispatched so far, in the order of dispatch
    confirmed   \* every block below this number is known to be dispatched

vars == <<first, issued, delivered, confirmed>>

Init ==
    /\ first \in Nat
    /\ issued = first /\ delivered = <<>> /\ confirmed = first

Issue ==
    /\ issued' = issued + 1
    /\ UNCHANGED <<first, delivered, confirmed>>

Deliver ==
    /\ first + Len(delivered) < issued
    /\ delivered' = Append(delivered, first + Len(delivered))
    /\ UNCHANGED <<first, issued, confirmed>>

Confirm ==
    /\ confirmed' \in confirmed + 1 .. first + Len(delivered)
    /\ UNCHANGED <<first, issued, delivered>>

Next == Issue \/ Deliver \/ Confirm

Spec == Init /\ [][Next]_vars
=============================================================================
