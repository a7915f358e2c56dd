----------------------------- MODULE Migration -----------------------------
(***************************************************************************)
(* What moving a fleet from the old service to the new one promises: the    *)
(* fleet moves in one step or not at all, it moves once, and the step       *)
(* changes nothing about where a name publishes or with which TTL.  Until   *)
(* then nothing about the fleet changes; afterwards it is the owner's.      *)
(***************************************************************************)
CONSTANT Fleets      \* the fleets there may be: where each name publishes

VARIABLES
  moved,       \* whether the fleet is on the new service
  publishes    \* from a name to the accounts and TTLs it is published with

vars == <<moved, publishes>>

Init == moved = FALSE /\ publishes \in Fleets

Move == ~moved /\ moved' = TRUE /\ UNCHANGED publishes

Edit == moved /\ UNCHANGED moved

Next == Move \/ Edit

Spec == Init /\ [][Next]_vars
=============================================================================
