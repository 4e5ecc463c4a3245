----------------------------- MODULE Provisioning -----------------------------
(***************************************************************************)
(* What installing a list of documents promises, without saying how: the   *)
(* objects that are missing are created in the order of the list, none of  *)
(* them before those it may build on, and success means that all exist.    *)
(***************************************************************************)
EXTENDS Naturals, Sequences, SequencesExt

VARIABLES
  order,    \* the objects, as they are listed
  present,  \* the objects that exist
  finished  \* the installation has reported success

vars == <<order, present, finished>>

Init == finished = FALSE

\* The last object that is created may be the success.
Create ==
  /\ ~finished
  /\ \E i \in 1..Len(order) :
       /\ order[i] \notin present
       /\ \A j \in 1..(i - 1) : order[j] \in present
       /\ present' = present \cup {order[i]}
  /\ finished' \in {FALSE, ToSet(order) \subseteq present'}
  /\ UNCHANGED order

Finish ==
  /\ ToSet(order) \subseteq present
  /\ finished' = TRUE
  /\ UNCHANGED <<order, present>>

Next == Create \/ Finish

Spec == Init /\ [][Next]_vars
=============================================================================
