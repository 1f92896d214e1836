---------------------------- MODULE KeyMigration ----------------------------
(***************************************************************************)
(* What a key rotation promises: of the items stored when it starts, it    *)
(* moves one after the other to the new key, brings none of them back, and *)
(* reports that it has finished only when all have moved.  A report can be *)
(* withdrawn and given again.                                              *)
(***************************************************************************)
CONSTANT Item

VARIABLES
  pending,  \* the items the rotation answers for that are not under the new key
  phase     \* whether a rotation has started and whether one has finished

Phases == {"open", "started", "finished"}

Init == pending = {} /\ phase = "open"

Store == phase = "open" /\ pending' \in SUBSET Item /\ pending \subseteq pending' /\ UNCHANGED phase
Start == phase = "open" /\ phase' = "started" /\ UNCHANGED pending
Move == phase # "open" /\ pending' \in SUBSET pending /\ UNCHANGED phase
Complete == phase = "started" /\ pending = {} /\ phase' = "finished" /\ UNCHANGED pending
Withdraw == phase = "finished" /\ phase' = "started" /\ UNCHANGED pending

Next == Store \/ Start \/ Move \/ Complete \/ Withdraw

Spec == Init /\ [][Next]_<<pending, phase>>

=============================================================================
