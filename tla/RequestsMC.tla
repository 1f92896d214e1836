----------------------------- MODULE RequestsMC -----------------------------
(* Small instances of Requests for TLC: one list. *)
EXTENDS Requests, TLC

CONSTANT l1

OneList == [i \in Items |-> l1]

Symmetry == Permutations(Ops) \cup Permutations(Items)

=============================================================================
