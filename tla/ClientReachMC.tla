----------------------------- MODULE ClientReachMC -----------------------------
(* One client, who sends one thing: a mail with a file or without a text, or a keyword. *)
EXTENDS ClientReach

CONSTANTS c1

MCFromOf == [i \in Items |-> c1]
=============================================================================
