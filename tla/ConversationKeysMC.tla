--------------------------- MODULE ConversationKeysMC ---------------------------
(* Two users; d2 belongs to the second one.  A conversation begins with d1 alone, and d2   *)
(* enrols before or after it exists, before or after its user joins.                       *)
EXTENDS ConversationKeys

CONSTANTS u1, u2, d1, d2, c1, c2

MCOwnerOf == [d \in Devices |-> IF d = d2 THEN u2 ELSE u1]

=============================================================================
