------------------------ MODULE IntakeKeyRotationMC ------------------------
(* Small instances of IntakeKeyRotation: the files belong to the first session. *)
EXTENDS IntakeKeyRotation

InFirst == [f \in Files |-> 1]

=============================================================================
