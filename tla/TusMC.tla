-------------------------------- MODULE TusMC --------------------------------
(* One upload, to the vault or of an intake session, in two chunks. *)
EXTENDS Tus

CONSTANTS u1, h1, h2

=============================================================================
