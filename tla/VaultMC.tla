------------------------------- MODULE VaultMC -------------------------------
(* Two devices of staff and a portal session at one vault. *)
EXTENDS Vault

CONSTANTS s1, s2, c1, f1, d1

=============================================================================
