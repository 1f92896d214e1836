--------------------------- MODULE IntakeSessionsMC ---------------------------
(* One session with two uploads, two finalize calls and both tickers. *)
EXTENDS IntakeSessions

=============================================================================
