----------------------------- MODULE RetentionMC -----------------------------
(* One message with its edits and attachments, two edits, uploads or sweeps at a time. *)
EXTENDS Retention

=============================================================================
