---------------------------- MODULE IntakeOutboxMC ----------------------------
(* A client's SMS and a staff member's mail about a finalized session. *)
EXTENDS IntakeOutbox

CONSTANTS u1, sms, alert

MixedRows == [r \in {sms, alert} |-> IF r = sms THEN "client_sms" ELSE "staff_email"]
ToOne == [r \in {sms, alert} |-> u1]

=============================================================================
