----------------------------- MODULE IntakeOutbox -----------------------------
(***************************************************************************)
(* intake_notifications_outbox: the receipts for a client and the alerts   *)
(* for staff that a finalized session enqueues, drained by two tickers     *)
(* that poll it (services/intakeClientNotifyTicker.ts,                     *)
(* services/intakeStaffNotifyTicker.ts).                                   *)
(*                                                                         *)
(* Each ticker claims a batch by setting it to sending and then takes its  *)
(* rows one by one; what it has claimed is in its memory only.  Sending    *)
(* and recording that it was sent are two steps, and a send that throws    *)
(* may have been accepted: the provider's answer can time out or be        *)
(* unreadable after it took the message.                                   *)
(***************************************************************************)
EXTENDS Naturals, FiniteSets

CONSTANTS
  Rows, Users,
  KindOf,       \* the channel and template of each row
  UserOf,       \* the recipient of each staff row
  MaxAttempts,  \* MAX_ATTEMPTS of both tickers
  MaxFailures,  \* answers lost after the message was taken, failed statements, crashes
  MaxChanges    \* changes of a user's preferences

Kinds == {"client_email", "client_sms", "staff_email", "staff_in_app", "admin_in_app"}

ASSUME OutboxAssumption ==
  /\ KindOf \in [Rows -> Kinds] /\ UserOf \in [Rows -> Users]
  /\ MaxAttempts \in Nat \ {0} /\ MaxFailures \in Nat /\ MaxChanges \in Nat

VARIABLES
  rows,       \* the outbox
  users,      \* is_active, the e-mail address, intake_notify_mode
  client,     \* the client ticker: what it has claimed, and what it has just sent
  staff,      \* the staff ticker: its phase and what it has claimed
  down,       \* the provider takes no message
  delivered,  \* how often the provider took each row's message
  doubts,     \* how often it took one and the ticker had to take it for failed
  failures, changes

vars == <<rows, users, client, staff, down, delivered, doubts, failures, changes>>

ClientRows == {r \in Rows : KindOf[r] \in {"client_email", "client_sms"}}
StaffRows == Rows \ ClientRows
Mails == {r \in Rows : KindOf[r] = "staff_email"}

RowState == [st: {"none", "pending", "sending", "sent", "failed", "deferred", "gone"},
             attempts: 0 .. MaxAttempts, due: BOOLEAN]
UserRow == [active: BOOLEAN, mail: BOOLEAN, mode: {"realtime", "digest", "in_app_only"}]

Init ==
  /\ rows = [r \in Rows |-> [st |-> "none", attempts |-> 0, due |-> FALSE]]
  /\ users \in [Users -> {u \in UserRow : u.active}]
  /\ client = [todo |-> {}, sent |-> {}]
  /\ staff = [pc |-> "idle", todo |-> {}, sent |-> {}]
  /\ down = FALSE
  /\ delivered = [r \in Rows |-> 0] /\ doubts = delivered
  /\ failures = MaxFailures /\ changes = MaxChanges

Fail == failures > 0 /\ failures' = failures - 1

Counted(f, rs) == [r \in Rows |-> IF r \in rs THEN f[r] + 1 ELSE f[r]]

(* The provider takes the message and says so. *)
Takes(rs) ==
  /\ ~down
  /\ delivered' = Counted(delivered, rs) /\ UNCHANGED <<doubts, failures>>

(* It throws: it took nothing, or it took the message and its answer was lost. *)
Throws(rs) ==
  \/ down /\ UNCHANGED <<delivered, doubts, failures>>
  \/ /\ ~down /\ Fail
     /\ delivered' = Counted(delivered, rs) /\ doubts' = Counted(doubts, rs)

(* Rows that are being sent are due as well. *)
Matured_sending(st) == {r \in Rows : rows[r].st \in {st, "sending"} /\ rows[r].due}

(* An UPDATE by id; a row that has gone with its session is not touched. *)
Update(rs, st) ==
  rows' = [r \in Rows |-> IF r \in rs /\ rows[r].st # "gone" THEN [rows[r] EXCEPT !.st = st] ELSE rows[r]]

Matured(st) == {r \in Rows : rows[r].st = st /\ rows[r].due}

-----------------------------------------------------------------------------
(* The world around the tickers. *)

(* A finalize, or a PDF conversion given up for good. *)
Enqueue(r) ==
  /\ rows[r].st = "none"
  /\ rows' = [rows EXCEPT ![r] = [@ EXCEPT !.st = "pending", !.due = TRUE]]
  /\ UNCHANGED <<users, client, staff, down, delivered, doubts, failures, changes>>

(* next_attempt_at passes. *)
Mature(r) ==
  /\ rows[r].st \in {"pending", "deferred"} /\ ~rows[r].due
  /\ rows' = [rows EXCEPT ![r].due = TRUE]
  /\ UNCHANGED <<users, client, staff, down, delivered, doubts, failures, changes>>

(* The provider fails for a while, or for good. *)
ProviderTurns ==
  /\ down' = ~down
  /\ UNCHANGED <<rows, users, client, staff, delivered, doubts, failures, changes>>

(* PATCH /users/me/intake-card. *)
ChangeMode(u) ==
  /\ changes > 0 /\ changes' = changes - 1
  /\ \E mode \in {"realtime", "digest", "in_app_only"} : users' = [users EXCEPT ![u].mode = mode]
  /\ UNCHANGED <<rows, client, staff, down, delivered, doubts, failures>>

(* An administrator deactivates the user. *)
Deactivate(u) ==
  /\ changes > 0 /\ changes' = changes - 1
  /\ users' = [users EXCEPT ![u].active = FALSE]
  /\ UNCHANGED <<rows, client, staff, down, delivered, doubts, failures>>

(* The session is purged and its rows with it. *)
Cascade(r) ==
  /\ rows[r].st \notin {"none", "gone"}
  /\ changes > 0 /\ changes' = changes - 1
  /\ rows' = [rows EXCEPT ![r].st = "gone"]
  /\ UNCHANGED <<users, client, staff, down, delivered, doubts, failures>>

(* attempts is read, not counted up. *)
Retried_uncounted(r) ==
  IF rows[r].st = "gone" THEN rows[r]
  ELSE [st |-> IF rows[r].attempts >= MaxAttempts THEN "failed" ELSE "pending",
        attempts |-> rows[r].attempts, due |-> FALSE]

-----------------------------------------------------------------------------
(* Retrying: three attempts, then failed. *)

Retried(r) ==
  LET n == rows[r].attempts + 1 IN
  IF rows[r].st = "gone" THEN rows[r]
  ELSE [st |-> IF n >= MaxAttempts THEN "failed" ELSE "pending", attempts |-> n, due |-> FALSE]

(* The client ticker. *)

ClaimClient ==
  /\ client.todo \cup client.sent = {}
  /\ LET batch == Matured("pending") \cap ClientRows IN
     /\ batch # {}
     /\ Update(batch, "sending")
     /\ client' = [client EXCEPT !.todo = batch]
  /\ UNCHANGED <<users, staff, down, delivered, doubts, failures, changes>>

(* An SMS whose turn comes in the quiet hours, which may be any hour, is parked until they end. *)
Defer(r) ==
  /\ r \in client.todo /\ client.sent = {}
  /\ KindOf[r] = "client_sms" /\ rows[r].st # "gone"
  /\ rows' = [rows EXCEPT ![r] = [@ EXCEPT !.st = "deferred", !.due = FALSE]]
  /\ client' = [client EXCEPT !.todo = @ \ {r}]
  /\ UNCHANGED <<users, staff, down, delivered, doubts, failures, changes>>

SendClient(r) ==
  /\ r \in client.todo /\ client.sent = {}
  /\ rows[r].st # "gone"
  /\ Takes({r})
  /\ client' = [todo |-> client.todo \ {r}, sent |-> {r}]
  /\ UNCHANGED <<rows, users, staff, down, changes>>

(* The provider's error is swallowed. *)
SendClientThrows_swallowed(r) ==
  /\ r \in client.todo /\ client.sent = {} /\ rows[r].st # "gone"
  /\ Throws({r})
  /\ Update({r}, "sent")
  /\ client' = [client EXCEPT !.todo = @ \ {r}]
  /\ UNCHANGED <<users, staff, down, changes>>

RecordClient ==
  /\ client.sent # {}
  /\ \/ Update(client.sent, "sent") /\ UNCHANGED failures
     \/ Fail /\ UNCHANGED rows  \* processOne throws and is logged: the row stays as it is
  /\ client' = [client EXCEPT !.sent = {}]
  /\ UNCHANGED <<users, staff, down, delivered, doubts, changes>>

SendClientThrows(r) ==
  /\ r \in client.todo /\ client.sent = {} /\ rows[r].st # "gone"
  /\ Throws({r})
  /\ rows' = [rows EXCEPT ![r] = Retried(r)]
  /\ client' = [client EXCEPT !.todo = @ \ {r}]
  /\ UNCHANGED <<users, staff, down, changes>>

(* A statement before the send fails, or the one that schedules the retry: processOne *)
(* throws and the row stays sending.                                                  *)
ClientThrows(r) ==
  /\ r \in client.todo /\ client.sent = {}
  /\ Fail
  /\ client' = [client EXCEPT !.todo = @ \ {r}]
  /\ UNCHANGED <<rows, users, staff, down, delivered, doubts, changes>>

(* The session has gone, and the row with it. *)
RefuseClient(r) ==
  /\ r \in client.todo /\ client.sent = {} /\ rows[r].st = "gone"
  /\ Update({r}, "failed")
  /\ client' = [client EXCEPT !.todo = @ \ {r}]
  /\ UNCHANGED <<users, staff, down, delivered, doubts, failures, changes>>

-----------------------------------------------------------------------------
(* The staff ticker: first the digests that are due, then what is pending. *)

(* The channel is not looked at. *)
DueDigests_anyChannel == Matured("deferred")

StaffIdle == [pc |-> "idle", todo |-> {}, sent |-> {}]
StaffDone(todo) ==
  [pc |-> IF todo # {} THEN staff.pc ELSE IF staff.pc = "digests" THEN "claim" ELSE "idle",
   todo |-> todo, sent |-> {}]

DueDigests == Matured("deferred") \cap Mails

FlushDigests ==
  /\ staff.pc = "idle"
  /\ Update(DueDigests, "sending")
  /\ staff' = [staff EXCEPT !.pc = IF DueDigests = {} THEN "claim" ELSE "digests", !.todo = DueDigests]
  /\ UNCHANGED <<users, client, down, delivered, doubts, failures, changes>>

DigestOf(u) == {r \in staff.todo : UserOf[r] = u}
Reachable(u) == users[u].active /\ users[u].mail

(* One message for all rows of a recipient. *)
SendDigest(u) ==
  /\ staff.pc = "digests" /\ staff.sent = {} /\ DigestOf(u) # {} /\ Reachable(u)
  /\ Takes(DigestOf(u))
  /\ staff' = [staff EXCEPT !.sent = DigestOf(u)]
  /\ UNCHANGED <<rows, users, client, down, changes>>

RecordDigest ==
  /\ staff.pc = "digests" /\ staff.sent # {}
  /\ Update(staff.sent, "sent")
  /\ staff' = StaffDone(staff.todo \ staff.sent)
  /\ UNCHANGED <<users, client, down, delivered, doubts, failures, changes>>

(* A send that throws, or an UPDATE that fails after one that was taken: deferred again, *)
(* to the next digest hour.  attempts is counted up and looked at by nobody, so that the  *)
(* count may stop at MaxAttempts.                                                         *)
Parked(r) ==
  [st |-> "deferred", due |-> FALSE,
   attempts |-> IF rows[r].attempts = MaxAttempts THEN MaxAttempts ELSE rows[r].attempts + 1]

DigestFails(u) ==
  /\ staff.pc = "digests" /\ DigestOf(u) # {} /\ Reachable(u)
  /\ \/ staff.sent = {} /\ Throws(DigestOf(u))
     \/ /\ staff.sent = DigestOf(u) /\ Fail
        /\ doubts' = Counted(doubts, DigestOf(u)) /\ UNCHANGED delivered
  /\ rows' = [r \in Rows |-> IF r \in DigestOf(u) /\ rows[r].st # "gone" THEN Parked(r) ELSE rows[r]]
  /\ staff' = StaffDone(staff.todo \ DigestOf(u))
  /\ UNCHANGED <<users, client, down, changes>>

RefuseDigest(u) ==
  /\ staff.pc = "digests" /\ staff.sent = {} /\ DigestOf(u) # {} /\ ~Reachable(u)
  /\ Update(DigestOf(u), "failed")
  /\ staff' = StaffDone(staff.todo \ DigestOf(u))
  /\ UNCHANGED <<users, client, down, delivered, doubts, failures, changes>>

ClaimStaff ==
  /\ staff.pc = "claim"
  /\ LET batch == Matured("pending") \cap StaffRows IN
     /\ Update(batch, "sending")
     /\ staff' = IF batch = {} THEN StaffIdle ELSE [staff EXCEPT !.pc = "rows", !.todo = batch]
  /\ UNCHANGED <<users, client, down, delivered, doubts, failures, changes>>

(* The user's state and preference are read when the row's turn comes. *)
Route(r) ==
  LET u == users[UserOf[r]] IN
  IF ~u.active THEN "failed"
  ELSE IF KindOf[r] = "staff_email" /\ u.mode = "in_app_only" THEN "sent"
  ELSE IF KindOf[r] = "staff_email" /\ u.mode = "digest" THEN "deferred"
  ELSE "send"

RouteStaff(r) ==
  /\ staff.pc = "rows" /\ staff.sent = {} /\ r \in staff.todo /\ Route(r) # "send"
  /\ rows' = [rows EXCEPT ![r] = IF @.st = "gone" THEN @ ELSE [@ EXCEPT !.st = Route(r), !.due = FALSE]]
  /\ staff' = StaffDone(staff.todo \ {r})
  /\ UNCHANGED <<users, client, down, delivered, doubts, failures, changes>>

SendStaff(r) ==
  /\ staff.pc = "rows" /\ staff.sent = {} /\ r \in staff.todo /\ Route(r) = "send"
  /\ r \in Mails => users[UserOf[r]].mail
  /\ Takes({r})
  /\ staff' = [staff EXCEPT !.sent = {r}]
  /\ UNCHANGED <<rows, users, client, down, changes>>

RecordStaff ==
  /\ staff.pc = "rows" /\ staff.sent # {}
  /\ \/ Update(staff.sent, "sent") /\ UNCHANGED failures
     \/ Fail /\ UNCHANGED rows
  /\ staff' = StaffDone(staff.todo \ staff.sent)
  /\ UNCHANGED <<users, client, down, delivered, doubts, changes>>

(* A user without an address is a send that throws every time. *)
SendStaffThrows(r) ==
  /\ staff.pc = "rows" /\ staff.sent = {} /\ r \in staff.todo /\ Route(r) = "send"
  /\ IF r \in Mails /\ ~users[UserOf[r]].mail THEN UNCHANGED <<delivered, doubts, failures>> ELSE Throws({r})
  /\ rows' = [rows EXCEPT ![r] = Retried(r)]
  /\ staff' = StaffDone(staff.todo \ {r})
  /\ UNCHANGED <<users, client, down, changes>>

(* As ClientThrows. *)
StaffThrows(r) ==
  /\ staff.pc = "rows" /\ staff.sent = {} /\ r \in staff.todo
  /\ Fail
  /\ staff' = StaffDone(staff.todo \ {r})
  /\ UNCHANGED <<rows, users, client, down, delivered, doubts, changes>>

(* A statement of flushDigests outside its try fails, or the one that parks the rows: the *)
(* tick ends and the rows of the digests stay sending.                                    *)
TickThrows ==
  /\ staff.pc \in {"digests", "claim"}
  /\ Fail
  /\ staff' = StaffIdle
  /\ UNCHANGED <<rows, users, client, down, delivered, doubts, changes>>

-----------------------------------------------------------------------------
(* Both tickers start over; what they had claimed stays sending. *)
Crash ==
  /\ Fail
  /\ client' = [todo |-> {}, sent |-> {}]
  /\ staff' = StaffIdle
  /\ UNCHANGED <<rows, users, down, delivered, doubts, changes>>

ClientStep == ClaimClient \/ RecordClient
              \/ \E r \in ClientRows : Defer(r) \/ SendClient(r) \/ SendClientThrows(r) \/ ClientThrows(r)
                                    \/ RefuseClient(r)
StaffStep == FlushDigests \/ RecordDigest \/ ClaimStaff \/ RecordStaff \/ TickThrows
             \/ \E u \in Users : SendDigest(u) \/ DigestFails(u) \/ RefuseDigest(u)
             \/ \E r \in StaffRows : RouteStaff(r) \/ SendStaff(r) \/ SendStaffThrows(r) \/ StaffThrows(r)

Next ==
  \/ \E r \in Rows : Enqueue(r) \/ Mature(r) \/ Cascade(r)
  \/ ProviderTurns \/ (\E u \in Users : ChangeMode(u) \/ Deactivate(u))
  \/ ClientStep \/ StaffStep \/ Crash

(* Time passes, and both tickers keep ticking; nothing is asked of the provider. *)
Fairness ==
  /\ \A r \in Rows : WF_vars(Mature(r))
  /\ WF_vars(ClientStep) /\ WF_vars(StaffStep)

Spec == Init /\ [][Next]_vars /\ Fairness

-----------------------------------------------------------------------------
(* Properties. *)

(* Every variable has its type; the client ticker handles client rows, the staff ticker  *)
(* staff rows, and it sends nothing but mail as a digest.                                 *)
TypeOK ==
  /\ rows \in [Rows -> RowState]
  /\ users \in [Users -> UserRow]
  /\ client.todo \cup client.sent \subseteq ClientRows
  /\ staff.todo \cup staff.sent \subseteq StaffRows
  /\ staff.pc \in {"idle", "digests", "claim", "rows"}
  /\ staff.pc = "digests" => staff.todo \subseteq Mails
  /\ down \in BOOLEAN /\ delivered \in [Rows -> Nat] /\ doubts \in [Rows -> Nat]
  /\ failures \in 0 .. MaxFailures /\ changes \in 0 .. MaxChanges

(* "A single email row can never be claimed by both - they tile rather than race", and a  *)
(* claimed row is not claimed again: whatever crashes, nobody gets a receipt or an alert   *)
(* once more than the ticker had reason to doubt that it went out, and never more often    *)
(* than MAX_ATTEMPTS unless it is part of a digest.                                        *)
DeliveredOnce ==
  \A r \in Rows : /\ delivered[r] <= 1 + doubts[r]
                  /\ r \notin Mails => delivered[r] <= MaxAttempts

(* What is recorded as sent was delivered, unless the user asked for no mail. *)
SentWasDelivered ==
  \A r \in Rows \ Mails : rows[r].st = "sent" => delivered[r] > 0

Settled(r) == rows[r].st \in {"sent", "failed", "gone"}
Lost(r) == rows[r].st = "sending" /\ r \notin client.todo \cup staff.todo \cup client.sent \cup staff.sent

(* However long the provider fails, an e-mail or in-app alert is sent or given up in the  *)
(* end, or parked for a digest, unless the process or a statement dies with it; and a      *)
(* parked one goes out or is given up once the provider works.                             *)
AlertsSettle ==
  /\ \A r \in {q \in Rows : KindOf[q] # "client_sms"} :
       rows[r].st = "pending" ~> (Settled(r) \/ Lost(r) \/ (rows[r].st = "deferred" /\ r \in Mails))
  /\ \A r \in Mails : <>[]~down => (rows[r].st = "deferred" ~> (Settled(r) \/ Lost(r)))

-----------------------------------------------------------------------------
(* What comments of the code promise and the code does not keep: they are here for the   *)
(* reader, and have a counterexample when outbox.cfg lists them.                         *)

(* "During the quiet window a row is marked status='deferred' ... the next tick          *)
(* re-picks it up": a parked SMS does not stay parked.                                   *)
QuietSmsIsSent ==
  \A r \in {q \in Rows : KindOf[q] = "client_sms"} :
    rows[r].st = "deferred" ~> rows[r].st # "deferred"

(* "Bump attempts on each row so the existing MAX_ATTEMPTS escalation path still applies":  *)
(* no digest row is parked again after its last attempt.                                    *)
DigestGivesUp ==
  \A r \in Mails : rows[r].st = "deferred" => rows[r].attempts < MaxAttempts

=============================================================================
