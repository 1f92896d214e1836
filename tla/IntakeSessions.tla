---------------------------- MODULE IntakeSessions ----------------------------
(***************************************************************************)
(* An intake session from the public form to its purge: opened by a visitor *)
(* or through a tokenized link (routes/intakePublic.ts), filled by resumable *)
(* uploads (services/intakeTusServer.ts, intakeUploadService.ts), finalized, *)
(* assembled into a PDF by a ticker (services/intakePdfTicker.ts) and, when  *)
(* the firm has a retention policy, deleted by another                       *)
(* (services/intakeAutoPurgeTicker.ts), while administrators change the      *)
(* policy and its exceptions (routes/intakeAdmin.ts).                        *)
(*                                                                           *)
(* Rows are in the database; blobs are in the attachment store, outside any  *)
(* transaction.  Upload u stands for its partial file, its row, its          *)
(* intake_files row and its blob, which are keyed by it; each has size 1.    *)
(* How the bytes of an upload arrive is the module Tus.                      *)
(***************************************************************************)
EXTENDS Naturals, FiniteSets

CONSTANTS
  Sessions, Uploads,
  Finals,        \* finalize calls that can be in progress at once
  SessionCap,    \* firm_settings.intake_max_session_bytes
  MaxConversions,   \* MAX_ATTEMPTS of the PDF ticker
  MaxIncidents,   \* failed blob operations and crashes
  MaxPatches,    \* changes of the retention policy
  NoSession

ASSUME IntakeAssumption ==
  /\ NoSession \notin Sessions
  /\ \A s \in Sessions : <<"pdf", s>> \notin Uploads   \* storage paths are unique
  /\ SessionCap \in Nat /\ MaxIncidents \in Nat /\ MaxPatches \in Nat
  /\ MaxConversions \in Nat \ {0}

VARIABLES
  link,      \* the tokenized link: whether the client has it or it has ended, its use_count
  policy,    \* intake_auto_delete_enabled, and the PATCH that has not swept the sessions yet
  sess,      \* intake_sessions
  up,        \* uploads in progress
  files,     \* uploads with an intake_files row
  blobs,     \* blobs in the store: uploads, and <<"pdf", session>>
  fin,       \* the finalize calls in progress
  pdf,       \* intake_pdfs
  purge,     \* the auto-purge sweep
  audited,   \* sessions with an intake.session.auto_purged audit row
  incidents  \* failures and crashes still to happen

intakeVars == <<link, policy, sess, up, files, blobs, fin, pdf, purge, audited, incidents>>

PdfBlob(s) == <<"pdf", s>>

(* due: auto_delete_at, null, ahead or passed.  live: the upload token's four hours.  *)
SessRow == [status: {"none", "open", "finalized", "purged"}, viaLink: BOOLEAN,
            live: BOOLEAN, due: {"null", "ahead", "passed"}]
UpState == [pc: {"none", "checked", "open", "whole", "scanned", "stored", "done", "dropped"},
            sess: Sessions \cup {NoSession}]
(* A row is orphaned when it says processing and the ticker that claimed it is gone.   *)
PdfRow == [st: {"none", "pending", "processing", "stored", "orphaned", "done", "failed"},
           attempts: 0 .. MaxConversions]
FinCall == [pc: {"idle", "checked"}, sess: Sessions \cup {NoSession}, stamp: BOOLEAN]

IdleFin == [pc |-> "idle", sess |-> NoSession, stamp |-> FALSE]
NoPdf == [st |-> "none", attempts |-> 0]
IdlePurge == [pc |-> "idle", todo |-> {}, at |-> NoSession, paths |-> {}, blobs |-> {},
              failed |-> FALSE]

IntakeInit ==
  /\ link = [row |-> "none", uses |-> 0]
  /\ policy = [on |-> FALSE, sweep |-> "none", left |-> MaxPatches]
  /\ sess = [s \in Sessions |-> [status |-> "none", viaLink |-> FALSE, live |-> FALSE, due |-> "null"]]
  /\ up = [u \in Uploads |-> [pc |-> "none", sess |-> NoSession]]
  /\ files = {} /\ blobs = {}
  /\ fin = [f \in Finals |-> IdleFin]
  /\ pdf = [s \in Sessions |-> NoPdf]
  /\ purge = IdlePurge
  /\ audited = {}
  /\ incidents = MaxIncidents

Incident == incidents > 0 /\ incidents' = incidents - 1
HasRow(s) == sess[s].status \in {"open", "finalized"}
FilesOf(s) == {u \in files : up[u].sess = s}
InProgress(s) == {u \in Uploads : up[u].sess = s /\ up[u].pc \in {"open", "whole", "scanned", "stored"}}
Goto(u, pc) == up' = [up EXCEPT ![u].pc = pc]

-----------------------------------------------------------------------------
(* The public form. *)

(* POST /links keeps the row when the mail or SMS cannot be sent; POST /links/:id/resend *)
(* tries again.                                                                        *)
CreateLink ==
  /\ link.row = "none"
  /\ \E row \in {"unsent", "sent"} : link' = [link EXCEPT !.row = row]
  /\ UNCHANGED <<policy, sess, up, files, blobs, fin, pdf, purge, audited, incidents>>

ResendLink ==
  /\ link.row = "unsent"
  /\ link' = [link EXCEPT !.row = "sent"]
  /\ UNCHANGED <<policy, sess, up, files, blobs, fin, pdf, purge, audited, incidents>>

(* POST /sessions: the card, or a link the client has and that has not ended. *)
CreateSession(s, viaLink) ==
  /\ sess[s].status = "none"
  /\ viaLink => link.row = "sent"
  /\ sess' = [sess EXCEPT ![s] = [@ EXCEPT !.status = "open", !.viaLink = viaLink, !.live = TRUE]]
  /\ UNCHANGED <<link, policy, up, files, blobs, fin, pdf, purge, audited, incidents>>

(* POST /links/:id/revoke, or its expires_at passes. *)
EndLink ==
  /\ link.row \in {"unsent", "sent"}
  /\ link' = [link EXCEPT !.row = "ended"]
  /\ UNCHANGED <<policy, sess, up, files, blobs, fin, pdf, purge, audited, incidents>>

(* Every upload call: the token verifies and its session is open. *)
Authenticated(s) == sess[s].status = "open" /\ sess[s].live

TokenExpires(s) ==
  /\ Authenticated(s)
  /\ sess' = [sess EXCEPT ![s].live = FALSE]
  /\ UNCHANGED <<link, policy, up, files, blobs, fin, pdf, purge, audited, incidents>>

(* POST /uploads sums what is accepted and in progress ... *)
CheckCap(u, s) ==
  /\ up[u].pc = "none" /\ Authenticated(s)
  /\ Cardinality(FilesOf(s)) + Cardinality(InProgress(s)) + 1 <= SessionCap
  /\ up' = [up EXCEPT ![u] = [pc |-> "checked", sess |-> s]]
  /\ UNCHANGED <<link, policy, sess, files, blobs, fin, pdf, purge, audited, incidents>>

(* ... and inserts its own row afterwards. *)
InsertUpload(u) ==
  /\ up[u].pc = "checked"
  /\ Goto(u, IF HasRow(up[u].sess) THEN "open" ELSE "dropped")
  /\ UNCHANGED <<link, policy, sess, files, blobs, fin, pdf, purge, audited, incidents>>

(* The PATCH that brings the last byte. *)
LastByte(u) ==
  /\ up[u].pc = "open" /\ Authenticated(up[u].sess)
  /\ Goto(u, "whole")
  /\ UNCHANGED <<link, policy, sess, files, blobs, fin, pdf, purge, audited, incidents>>

Terminate(u) ==
  /\ up[u].pc = "open" /\ Authenticated(up[u].sess)
  /\ Goto(u, "dropped")
  /\ UNCHANGED <<link, policy, sess, files, blobs, fin, pdf, purge, audited, incidents>>

(* A storage error is swallowed. *)
StoreBlob_swallows(u) ==
  /\ up[u].pc = "scanned"
  /\ \/ blobs' = blobs \cup {u} /\ Goto(u, "stored") /\ UNCHANGED incidents
     \/ Incident /\ Goto(u, "stored") /\ UNCHANGED blobs
  /\ UNCHANGED <<link, policy, sess, files, fin, pdf, purge, audited>>

(* Type, extension and ClamAV: a rejected upload loses its partial and its row. *)
Scan(u) ==
  /\ up[u].pc = "whole"
  /\ Goto(u, "scanned") \/ Goto(u, "dropped")
  /\ UNCHANGED <<link, policy, sess, files, blobs, fin, pdf, purge, audited, incidents>>

StoreBlob(u) ==
  /\ up[u].pc = "scanned"
  /\ \/ blobs' = blobs \cup {u} /\ Goto(u, "stored") /\ UNCHANGED incidents
     \/ Incident /\ Goto(u, "dropped") /\ UNCHANGED blobs
  /\ UNCHANGED <<link, policy, sess, files, fin, pdf, purge, audited>>

(* The foreign key refuses a file of a purged session; the handler then drops the     *)
(* upload and nobody the blob.                                                         *)
InsertFile(u) ==
  /\ up[u].pc = "stored"
  /\ IF HasRow(up[u].sess) THEN files' = files \cup {u} /\ Goto(u, "done")
     ELSE files' = files /\ Goto(u, "dropped")
  /\ UNCHANGED <<link, policy, sess, blobs, fin, pdf, purge, audited, incidents>>

-----------------------------------------------------------------------------
(* Finalizing. *)

(* The status, the files and the firm's policy are read before the transaction.  A     *)
(* session already finalized is answered without any change.                           *)
StartFinalize(f, s) ==
  /\ fin[f].pc = "idle"
  /\ Authenticated(s) /\ FilesOf(s) # {}
  /\ fin' = [fin EXCEPT ![f] = [pc |-> "checked", sess |-> s, stamp |-> policy.on]]
  /\ UNCHANGED <<link, policy, sess, up, files, blobs, pdf, purge, audited, incidents>>

(* One transaction: status, auto_delete_at, use_count, and the pdf row unless there is *)
(* one; the notification rows of the same transaction are the module IntakeOutbox.     *)
CommitFinalize(f) ==
  LET s == fin[f].sess IN
  /\ fin[f].pc = "checked"
  /\ fin' = [fin EXCEPT ![f] = IdleFin]
  /\ IF HasRow(s)
     THEN /\ LET due == IF fin[f].stamp THEN "ahead" ELSE sess[s].due IN
             sess' = [sess EXCEPT ![s] = [@ EXCEPT !.status = "finalized", !.due = due]]
          /\ link' = [link EXCEPT !.uses = @ + (IF sess[s].viaLink THEN 1 ELSE 0)]
          /\ pdf' = [pdf EXCEPT ![s].st = IF @ = "none" THEN "pending" ELSE @]
     ELSE UNCHANGED <<sess, link, pdf>>
  /\ UNCHANGED <<policy, up, files, blobs, purge, audited, incidents>>

-----------------------------------------------------------------------------
(* The PDF ticker. *)

ClaimPdf(s) ==
  /\ pdf[s].st = "pending" /\ HasRow(s)
  /\ pdf' = [pdf EXCEPT ![s].st = "processing"]
  /\ UNCHANGED <<link, policy, sess, up, files, blobs, fin, purge, audited, incidents>>

(* Built from the files there are now, encrypted and stored. *)
StorePdf(s) ==
  /\ pdf[s].st = "processing"
  /\ blobs' = blobs \cup {PdfBlob(s)}
  /\ pdf' = [pdf EXCEPT ![s].st = "stored"]
  /\ UNCHANGED <<link, policy, sess, up, files, fin, purge, audited, incidents>>

(* The UPDATE matches nothing once the session is gone. *)
FinishPdf(s) ==
  /\ pdf[s].st = "stored"
  /\ pdf' = [pdf EXCEPT ![s].st = IF HasRow(s) THEN "done" ELSE "none"]
  /\ UNCHANGED <<link, policy, sess, up, files, blobs, fin, purge, audited, incidents>>

(* attempts is not counted up. *)
FailPdf_uncounted(s) ==
  /\ pdf[s].st = "processing"
  /\ pdf' = [pdf EXCEPT ![s].st = "pending"]
  /\ UNCHANGED <<link, policy, sess, up, files, blobs, fin, purge, audited, incidents>>

(* A page that cannot be read, an encryption or storage error. *)
FailPdf(s) ==
  /\ pdf[s].st = "processing"
  /\ pdf' = [pdf EXCEPT ![s] = IF ~HasRow(s) THEN NoPdf
                               ELSE [st |-> IF @.attempts + 1 >= MaxConversions THEN "failed" ELSE "pending",
                                     attempts |-> @.attempts + 1]]
  /\ UNCHANGED <<link, policy, sess, up, files, blobs, fin, purge, audited, incidents>>

-----------------------------------------------------------------------------
(* The retention policy and its exceptions. *)

Elapse(s) ==
  /\ HasRow(s) /\ sess[s].due = "ahead"
  /\ sess' = [sess EXCEPT ![s].due = "passed"]
  /\ UNCHANGED <<link, policy, up, files, blobs, fin, pdf, purge, audited, incidents>>

(* PATCH /settings: the column first ... *)
PatchPolicy ==
  /\ policy.sweep = "none" /\ policy.left > 0
  /\ policy' = [on |-> ~policy.on, sweep |-> IF policy.on THEN "clear" ELSE "backfill",
                left |-> policy.left - 1]
  /\ UNCHANGED <<link, sess, up, files, blobs, fin, pdf, purge, audited, incidents>>

(* ... then every session: finalized ones without a date get one seven days off at     *)
(* least, or all lose theirs.                                                          *)
SweptDue(row) ==
  IF policy.sweep = "clear" THEN "null"
  ELSE IF row.status = "finalized" /\ row.due = "null" THEN "ahead" ELSE row.due

SweepPolicy ==
  /\ policy.sweep # "none"
  /\ sess' = [s \in Sessions |-> [sess[s] EXCEPT !.due = SweptDue(sess[s])]]
  /\ policy' = [policy EXCEPT !.sweep = "none"]
  /\ UNCHANGED <<link, up, files, blobs, fin, pdf, purge, audited, incidents>>

(* POST and DELETE /sessions/:id/keep-indefinitely. *)
Keep(s) ==
  /\ HasRow(s)
  /\ sess' = [sess EXCEPT ![s].due = "null"]
  /\ UNCHANGED <<link, policy, up, files, blobs, fin, pdf, purge, audited, incidents>>

RevertKeep(s) ==
  /\ sess[s].status = "finalized"
  /\ sess' = [sess EXCEPT ![s].due = IF policy.on THEN "ahead" ELSE "null"]
  /\ UNCHANGED <<link, policy, up, files, blobs, fin, pdf, purge, audited, incidents>>

-----------------------------------------------------------------------------
(* The auto-purge ticker, one sweep at a time. *)

Overdue == {s \in Sessions : sess[s].status = "finalized" /\ sess[s].due = "passed"}

StartPurge ==
  /\ purge.pc = "idle" /\ Overdue # {}
  /\ purge' = [IdlePurge EXCEPT !.pc = "next", !.todo = Overdue]
  /\ UNCHANGED <<link, policy, sess, up, files, blobs, fin, pdf, audited, incidents>>

PdfOnRecord(s) == IF pdf[s].st = "done" THEN {PdfBlob(s)} ELSE {}

(* Sessions with an audit row are taken as purged. *)
AuditPurge_once(s) ==
  /\ purge.pc = "next" /\ s \in purge.todo \ audited
  /\ purge' = [purge EXCEPT !.pc = "blobs", !.todo = @ \ {s}, !.at = s, !.failed = FALSE,
                            !.paths = FilesOf(s) \cup PdfOnRecord(s),
                            !.blobs = FilesOf(s) \cup PdfOnRecord(s)]
  /\ audited' = audited \cup {s}
  /\ UNCHANGED <<link, policy, sess, up, files, blobs, fin, pdf, incidents>>

(* The paths, as the rows have them now, and the audit row before anything goes. *)
AuditPurge(s) ==
  /\ purge.pc = "next" /\ s \in purge.todo
  /\ purge' = [purge EXCEPT !.pc = "blobs", !.todo = @ \ {s}, !.at = s, !.failed = FALSE,
                            !.paths = FilesOf(s) \cup PdfOnRecord(s),
                            !.blobs = FilesOf(s) \cup PdfOnRecord(s)]
  /\ audited' = audited \cup {s}
  /\ UNCHANGED <<link, policy, sess, up, files, blobs, fin, pdf, incidents>>

DeleteBlob(b) ==
  /\ purge.pc = "blobs" /\ b \in purge.blobs
  /\ \/ blobs' = blobs \ {b} /\ purge' = [purge EXCEPT !.blobs = @ \ {b}] /\ UNCHANGED incidents
     \/ Incident /\ purge' = [purge EXCEPT !.blobs = @ \ {b}, !.failed = TRUE] /\ UNCHANGED blobs
  /\ UNCHANGED <<link, policy, sess, up, files, fin, pdf, audited>>

Continue == IF purge.todo = {} THEN IdlePurge
            ELSE [purge EXCEPT !.pc = "next", !.at = NoSession, !.failed = FALSE]

(* The row goes whatever happened to the blobs. *)
DeleteSession_always ==
  LET s == purge.at IN
  /\ purge.pc = "blobs" /\ purge.blobs = {}
  /\ purge' = Continue
  /\ sess' = [sess EXCEPT ![s] = [@ EXCEPT !.status = "purged", !.due = "null"]]
  /\ files' = files \ FilesOf(s)
  /\ up' = [u \in Uploads |-> IF up[u].sess = s /\ up[u].pc = "open"
                              THEN [up[u] EXCEPT !.pc = "dropped"] ELSE up[u]]
  /\ pdf' = [pdf EXCEPT ![s] = IF @.st \in {"processing", "stored"} THEN @ ELSE NoPdf]
  /\ UNCHANGED <<link, policy, blobs, fin, audited, incidents>>

(* A session that lost a blob delete keeps its row for the next sweep. *)
DeleteSession ==
  LET s == purge.at IN
  /\ purge.pc = "blobs" /\ purge.blobs = {}
  /\ purge' = Continue
  /\ IF purge.failed THEN UNCHANGED <<sess, up, files, pdf>>
     ELSE /\ sess' = [sess EXCEPT ![s] = [@ EXCEPT !.status = "purged", !.due = "null"]]
          /\ files' = files \ FilesOf(s)
          /\ up' = [u \in Uploads |-> IF up[u].sess = s /\ up[u].pc = "open"
                                      THEN [up[u] EXCEPT !.pc = "dropped"] ELSE up[u]]
          /\ pdf' = [pdf EXCEPT ![s] = IF @.st \in {"processing", "stored"} THEN @ ELSE NoPdf]
  /\ UNCHANGED <<link, policy, blobs, fin, audited, incidents>>

-----------------------------------------------------------------------------
(* The server dies and comes back: every call and tick in progress is lost.  A whole   *)
(* partial can be completed by an empty PATCH; a claimed pdf row stays as it is, for   *)
(* nothing claims it again.                                                            *)
IntakeCrash ==
  /\ Incident
  /\ up' = [u \in Uploads |-> CASE up[u].pc = "checked" -> [up[u] EXCEPT !.pc = "dropped"]
                               [] up[u].pc \in {"whole", "scanned", "stored"} -> [up[u] EXCEPT !.pc = "open"]
                               [] OTHER -> up[u]]
  /\ fin' = [f \in Finals |-> IdleFin]
  /\ purge' = IdlePurge
  /\ pdf' = [s \in Sessions |-> IF pdf[s].st \notin {"processing", "stored"} THEN pdf[s]
                                ELSE IF HasRow(s) THEN [pdf[s] EXCEPT !.st = "orphaned"] ELSE NoPdf]
  /\ policy' = [policy EXCEPT !.sweep = "none"]
  /\ UNCHANGED <<link, sess, files, blobs, audited>>

-----------------------------------------------------------------------------
UploadStep(u) == InsertUpload(u) \/ Scan(u) \/ StoreBlob(u) \/ InsertFile(u)
PdfStep(s) == ClaimPdf(s) \/ StorePdf(s) \/ FinishPdf(s) \/ FailPdf(s)
PurgeStep == \/ \E s \in Sessions : AuditPurge(s)
             \/ \E b \in purge.blobs : DeleteBlob(b)
             \/ DeleteSession

IntakeNext ==
  \/ \E s \in Sessions : \/ \E v \in BOOLEAN : CreateSession(s, v)
                         \/ TokenExpires(s) \/ PdfStep(s) \/ Elapse(s) \/ Keep(s) \/ RevertKeep(s)
                         \/ \E u \in Uploads : CheckCap(u, s)
                         \/ \E f \in Finals : StartFinalize(f, s)
  \/ \E u \in Uploads : LastByte(u) \/ Terminate(u) \/ UploadStep(u)
  \/ \E f \in Finals : CommitFinalize(f)
  \/ CreateLink \/ ResendLink \/ EndLink \/ PatchPolicy \/ SweepPolicy
  \/ StartPurge \/ PurgeStep \/ IntakeCrash

(* The calls in progress go on unless they fail; both tickers come round. *)
IntakeFairness ==
  /\ \A u \in Uploads : WF_intakeVars(UploadStep(u))
  /\ \A f \in Finals : WF_intakeVars(CommitFinalize(f))
  /\ \A s \in Sessions : WF_intakeVars(PdfStep(s))
  /\ WF_intakeVars(SweepPolicy) /\ WF_intakeVars(StartPurge) /\ WF_intakeVars(PurgeStep)

IntakeSteps == IntakeInit /\ [][IntakeNext]_intakeVars
IntakeSpec == IntakeSteps /\ IntakeFairness

-----------------------------------------------------------------------------
(* Properties. *)

(* Every variable has its type, and a file's row is always that of a session that has   *)
(* its row.                                                                             *)
IntakeTypeOK ==
  /\ link \in [row: {"none", "unsent", "sent", "ended"}, uses: Nat]
  /\ policy \in [on: BOOLEAN, sweep: {"none", "clear", "backfill"}, left: 0 .. MaxPatches]
  /\ sess \in [Sessions -> SessRow]
  /\ up \in [Uploads -> UpState]
  /\ files \subseteq Uploads /\ \A u \in files : HasRow(up[u].sess)
  /\ blobs \subseteq Uploads \cup {PdfBlob(s) : s \in Sessions}
  /\ fin \in [Finals -> FinCall]
  /\ pdf \in [Sessions -> PdfRow]
  /\ purge.todo \subseteq Sessions /\ purge.blobs \subseteq purge.paths
  /\ audited \subseteq Sessions
  /\ incidents \in 0 .. MaxIncidents

(* A client's file, and the PDF made of the files, can be downloaded as long as the    *)
(* rows say so; only a purge, which leaves an audit row first, takes the bytes away.   *)
StoredUntilPurged ==
  /\ \A u \in files : u \in blobs \/ up[u].sess \in audited
  /\ \A s \in Sessions : pdf[s].st = "done" => PdfBlob(s) \in blobs \/ s \in audited

(* "Leaving the row gives the next sweep a chance to retry the blob delete, rather     *)
(* than orphaning the on-disk ciphertext": a session row goes after every blob its     *)
(* rows pointed to when its purge was recorded.                                        *)
ErasedWithItsRow ==
  [][\A s \in Sessions : sess[s].status # "purged" /\ sess'[s].status = "purged"
                         => s \in audited /\ purge.paths \cap blobs = {}]_intakeVars

(* Every finalized session has its PDF made or given up after three attempts, unless   *)
(* the ticker dies with it or it is purged.                                            *)
ConversionSettles ==
  \A s \in Sessions : pdf[s].st = "pending" ~> pdf[s].st # "pending" /\ pdf[s].st # "processing"

(* A session past its date is purged, whatever deletes failed before, unless its date  *)
(* is taken back.                                                                      *)
OverdueIsPurged ==
  \A s \in Sessions : sess[s].due = "passed" ~> sess[s].due # "passed"

-----------------------------------------------------------------------------
(* What a comment of the code promises and the code does not keep: it is here for the  *)
(* reader, and has a counterexample when intake.cfg lists it.                          *)

(* "A policy flip mid-finalize is a non-issue - the admin PATCH path calls             *)
(* applyRetentionBackfill / clearAllAutoDeleteAt": with the policy off and its sweep   *)
(* done, no session is to be deleted.                                                  *)
OffMeansOff ==
  ~policy.on /\ policy.sweep = "none" => \A s \in Sessions : sess[s].due = "null"

=============================================================================
