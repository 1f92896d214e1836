------------------------------ MODULE Retention ------------------------------
(***************************************************************************)
(* What is stored of a message and for how long: the live ciphertext, the  *)
(* snapshots its edits leave in message_edits, its attachments rows and    *)
(* their blobs, and the sweep that crypto-shreds it once it is older than  *)
(* retention_days (messagesRepo.edit, the attachment handlers,             *)
(* services/retention.ts).                                                 *)
(*                                                                         *)
(* Edits, uploads and sweeps in progress are elements of Procs.  An edit   *)
(* and the shredding of a batch are transactions at READ COMMITTED; the    *)
(* blob store is no part of any transaction.                               *)
(***************************************************************************)
EXTENDS Naturals, FiniteSets

CONSTANTS
  Messages, Atts,  \* messages and attachments rows that can be inserted
  Procs,           \* edits, uploads and sweeps that can be in progress at once
  MaxVersions,     \* the versions of one message: its first content and its edits
  MaxFailures,     \* failed statements, failed blob deletes and crashes
  NoMsg, NoAtt

ASSUME ConstantsAssumption ==
  /\ NoMsg \notin Messages /\ NoAtt \notin Atts
  /\ IsFiniteSet(Procs)
  /\ MaxVersions \in Nat \ {0} /\ MaxFailures \in Nat

VARIABLES
  msgs,       \* the messages rows
  snapshots,  \* the versions in message_edits
  atts,       \* the attachments rows
  blobs,      \* the attachments whose blob is in the store
  procs,      \* the edits, uploads and sweeps in progress
  failures    \* failures still to happen

vars == <<msgs, snapshots, atts, blobs, procs, failures>>

Versions == 1 .. MaxVersions
Empty == 0  \* zero-length ciphertext: never sent, or shredded

(* body is the version the row holds, written the number of versions it has had. *)
MsgRow == [stored: BOOLEAN, body: Versions \cup {Empty}, written: Versions \cup {0},
           schedule: {"none", "later"}, old: BOOLEAN, deleted: BOOLEAN]
AttRow == [msg: Messages \cup {NoMsg}, row: {"none", "pending", "clean", "infected", "deleted"}]
Proc == [pc: {"idle", "edit", "overwrite", "put", "insert", "scan", "files", "shred", "blobs"},
         msg: Messages \cup {NoMsg}, att: Atts \cup {NoAtt}, prior: Versions \cup {Empty},
         batch: SUBSET Messages, files: SUBSET Atts]

Idle == [pc |-> "idle", msg |-> NoMsg, att |-> NoAtt, prior |-> Empty, batch |-> {}, files |-> {}]

Init ==
  /\ msgs = [m \in Messages |-> [stored |-> FALSE, body |-> Empty, written |-> 0,
                                 schedule |-> "none", old |-> FALSE, deleted |-> FALSE]]
  /\ snapshots = [m \in Messages |-> {}]
  /\ atts = [a \in Atts |-> [msg |-> NoMsg, row |-> "none"]]
  /\ blobs = {}
  /\ procs = [p \in Procs |-> Idle]
  /\ failures = MaxFailures

Goto(p, proc) == procs' = [procs EXCEPT ![p] = proc]
Finish(p) == Goto(p, Idle)
Fail == failures > 0 /\ failures' = failures - 1

HasRow(a) == atts[a].row \in {"pending", "clean", "infected"}

-----------------------------------------------------------------------------
(* Messages and time. *)

Post(m, schedule) ==
  /\ ~msgs[m].stored
  /\ msgs' = [msgs EXCEPT ![m] = [@ EXCEPT !.stored = TRUE, !.body = 1, !.written = 1,
                                           !.schedule = schedule]]
  /\ UNCHANGED <<snapshots, atts, blobs, procs, failures>>

ComesDue(m) ==
  /\ msgs[m].schedule = "later"
  /\ msgs' = [msgs EXCEPT ![m].schedule = "none"]
  /\ UNCHANGED <<snapshots, atts, blobs, procs, failures>>

(* retention_days go by; the edit window, a day at most, closes before. *)
GrowsOld(m) ==
  /\ msgs[m].stored /\ ~msgs[m].old
  /\ msgs' = [msgs EXCEPT ![m].old = TRUE]
  /\ UNCHANGED <<snapshots, atts, blobs, procs, failures>>

SoftDelete(m) ==
  /\ msgs[m].stored /\ ~msgs[m].deleted
  /\ msgs' = [msgs EXCEPT ![m].deleted = TRUE]
  /\ UNCHANGED <<snapshots, atts, blobs, procs, failures>>

-----------------------------------------------------------------------------
(* Editing. *)

EditsOf(m) == {p \in Procs : procs[p].pc \in {"edit", "overwrite"} /\ procs[p].msg = m}

(* PATCH: the checks on the row as read, before the edit's transaction; at most    *)
(* MaxVersions versions.                                                            *)
StartEdit(p, m) ==
  /\ procs[p].pc = "idle"
  /\ msgs[m].stored /\ ~msgs[m].deleted /\ ~msgs[m].old
  /\ msgs[m].written + Cardinality(EditsOf(m)) < MaxVersions
  /\ Goto(p, [Idle EXCEPT !.pc = "edit", !.msg = m])
  /\ UNCHANGED <<msgs, snapshots, atts, blobs, failures>>

(* The transaction reads the row it will snapshot, without a lock. *)
ReadPrior(p) ==
  /\ procs[p].pc = "edit"
  /\ Goto(p, [procs[p] EXCEPT !.pc = "overwrite", !.prior = msgs[procs[p].msg].body])
  /\ UNCHANGED <<msgs, snapshots, atts, blobs, failures>>

(* It commits the snapshot and the new ciphertext together. *)
Overwrite(p) ==
  LET m == procs[p].msg
      version == msgs[m].written + 1 IN
  /\ procs[p].pc = "overwrite"
  /\ snapshots' = [snapshots EXCEPT ![m] = @ \cup {procs[p].prior}]
  /\ msgs' = [msgs EXCEPT ![m] = [@ EXCEPT !.body = version, !.written = version]]
  /\ Finish(p)
  /\ UNCHANGED <<atts, blobs, failures>>

-----------------------------------------------------------------------------
(* Uploading: the blob, the row, the scan. *)

(* a is the row and the storage key the upload will create. *)
StartUpload(p, m, a) ==
  /\ procs[p].pc = "idle"
  /\ msgs[m].stored
  /\ atts[a].row = "none" /\ a \notin blobs /\ \A q \in Procs : procs[q].att # a
  /\ Goto(p, [Idle EXCEPT !.pc = "put", !.msg = m, !.att = a])
  /\ UNCHANGED <<msgs, snapshots, atts, blobs, failures>>

PutBlob(p) ==
  /\ procs[p].pc = "put"
  /\ blobs' = blobs \cup {procs[p].att}
  /\ Goto(p, [procs[p] EXCEPT !.pc = "insert"])
  /\ UNCHANGED <<msgs, snapshots, atts, failures>>

InsertRow(p) ==
  /\ procs[p].pc = "insert"
  /\ atts' = [atts EXCEPT ![procs[p].att] = [msg |-> procs[p].msg, row |-> "pending"]]
  /\ Goto(p, [procs[p] EXCEPT !.pc = "scan"])
  /\ UNCHANGED <<msgs, snapshots, blobs, failures>>

(* An UPDATE or DELETE of a row the sweep has deleted finds nothing. *)
SetRow(a, status) ==
  atts' = IF HasRow(a) THEN [atts EXCEPT ![a].row = status] ELSE atts

ScanClean(p) ==
  /\ procs[p].pc = "scan"
  /\ SetRow(procs[p].att, "clean")
  /\ Finish(p)
  /\ UNCHANGED <<msgs, snapshots, blobs, failures>>

(* The blob goes after the row; deleting it is best effort. *)
ScanInfected(p) ==
  LET a == procs[p].att IN
  /\ procs[p].pc = "scan"
  /\ SetRow(a, "infected")
  /\ \/ blobs' = blobs \ {a} /\ UNCHANGED failures
     \/ blobs' = blobs /\ Fail
  /\ Finish(p)
  /\ UNCHANGED <<msgs, snapshots>>

(* clamd unreachable: the blob and the row go, each of them best effort. *)
ScanError(p) ==
  LET a == procs[p].att IN
  /\ procs[p].pc = "scan"
  /\ \/ blobs' = blobs \ {a} /\ SetRow(a, "deleted") /\ UNCHANGED failures
     \/ blobs' = blobs \ {a} /\ atts' = atts /\ Fail
     \/ blobs' = blobs /\ SetRow(a, "deleted") /\ Fail
  /\ Finish(p)
  /\ UNCHANGED <<msgs, snapshots>>

-----------------------------------------------------------------------------
(* The sweep. Faulty variants are named <definition>_<fault>. *)

Eligible_unedited ==
  {m \in Messages : msgs[m].old /\ msgs[m].body = 1 /\ msgs[m].schedule = "none"}

(* octet_length(ciphertext) > 0, and a scheduled message only once it is visible. *)
Eligible ==
  {m \in Messages : msgs[m].old /\ msgs[m].body # Empty /\ msgs[m].schedule = "none"}

(* The oldest 100 of them. *)
SelectBatch(p) ==
  /\ procs[p].pc = "idle"
  /\ \E batch \in SUBSET Eligible \ {{}} :
       Goto(p, [Idle EXCEPT !.pc = "files", !.batch = batch])
  /\ UNCHANGED <<msgs, snapshots, atts, blobs, failures>>

SelectFiles(p) ==
  /\ procs[p].pc = "files"
  /\ Goto(p, [procs[p] EXCEPT !.pc = "shred",
                              !.files = {a \in Atts : HasRow(a) /\ atts[a].msg \in procs[p].batch}])
  /\ UNCHANGED <<msgs, snapshots, atts, blobs, failures>>

AfterShred_always(p) == Goto(p, [procs[p] EXCEPT !.pc = "blobs"])

AfterShred(p) == IF procs[p].files = {} THEN Finish(p) ELSE Goto(p, [procs[p] EXCEPT !.pc = "blobs"])

Shred_blobsFirst(p) ==
  /\ procs[p].pc = "shred"
  /\ blobs' = blobs \ procs[p].files
  /\ \/ /\ atts' = [a \in Atts |-> IF a \in procs[p].files THEN [atts[a] EXCEPT !.row = "deleted"]
                                   ELSE atts[a]]
        /\ msgs' = [m \in Messages |-> IF m \in procs[p].batch THEN [msgs[m] EXCEPT !.body = Empty]
                                       ELSE msgs[m]]
        /\ UNCHANGED failures
     \/ Fail /\ UNCHANGED <<atts, msgs>>
  /\ Finish(p)
  /\ UNCHANGED snapshots

Shred_byMessage(p) ==
  /\ procs[p].pc = "shred"
  /\ atts' = [a \in Atts |-> IF HasRow(a) /\ atts[a].msg \in procs[p].batch
                             THEN [atts[a] EXCEPT !.row = "deleted"] ELSE atts[a]]
  /\ msgs' = [m \in Messages |-> IF m \in procs[p].batch THEN [msgs[m] EXCEPT !.body = Empty]
                                 ELSE msgs[m]]
  /\ AfterShred(p)
  /\ UNCHANGED <<snapshots, blobs, failures>>

(* One transaction: the attachments rows that were read, and the ciphertext. *)
Shred(p) ==
  /\ procs[p].pc = "shred"
  /\ atts' = [a \in Atts |-> IF a \in procs[p].files /\ HasRow(a)
                             THEN [atts[a] EXCEPT !.row = "deleted"] ELSE atts[a]]
  /\ msgs' = [m \in Messages |-> IF m \in procs[p].batch THEN [msgs[m] EXCEPT !.body = Empty]
                                 ELSE msgs[m]]
  /\ AfterShred(p)
  /\ UNCHANGED <<snapshots, blobs, failures>>

(* After the commit, each blob on its own; a failure is logged. *)
DeleteBlob(p, a) ==
  /\ procs[p].pc = "blobs" /\ a \in procs[p].files
  /\ \/ blobs' = blobs \ {a} /\ UNCHANGED failures
     \/ blobs' = blobs /\ Fail
  /\ IF procs[p].files = {a} THEN Finish(p)
     ELSE Goto(p, [procs[p] EXCEPT !.files = @ \ {a}])
  /\ UNCHANGED <<msgs, snapshots, atts>>

(* A statement throws, or the server dies. *)
Abandon(p) ==
  /\ procs[p].pc # "idle"
  /\ Fail
  /\ Finish(p)
  /\ UNCHANGED <<msgs, snapshots, atts, blobs>>

-----------------------------------------------------------------------------
Step(p) ==
  \/ ReadPrior(p) \/ Overwrite(p)
  \/ PutBlob(p) \/ InsertRow(p) \/ ScanClean(p) \/ ScanInfected(p) \/ ScanError(p)
  \/ SelectFiles(p) \/ Shred(p)
  \/ \E a \in Atts : DeleteBlob(p, a)

Next ==
  \/ \E m \in Messages : \/ \E s \in {"none", "later"} : Post(m, s)
                         \/ ComesDue(m) \/ GrowsOld(m) \/ SoftDelete(m)
  \/ \E p \in Procs : \/ \E m \in Messages : StartEdit(p, m) \/ \E a \in Atts : StartUpload(p, m, a)
                      \/ SelectBatch(p) \/ Step(p) \/ Abandon(p)

(* What has begun goes on unless it fails, and the sweep comes round every day. *)
Fairness ==
  /\ \A p \in Procs : WF_vars(Step(p))
  /\ SF_vars(\E p \in Procs : SelectBatch(p))

Spec == Init /\ [][Next]_vars /\ Fairness

-----------------------------------------------------------------------------
(* Properties. *)

(* A sweep deletes blobs only when it has some; a row in the table has a message. *)
TypeOK ==
  /\ msgs \in [Messages -> MsgRow]
  /\ snapshots \in [Messages -> SUBSET (Versions \cup {Empty})]
  /\ atts \in [Atts -> AttRow]
  /\ blobs \subseteq Atts
  /\ procs \in [Procs -> Proc]
  /\ \A p \in Procs : procs[p].pc = "blobs" => procs[p].files # {}
  /\ \A a \in Atts : HasRow(a) => atts[a].msg # NoMsg
  /\ failures \in 0 .. MaxFailures

(* "A rolled-back tx leaves the blob on disk, reachable via the kept attachment      *)
(* row": an attachment that can be downloaded has its blob.                          *)
CleanHasBlob == \A a \in Atts : atts[a].row = "clean" => a \in blobs

(* A blob whose row is gone is still about to be deleted, unless something failed:   *)
(* an upload that overlaps a sweep leaks nothing by itself.                          *)
LeaksNeedAFailure ==
  \A a \in blobs : atts[a].row = "deleted" =>
    failures < MaxFailures \/ \E p \in Procs : a \in procs[p].files \cup {procs[p].att}

(* A visible message past its retention ends up shredded for good: an edit that was   *)
(* under way can bring content back, and the next sweep takes it again.               *)
ShreddedForGood ==
  \A m \in Messages : (msgs[m].old /\ msgs[m].schedule = "none") ~> [](msgs[m].body = Empty)

(* "Destroying the ciphertext + attachment blobs is sufficient": nothing readable of  *)
(* a shredded message is stored.  It does not hold of an edited message, whose        *)
(* snapshots the sweep leaves; no configuration lists it.                             *)
ShreddedIsUnreadable ==
  \A m \in Messages : msgs[m].stored /\ msgs[m].body = Empty => snapshots[m] \subseteq {Empty}

=============================================================================
