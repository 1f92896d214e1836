------------------------- MODULE IntakeKeyRotation -------------------------
(***************************************************************************)
(* The rotation of the intake encryption key (services/intakeKeyRotation,  *)
(* the rotate-key, resume and maintenance routes of routes/intakeAdmin):   *)
(* a worker in the server process re-encrypts sessions in the order of     *)
(* their ids, then links, and records how far it has come, while requests  *)
(* let in before the maintenance gate closed, the PDF ticker and link      *)
(* creation go on storing data under the old key.                          *)
(*                                                                         *)
(* A step is what happens between two awaits of one request or worker.     *)
(* The process can be told to shut down, exit, crash and boot again.       *)
(***************************************************************************)
EXTENDS Naturals, FiniteSets

CONSTANTS
  NumSessions,    \* intake_sessions rows that can be inserted; ids are random
  Files, FileOf,  \* intake_files rows that can be inserted, and their sessions
  Links,          \* intake_links rows that can be inserted
  Jobs,           \* intake_key_rotations rows that can be inserted
  Writers,        \* requests and PDF conversions that can be in progress at once
  Admins,         \* admin requests that can be in progress at once
  BatchSize,      \* sessions per batch
  MaxFailures,    \* failed statements and crashes
  NoJob, NoCell

Sessions == 1 .. NumSessions
None == 0  \* no session yet; below every id
Positions == 0 .. NumSessions  \* how far a worker has come

ASSUME ConstantsAssumption ==
  /\ NumSessions \in Nat \ {0} /\ BatchSize \in Nat \ {0} /\ MaxFailures \in Nat
  /\ FileOf \in [Files -> Sessions]
  /\ NoJob \notin Jobs

(* What is encrypted at rest: name, e-mail and phone of a session in one UPDATE, its *)
(* message, the blobs of its files and of its PDF, and the contact data of a link.   *)
Pii(s) == <<"pii", s>>
Message(s) == <<"message", s>>
Pdf(s) == <<"pdf", s>>
File(f) == <<"file", f>>
Link(l) == <<"link", l>>

FileCells == {File(f) : f \in Files}
Blobs == FileCells \cup {Pdf(s) : s \in Sessions}
LinkCells == {Link(l) : l \in Links}
Cells == Blobs \cup LinkCells \cup {Pii(s) : s \in Sessions} \cup {Message(s) : s \in Sessions}
FilesIn(s) == {File(f) : f \in {g \in Files : FileOf[g] = s}}

ASSUME NoCellAssumption == NoCell \notin Cells

VARIABLES
  stored,    \* the key each cell is encrypted under; a torn blob is under none
  rows,      \* the cells a table row points to
  gate,      \* firm_settings.intake_maintenance_mode
  jobs,      \* the intake_key_rotations rows
  up,        \* whether the server process runs
  active,    \* activeRotation
  shutdown,  \* shutdownRequested
  workers,   \* runKeyRotation of each job
  writers,   \* writes in progress
  admins,    \* admin requests in progress
  failures,  \* failures still to happen
  (* What has happened: *)
  late       \* cells somebody else wrote since the first job started

data == <<stored, rows, late>>
process == <<up, active, shutdown>>
vars == <<data, process, gate, jobs, workers, writers, admins, failures>>

Keys == {"none", "old", "new", "torn"}
JobRow == [status: {"none", "running", "paused", "failed", "completed"}, cursor: Positions]
WorkerRec == [pc: {"idle", "batch", "row", "list", "files", "pdf", "put", "putting", "checkpoint",
                   "links", "link", "pause", "ended"},
              last: Positions, batch: SUBSET Sessions, session: Positions,
              todo: SUBSET Cells, cell: Cells \cup {NoCell}]
WriterRec == [pc: {"idle", "write", "record"}, cell: Cells \cup {NoCell}]
AdminRec == [pc: {"idle", "claim", "run", "audit", "open"}, job: Jobs \cup {NoJob}]

IdleWorker == [pc |-> "idle", last |-> None, batch |-> {}, session |-> None,
               todo |-> {}, cell |-> NoCell]
IdleWriter == [pc |-> "idle", cell |-> NoCell]
IdleAdmin == [pc |-> "idle", job |-> NoJob]

Init ==
  /\ stored = [c \in Cells |-> "none"]
  /\ rows = {} /\ late = {}
  /\ gate = FALSE
  /\ jobs = [j \in Jobs |-> [status |-> "none", cursor |-> None]]
  /\ up = TRUE /\ active = FALSE /\ shutdown = FALSE
  /\ workers = [j \in Jobs |-> IdleWorker]
  /\ writers = [w \in Writers |-> IdleWriter]
  /\ admins = [a \in Admins |-> IdleAdmin]
  /\ failures = MaxFailures

Started == \E j \in Jobs : jobs[j].status # "none"
Completed == \E j \in Jobs : jobs[j].status = "completed"
Fail == failures > 0 /\ failures' = failures - 1

(* Faulty variants are named <definition>_<fault>. *)
-----------------------------------------------------------------------------
(* Writes.  New sessions and uploads pass the maintenance gate, which is read when  *)
(* the request arrives; link creation and the PDF ticker do not.                    *)

Gated(c) == c \in FileCells \cup {Pii(s) : s \in Sessions}

(* An upload of a file that is stored already writes the same blob again.  The PDF  *)
(* is built from images that decrypt.                                               *)
CanWrite(c) ==
  \/ \E s \in Sessions : c = Pii(s) /\ c \notin rows
  \/ \E f \in Files : c = File(f) /\ Pii(FileOf[f]) \in rows
  \/ \E s \in Sessions : /\ c = Pdf(s) /\ c \notin rows /\ Pii(s) \in rows
                         /\ \E b \in FilesIn(s) : b \in rows
                         /\ \A b \in FilesIn(s) \cap rows : stored[b] = "old"
  \/ c \in LinkCells \ rows

StartWrite(w, c) ==
  /\ up /\ writers[w].pc = "idle"
  /\ \A v \in Writers : writers[v].cell # c
  /\ CanWrite(c)
  /\ Gated(c) => ~gate
  /\ writers' = [writers EXCEPT ![w] = [pc |-> "write", cell |-> c]]
  /\ UNCHANGED <<data, process, gate, jobs, workers, admins, failures>>

(* The cells one statement writes. *)
Written(c) == {c} \cup {Message(s) : s \in {t \in Sessions : c = Pii(t)}}

Write(w) ==
  LET c == writers[w].cell IN
  /\ writers[w].pc = "write"
  /\ stored' = [d \in Cells |-> IF d \in Written(c) THEN "old" ELSE stored[d]]
  /\ late' = IF Started THEN late \cup Written(c) ELSE late
  /\ IF c \in Blobs
     THEN rows' = rows /\ writers' = [writers EXCEPT ![w].pc = "record"]
     ELSE rows' = rows \cup Written(c) /\ writers' = [writers EXCEPT ![w] = IdleWriter]
  /\ UNCHANGED <<process, gate, jobs, workers, admins, failures>>

RecordBlob(w) ==
  LET c == writers[w].cell IN
  /\ writers[w].pc = "record"
  /\ rows' = rows \cup {c}
  /\ late' = IF Started THEN late \cup {c} ELSE late
  /\ writers' = [writers EXCEPT ![w] = IdleWriter]
  /\ UNCHANGED <<stored, process, gate, jobs, workers, admins, failures>>

-----------------------------------------------------------------------------
(* Admin requests. *)

GotoAdmin(a, pc, j) == admins' = [admins EXCEPT ![a] = [pc |-> pc, job |-> j]]

CloseGate ==
  /\ up /\ ~gate /\ gate' = TRUE
  /\ UNCHANGED <<data, process, jobs, workers, writers, admins, failures>>

(* Refused while a rotation is active or a job is running or paused; the UPDATE    *)
(* comes after the checks.                                                          *)
StartOpenGate(a) ==
  /\ up /\ admins[a].pc = "idle"
  /\ gate /\ ~active
  /\ \A j \in Jobs : jobs[j].status \notin {"running", "paused"}
  /\ GotoAdmin(a, "open", NoJob)
  /\ UNCHANGED <<data, process, gate, jobs, workers, writers, failures>>

OpenGate(a) ==
  /\ admins[a].pc = "open"
  /\ gate' = FALSE
  /\ GotoAdmin(a, "idle", NoJob)
  /\ UNCHANGED <<data, process, jobs, workers, writers, failures>>

(* POST /rotate-key and POST /rotate-key/:jobId/resume: the gate is read, then      *)
(* tryClaimRotationActive decides.                                                  *)
StartRotate(a, j) ==
  /\ up /\ admins[a].pc = "idle"
  /\ gate
  /\ GotoAdmin(a, "claim", j)
  /\ UNCHANGED <<data, process, gate, jobs, workers, writers, failures>>

Claim(a) ==
  /\ admins[a].pc = "claim"
  /\ IF active THEN GotoAdmin(a, "idle", NoJob) /\ UNCHANGED active
     ELSE GotoAdmin(a, "run", admins[a].job) /\ active' = TRUE
  /\ UNCHANGED <<data, up, shutdown, gate, jobs, workers, writers, failures>>

(* runKeyRotation takes the slot again, whoever has given it back since the claim.  A *)
(* worker that has recorded its status and not yet given the slot back is replaced:   *)
(* it could only give back the slot once more.                                        *)
Dispatch(j) ==
  /\ active' = TRUE
  /\ jobs' = [jobs EXCEPT ![j].status = "running"]
  /\ workers' = [workers EXCEPT ![j] = [IdleWorker EXCEPT !.pc = "batch", !.last = jobs[j].cursor]]

(* A new job row, and the worker is dispatched. *)
Rotate(a) ==
  LET j == admins[a].job IN
  /\ admins[a].pc = "run"
  /\ jobs[j].status = "none"
  /\ Dispatch(j)
  /\ GotoAdmin(a, "idle", NoJob)
  /\ UNCHANGED <<data, up, shutdown, gate, writers, failures>>

(* A job that is paused or failed goes on from its cursor; another is refused and    *)
(* the slot given back.                                                              *)
Resume(a) ==
  LET j == admins[a].job IN
  /\ admins[a].pc = "run"
  /\ jobs[j].status # "none"
  /\ IF jobs[j].status \in {"paused", "failed"}
     THEN Dispatch(j) /\ GotoAdmin(a, "audit", j)
     ELSE active' = FALSE /\ GotoAdmin(a, "idle", NoJob) /\ UNCHANGED <<jobs, workers>>
  /\ UNCHANGED <<data, up, shutdown, gate, writers, failures>>

AuditResume(a) ==
  /\ admins[a].pc = "audit"
  /\ GotoAdmin(a, "idle", NoJob)
  /\ UNCHANGED <<data, process, gate, jobs, workers, writers, failures>>

(* A statement throws: the slot is given back, even when the worker already runs. *)
AdminFails(a) ==
  /\ admins[a].pc \in {"run", "audit"}
  /\ Fail
  /\ active' = FALSE
  /\ GotoAdmin(a, "idle", NoJob)
  /\ UNCHANGED <<data, up, shutdown, gate, jobs, workers, writers>>

-----------------------------------------------------------------------------
(* The worker. *)

GotoWorker(j, worker) == workers' = [workers EXCEPT ![j] = worker]
At(j, pc) == up /\ workers[j].pc = pc
Lowest(S) == CHOOSE s \in S : \A t \in S : s <= t

(* The next BatchSize sessions above last. *)
NextBatch(last) ==
  LET above == {s \in Sessions : s > last /\ Pii(s) \in rows}
  IN {s \in above : Cardinality({t \in above : t < s}) < BatchSize}

ReadBatch(j) ==
  LET batch == NextBatch(workers[j].last) IN
  /\ At(j, "batch")
  /\ GotoWorker(j, [workers[j] EXCEPT !.pc = IF shutdown THEN "pause"
                                             ELSE IF batch = {} THEN "links" ELSE "row",
                                      !.batch = IF shutdown THEN {} ELSE batch])
  /\ UNCHANGED <<data, process, gate, jobs, writers, admins, failures>>

(* rotateSessionRow and its UPDATE: whatever key the columns were read under. *)
RotateRow(j) ==
  LET worker == workers[j]
      s == Lowest(worker.batch) IN
  /\ At(j, "row")
  /\ IF worker.batch = {} \/ shutdown
     THEN GotoWorker(j, [worker EXCEPT !.pc = "checkpoint"]) /\ UNCHANGED stored
     ELSE /\ stored' = [stored EXCEPT ![Pii(s)] = "new"]
          /\ GotoWorker(j, [worker EXCEPT !.pc = "list", !.session = s])
  /\ UNCHANGED <<rows, late, process, gate, jobs, writers, admins, failures>>

ListFiles(j) ==
  /\ At(j, "list")
  /\ GotoWorker(j, [workers[j] EXCEPT !.pc = "files",
                                      !.todo = FilesIn(workers[j].session) \cap rows])
  /\ UNCHANGED <<data, process, gate, jobs, writers, admins, failures>>

(* A session is done: it becomes the last one. *)
SessionDone(worker) ==
  [worker EXCEPT !.pc = "row", !.last = worker.session, !.batch = @ \ {worker.session},
                 !.session = None, !.cell = NoCell]

(* rotateFileBlob reads the blob: one under the new key is skipped, a torn one ends  *)
(* the job (Undecryptable).                                                          *)
ReadFile(j, c) ==
  LET worker == workers[j] IN
  /\ At(j, "files") /\ ~shutdown
  /\ c \in worker.todo /\ stored[c] \in {"old", "new"}
  /\ GotoWorker(j, [worker EXCEPT !.pc = IF stored[c] = "old" THEN "put" ELSE "files",
                                  !.todo = @ \ {c},
                                  !.cell = IF stored[c] = "old" THEN c ELSE NoCell])
  /\ UNCHANGED <<data, process, gate, jobs, writers, admins, failures>>

StopFiles_countsSession(j) ==
  /\ At(j, "files") /\ shutdown
  /\ GotoWorker(j, [SessionDone(workers[j]) EXCEPT !.pc = "checkpoint", !.todo = {}])
  /\ UNCHANGED <<data, process, gate, jobs, writers, admins, failures>>

(* On shutdown the session is left where it is, and not counted. *)
StopFiles(j) ==
  /\ At(j, "files") /\ shutdown
  /\ GotoWorker(j, [workers[j] EXCEPT !.pc = "checkpoint", !.batch = {}, !.session = None,
                                      !.todo = {}])
  /\ UNCHANGED <<data, process, gate, jobs, writers, admins, failures>>

FilesDone(j) ==
  /\ At(j, "files") /\ ~shutdown
  /\ workers[j].todo = {}
  /\ GotoWorker(j, [workers[j] EXCEPT !.pc = "pdf"])
  /\ UNCHANGED <<data, process, gate, jobs, writers, admins, failures>>

ReadPdf(j) ==
  LET worker == workers[j]
      c == Pdf(worker.session) IN
  /\ At(j, "pdf")
  /\ c \in rows => stored[c] \in {"old", "new"}
  /\ GotoWorker(j, IF c \in rows /\ stored[c] = "old"
                   THEN [worker EXCEPT !.pc = "put", !.cell = c] ELSE SessionDone(worker))
  /\ UNCHANGED <<data, process, gate, jobs, writers, admins, failures>>

(* attachmentStorage().put on the local driver truncates and writes. *)
StartPut(j) ==
  /\ At(j, "put")
  /\ stored' = [stored EXCEPT ![workers[j].cell] = "torn"]
  /\ GotoWorker(j, [workers[j] EXCEPT !.pc = "putting"])
  /\ UNCHANGED <<rows, late, process, gate, jobs, writers, admins, failures>>

AfterPut(worker) ==
  IF worker.cell \in FileCells THEN [worker EXCEPT !.pc = "files", !.cell = NoCell]
  ELSE SessionDone(worker)

EndPut(j) ==
  /\ At(j, "putting")
  /\ stored' = [stored EXCEPT ![workers[j].cell] = "new"]
  /\ GotoWorker(j, AfterPut(workers[j]))
  /\ UNCHANGED <<rows, late, process, gate, jobs, writers, admins, failures>>

Checkpoint(j) ==
  /\ At(j, "checkpoint")
  /\ jobs' = [jobs EXCEPT ![j].cursor = workers[j].last]
  /\ GotoWorker(j, [workers[j] EXCEPT !.pc = "batch", !.batch = {}])
  /\ UNCHANGED <<data, process, gate, writers, admins, failures>>

ListLinks(j) ==
  /\ At(j, "links")
  /\ GotoWorker(j, IF shutdown THEN [workers[j] EXCEPT !.pc = "pause"]
                   ELSE [workers[j] EXCEPT !.pc = "link", !.todo = LinkCells \cap rows])
  /\ UNCHANGED <<data, process, gate, jobs, writers, admins, failures>>

RotateLink(j, c) ==
  /\ At(j, "link") /\ ~shutdown
  /\ c \in workers[j].todo
  /\ stored' = [stored EXCEPT ![c] = "new"]
  /\ GotoWorker(j, [workers[j] EXCEPT !.todo = @ \ {c}])
  /\ UNCHANGED <<rows, late, process, gate, jobs, writers, admins, failures>>

StopLinks(j) ==
  /\ At(j, "link") /\ shutdown
  /\ GotoWorker(j, [workers[j] EXCEPT !.pc = "pause", !.todo = {}])
  /\ UNCHANGED <<data, process, gate, jobs, writers, admins, failures>>

(* The worker records how it ends, audits it and gives the slot back. *)
Record(j, status) ==
  /\ jobs' = [jobs EXCEPT ![j].status = status,
                          ![j].cursor = IF status = "completed" THEN workers[j].last ELSE @]
  /\ GotoWorker(j, [IdleWorker EXCEPT !.pc = "ended"])
  /\ UNCHANGED <<data, process, gate, writers, admins, failures>>

Pause(j) == At(j, "pause") /\ Record(j, "paused")

Complete_unchecked(j) ==
  /\ At(j, "link") /\ (shutdown \/ workers[j].todo = {})
  /\ Record(j, "completed")

(* verifyRotation samples rows and decides nothing. *)
Complete(j) ==
  /\ At(j, "link") /\ ~shutdown /\ workers[j].todo = {}
  /\ Record(j, "completed")

GiveBack(j) ==
  /\ active' = FALSE
  /\ GotoWorker(j, IdleWorker)
  /\ UNCHANGED <<data, up, shutdown, gate, writers, admins>>

AuditEnd(j) ==
  /\ At(j, "ended")
  /\ GiveBack(j)
  /\ UNCHANGED <<jobs, failures>>

(* The blob to be read decrypts under neither key. *)
Undecryptable(j) ==
  /\ \/ At(j, "files") /\ ~shutdown /\ \E c \in workers[j].todo : stored[c] \notin {"old", "new"}
     \/ At(j, "pdf") /\ Pdf(workers[j].session) \in rows
                     /\ stored[Pdf(workers[j].session)] \notin {"old", "new"}
  /\ jobs' = [jobs EXCEPT ![j].status = "failed"]
  /\ GiveBack(j)
  /\ UNCHANGED failures

(* A statement or a blob write throws, be it the audit after the last status; so can *)
(* recording the failure.                                                            *)
WorkerFails(j) ==
  /\ up /\ workers[j].pc # "idle"
  /\ Fail
  /\ jobs' = [jobs EXCEPT ![j].status = "failed"] \/ UNCHANGED jobs
  /\ GiveBack(j)

-----------------------------------------------------------------------------
(* The process. *)

Sigterm ==
  /\ up /\ ~shutdown
  /\ shutdown' = TRUE
  /\ UNCHANGED <<data, up, active, gate, jobs, workers, writers, admins, failures>>

Exit_keepsSlot ==
  /\ up /\ shutdown
  /\ up' = FALSE /\ shutdown' = FALSE /\ active' = active
  /\ workers' = [j \in Jobs |-> IdleWorker]
  /\ writers' = [w \in Writers |-> IdleWriter]
  /\ admins' = [a \in Admins |-> IdleAdmin]
  /\ UNCHANGED <<data, gate, jobs, failures>>

(* A crash, or the end of a shutdown, which does not wait for the worker. *)
Exit ==
  /\ up
  /\ IF shutdown THEN UNCHANGED failures ELSE Fail
  /\ up' = FALSE /\ shutdown' = FALSE /\ active' = FALSE
  /\ workers' = [j \in Jobs |-> IdleWorker]
  /\ writers' = [w \in Writers |-> IdleWriter]
  /\ admins' = [a \in Admins |-> IdleAdmin]
  /\ UNCHANGED <<data, gate, jobs>>

Boot ==
  /\ ~up /\ up' = TRUE
  /\ UNCHANGED <<data, active, shutdown, gate, jobs, workers, writers, admins, failures>>

-----------------------------------------------------------------------------
Work(j) ==
  \/ ReadBatch(j) \/ RotateRow(j) \/ ListFiles(j) \/ StopFiles(j) \/ FilesDone(j) \/ ReadPdf(j)
  \/ \E c \in Cells : ReadFile(j, c) \/ RotateLink(j, c)
  \/ StartPut(j) \/ EndPut(j) \/ Checkpoint(j) \/ ListLinks(j) \/ StopLinks(j)
  \/ Pause(j) \/ Complete(j) \/ AuditEnd(j) \/ Undecryptable(j)

Admin(a) ==
  \/ StartOpenGate(a) \/ OpenGate(a) \/ \E j \in Jobs : StartRotate(a, j)
  \/ Claim(a) \/ Rotate(a) \/ Resume(a) \/ AuditResume(a) \/ AdminFails(a)

Next ==
  \/ \E w \in Writers : (\E c \in Cells : StartWrite(w, c)) \/ Write(w) \/ RecordBlob(w)
  \/ CloseGate \/ \E a \in Admins : Admin(a)
  \/ \E j \in Jobs : Work(j) \/ WorkerFails(j)
  \/ Sigterm \/ Exit \/ Boot

Spec == Init /\ [][Next]_vars

-----------------------------------------------------------------------------
(* Properties. *)

(* A process that is down holds no slot and runs nothing. *)
TypeOK ==
  /\ stored \in [Cells -> Keys] /\ rows \subseteq Cells /\ late \subseteq Cells
  /\ gate \in BOOLEAN /\ up \in BOOLEAN /\ active \in BOOLEAN /\ shutdown \in BOOLEAN
  /\ jobs \in [Jobs -> JobRow]
  /\ workers \in [Jobs -> WorkerRec]
  /\ writers \in [Writers -> WriterRec]
  /\ admins \in [Admins -> AdminRec]
  /\ failures \in 0 .. MaxFailures
  /\ ~up => ~active /\ \A j \in Jobs : workers[j] = IdleWorker

(* What the rotation answers for: everything but the messages, stored before it     *)
(* started and not rewritten by others since.                                       *)
Rotated == Cells \ {Message(s) : s \in Sessions}
CellsOf(s) == {Pii(s), Pdf(s)} \cup FilesIn(s)
Unrotated == {c \in Rotated \cap rows : stored[c] # "new" /\ c \notin late}

(* "/resume picks up from there": below the recorded cursor nothing is left to do,  *)
(* wherever the worker was stopped, killed or failed.                               *)
CheckpointSound ==
  \A j \in Jobs, s \in Sessions : s <= jobs[j].cursor => CellsOf(s) \cap Unrotated = {}

(* Across pauses, failures, crashes and resumes of a job, the rotation is a          *)
(* KeyMigration: nothing comes back to the old key, no blob is touched once a job    *)
(* has finished, and none finishes while something is left, a torn blob included.    *)
Migration == INSTANCE KeyMigration WITH
  Item <- Rotated, pending <- Unrotated,
  phase <- IF Completed THEN "finished" ELSE IF Started THEN "started" ELSE "open"

ImplementsMigration == Migration!Spec

-----------------------------------------------------------------------------
(* What the comments of the code promise and the code does not keep.  These are here *)
(* for the reader: added to rotation.cfg, each has a short counterexample.            *)

(* "A crash leaves either OLD or NEW intact, never a partial blob": a blob decrypts  *)
(* under neither key only while a worker writes it.                                 *)
NeverPartialBlob ==
  \A c \in Blobs : stored[c] = "torn" =>
    \E j \in Jobs : workers[j].pc = "putting" /\ workers[j].cell = c

(* "The maintenance gate eliminates this race entirely": when a job is completed,   *)
(* every session row is under the new key.                                          *)
GateEliminatesRace ==
  Completed => \A s \in Sessions : Pii(s) \in rows => stored[Pii(s)] = "new"

(* "Re-encrypts every PII column": when a job is completed, so are the messages of  *)
(* the sessions that were there when it started.                                    *)
MessagesAreRotated ==
  Completed => \A s \in Sessions :
    Message(s) \in rows /\ Message(s) \notin late => stored[Message(s)] = "new"

(* "Set true while a rotation is actively running so the start route can 409 a       *)
(* second concurrent attempt": no two workers run at once.  The counterexample needs *)
(* two jobs and two admins, and an audit of a resume that fails.                      *)
AtWork(j) == workers[j].pc \notin {"idle", "ended"}
OneWorker == \A i, j \in Jobs : AtWork(i) /\ AtWork(j) => i = j

=============================================================================
