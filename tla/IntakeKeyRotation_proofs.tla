---------------------- MODULE IntakeKeyRotation_proofs ----------------------
(***************************************************************************)
(* Proofs about IntakeKeyRotation for every number of sessions, files,     *)
(* links, jobs, writers, admin requests and failures: what the slot of the *)
(* server process keeps apart, and that while it does, a rotation is a     *)
(* KeyMigration whose recorded cursor counts no session too many.          *)
(***************************************************************************)
EXTENDS IntakeKeyRotation, FiniteSetTheorems, WellFoundedInduction, TLAPS

-----------------------------------------------------------------------------
(* Sessions and cells. *)

(* A set of sessions that is not empty has a lowest one. *)
LEMMA LowestIsLowest ==
  ASSUME NEW S \in SUBSET Sessions, S # {}
  PROVE  Lowest(S) \in S /\ \A t \in S : Lowest(S) <= t
<1>1. PICK s \in S : \A t \in S : <<t, s>> \notin OpToRel(<, Nat)
  <2>1. S \subseteq Nat
    BY ConstantsAssumption DEF Sessions
  <2>2. QED
    BY <2>1, NatLessThanWellFounded, WFMin
<1>2. s \in S /\ \A t \in S : s <= t
  <2>1. s \in S
    BY <1>1
  <2>2. ASSUME NEW t \in S PROVE s <= t
    <3>1. s \in Nat /\ t \in Nat
      BY <2>1, ConstantsAssumption DEF Sessions
    <3>2. ~ (t < s)
      BY <1>1, <3>1 DEF OpToRel
    <3>3. QED
      BY <3>1, <3>2
  <2>3. QED
    BY <2>1, <2>2
<1>3. QED
  BY <1>2 DEF Lowest

(* The next batch takes the sessions above last from the lowest on, and is empty only *)
(* when there is none left.                                                           *)
LEMMA NextBatchFacts ==
  ASSUME NEW last \in Positions
  PROVE  /\ NextBatch(last) \subseteq {s \in Sessions : s > last /\ Pii(s) \in rows}
         /\ \A s \in Sessions, t \in NextBatch(last) :
              last < s /\ s <= t /\ Pii(s) \in rows => s \in NextBatch(last)
         /\ NextBatch(last) = {} => \A s \in Sessions : last < s => Pii(s) \notin rows
<1> DEFINE above == {s \in Sessions : s > last /\ Pii(s) \in rows}
           below(t) == {u \in above : u < t}
<1>1. NextBatch(last) = {s \in above : Cardinality(below(s)) < BatchSize}
  BY DEF NextBatch
<1>2. last \in Nat /\ BatchSize \in Nat \ {0} /\ Sessions \subseteq Nat
  BY ConstantsAssumption DEF Sessions, Positions
<1>3. ASSUME NEW t PROVE IsFiniteSet(below(t)) /\ Cardinality(below(t)) \in Nat
  <2>1. IsFiniteSet(Sessions)
    BY FS_Interval, ConstantsAssumption DEF Sessions
  <2>2. below(t) \subseteq Sessions
    OBVIOUS
  <2>3. IsFiniteSet(below(t))
    BY <2>1, <2>2, FS_Subset
  <2>4. QED
    BY <2>3, FS_CardinalityType
<1>4. ASSUME NEW s \in Sessions, NEW t \in NextBatch(last), last < s, s <= t, Pii(s) \in rows
      PROVE  s \in NextBatch(last)
  <2>1. t \in Sessions /\ Cardinality(below(t)) < BatchSize
    BY <1>1
  <2>2. below(s) \subseteq below(t)
    <3>1. ASSUME NEW u \in above, u < s PROVE u < t
      <4>1. u \in Nat /\ s \in Nat /\ t \in Nat
        BY <1>2, <2>1
      <4>2. QED
        BY <4>1, <3>1, <1>4
    <3>2. QED
      BY <3>1
  <2>3. Cardinality(below(s)) <= Cardinality(below(t))
    BY <1>3, <2>2, FS_Subset
  <2>4. Cardinality(below(s)) < BatchSize
    <3>1. Cardinality(below(s)) \in Nat /\ Cardinality(below(t)) \in Nat
      BY <1>3
    <3>2. QED
      BY ONLY <1>2, <3>1, <2>1, <2>3
  <2>5. s \in above
    BY <1>2, <1>4
  <2>6. QED
    BY <1>1, <2>4, <2>5
<1>5. ASSUME NextBatch(last) = {} PROVE above = {}
  <2>1. SUFFICES ASSUME above # {} PROVE FALSE
    OBVIOUS
  <2>2. PICK s \in above : \A t \in above : s <= t
    BY <2>1, LowestIsLowest
  <2>3. below(s) = {}
    <3>1. ASSUME NEW u \in above, u < s PROVE FALSE
      <4>1. u \in Nat /\ s \in Nat
        BY <1>2
      <4>2. QED
        BY <4>1, <3>1, <2>2
    <3>2. QED
      BY <3>1
  <2>4. Cardinality(below(s)) = 0
    BY <2>3, FS_EmptySet
  <2>5. s \in NextBatch(last)
    BY <1>1, <1>2, <2>4
  <2>6. QED
    BY <1>5, <2>5
<1>6. NextBatch(last) \subseteq above
  BY <1>1
<1>7. ASSUME NextBatch(last) = {}, NEW s \in Sessions, last < s PROVE Pii(s) \notin rows
  <2>1. above = {}
    BY <1>5, <1>7
  <2>2. s > last
    BY <1>2, <1>7
  <2>3. QED
    BY <2>1, <2>2
<1>8. QED
  BY <1>4, <1>6, <1>7

LEMMA CellKinds ==
  /\ \A s, t \in Sessions : /\ Pii(s) = Pii(t) => s = t
                            /\ Pii(s) # Pdf(t) /\ Pii(s) # Message(t) /\ Pdf(s) # Message(t)
  /\ \A s \in Sessions, f \in Files : File(f) # Pii(s) /\ File(f) # Pdf(s) /\ File(f) # Message(s)
  /\ \A s \in Sessions, l \in Links : Link(l) # Pii(s) /\ Link(l) # Pdf(s) /\ Link(l) # Message(s)
  /\ \A f \in Files, l \in Links : File(f) # Link(l)
  BY DEF Pii, Pdf, Message, File, Link

LEMMA CellTypes ==
  /\ \A s \in Sessions : /\ Pii(s) \in Cells /\ Pdf(s) \in Blobs /\ Message(s) \in Cells
                         /\ FilesIn(s) \subseteq FileCells
                         /\ CellsOf(s) \subseteq Rotated /\ Pii(s) \in CellsOf(s)
  /\ FileCells \subseteq Blobs /\ Blobs \subseteq Cells
  /\ LinkCells \subseteq Rotated /\ Rotated \subseteq Cells
  /\ \A s \in Sessions : Pii(s) \notin Blobs /\ Message(s) \notin Rotated
  /\ Blobs \subseteq Rotated
  /\ NoCell \notin Cells
<1>1. FileCells \subseteq Blobs /\ Blobs \subseteq Cells /\ LinkCells \subseteq Cells /\ Rotated \subseteq Cells
  BY DEF Blobs, Cells, Rotated
<1>2. ASSUME NEW s \in Sessions
      PROVE  /\ Pii(s) \in Cells /\ Pdf(s) \in Blobs /\ Message(s) \in Cells
             /\ FilesIn(s) \subseteq FileCells
             /\ Pii(s) \notin Blobs /\ Message(s) \notin Rotated
  BY CellKinds DEF Blobs, FileCells, Cells, Rotated, FilesIn
<1>3. Blobs \subseteq Rotated /\ LinkCells \subseteq Rotated
  BY <1>1, CellKinds DEF Blobs, FileCells, LinkCells, Rotated
<1>4. ASSUME NEW s \in Sessions PROVE CellsOf(s) \subseteq Rotated /\ Pii(s) \in CellsOf(s)
  BY <1>1, <1>2, <1>3, CellKinds DEF CellsOf, Rotated
<1>5. QED
  BY <1>1, <1>2, <1>3, <1>4, NoCellAssumption

(* Every cell the rotation answers for belongs to a session or to a link. *)
LEMMA RotatedCells ==
  ASSUME NEW c \in Rotated
  PROVE  c \in LinkCells \/ \E s \in Sessions : c \in CellsOf(s)
<1>1. CASE c \in FileCells
  <2>1. PICK f \in Files : c = File(f)
    BY <1>1 DEF FileCells
  <2>2. FileOf[f] \in Sessions /\ c \in FilesIn(FileOf[f])
    BY <2>1, ConstantsAssumption DEF FilesIn
  <2>3. QED
    BY <2>2 DEF CellsOf
<1>2. CASE c \notin FileCells
  BY <1>2 DEF Rotated, Cells, Blobs, CellsOf
<1>3. QED
  BY <1>1, <1>2

(* One statement writes the cell and, with the PII of a session, its message. *)
LEMMA WrittenFacts ==
  ASSUME NEW c \in Cells
  PROVE  /\ c \in Written(c) /\ Written(c) \subseteq Cells
         /\ Written(c) \cap Rotated \subseteq {c}
  BY CellTypes DEF Written

-----------------------------------------------------------------------------
(* Types.  A process that is down has no admin request either, a request that names a *)
(* job names one there is, and a writer at work has a cell.                           *)

DownInv == ~up => \A a \in Admins : admins[a] = IdleAdmin
JobInv == \A a \in Admins : admins[a].pc \in {"claim", "run", "audit"} => admins[a].job \in Jobs
BusyInv == \A w \in Writers : writers[w].pc # "idle" => writers[w].cell \in Cells
TypeInv == TypeOK /\ DownInv /\ JobInv /\ BusyInv

WorkerPcs == {"idle", "batch", "row", "list", "files", "pdf", "put", "putting", "checkpoint",
              "links", "link", "pause", "ended"}

JobStatuses == {"none", "running", "paused", "failed", "completed"}

LEMMA PositionFacts ==
  /\ None \in Positions /\ Sessions \subseteq Positions /\ Positions \subseteq Nat
  /\ \A s \in Sessions : None < s
  BY ConstantsAssumption DEF Positions, None, Sessions

LEMMA WorkerFields ==
  ASSUME NEW r \in WorkerRec
  PROVE  /\ r.pc \in WorkerPcs /\ r.last \in Positions /\ r.batch \in SUBSET Sessions
         /\ r.session \in Positions /\ r.todo \in SUBSET Cells /\ r.cell \in Cells \cup {NoCell}
  BY DEF WorkerRec, WorkerPcs

LEMMA IdleTypes ==
  /\ IdleWorker \in WorkerRec /\ IdleWriter \in WriterRec /\ IdleAdmin \in AdminRec
  /\ [IdleWorker EXCEPT !.pc = "ended"] \in WorkerRec
  /\ \A last \in Positions : [IdleWorker EXCEPT !.pc = "batch", !.last = last] \in WorkerRec
<1>1. IdleWorker \in WorkerRec
  BY PositionFacts DEF IdleWorker, WorkerRec
<1>2. [IdleWorker EXCEPT !.pc = "ended"] \in WorkerRec
  BY <1>1 DEF WorkerRec
<1>3. ASSUME NEW last \in Positions
      PROVE  [IdleWorker EXCEPT !.pc = "batch", !.last = last] \in WorkerRec
  BY <1>1 DEF WorkerRec
<1>4. IdleWriter \in WriterRec /\ IdleAdmin \in AdminRec
  BY DEF IdleWriter, IdleAdmin, WriterRec, AdminRec
<1>5. QED
  BY <1>1, <1>2, <1>3, <1>4

LEMMA SessionDoneTyped ==
  ASSUME NEW worker \in WorkerRec
  PROVE  SessionDone(worker) \in WorkerRec
  BY PositionFacts DEF SessionDone, WorkerRec

LEMMA FailTyped ==
  ASSUME Fail, failures \in 0 .. MaxFailures
  PROVE  failures' \in 0 .. MaxFailures
  BY ConstantsAssumption DEF Fail

LEMMA JobRowMade ==
  ASSUME NEW r \in JobRow
  PROVE  /\ r.cursor \in Positions /\ r.status \in JobStatuses
         /\ \A status \in JobStatuses : /\ [r EXCEPT !.status = status] \in JobRow
                                        /\ [r EXCEPT !.status = status].status = status
                                        /\ [r EXCEPT !.status = status].cursor = r.cursor
         /\ \A cursor \in Positions : /\ [r EXCEPT !.cursor = cursor] \in JobRow
                                      /\ [r EXCEPT !.cursor = cursor].status = r.status
                                      /\ [r EXCEPT !.cursor = cursor].cursor = cursor
  BY DEF JobRow, JobStatuses

LEMMA InitTyped == Init => TypeInv
<1>1. [status |-> "none", cursor |-> None] \in JobRow
  BY PositionFacts DEF JobRow
<1>2. IdleAdmin.pc = "idle" /\ IdleWriter.pc = "idle" /\ MaxFailures \in 0 .. MaxFailures
  BY ConstantsAssumption DEF IdleAdmin, IdleWriter
<1>3. ASSUME Init PROVE TypeOK
  BY <1>1, <1>2, <1>3, IdleTypes DEF Init, TypeOK, Keys
<1>4. ASSUME Init PROVE DownInv /\ JobInv /\ BusyInv
  BY <1>2, <1>4 DEF Init, DownInv, JobInv, BusyInv
<1>5. QED
  BY <1>3, <1>4 DEF TypeInv

LEMMA WriterTyped ==
  ASSUME TypeInv, NEW w \in Writers,
         (\E c \in Cells : StartWrite(w, c)) \/ Write(w) \/ RecordBlob(w)
  PROVE  TypeInv'
<1> USE DEF TypeInv, TypeOK, DownInv, JobInv, BusyInv, process, data
<1>1. ASSUME NEW c \in Cells, StartWrite(w, c) PROVE TypeInv'
  <2>1. [pc |-> "write", cell |-> c] \in WriterRec
    BY DEF WriterRec
  <2>2. QED
    BY <1>1, <2>1 DEF StartWrite
<1>2. CASE Write(w)
  <2>1. writers[w].cell \in Cells
    BY <1>2 DEF Write
  <2>2. /\ [writers[w] EXCEPT !.pc = "record"] \in WriterRec
        /\ [writers[w] EXCEPT !.pc = "record"].cell = writers[w].cell
    BY DEF WriterRec
  <2>3. writers' \in [Writers -> WriterRec] /\ BusyInv'
    <3>1. IdleWriter.pc = "idle"
      BY DEF IdleWriter
    <3>2. writers' = [writers EXCEPT ![w].pc = "record"] \/ writers' = [writers EXCEPT ![w] = IdleWriter]
      BY <1>2 DEF Write
    <3>3. writers' \in [Writers -> WriterRec]
      BY <2>2, <3>2, IdleTypes
    <3>4. ASSUME NEW v \in Writers, writers'[v].pc # "idle" PROVE writers'[v].cell \in Cells
      BY <2>1, <2>2, <3>1, <3>2, <3>4
    <3>5. QED
      BY <3>3, <3>4
  <2>4. Written(writers[w].cell) \subseteq Cells
    BY <2>1, WrittenFacts
  <2>5. stored' \in [Cells -> Keys] /\ rows' \subseteq Cells /\ late' \subseteq Cells
    BY <1>2, <2>4 DEF Write, Keys
  <2>6. QED
    BY <1>2, <2>3, <2>5 DEF Write
<1>3. CASE RecordBlob(w)
  <2>1. writers[w].cell \in Cells
    BY <1>3 DEF RecordBlob
  <2>2. writers' \in [Writers -> WriterRec] /\ BusyInv'
    BY <1>3, IdleTypes DEF RecordBlob, IdleWriter
  <2>3. QED
    BY <1>3, <2>1, <2>2 DEF RecordBlob
<1>4. QED
  BY <1>1, <1>2, <1>3

(* Dispatching a worker keeps the types of the jobs and of the workers. *)
LEMMA DispatchTyped ==
  ASSUME NEW j \in Jobs, Dispatch(j), jobs \in [Jobs -> JobRow], workers \in [Jobs -> WorkerRec]
  PROVE  jobs' \in [Jobs -> JobRow] /\ workers' \in [Jobs -> WorkerRec]
<1>1. jobs[j].cursor \in Positions /\ [jobs[j] EXCEPT !.status = "running"] \in JobRow
  BY JobRowMade DEF JobStatuses
<1>2. [IdleWorker EXCEPT !.pc = "batch", !.last = jobs[j].cursor] \in WorkerRec
  BY <1>1, IdleTypes
<1>3. QED
  BY <1>1, <1>2 DEF Dispatch

LEMMA AdminTyped ==
  ASSUME TypeInv, NEW a \in Admins, Admin(a)
  PROVE  TypeInv'
<1> USE DEF TypeInv, TypeOK, DownInv, JobInv, BusyInv, process, data, GotoAdmin
<1>1. ASSUME NEW pc \in {"idle", "claim", "run", "audit", "open"}, NEW j \in Jobs \cup {NoJob}
      PROVE  [pc |-> pc, job |-> j] \in AdminRec
  BY DEF AdminRec
<1>2. CASE StartOpenGate(a)
  BY <1>1, <1>2 DEF StartOpenGate
<1>3. CASE OpenGate(a)
  BY <1>1, <1>3 DEF OpenGate, IdleAdmin
<1>4. ASSUME NEW j \in Jobs, StartRotate(a, j) PROVE TypeInv'
  BY <1>1, <1>4 DEF StartRotate
<1>5. CASE Claim(a)
  <2>1. up /\ admins[a].job \in Jobs
    BY <1>5 DEF Claim, IdleAdmin
  <2>2. admins' \in [Admins -> AdminRec] /\ JobInv'
    BY <1>1, <1>5, <2>1 DEF Claim
  <2>3. QED
    BY <1>5, <2>1, <2>2 DEF Claim
<1>6. CASE Rotate(a) \/ Resume(a)
  <2>1. up /\ admins[a].job \in Jobs
    BY <1>6 DEF Rotate, Resume, IdleAdmin
  <2>2. /\ admins' \in [Admins -> AdminRec]
        /\ \A b \in Admins : admins'[b] = admins[b] \/ admins'[b].pc = "idle"
                              \/ admins'[b].job = admins[a].job
    <3>1. \/ admins' = [admins EXCEPT ![a] = [pc |-> "idle", job |-> NoJob]]
          \/ admins' = [admins EXCEPT ![a] = [pc |-> "audit", job |-> admins[a].job]]
      BY <1>6 DEF Rotate, Resume
    <3>2. QED
      BY <1>1, <2>1, <3>1
  <2>3. jobs' \in [Jobs -> JobRow] /\ workers' \in [Jobs -> WorkerRec] /\ active' \in BOOLEAN
    BY <1>6, <2>1, DispatchTyped DEF Rotate, Resume, Dispatch
  <2>4. QED
    BY <1>6, <2>1, <2>2, <2>3 DEF Rotate, Resume
<1>7. CASE AuditResume(a)
  BY <1>1, <1>7 DEF AuditResume, IdleAdmin
<1>8. CASE AdminFails(a)
  BY <1>1, <1>8, FailTyped DEF AdminFails, IdleAdmin
<1>9. QED
  BY <1>2, <1>3, <1>4, <1>5, <1>6, <1>7, <1>8 DEF Admin

(* A worker that moves on within its own steps keeps the types when the record it     *)
(* moves to has its type.                                                             *)
LEMMA MovedTyped ==
  ASSUME TypeInv, NEW j \in Jobs, NEW r \in WorkerRec, up, GotoWorker(j, r),
         stored' \in [Cells -> Keys], jobs' \in [Jobs -> JobRow],
         UNCHANGED <<rows, late, process, gate, writers, admins, failures>>
  PROVE  TypeInv'
<1>1. workers' \in [Jobs -> WorkerRec]
  BY DEF GotoWorker, TypeInv, TypeOK
<1>2. QED
  BY <1>1 DEF TypeInv, TypeOK, DownInv, JobInv, BusyInv, process

LEMMA GiveBackTyped ==
  ASSUME TypeInv, NEW j \in Jobs, up, GiveBack(j),
         jobs' \in [Jobs -> JobRow], failures' \in 0 .. MaxFailures
  PROVE  TypeInv'
<1>1. workers' \in [Jobs -> WorkerRec]
  BY IdleTypes DEF GiveBack, GotoWorker, TypeInv, TypeOK
<1>2. QED
  BY <1>1 DEF GiveBack, TypeInv, TypeOK, DownInv, JobInv, BusyInv, data

LEMMA RecordTyped ==
  ASSUME TypeInv, NEW j \in Jobs, up, NEW status \in {"paused", "completed"}, Record(j, status)
  PROVE  TypeInv'
<1>1. workers[j].last \in Positions /\ [jobs[j] EXCEPT !.status = status] \in JobRow
  <2>1. workers[j] \in WorkerRec /\ jobs[j] \in JobRow /\ status \in JobStatuses
    BY DEF TypeInv, TypeOK, JobStatuses
  <2>2. QED
    BY <2>1, WorkerFields, JobRowMade
<1>2. jobs' \in [Jobs -> JobRow]
  <2>1. jobs' = [jobs EXCEPT ![j].status = status,
                             ![j].cursor = IF status = "completed" THEN workers[j].last ELSE @]
    BY DEF Record
  <2>2. jobs \in [Jobs -> JobRow]
    BY DEF TypeInv, TypeOK
  <2>3. QED
    BY <1>1, <2>1, <2>2 DEF JobRow
<1>3. QED
  BY <1>2, IdleTypes, MovedTyped DEF Record, data, TypeInv, TypeOK

LEMMA WorkTyped ==
  ASSUME TypeInv, NEW j \in Jobs, Work(j) \/ WorkerFails(j)
  PROVE  TypeInv'
<1> DEFINE worker == workers[j]
<1>a. /\ worker \in WorkerRec /\ stored \in [Cells -> Keys] /\ jobs \in [Jobs -> JobRow]
      /\ failures \in 0 .. MaxFailures /\ rows \subseteq Cells
  BY DEF TypeInv, TypeOK
<1>b. \A c, k : k \in Keys => [stored EXCEPT ![c] = k] \in [Cells -> Keys]
  BY <1>a
<1> USE DEF At, data
<1>1. CASE ReadBatch(j)
  <2>1. NextBatch(worker.last) \subseteq Sessions
    BY <1>a, WorkerFields, NextBatchFacts
  <2>2. [worker EXCEPT !.pc = IF shutdown THEN "pause"
                              ELSE IF NextBatch(worker.last) = {} THEN "links" ELSE "row",
                       !.batch = IF shutdown THEN {} ELSE NextBatch(worker.last)] \in WorkerRec
    BY <1>a, <2>1 DEF WorkerRec
  <2>3. QED
    BY <1>1, <1>a, <2>2, MovedTyped DEF ReadBatch
<1>2. CASE RotateRow(j)
  <2>1. CASE worker.batch = {} \/ shutdown
    <3>1. [worker EXCEPT !.pc = "checkpoint"] \in WorkerRec
      BY <1>a DEF WorkerRec
    <3>2. QED
      BY <1>2, <1>a, <2>1, <3>1, MovedTyped DEF RotateRow
  <2>2. CASE ~ (worker.batch = {} \/ shutdown)
    <3>1. Lowest(worker.batch) \in Positions
      BY <1>a, <2>2, WorkerFields, LowestIsLowest, PositionFacts
    <3>2. [worker EXCEPT !.pc = "list", !.session = Lowest(worker.batch)] \in WorkerRec
      BY <1>a, <3>1 DEF WorkerRec
    <3>3. stored' \in [Cells -> Keys]
      BY <1>2, <1>b, <2>2 DEF RotateRow, Keys
    <3>4. QED
      BY <1>2, <1>a, <2>2, <3>2, <3>3, MovedTyped DEF RotateRow
  <2>3. QED
    BY <2>1, <2>2
<1>3. CASE ListFiles(j)
  <2>1. FilesIn(worker.session) \cap rows \subseteq Cells
    BY <1>a
  <2>2. [worker EXCEPT !.pc = "files", !.todo = FilesIn(worker.session) \cap rows] \in WorkerRec
    BY <1>a, <2>1 DEF WorkerRec
  <2>3. QED
    BY <1>3, <1>a, <2>2, MovedTyped DEF ListFiles
<1>4. ASSUME NEW c \in Cells, ReadFile(j, c) PROVE TypeInv'
  <2>1. [worker EXCEPT !.pc = IF stored[c] = "old" THEN "put" ELSE "files",
                       !.todo = @ \ {c},
                       !.cell = IF stored[c] = "old" THEN c ELSE NoCell] \in WorkerRec
    BY <1>a DEF WorkerRec
  <2>2. QED
    BY <1>4, <1>a, <2>1, MovedTyped DEF ReadFile
<1>5. CASE StopFiles(j)
  <2>1. [worker EXCEPT !.pc = "checkpoint", !.batch = {}, !.session = None, !.todo = {}] \in WorkerRec
    BY <1>a, PositionFacts DEF WorkerRec
  <2>2. QED
    BY <1>5, <1>a, <2>1, MovedTyped DEF StopFiles
<1>6. CASE FilesDone(j)
  <2>1. [worker EXCEPT !.pc = "pdf"] \in WorkerRec
    BY <1>a DEF WorkerRec
  <2>2. QED
    BY <1>6, <1>a, <2>1, MovedTyped DEF FilesDone
<1>7. CASE ReadPdf(j)
  <2>1. SessionDone(worker) \in WorkerRec
    BY <1>a, SessionDoneTyped
  <2>2. ASSUME Pdf(worker.session) \in rows
        PROVE  [worker EXCEPT !.pc = "put", !.cell = Pdf(worker.session)] \in WorkerRec
    BY <1>a, <2>2 DEF WorkerRec
  <2>3. QED
    BY <1>7, <1>a, <2>1, <2>2, MovedTyped DEF ReadPdf
<1>8. CASE StartPut(j)
  <2>1. [worker EXCEPT !.pc = "putting"] \in WorkerRec
    BY <1>a DEF WorkerRec
  <2>2. QED
    BY <1>8, <1>a, <1>b, <2>1, MovedTyped DEF StartPut, Keys
<1>9. CASE EndPut(j)
  <2>1. AfterPut(worker) \in WorkerRec
    <3>1. [worker EXCEPT !.pc = "files", !.cell = NoCell] \in WorkerRec
      BY <1>a DEF WorkerRec
    <3>2. QED
      BY <1>a, <3>1, SessionDoneTyped DEF AfterPut
  <2>2. QED
    BY <1>9, <1>a, <1>b, <2>1, MovedTyped DEF EndPut, Keys
<1>10. CASE Checkpoint(j)
  <2>1. [worker EXCEPT !.pc = "batch", !.batch = {}] \in WorkerRec
    BY <1>a DEF WorkerRec
  <2>2. [jobs[j] EXCEPT !.cursor = worker.last] \in JobRow
    BY <1>a, WorkerFields, JobRowMade
  <2>3. jobs' \in [Jobs -> JobRow]
    BY <1>10, <1>a, <2>2 DEF Checkpoint
  <2>4. QED
    BY <1>10, <1>a, <2>1, <2>3, MovedTyped DEF Checkpoint
<1>11. CASE ListLinks(j)
  <2>1. /\ [worker EXCEPT !.pc = "pause"] \in WorkerRec
        /\ [worker EXCEPT !.pc = "link", !.todo = LinkCells \cap rows] \in WorkerRec
    BY <1>a DEF WorkerRec
  <2>2. QED
    BY <1>11, <1>a, <2>1, MovedTyped DEF ListLinks
<1>12. ASSUME NEW c \in Cells, RotateLink(j, c) PROVE TypeInv'
  <2>1. [worker EXCEPT !.todo = @ \ {c}] \in WorkerRec
    BY <1>a DEF WorkerRec
  <2>2. QED
    BY <1>12, <1>a, <1>b, <2>1, MovedTyped DEF RotateLink, Keys
<1>13. CASE StopLinks(j)
  <2>1. [worker EXCEPT !.pc = "pause", !.todo = {}] \in WorkerRec
    BY <1>a DEF WorkerRec
  <2>2. QED
    BY <1>13, <1>a, <2>1, MovedTyped DEF StopLinks
<1>14. CASE Pause(j) \/ Complete(j)
  BY <1>14, RecordTyped DEF Pause, Complete
<1>15. CASE AuditEnd(j)
  BY <1>15, <1>a, GiveBackTyped DEF AuditEnd
<1>16. CASE Undecryptable(j) \/ WorkerFails(j)
  <2>1. [jobs[j] EXCEPT !.status = "failed"] \in JobRow
    BY <1>a, JobRowMade DEF JobStatuses
  <2>2. jobs' \in [Jobs -> JobRow]
    BY <1>16, <1>a, <2>1 DEF Undecryptable, WorkerFails
  <2>3. failures' \in 0 .. MaxFailures
    BY <1>16, <1>a, FailTyped DEF Undecryptable, WorkerFails
  <2>4. QED
    BY <1>16, <2>2, <2>3, GiveBackTyped DEF Undecryptable, WorkerFails
<1>17. QED
  BY <1>1, <1>2, <1>3, <1>4, <1>5, <1>6, <1>7, <1>8, <1>9, <1>10, <1>11, <1>12, <1>13, <1>14,
     <1>15, <1>16 DEF Work

LEMMA ProcessTyped ==
  ASSUME TypeInv, CloseGate \/ Sigterm \/ Exit \/ Boot
  PROVE  TypeInv'
<1> USE DEF TypeInv, TypeOK, DownInv, JobInv, BusyInv, data, process
<1>1. CASE CloseGate
  BY <1>1 DEF CloseGate
<1>2. CASE Sigterm
  BY <1>2 DEF Sigterm
<1>3. CASE Exit
  <2>1. failures' \in 0 .. MaxFailures
    BY <1>3, FailTyped DEF Exit
  <2>2. IdleAdmin.pc = "idle" /\ IdleWriter.pc = "idle"
    BY DEF IdleAdmin, IdleWriter
  <2>3. QED
    BY <1>3, <2>1, <2>2, IdleTypes DEF Exit
<1>4. CASE Boot
  BY <1>4 DEF Boot
<1>5. QED
  BY <1>1, <1>2, <1>3, <1>4

LEMMA NextTyped == TypeInv /\ [Next]_vars => TypeInv'
<1> SUFFICES ASSUME TypeInv, [Next]_vars PROVE TypeInv'
  OBVIOUS
<1>1. CASE UNCHANGED vars
  BY <1>1 DEF vars, data, process, TypeInv, TypeOK, DownInv, JobInv, BusyInv
<1>2. CASE Next
  BY <1>2, WriterTyped, AdminTyped, WorkTyped, ProcessTyped DEF Next
<1>3. QED
  BY <1>1, <1>2

(* Every variable keeps its type, and a process that is down holds no slot and runs    *)
(* no worker.                                                                          *)
THEOREM RotationTypes == Spec => []TypeOK
<1>1. TypeInv => TypeOK
  BY DEF TypeInv
<1>2. QED
  BY <1>1, InitTyped, NextTyped, PTL DEF Spec

-----------------------------------------------------------------------------
(* The slot.  activeRotation is held by an admin request between its claim and the     *)
(* dispatch, or by a worker; nothing else keeps two workers apart (OneWorker).         *)

(* The catch of /resume gives the slot back also when what threw is the audit that     *)
(* follows the dispatch, while the worker runs.  This is a step that does not.         *)
ResumesAreAudited == \A a \in Admins : ~ (admins[a].pc = "audit" /\ AdminFails(a))

Claimed(a) == admins[a].pc = "run"
Held(j) == workers[j].pc # "idle"
SlotInv ==
  /\ \A a \in Admins : Claimed(a) => active /\ \A j \in Jobs : ~ Held(j)
  /\ \A a, b \in Admins : Claimed(a) /\ Claimed(b) => a = b
  /\ \A j \in Jobs : Held(j) => active
  /\ \A i, j \in Jobs : Held(i) /\ Held(j) => i = j

LEMMA InitSlot == Init => SlotInv
  BY DEF Init, SlotInv, Claimed, Held, IdleWorker, IdleAdmin

(* A step of a worker that leaves the slot alone, or gives it back with the worker.    *)
LEMMA WorkSlot ==
  ASSUME TypeInv, SlotInv, NEW j \in Jobs, Work(j) \/ WorkerFails(j)
  PROVE  SlotInv'
<1>1. Held(j)
  BY DEF Work, WorkerFails, Held, At, ReadBatch, RotateRow, ListFiles, StopFiles, FilesDone, ReadPdf,
         ReadFile, RotateLink, StartPut, EndPut, Checkpoint, ListLinks, StopLinks, Pause, Complete,
         AuditEnd, Undecryptable
<1>2. admins' = admins /\ \A i \in Jobs \ {j} : workers'[i] = workers[i]
  BY DEF Work, WorkerFails, ReadBatch, RotateRow, ListFiles, StopFiles, FilesDone, ReadPdf, ReadFile,
         RotateLink, StartPut, EndPut, Checkpoint, ListLinks, StopLinks, Pause, Complete, AuditEnd,
         Undecryptable, Record, GiveBack, GotoWorker, TypeInv, TypeOK
<1>3. active' = active \/ ~ Held(j)'
  <2>1. GiveBack(j) => ~ Held(j)'
    BY DEF GiveBack, GotoWorker, Held, IdleWorker, TypeInv, TypeOK
  <2>2. QED
    BY <2>1 DEF Work, WorkerFails, ReadBatch, RotateRow, ListFiles, StopFiles, FilesDone, ReadPdf,
         ReadFile, RotateLink, StartPut, EndPut, Checkpoint, ListLinks, StopLinks, Pause, Complete,
         AuditEnd, Undecryptable, Record, process
<1>4. QED
  BY <1>1, <1>2, <1>3 DEF SlotInv, Held, Claimed

LEMMA AdminSlot ==
  ASSUME TypeInv, SlotInv, ResumesAreAudited, NEW a \in Admins, Admin(a)
  PROVE  SlotInv'
<1>1. \A b \in Admins \ {a} : admins'[b] = admins[b]
  BY DEF Admin, StartOpenGate, OpenGate, StartRotate, Claim, Rotate, Resume, AuditResume, AdminFails,
         GotoAdmin, TypeInv, TypeOK
<1>2. ASSUME NEW pc, NEW j, GotoAdmin(a, pc, j) PROVE admins'[a].pc = pc
  BY <1>2 DEF GotoAdmin, TypeInv, TypeOK
<1>3. CASE StartOpenGate(a) \/ OpenGate(a) \/ (\E j \in Jobs : StartRotate(a, j)) \/ AuditResume(a)
  <2>1. active' = active /\ workers' = workers /\ ~ Claimed(a)'
    BY <1>2, <1>3 DEF StartOpenGate, OpenGate, StartRotate, AuditResume, process, Claimed
  <2>2. QED
    BY <1>1, <2>1 DEF SlotInv, Held, Claimed
<1>4. CASE Claim(a)
  <2>1. workers' = workers /\ ((active' = active /\ ~ Claimed(a)') \/ (~ active /\ active'))
    BY <1>2, <1>4 DEF Claim, Claimed
  <2>2. QED
    BY <1>1, <2>1 DEF SlotInv, Held, Claimed
<1>5. CASE Rotate(a) \/ Resume(a)
  <2>1. Claimed(a) /\ ~ Claimed(a)'
    BY <1>2, <1>5 DEF Rotate, Resume, Claimed
  <2>2. CASE Dispatch(admins[a].job)
    <3>1. active' /\ \A i \in Jobs \ {admins[a].job} : workers'[i] = workers[i]
      BY <2>2 DEF Dispatch, TypeInv, TypeOK
    <3>2. QED
      BY <1>1, <2>1, <3>1 DEF SlotInv, Held, Claimed
  <2>3. CASE ~ Dispatch(admins[a].job)
    <3>1. workers' = workers
      BY <1>5, <2>3 DEF Rotate, Resume
    <3>2. QED
      BY <1>1, <2>1, <3>1 DEF SlotInv, Held, Claimed
  <2>4. QED
    BY <2>2, <2>3
<1>6. CASE AdminFails(a)
  <2>1. Claimed(a) /\ ~ Claimed(a)' /\ workers' = workers
    BY <1>2, <1>6 DEF AdminFails, ResumesAreAudited, Claimed
  <2>2. QED
    BY <1>1, <2>1 DEF SlotInv, Held, Claimed
<1>7. QED
  BY <1>3, <1>4, <1>5, <1>6 DEF Admin

LEMMA NextSlot == TypeInv /\ SlotInv /\ [Next /\ ResumesAreAudited]_vars => SlotInv'
<1> SUFFICES ASSUME TypeInv, SlotInv, [Next /\ ResumesAreAudited]_vars PROVE SlotInv'
  OBVIOUS
<1>1. ASSUME active' = active, workers' = workers, admins' = admins PROVE SlotInv'
  BY <1>1 DEF SlotInv, Held, Claimed
<1>2. CASE UNCHANGED vars
  BY <1>1, <1>2 DEF vars, process
<1>3. CASE CloseGate \/ Sigterm \/ Boot \/ \E w \in Writers : (\E c \in Cells : StartWrite(w, c)) \/ Write(w) \/ RecordBlob(w)
  BY <1>1, <1>3 DEF CloseGate, Sigterm, Boot, StartWrite, Write, RecordBlob, process
<1>4. CASE Exit
  BY <1>4 DEF Exit, SlotInv, Held, Claimed, IdleWorker, IdleAdmin
<1>5. QED
  BY <1>2, <1>3, <1>4, AdminSlot, WorkSlot DEF Next

(* tryClaimRotationActive is enough to keep two workers from running at once, whatever *)
(* fails, crashes or is told to shut down, unless the audit of a resume throws: the     *)
(* route then gives back the slot of the worker it has dispatched.                      *)
THEOREM SlotKeepsWorkersApart == Spec /\ [][ResumesAreAudited]_vars => []OneWorker
<1>1. SlotInv => OneWorker
  BY DEF SlotInv, OneWorker, AtWork, Held
<1>2. [Next]_vars /\ [ResumesAreAudited]_vars => [Next /\ ResumesAreAudited]_vars
  OBVIOUS
<1>3. TypeInv /\ SlotInv /\ [Next]_vars /\ [ResumesAreAudited]_vars => SlotInv'
  BY <1>2, NextSlot
<1>4. QED
  BY <1>1, <1>3, InitTyped, InitSlot, NextTyped, PTL DEF Spec

-----------------------------------------------------------------------------
(* What is written.  A file or PDF is written only for a session there is, a session   *)
(* is inserted once; and what others store once a job has started is late.             *)

Done(s) == CellsOf(s) \cap Unrotated = {}

WriterInv(w) ==
  LET c == writers[w].cell IN
  /\ writers[w].pc = "idle" => c = NoCell
  /\ writers[w].pc = "record" => c \in Blobs
  /\ \A s \in Sessions : /\ c = Pii(s) => c \notin rows
                         /\ c \in CellsOf(s) \ {Pii(s)} => Pii(s) \in rows
  /\ \A v \in Writers : c \in Cells /\ writers[v].cell = c => v = w
RowsInv ==
  /\ ~ Started => late = {}
  /\ \A s \in Sessions : /\ CellsOf(s) \cap rows # {} => Pii(s) \in rows
                         /\ Pii(s) \in late => CellsOf(s) \cap rows \subseteq late
WriteInv == RowsInv /\ \A w \in Writers : WriterInv(w)

Writing == \E w \in Writers : (\E c \in Cells : StartWrite(w, c)) \/ Write(w) \/ RecordBlob(w)

LEMMA InitWrite == Init => WriteInv
<1> SUFFICES ASSUME Init PROVE WriteInv
  OBVIOUS
<1>1. RowsInv
  BY DEF Init, RowsInv
<1>2. \A w \in Writers : writers[w].pc = "idle" /\ writers[w].cell = NoCell
  BY DEF Init, IdleWriter
<1>3. \A s \in Sessions : NoCell \notin CellsOf(s) /\ NoCell # Pii(s)
  BY CellTypes
<1>4. QED
  BY <1>1, <1>2, <1>3, CellTypes DEF WriteInv, WriterInv

(* A cell outside PII and links is a blob of the session it belongs to. *)
LEMMA WritableBlobs ==
  ASSUME TypeInv, WriteInv, NEW c \in Cells, CanWrite(c), NEW s \in Sessions
  PROVE  /\ c = Pii(s) => c \notin rows
         /\ c \in CellsOf(s) \ {Pii(s)} => Pii(s) \in rows
<1>1. ASSUME c = Pii(s) PROVE c \notin rows
  BY <1>1, CellKinds, CellTypes DEF CanWrite, LinkCells
<1>2. ASSUME c \in CellsOf(s) \ {Pii(s)} PROVE Pii(s) \in rows
  <2>1. c = Pdf(s) \/ \E f \in Files : c = File(f) /\ FileOf[f] = s
    BY <1>2 DEF CellsOf, FilesIn
  <2>2. CASE c = Pdf(s)
    <3>1. \A t \in Sessions : c # Pii(t) /\ (c = Pdf(t) => t = s)
      BY <2>2 DEF Pii, Pdf
    <3>2. c \notin LinkCells /\ \A f \in Files : c # File(f)
      BY <2>2, CellKinds DEF LinkCells
    <3>3. QED
      BY <3>1, <3>2 DEF CanWrite
  <2>3. ASSUME NEW f \in Files, c = File(f), FileOf[f] = s PROVE Pii(s) \in rows
    <3>1. \A t \in Sessions : c # Pii(t) /\ c # Pdf(t)
      BY <2>3, CellKinds
    <3>2. c \notin LinkCells /\ \A g \in Files : c = File(g) => g = f
      BY <2>3, CellKinds DEF LinkCells, File
    <3>3. QED
      BY <2>3, <3>1, <3>2 DEF CanWrite
  <2>4. QED
    BY <2>1, <2>2, <2>3
<1>3. QED
  BY <1>1, <1>2

(* A statement of a writer adds rows, and once a job has started nothing that the       *)
(* rotation answers for: what it writes is late.                                        *)
LEMMA WritingData ==
  ASSUME TypeInv, Writing
  PROVE  /\ rows \subseteq rows' /\ late \subseteq late' /\ late' \subseteq Cells
         /\ jobs' = jobs /\ workers' = workers
         /\ \A c \in Cells : stored'[c] \in {stored[c], "old"}
         /\ Started => rows' \ late' \subseteq rows \ late /\ Unrotated' \subseteq Unrotated
         /\ ~ Started => late' = late
<1>1. PICK w \in Writers : (\E c \in Cells : StartWrite(w, c)) \/ Write(w) \/ RecordBlob(w)
  BY DEF Writing
<1> DEFINE cell == writers[w].cell
<1>2. CASE \E c \in Cells : StartWrite(w, c)
  BY <1>2 DEF StartWrite, data, Unrotated, TypeInv, TypeOK
<1>3. CASE Write(w)
  <2>1. cell \in Cells /\ Written(cell) \subseteq Cells
    BY <1>3, WrittenFacts DEF Write, TypeInv, BusyInv
  <2>2. /\ stored' = [c \in Cells |-> IF c \in Written(cell) THEN "old" ELSE stored[c]]
        /\ rows \subseteq rows' /\ rows' \subseteq rows \cup Written(cell)
        /\ late' = IF Started THEN late \cup Written(cell) ELSE late
        /\ jobs' = jobs /\ workers' = workers
    BY <1>3 DEF Write
  <2>3. ASSUME Started PROVE rows' \ late' \subseteq rows \ late /\ Unrotated' \subseteq Unrotated
    <3>1. rows' \ late' \subseteq rows \ late
      BY <2>2, <2>3
    <3>2. ASSUME NEW c \in Unrotated' PROVE c \in Unrotated
      <4>1. c \in Rotated \cap rows' /\ stored'[c] # "new" /\ c \notin late'
        BY <3>2 DEF Unrotated
      <4>2. c \in Cells /\ c \notin Written(cell) /\ c \in rows /\ c \notin late
        BY <2>2, <2>3, <3>1, <4>1, CellTypes
      <4>3. stored'[c] = stored[c]
        BY <2>2, <4>2
      <4>4. QED
        BY <4>1, <4>2, <4>3 DEF Unrotated
    <3>3. QED
      BY <3>1, <3>2
  <2>4. late' \subseteq Cells
    BY <2>1, <2>2 DEF TypeInv, TypeOK
  <2>5. QED
    BY <2>2, <2>3, <2>4
<1>4. CASE RecordBlob(w)
  <2>1. cell \in Cells
    BY <1>4 DEF RecordBlob, TypeInv, BusyInv
  <2>2. /\ rows' = rows \cup {cell} /\ late' = IF Started THEN late \cup {cell} ELSE late
        /\ stored' = stored /\ jobs' = jobs /\ workers' = workers
    BY <1>4 DEF RecordBlob
  <2>3. QED
    BY <2>1, <2>2 DEF Unrotated, TypeInv, TypeOK
<1>5. QED
  BY <1>1, <1>2, <1>3, <1>4

(* Before a job has started a writer takes nothing back from what will have to be       *)
(* rotated.                                                                             *)
LEMMA WritingStores ==
  ASSUME TypeInv, Writing, ~ Started
  PROVE  Unrotated \subseteq Unrotated'
<1>1. SUFFICES ASSUME NEW c \in Unrotated PROVE c \in Unrotated'
  OBVIOUS
<1>2. c \in Cells /\ c \in Rotated /\ c \in rows /\ stored[c] # "new" /\ c \notin late
  BY CellTypes DEF Unrotated
<1>3. c \in rows' /\ c \notin late' /\ stored'[c] # "new"
  BY <1>2, WritingData
<1>4. QED
  BY <1>2, <1>3 DEF Unrotated

LEMMA WritingKeepsRows ==
  ASSUME TypeInv, WriteInv, Writing
  PROVE  RowsInv'
<1>1. PICK w \in Writers : (\E c \in Cells : StartWrite(w, c)) \/ Write(w) \/ RecordBlob(w)
  BY DEF Writing
<1> DEFINE cell == writers[w].cell
<1>2. Started' = Started
  BY WritingData DEF Started
<1>3. CASE \E c \in Cells : StartWrite(w, c)
  BY <1>2, <1>3 DEF StartWrite, data, RowsInv, WriteInv
<1>4. ASSUME Write(w) \/ RecordBlob(w) PROVE RowsInv'
  <2>1. cell \in Cells
    BY <1>4 DEF Write, RecordBlob, TypeInv, BusyInv
  <2>2. /\ rows \subseteq rows' /\ rows' \subseteq rows \cup Written(cell)
        /\ rows' # rows => cell \in rows'
        /\ Started => late \cup {cell} \subseteq late' /\ late' \subseteq late \cup Written(cell)
        /\ Started => rows' \ rows \subseteq late'
        /\ ~ Started => late' = late
    <3>1. CASE Write(w)
      BY <2>1, <3>1, WrittenFacts DEF Write
    <3>2. CASE RecordBlob(w)
      BY <2>1, <3>2, WrittenFacts DEF RecordBlob
    <3>3. QED
      BY <1>4, <3>1, <3>2
  <2>3. ~ Started' => late' = {}
    BY <1>2, <2>2 DEF WriteInv, RowsInv
  <2>4. ASSUME NEW s \in Sessions, CellsOf(s) \cap rows' # {} PROVE Pii(s) \in rows'
    <3>1. CASE CellsOf(s) \cap rows # {}
      BY <2>2, <3>1 DEF WriteInv, RowsInv
    <3>2. CASE CellsOf(s) \cap rows = {}
      <4>1. cell \in CellsOf(s) /\ cell \in rows'
        BY <2>1, <2>2, <2>4, <3>2, WrittenFacts, CellTypes
      <4>2. CASE cell = Pii(s)
        BY <4>1, <4>2
      <4>3. CASE cell # Pii(s)
        BY <2>2, <4>1, <4>3 DEF WriteInv, WriterInv
      <4>4. QED
        BY <4>2, <4>3
    <3>3. QED
      BY <3>1, <3>2
  <2>5. ASSUME NEW s \in Sessions, Pii(s) \in late' PROVE CellsOf(s) \cap rows' \subseteq late'
    <3>1. Started
      BY <1>2, <2>3, <2>5
    <3>2. CASE Pii(s) \in late
      <4>1. CellsOf(s) \cap rows \subseteq late
        BY <3>2 DEF WriteInv, RowsInv
      <4>2. QED
        BY <2>2, <3>1, <4>1
    <3>3. CASE Pii(s) \notin late
      <4>1. Pii(s) = cell
        BY <2>1, <2>2, <2>5, <3>1, <3>3, WrittenFacts, CellTypes
      <4>2. Pii(s) \notin rows
        BY <4>1 DEF WriteInv, WriterInv
      <4>3. CellsOf(s) \cap rows = {}
        BY <4>2 DEF WriteInv, RowsInv
      <4>4. QED
        BY <2>2, <3>1, <4>3
    <3>4. QED
      BY <3>2, <3>3
  <2>6. QED
    BY <2>3, <2>4, <2>5 DEF RowsInv
<1>5. QED
  BY <1>1, <1>3, <1>4

LEMMA WritingKeepsWriters ==
  ASSUME TypeInv, WriteInv, Writing, NEW v \in Writers
  PROVE  WriterInv(v)'
<1>1. PICK w \in Writers : (\E c \in Cells : StartWrite(w, c)) \/ Write(w) \/ RecordBlob(w)
  BY DEF Writing
<1> DEFINE cell == writers[w].cell
<1>w. writers \in [Writers -> WriterRec]
  BY DEF TypeInv, TypeOK
<1>2. ASSUME NEW c \in Cells, StartWrite(w, c) PROVE WriterInv(v)'
  <2>1. /\ writers' = [writers EXCEPT ![w] = [pc |-> "write", cell |-> c]]
        /\ rows' = rows /\ CanWrite(c)
        /\ \A u \in Writers : writers[u].cell # c
    BY <1>2 DEF StartWrite, data
  <2>2. CASE v = w
    <3>1. writers'[v].pc = "write" /\ writers'[v].cell = c
      BY <1>w, <2>1, <2>2
    <3>2. \A u \in Writers : writers'[u].cell = c => u = v
      BY <1>w, <2>1, <2>2
    <3>3. QED
      BY <2>1, <3>1, <3>2, WritableBlobs DEF WriterInv
  <2>3. CASE v # w
    <3>1. writers'[v] = writers[v] /\ writers[v].cell # c
      BY <1>w, <2>1, <2>3
    <3>2. \A u \in Writers : \/ writers'[u].cell = writers[u].cell
                             \/ u = w /\ writers'[u].cell = c
      BY <1>w, <2>1
    <3>3. WriterInv(v)
      BY DEF WriteInv
    <3>4. QED
      BY <2>1, <3>1, <3>2, <3>3 DEF WriterInv
  <2>4. QED
    BY <2>2, <2>3
<1>3. ASSUME Write(w) \/ RecordBlob(w) PROVE WriterInv(v)'
  <2>1. cell \in Cells /\ WriterInv(v) /\ WriterInv(w)
    BY <1>3 DEF Write, RecordBlob, TypeInv, BusyInv, WriteInv
  <2>2. /\ \/ writers' = [writers EXCEPT ![w].pc = "record"] /\ cell \in Blobs
           \/ writers' = [writers EXCEPT ![w] = IdleWriter]
        /\ rows \subseteq rows' /\ rows' \subseteq rows \cup Written(cell)
        /\ cell \in Blobs /\ Write(w) => rows' = rows
    BY <1>3, <2>1, WrittenFacts DEF Write, RecordBlob
  <2>3. IdleWriter.pc = "idle" /\ IdleWriter.cell = NoCell
    BY DEF IdleWriter
  <2>4. \A u \in Writers : \/ writers'[u].cell = writers[u].cell
                           \/ u = w /\ writers'[u].cell = NoCell
    <3>1. [writers[w] EXCEPT !.pc = "record"].cell = cell
      BY <1>w DEF WriterRec
    <3>2. QED
      BY <1>w, <2>2, <2>3, <3>1
  <2>5. CASE v = w
    <3>1. CASE writers' = [writers EXCEPT ![w] = IdleWriter]
      <4>1. writers'[v].pc = "idle" /\ writers'[v].cell = NoCell
        BY <1>w, <2>3, <2>5, <3>1
      <4>2. QED
        BY <4>1, CellTypes DEF WriterInv
    <3>2. CASE writers' = [writers EXCEPT ![w].pc = "record"] /\ cell \in Blobs
      <4>1. writers'[v].pc = "record" /\ writers'[v].cell = cell
        BY <1>w, <2>5, <3>2 DEF WriterRec
      <4>2. cell \in Blobs /\ \A s \in Sessions : cell # Pii(s)
        BY <3>2, CellTypes
      <4>3. QED
        BY <2>1, <2>2, <2>4, <2>5, <4>1, <4>2, CellTypes DEF WriterInv
    <3>3. QED
      BY <2>2, <3>1, <3>2
  <2>6. CASE v # w
    <3>1. writers'[v] = writers[v]
      BY <1>w, <2>2, <2>6
    <3>2. ASSUME NEW s \in Sessions, writers[v].cell = Pii(s) PROVE Pii(s) \notin rows'
      <4>1. Pii(s) # cell /\ Pii(s) \notin rows
        BY <2>1, <2>6, <3>2, CellTypes DEF WriterInv
      <4>2. QED
        BY <2>1, <2>2, <4>1, WrittenFacts, CellTypes
    <3>3. \A u \in Writers : writers[v].cell \in Cells /\ writers'[u].cell = writers[v].cell => u = v
      BY <2>1, <2>4, CellTypes DEF WriterInv
    <3>4. QED
      BY <2>1, <2>2, <3>1, <3>2, <3>3 DEF WriterInv
  <2>7. QED
    BY <2>5, <2>6
<1>4. QED
  BY <1>1, <1>2, <1>3

(* Nobody else writes rows. *)
LEMMA OthersKeepWrite ==
  ASSUME WriteInv, rows' = rows, late' = late, Started => Started',
         writers' = writers \/ writers' = [w \in Writers |-> IdleWriter]
  PROVE  WriteInv'
<1>1. RowsInv'
  BY DEF WriteInv, RowsInv
<1>2. CASE writers' = writers
  BY <1>1, <1>2 DEF WriteInv, WriterInv
<1>3. CASE writers' = [w \in Writers |-> IdleWriter]
  <2>1. ASSUME NEW w \in Writers PROVE writers'[w].pc = "idle" /\ writers'[w].cell = NoCell
    BY <1>3 DEF IdleWriter
  <2>2. QED
    BY <1>1, <2>1, CellTypes DEF WriteInv, WriterInv
<1>4. QED
  BY <1>2, <1>3

-----------------------------------------------------------------------------
(* Progress.  The batch of a worker has every session in its range that is not late;   *)
(* of the session at work, what is left is what is listed; below the last session and  *)
(* below the recorded cursor nothing is left.                                          *)

Within == {"list", "files", "pdf", "put", "putting"}

BatchInv(j) == LET worker == workers[j] IN
  /\ \A s \in worker.batch : worker.last < s
  /\ worker.pc \in Within => /\ worker.session \in worker.batch
                             /\ \A s \in worker.batch : worker.session <= s
  /\ worker.pc \in Within \cup {"row"} =>
       \A s \in Sessions, t \in worker.batch :
         worker.last < s /\ s <= t /\ Pii(s) \in rows \ late => s \in worker.batch

Left(j) == FilesIn(workers[j].session) \cap Unrotated

SessionInv(j) == LET worker == workers[j] IN
  /\ worker.pc \in Within => Pii(worker.session) \notin Unrotated
  /\ worker.pc \in Within \ {"list"} => worker.todo \subseteq FilesIn(worker.session)
  /\ worker.pc = "files" => Left(j) \subseteq worker.todo
  /\ worker.pc = "pdf" => Left(j) = {}
  /\ worker.pc \in {"put", "putting"} =>
       \/ worker.cell \in FilesIn(worker.session) /\ Left(j) \subseteq worker.todo \cup {worker.cell}
       \/ worker.cell = Pdf(worker.session) /\ Left(j) = {}
  /\ worker.pc = "put" => stored[worker.cell] = "old"

ProgressInv(j) == LET worker == workers[j] IN
  /\ \A s \in Sessions : s <= jobs[j].cursor \/ s <= worker.last => Done(s)
  /\ worker.pc \in {"links", "link"} => \A s \in Sessions : Done(s)
  /\ worker.pc = "link" => LinkCells \cap Unrotated \subseteq worker.todo
  /\ jobs[j].status = "completed" => Unrotated = {}

NewJobInv(j) == jobs[j].status = "none" => jobs[j].cursor = None /\ workers[j] = IdleWorker

WorkerInv(j) == BatchInv(j) /\ SessionInv(j) /\ ProgressInv(j) /\ NewJobInv(j)

RotationInv == TypeInv /\ WriteInv /\ \A j \in Jobs : WorkerInv(j)

(* A session without a row, or with a late one, has nothing the rotation answers for.  *)
LEMMA SkippedIsDone ==
  ASSUME WriteInv, NEW s \in Sessions, Pii(s) \notin rows \ late
  PROVE  Done(s)
<1>1. CASE Pii(s) \in late
  BY <1>1 DEF WriteInv, RowsInv, Done, Unrotated
<1>2. CASE Pii(s) \notin rows
  BY <1>2 DEF WriteInv, RowsInv, Done, Unrotated
<1>3. QED
  BY <1>1, <1>2

LEMMA SessionIsDone ==
  ASSUME NEW s \in Sessions,
         Pii(s) \notin Unrotated, Pdf(s) \notin Unrotated, FilesIn(s) \cap Unrotated = {}
  PROVE  Done(s)
  BY DEF Done, CellsOf

(* A step that leaves a job and its worker alone, and takes nothing back to the old    *)
(* key, keeps what is known of them.                                                   *)
LEMMA WorkerKept ==
  ASSUME NEW j \in Jobs, WorkerInv(j), workers'[j] = workers[j], jobs'[j] = jobs[j],
         Unrotated' \subseteq Unrotated, rows' \ late' \subseteq rows \ late,
         workers[j].pc = "put" => stored'[workers[j].cell] = "old"
  PROVE  WorkerInv(j)'
<1>1. BatchInv(j)'
  BY DEF WorkerInv, BatchInv
<1>2. SessionInv(j)'
  BY DEF WorkerInv, SessionInv, Left
<1>3. ProgressInv(j)' /\ NewJobInv(j)'
  BY DEF WorkerInv, ProgressInv, NewJobInv, Done
<1>4. QED
  BY <1>1, <1>2, <1>3 DEF WorkerInv

(* So it is for a job that has not been started. *)
LEMMA WorkerNew ==
  ASSUME NEW j \in Jobs, jobs'[j].status = "none", jobs'[j].cursor = None, workers'[j] = IdleWorker
  PROVE  WorkerInv(j)'
<1>1. /\ workers'[j].pc = "idle" /\ workers'[j].last = None /\ workers'[j].batch = {}
  BY DEF IdleWorker
<1>2. \A s \in Sessions : ~ (s <= None)
  <2>1. \A s \in Sessions : s \in Nat /\ None \in Nat /\ None < s
    BY PositionFacts
  <2>2. QED
    BY <2>1
<1>3. BatchInv(j)' /\ SessionInv(j)' /\ NewJobInv(j)'
  BY <1>1 DEF BatchInv, SessionInv, NewJobInv, Within
<1>4. ProgressInv(j)'
  BY <1>1, <1>2 DEF ProgressInv
<1>5. QED
  BY <1>3, <1>4 DEF WorkerInv

LEMMA IdleFields ==
  /\ IdleWorker.pc = "idle" /\ IdleWorker.last = None /\ IdleWorker.batch = {}
  /\ LET ended == [IdleWorker EXCEPT !.pc = "ended"] IN
       ended.pc = "ended" /\ ended.last = None /\ ended.batch = {}
  /\ \A cursor : LET fresh == [IdleWorker EXCEPT !.pc = "batch", !.last = cursor] IN
       fresh.pc = "batch" /\ fresh.last = cursor /\ fresh.batch = {}
<1>1. IdleWorker.pc = "idle" /\ IdleWorker.last = None /\ IdleWorker.batch = {}
  BY DEF IdleWorker
<1>2. LET ended == [IdleWorker EXCEPT !.pc = "ended"] IN
        ended.pc = "ended" /\ ended.last = None /\ ended.batch = {}
  BY DEF IdleWorker
<1>3. ASSUME NEW cursor, NEW fresh, fresh = [IdleWorker EXCEPT !.pc = "batch", !.last = cursor]
      PROVE  fresh.pc = "batch" /\ fresh.last = cursor /\ fresh.batch = {}
  <2>1. IdleWorker \in WorkerRec
    BY IdleTypes
  <2>2. fresh.pc = "batch" /\ fresh.last = cursor /\ fresh.batch = IdleWorker.batch
    BY <1>3, <2>1 DEF WorkerRec
  <2>3. QED
    BY <1>1, <2>2
<1>4. QED
  BY <1>1, <1>2, <1>3

(* And for a worker that starts from the recorded cursor, or stops. *)
LEMMA WorkerFresh ==
  ASSUME NEW j \in Jobs, WorkerInv(j), Unrotated' \subseteq Unrotated,
         \/ workers'[j] = IdleWorker
         \/ workers'[j] = [IdleWorker EXCEPT !.pc = "ended"]
         \/ workers'[j] = [IdleWorker EXCEPT !.pc = "batch", !.last = jobs[j].cursor],
         jobs'[j].status # "none", jobs'[j].cursor \in {jobs[j].cursor, workers[j].last},
         jobs'[j].status = "completed" => Unrotated' = {}
  PROVE  WorkerInv(j)'
<1>1. /\ workers'[j].pc \in {"idle", "ended", "batch"} /\ workers'[j].batch = {}
      /\ workers'[j].last \in {None, jobs[j].cursor}
  <2>1. CASE workers'[j] = IdleWorker \/ workers'[j] = [IdleWorker EXCEPT !.pc = "ended"]
    BY ONLY <2>1, IdleFields
  <2>2. CASE workers'[j] = [IdleWorker EXCEPT !.pc = "batch", !.last = jobs[j].cursor]
    <3>1. LET fresh == [IdleWorker EXCEPT !.pc = "batch", !.last = jobs[j].cursor] IN
            fresh.pc = "batch" /\ fresh.last = jobs[j].cursor /\ fresh.batch = {}
      BY IdleFields
    <3>2. QED
      BY ONLY <2>2, <3>1
  <2>3. QED
    BY <2>1, <2>2
<1>2. \A s \in Sessions : ~ (s <= None)
  <2>1. \A s \in Sessions : s \in Nat /\ None \in Nat /\ None < s
    BY PositionFacts
  <2>2. QED
    BY <2>1
<1>3. BatchInv(j)' /\ SessionInv(j)' /\ NewJobInv(j)'
  BY <1>1 DEF BatchInv, SessionInv, NewJobInv, Within
<1>4. ASSUME NEW s \in Sessions, s <= jobs'[j].cursor \/ s <= workers'[j].last
      PROVE  Done(s)'
  <2>1. s <= jobs[j].cursor \/ s <= workers[j].last
    BY <1>1, <1>2, <1>4
  <2>2. Done(s)
    BY <2>1 DEF WorkerInv, ProgressInv
  <2>3. QED
    BY <2>2 DEF Done
<1>5. ProgressInv(j)'
  BY <1>1, <1>4 DEF ProgressInv
<1>6. QED
  BY <1>3, <1>5 DEF WorkerInv

(* The steps of a worker.  None of them writes rows, or brings a cell back to the old  *)
(* key: a blob is torn only while it is under the old key.                             *)
LEMMA RekeyShrinks ==
  ASSUME TypeInv, NEW c, stored' = [stored EXCEPT ![c] = "new"], rows' = rows, late' = late
  PROVE  Unrotated' \subseteq Unrotated /\ c \notin Unrotated'
<1>1. SUFFICES ASSUME NEW d \in Unrotated' PROVE d \in Unrotated /\ d # c
  OBVIOUS
<1>2. d \in Rotated /\ d \in rows /\ stored'[d] # "new" /\ d \notin late
  BY DEF Unrotated
<1>3. stored \in [Cells -> Keys] /\ d \in Cells
  BY <1>2, CellTypes DEF TypeInv, TypeOK
<1>4. d # c /\ stored'[d] = stored[d]
  BY <1>2, <1>3
<1>5. QED
  BY <1>2, <1>4 DEF Unrotated

LEMMA WorkShrinks ==
  ASSUME TypeInv, NEW j \in Jobs, WorkerInv(j), Work(j) \/ WorkerFails(j)
  PROVE  /\ rows' = rows /\ late' = late /\ writers' = writers
         /\ Unrotated' \subseteq Unrotated
         /\ stored' = stored \/ AtWork(j)
         /\ Held(j) /\ jobs[j].status # "none"
         /\ \A i \in Jobs \ {j} : workers'[i] = workers[i] /\ jobs'[i] = jobs[i]
<1>1. Held(j) /\ jobs[j].status # "none"
  <2>1. Held(j)
    BY DEF Work, WorkerFails, Held, At, ReadBatch, RotateRow, ListFiles, StopFiles, FilesDone, ReadPdf,
         ReadFile, RotateLink, StartPut, EndPut, Checkpoint, ListLinks, StopLinks, Pause, Complete,
         AuditEnd, Undecryptable
  <2>2. QED
    BY <2>1, IdleFields DEF WorkerInv, NewJobInv, Held
<1>2. rows' = rows /\ late' = late /\ writers' = writers
  BY DEF Work, WorkerFails, ReadBatch, RotateRow, ListFiles, StopFiles, FilesDone, ReadPdf, ReadFile,
         RotateLink, StartPut, EndPut, Checkpoint, ListLinks, StopLinks, Pause, Complete, AuditEnd,
         Undecryptable, Record, GiveBack, data
<1>3. \A i \in Jobs \ {j} : workers'[i] = workers[i] /\ jobs'[i] = jobs[i]
  BY DEF Work, WorkerFails, ReadBatch, RotateRow, ListFiles, StopFiles, FilesDone, ReadPdf, ReadFile,
         RotateLink, StartPut, EndPut, Checkpoint, ListLinks, StopLinks, Pause, Complete, AuditEnd,
         Undecryptable, Record, GiveBack, GotoWorker, TypeInv, TypeOK
<1>4. \/ stored' = stored
      \/ AtWork(j) /\ \E c \in Cells \cup {NoCell} : stored' = [stored EXCEPT ![c] = "new"]
      \/ StartPut(j)
  <2>1. CASE RotateRow(j)
    <3>1. ASSUME workers[j].batch # {} PROVE Pii(Lowest(workers[j].batch)) \in Cells
      <4>1. workers[j].batch \in SUBSET Sessions
        BY WorkerFields DEF TypeInv, TypeOK
      <4>2. QED
        BY <3>1, <4>1, LowestIsLowest, CellTypes
    <3>2. QED
      BY <2>1, <3>1 DEF RotateRow, AtWork, At
  <2>2. ASSUME NEW c \in Cells, RotateLink(j, c) PROVE AtWork(j) /\ stored' = [stored EXCEPT ![c] = "new"]
    BY <2>2 DEF RotateLink, AtWork, At
  <2>3. CASE EndPut(j)
    <3>1. workers[j].cell \in Cells \cup {NoCell}
      BY WorkerFields DEF TypeInv, TypeOK
    <3>2. QED
      BY <2>3, <3>1 DEF EndPut, AtWork, At
  <2>4. QED
    BY <2>1, <2>2, <2>3
       DEF Work, WorkerFails, ReadBatch, ListFiles, StopFiles, FilesDone, ReadPdf, ReadFile, Checkpoint,
           ListLinks, StopLinks, Pause, Complete, AuditEnd, Undecryptable, Record, GiveBack, data
<1>5. ASSUME StartPut(j) PROVE Unrotated' \subseteq Unrotated /\ AtWork(j)
  <2>1. stored[workers[j].cell] = "old" /\ stored' = [stored EXCEPT ![workers[j].cell] = "torn"]
    BY <1>5 DEF StartPut, At, WorkerInv, SessionInv
  <2>2. AtWork(j)
    BY <1>5 DEF StartPut, At, AtWork
  <2>3. ASSUME NEW c \in Unrotated' PROVE c \in Unrotated
    <3>1. c \in Rotated /\ c \in Cells /\ c \in rows /\ c \notin late /\ stored'[c] # "new"
      BY <1>2, <2>3, CellTypes DEF Unrotated
    <3>2. stored \in [Cells -> Keys]
      BY DEF TypeInv, TypeOK
    <3>3. stored[c] # "new"
      BY <2>1, <3>1, <3>2
    <3>4. QED
      BY <3>1, <3>3 DEF Unrotated
  <2>4. QED
    BY <2>2, <2>3
<1>6. Unrotated' \subseteq Unrotated
  <2>1. CASE stored' = stored
    BY <1>2, <2>1 DEF Unrotated
  <2>2. QED
    BY <1>2, <1>4, <1>5, <2>1, RekeyShrinks
<1>7. QED
  BY <1>1, <1>2, <1>3, <1>4, <1>5, <1>6

LEMMA ProgressKept ==
  ASSUME NEW j \in Jobs, WorkerInv(j), jobs'[j] = jobs[j], jobs[j].status # "none",
         Unrotated' \subseteq Unrotated,
         workers'[j].last = workers[j].last, workers'[j].pc \notin {"links", "link"}
  PROVE  ProgressInv(j)' /\ NewJobInv(j)'
  BY DEF WorkerInv, ProgressInv, NewJobInv, Done

LEMMA BatchKept ==
  ASSUME NEW j \in Jobs, WorkerInv(j), rows' = rows, late' = late,
         workers'[j].last = workers[j].last, workers'[j].batch = workers[j].batch,
         workers'[j].session = workers[j].session,
         workers[j].pc \in Within, workers'[j].pc \in Within
  PROVE  BatchInv(j)'
  BY DEF WorkerInv, BatchInv

(* Outside a session only the order of the batch is to be kept. *)
LEMMA OutsideKept ==
  ASSUME NEW j \in Jobs, WorkerInv(j), rows' = rows, late' = late,
         workers'[j].last = workers[j].last, workers'[j].batch \subseteq workers[j].batch,
         workers'[j].pc \notin Within \cup {"row"}
  PROVE  BatchInv(j)' /\ SessionInv(j)'
  BY DEF WorkerInv, BatchInv, SessionInv, Within

(* A session whose files and PDF are done becomes the last one, and between it and     *)
(* the one before there was nothing to do.                                             *)
LEMMA SessionDoneKept ==
  ASSUME TypeInv, WriteInv, NEW j \in Jobs, WorkerInv(j), workers[j].pc \in Within,
         workers' = [workers EXCEPT ![j] = SessionDone(workers[j])],
         rows' = rows, late' = late, jobs'[j] = jobs[j], jobs[j].status # "none",
         Unrotated' \subseteq Unrotated, Pdf(workers[j].session) \notin Unrotated',
         FilesIn(workers[j].session) \cap Unrotated' = {}
  PROVE  WorkerInv(j)'
<1> DEFINE worker == workers[j]
           s0 == worker.session
<1>1. worker \in WorkerRec /\ workers \in [Jobs -> WorkerRec]
  BY DEF TypeInv, TypeOK
<1>2. /\ worker.batch \subseteq Sessions /\ s0 \in worker.batch /\ worker.last < s0
      /\ \A s \in worker.batch : s0 <= s
      /\ s0 \in Nat /\ worker.last \in Nat
  BY <1>1, WorkerFields, PositionFacts DEF WorkerInv, BatchInv
<1>n. \A s \in Sessions : s \in Nat
  BY PositionFacts
<1>3. /\ SessionDone(worker).pc = "row" /\ SessionDone(worker).last = s0
      /\ SessionDone(worker).batch = worker.batch \ {s0}
  BY <1>1 DEF SessionDone, WorkerRec
<1>4. workers'[j].pc = "row" /\ workers'[j].last = s0 /\ workers'[j].batch = worker.batch \ {s0}
  BY <1>1, <1>3
<1>5. \A s \in Sessions, t \in worker.batch :
        worker.last < s /\ s <= t /\ Pii(s) \in rows \ late => s \in worker.batch
  BY DEF WorkerInv, BatchInv
<1>6. BatchInv(j)'
  <2>1. ASSUME NEW s \in worker.batch \ {s0} PROVE s0 < s
    <3>1. s \in Nat /\ s0 \in Nat /\ s0 <= s /\ s # s0
      BY <1>2, <1>n
    <3>2. QED
      BY ONLY <3>1
  <2>2. ASSUME NEW s \in Sessions, NEW t \in worker.batch \ {s0}, s0 < s, s <= t, Pii(s) \in rows \ late
        PROVE  s \in worker.batch \ {s0}
    <3>1. worker.last < s /\ s # s0
      BY <1>2, <2>2, PositionFacts
    <3>2. QED
      BY <1>5, <2>2, <3>1
  <2>3. QED
    BY <1>4, <2>1, <2>2 DEF BatchInv, Within
<1>7. SessionInv(j)'
  BY <1>4 DEF SessionInv, Within
<1>8. ASSUME NEW s \in Sessions, s <= s0 PROVE Done(s)'
  <2>1. CASE s <= worker.last
    BY <2>1 DEF WorkerInv, ProgressInv, Done
  <2>2. CASE s = s0
    <3>1. Pii(s0) \notin Unrotated'
      BY DEF WorkerInv, SessionInv
    <3>2. QED
      BY <2>2, <3>1 DEF Done, CellsOf
  <2>3. CASE worker.last < s /\ s < s0
    <3>1. s \notin worker.batch
      <4>1. s \in Nat /\ s0 \in Nat
        BY <1>2, <1>n
      <4>2. QED
        BY <1>2, <2>3, <4>1
    <3>2. s <= s0
      BY <1>8
    <3>3. Pii(s) \notin rows \ late
      BY <1>2, <1>5, <2>3, <3>1, <3>2
    <3>4. QED
      BY <3>3, SkippedIsDone DEF Done
  <2>4. QED
    <3>1. s \in Nat /\ s0 \in Nat /\ worker.last \in Nat /\ s <= s0
      BY <1>2, <1>8, <1>n
    <3>2. s <= worker.last \/ s = s0 \/ (worker.last < s /\ s < s0)
      BY ONLY <3>1
    <3>3. QED
      BY <2>1, <2>2, <2>3, <3>2
<1>9. ASSUME NEW s \in Sessions, s <= jobs[j].cursor PROVE Done(s)'
  BY <1>9 DEF WorkerInv, ProgressInv, Done
<1>10. ProgressInv(j)' /\ NewJobInv(j)'
  <2>1. jobs[j].status = "completed" => Unrotated' = {}
    BY DEF WorkerInv, ProgressInv
  <2>2. QED
    BY <1>4, <1>8, <1>9, <2>1 DEF ProgressInv, NewJobInv
<1>11. QED
  BY <1>6, <1>7, <1>10 DEF WorkerInv

(* The worker's own steps, one by one. *)
LEMMA WorkerStep ==
  ASSUME TypeInv, WriteInv, NEW j \in Jobs, WorkerInv(j), Work(j) \/ WorkerFails(j)
  PROVE  WorkerInv(j)'
<1> DEFINE worker == workers[j]
           s0 == worker.session
<1>a. /\ worker \in WorkerRec /\ workers \in [Jobs -> WorkerRec] /\ jobs \in [Jobs -> JobRow]
      /\ stored \in [Cells -> Keys] /\ rows \subseteq Cells
  BY DEF TypeInv, TypeOK
<1>b. /\ rows' = rows /\ late' = late /\ Unrotated' \subseteq Unrotated
      /\ jobs[j].status # "none"
  BY WorkShrinks
<1>c. BatchInv(j) /\ SessionInv(j) /\ ProgressInv(j)
  BY DEF WorkerInv
<1>d. Unrotated' \subseteq rows
  BY <1>b DEF Unrotated
<1> USE DEF At, GotoWorker
<1>1. CASE ReadBatch(j)
  <2>1. worker.last \in Positions
    BY <1>a, WorkerFields
  <2>2. DEFINE batch == NextBatch(worker.last)
  <2>3. /\ batch \subseteq {s \in Sessions : s > worker.last /\ Pii(s) \in rows}
        /\ \A s \in Sessions, t \in batch : worker.last < s /\ s <= t /\ Pii(s) \in rows => s \in batch
        /\ batch = {} => \A s \in Sessions : worker.last < s => Pii(s) \notin rows
    BY <2>1, NextBatchFacts
  <2>4. /\ workers'[j].pc = IF shutdown THEN "pause" ELSE IF batch = {} THEN "links" ELSE "row"
        /\ workers'[j].batch = IF shutdown THEN {} ELSE batch
        /\ workers'[j].last = worker.last
        /\ jobs' = jobs
    BY <1>1, <1>a DEF ReadBatch, WorkerRec
  <2> HIDE DEF batch
  <2>5. \A s \in batch : worker.last < s
    <3>1. ASSUME NEW s \in batch PROVE worker.last < s
      <4>1. s > worker.last /\ s \in Nat /\ worker.last \in Nat
        BY <2>1, <2>3, PositionFacts
      <4>2. QED
        BY ONLY <4>1
    <3>2. QED
      BY <3>1
  <2>6. BatchInv(j)' /\ SessionInv(j)'
    BY <1>b, <2>3, <2>4, <2>5 DEF BatchInv, SessionInv, Within
  <2>7. ASSUME batch = {}, NEW s \in Sessions PROVE Done(s)'
    <3>1. CASE s <= worker.last
      BY <1>b, <1>c, <3>1 DEF ProgressInv, Done
    <3>2. CASE worker.last < s
      BY <1>b, <2>3, <2>7, <3>2, SkippedIsDone DEF Done
    <3>3. s \in Nat /\ worker.last \in Nat
      BY <2>1, PositionFacts
    <3>4. QED
      BY <3>1, <3>2, <3>3
  <2>8. \A s \in Sessions : s <= jobs'[j].cursor \/ s <= workers'[j].last => Done(s)'
    BY <1>b, <1>c, <2>4 DEF ProgressInv, Done
  <2>9. ProgressInv(j)' /\ NewJobInv(j)'
    BY <1>b, <1>c, <2>4, <2>7, <2>8 DEF ProgressInv, NewJobInv
  <2>10. QED
    BY <2>6, <2>9 DEF WorkerInv
<1>2. CASE RotateRow(j)
  <2>1. CASE worker.batch = {} \/ shutdown
    <3>1. /\ workers'[j].pc = "checkpoint" /\ workers'[j].last = worker.last
          /\ workers'[j].batch = worker.batch /\ jobs' = jobs
      BY <1>2, <1>a, <2>1 DEF RotateRow, WorkerRec
    <3>2. BatchInv(j)' /\ SessionInv(j)' /\ ProgressInv(j)' /\ NewJobInv(j)'
      BY <1>b, <3>1, OutsideKept, ProgressKept DEF Within
    <3>3. QED
      BY <3>2 DEF WorkerInv
  <2>2. CASE ~ (worker.batch = {} \/ shutdown)
    <3>1. DEFINE s == Lowest(worker.batch)
    <3>2. s \in worker.batch /\ s \in Sessions /\ \A t \in worker.batch : s <= t
      BY <1>a, <2>2, WorkerFields, LowestIsLowest
    <3>3. /\ stored' = [stored EXCEPT ![Pii(s)] = "new"]
          /\ workers' = [workers EXCEPT ![j] = [worker EXCEPT !.pc = "list", !.session = s]]
          /\ jobs' = jobs /\ worker.pc = "row"
      BY <1>2, <2>2 DEF RotateRow
    <3> HIDE DEF s
    <3>4. /\ workers'[j].pc = "list" /\ workers'[j].last = worker.last
          /\ workers'[j].batch = worker.batch /\ workers'[j].session = s
      BY <1>a, <3>3 DEF WorkerRec
    <3>5. BatchInv(j)'
      BY <1>b, <1>c, <3>2, <3>3, <3>4 DEF BatchInv, Within
    <3>6. Pii(s) \notin Unrotated'
      BY <1>b, <3>3, RekeyShrinks
    <3>7. SessionInv(j)'
      BY <3>4, <3>6 DEF SessionInv
    <3>8. ProgressInv(j)' /\ NewJobInv(j)'
      BY <1>b, <3>3, <3>4, ProgressKept
    <3>9. QED
      BY <3>5, <3>7, <3>8 DEF WorkerInv
  <2>3. QED
    BY <2>1, <2>2
<1>3. CASE ListFiles(j)
  <2>1. /\ workers'[j].pc = "files" /\ workers'[j].last = worker.last
        /\ workers'[j].batch = worker.batch /\ workers'[j].session = s0
        /\ workers'[j].todo = FilesIn(s0) \cap rows /\ jobs' = jobs /\ worker.pc = "list"
    BY <1>3, <1>a DEF ListFiles, WorkerRec
  <2>2. BatchInv(j)' /\ ProgressInv(j)' /\ NewJobInv(j)'
    BY <1>b, <2>1, BatchKept, ProgressKept DEF Within
  <2>3. SessionInv(j)'
    BY <1>b, <1>c, <1>d, <2>1 DEF SessionInv, Left, Within
  <2>4. QED
    BY <2>2, <2>3 DEF WorkerInv
<1>4. ASSUME NEW c \in Cells, ReadFile(j, c) PROVE WorkerInv(j)'
  <2>1. /\ workers'[j].pc = IF stored[c] = "old" THEN "put" ELSE "files"
        /\ workers'[j].todo = worker.todo \ {c}
        /\ workers'[j].cell = IF stored[c] = "old" THEN c ELSE NoCell
        /\ workers'[j].last = worker.last
        /\ workers'[j].batch = worker.batch /\ workers'[j].session = s0
        /\ jobs' = jobs /\ worker.pc = "files"
        /\ c \in worker.todo /\ stored[c] \in {"old", "new"} /\ stored' = stored
    BY <1>4, <1>a DEF ReadFile, WorkerRec, data
  <2>2. BatchInv(j)' /\ ProgressInv(j)' /\ NewJobInv(j)'
    BY <1>b, <2>1, BatchKept, ProgressKept DEF Within
  <2>3. stored[c] = "new" => c \notin Unrotated'
    BY <1>b, <2>1 DEF Unrotated
  <2>4. Pii(s0) \notin Unrotated' /\ FilesIn(s0) \cap Unrotated' \subseteq worker.todo
    BY <1>b, <1>c, <2>1 DEF SessionInv, Left, Within
  <2>5. worker.todo \subseteq FilesIn(s0)
    BY <1>c, <2>1 DEF SessionInv, Within
  <2>6. SessionInv(j)'
    BY <2>1, <2>3, <2>4, <2>5 DEF SessionInv, Left
  <2>7. QED
    BY <2>2, <2>6 DEF WorkerInv
<1>5. CASE StopFiles(j)
  <2>1. /\ workers'[j].pc = "checkpoint" /\ workers'[j].last = worker.last
        /\ workers'[j].batch = {} /\ jobs' = jobs
    BY <1>5, <1>a, PositionFacts DEF StopFiles, WorkerRec
  <2>2. BatchInv(j)' /\ SessionInv(j)' /\ ProgressInv(j)' /\ NewJobInv(j)'
    BY <1>b, <2>1, OutsideKept, ProgressKept DEF Within
  <2>3. QED
    BY <2>2 DEF WorkerInv
<1>6. CASE FilesDone(j)
  <2>1. /\ workers'[j].pc = "pdf" /\ workers'[j].last = worker.last
        /\ workers'[j].batch = worker.batch /\ workers'[j].session = s0
        /\ jobs' = jobs /\ worker.pc = "files" /\ worker.todo = {} /\ workers'[j].todo = {}
    BY <1>6, <1>a DEF FilesDone, WorkerRec
  <2>2. BatchInv(j)' /\ ProgressInv(j)' /\ NewJobInv(j)'
    BY <1>b, <2>1, BatchKept, ProgressKept DEF Within
  <2>3. SessionInv(j)'
    BY <1>b, <1>c, <2>1 DEF SessionInv, Left, Within
  <2>4. QED
    BY <2>2, <2>3 DEF WorkerInv
<1>7. CASE ReadPdf(j)
  <2>1. worker.pc = "pdf" /\ jobs' = jobs /\ stored' = stored
    BY <1>7 DEF ReadPdf, data
  <2>2. CASE Pdf(s0) \in rows /\ stored[Pdf(s0)] = "old"
    <3>1. /\ workers'[j].pc = "put" /\ workers'[j].last = worker.last
          /\ workers'[j].batch = worker.batch /\ workers'[j].session = s0
          /\ workers'[j].cell = Pdf(s0) /\ workers'[j].todo = worker.todo
      BY <1>7, <1>a, <2>2 DEF ReadPdf, WorkerRec
    <3>2. BatchInv(j)' /\ ProgressInv(j)' /\ NewJobInv(j)'
      BY <1>b, <2>1, <3>1, BatchKept, ProgressKept DEF Within
    <3>3. SessionInv(j)'
      BY <1>b, <1>c, <2>1, <2>2, <3>1 DEF SessionInv, Left, Within
    <3>4. QED
      BY <3>2, <3>3 DEF WorkerInv
  <2>3. CASE ~ (Pdf(s0) \in rows /\ stored[Pdf(s0)] = "old")
    <3>1. workers' = [workers EXCEPT ![j] = SessionDone(worker)]
      BY <1>7, <2>3 DEF ReadPdf
    <3>2. Pdf(s0) \notin rows \/ stored[Pdf(s0)] = "new"
      BY <1>7, <2>3 DEF ReadPdf
    <3>3. Pdf(s0) \notin Unrotated'
      BY <1>b, <2>1, <3>2 DEF Unrotated
    <3>4. FilesIn(s0) \cap Unrotated' = {}
      BY <1>b, <1>c, <2>1 DEF SessionInv, Left
    <3>5. QED
      BY <1>b, <2>1, <3>1, <3>3, <3>4, SessionDoneKept DEF Within
  <2>4. QED
    BY <2>2, <2>3
<1>8. CASE StartPut(j)
  <2>1. /\ workers'[j].pc = "putting" /\ workers'[j].last = worker.last
        /\ workers'[j].batch = worker.batch /\ workers'[j].session = s0
        /\ workers'[j].cell = worker.cell /\ workers'[j].todo = worker.todo
        /\ jobs' = jobs /\ worker.pc = "put"
    BY <1>8, <1>a DEF StartPut, WorkerRec
  <2>2. BatchInv(j)' /\ ProgressInv(j)' /\ NewJobInv(j)'
    BY <1>b, <2>1, BatchKept, ProgressKept DEF Within
  <2>3. SessionInv(j)'
    BY <1>b, <1>c, <2>1 DEF SessionInv, Left, Within
  <2>4. QED
    BY <2>2, <2>3 DEF WorkerInv
<1>9. CASE EndPut(j)
  <2>1. /\ worker.pc = "putting" /\ jobs' = jobs
        /\ workers' = [workers EXCEPT ![j] = AfterPut(worker)]
        /\ stored' = [stored EXCEPT ![worker.cell] = "new"]
    BY <1>9 DEF EndPut
  <2>2. worker.cell \notin Unrotated'
    BY <1>b, <2>1, RekeyShrinks
  <2>3. s0 \in Sessions
    BY <1>a, <1>c, <2>1, WorkerFields DEF BatchInv, Within
  <2>4. CASE worker.cell \in FileCells
    <3>1. /\ workers'[j].pc = "files" /\ workers'[j].last = worker.last
          /\ workers'[j].batch = worker.batch /\ workers'[j].session = s0
          /\ workers'[j].todo = worker.todo
      BY <1>a, <2>1, <2>4 DEF AfterPut, WorkerRec
    <3>2. BatchInv(j)' /\ ProgressInv(j)' /\ NewJobInv(j)'
      BY <1>b, <2>1, <3>1, BatchKept, ProgressKept DEF Within
    <3>3. FilesIn(s0) \cap Unrotated \subseteq worker.todo \cup {worker.cell}
      BY <1>c, <2>1 DEF SessionInv, Left
    <3>4. Pii(s0) \notin Unrotated
      BY <1>c, <2>1 DEF SessionInv, Within
    <3>5. SessionInv(j)'
      BY <1>b, <1>c, <2>1, <2>2, <3>1, <3>3, <3>4 DEF SessionInv, Left, Within
    <3>6. QED
      BY <3>2, <3>5 DEF WorkerInv
  <2>5. CASE worker.cell \notin FileCells
    <3>1. worker.cell = Pdf(s0) /\ FilesIn(s0) \cap Unrotated = {}
      BY <1>c, <2>1, <2>3, <2>5, CellTypes DEF SessionInv, Left
    <3>2. workers' = [workers EXCEPT ![j] = SessionDone(worker)]
      BY <2>1, <2>5 DEF AfterPut
    <3>3. QED
      BY <1>b, <2>1, <2>2, <3>1, <3>2, SessionDoneKept DEF Within
  <2>6. QED
    BY <2>4, <2>5
<1>10. CASE Checkpoint(j)
  <2>1. /\ workers'[j].pc = "batch" /\ workers'[j].last = worker.last /\ workers'[j].batch = {}
    BY <1>10, <1>a DEF Checkpoint, WorkerRec
  <2>2. jobs'[j].cursor = worker.last /\ jobs'[j].status = jobs[j].status
    <3>1. worker.last \in Positions
      BY <1>a, WorkerFields
    <3>2. jobs'[j] = [jobs[j] EXCEPT !.cursor = worker.last]
      BY <1>10, <1>a DEF Checkpoint
    <3>3. QED
      BY <1>a, <3>1, <3>2, JobRowMade
  <2>3. BatchInv(j)' /\ SessionInv(j)'
    BY <1>b, <2>1, OutsideKept DEF Within
  <2>4. ProgressInv(j)' /\ NewJobInv(j)'
    BY <1>b, <1>c, <2>1, <2>2 DEF ProgressInv, NewJobInv, Done
  <2>5. QED
    BY <2>3, <2>4 DEF WorkerInv
<1>11. CASE ListLinks(j)
  <2>1. /\ workers'[j].last = worker.last /\ workers'[j].batch = worker.batch
        /\ \/ workers'[j].pc = "pause"
           \/ workers'[j].pc = "link" /\ workers'[j].todo = LinkCells \cap rows
        /\ jobs' = jobs /\ worker.pc = "links"
    BY <1>11, <1>a DEF ListLinks, WorkerRec
  <2>2. BatchInv(j)' /\ SessionInv(j)'
    BY <1>b, <2>1, OutsideKept DEF Within
  <2>3. ProgressInv(j)' /\ NewJobInv(j)'
    BY <1>b, <1>c, <1>d, <2>1 DEF ProgressInv, NewJobInv, Done
  <2>4. QED
    BY <2>2, <2>3 DEF WorkerInv
<1>12. ASSUME NEW c \in Cells, RotateLink(j, c) PROVE WorkerInv(j)'
  <2>1. /\ workers'[j].last = worker.last /\ workers'[j].batch = worker.batch
        /\ workers'[j].pc = "link" /\ workers'[j].todo = worker.todo \ {c}
        /\ jobs' = jobs /\ worker.pc = "link"
        /\ stored' = [stored EXCEPT ![c] = "new"]
    BY <1>12, <1>a DEF RotateLink, WorkerRec
  <2>2. BatchInv(j)' /\ SessionInv(j)'
    BY <1>b, <2>1, OutsideKept DEF Within
  <2>3. c \notin Unrotated'
    BY <1>b, <2>1, RekeyShrinks
  <2>4. ProgressInv(j)' /\ NewJobInv(j)'
    BY <1>b, <1>c, <2>1, <2>3 DEF ProgressInv, NewJobInv, Done
  <2>5. QED
    BY <2>2, <2>4 DEF WorkerInv
<1>13. CASE StopLinks(j)
  <2>1. /\ workers'[j].pc = "pause" /\ workers'[j].last = worker.last
        /\ workers'[j].batch = worker.batch /\ jobs' = jobs
    BY <1>13, <1>a DEF StopLinks, WorkerRec
  <2>2. BatchInv(j)' /\ SessionInv(j)' /\ ProgressInv(j)' /\ NewJobInv(j)'
    BY <1>b, <2>1, OutsideKept, ProgressKept DEF Within
  <2>3. QED
    BY <2>2 DEF WorkerInv
<1>14. CASE Pause(j) \/ Complete(j)
  <2>1. PICK status \in {"paused", "completed"} :
          /\ Record(j, status)
          /\ status = "completed" => worker.pc = "link" /\ worker.todo = {}
    BY <1>14 DEF Pause, Complete
  <2>2. jobs'[j].status = status /\ jobs'[j].cursor \in {jobs[j].cursor, worker.last}
    <3>1. jobs[j] \in JobRow
      BY <1>a
    <3>2. jobs'[j] = [jobs[j] EXCEPT !.status = status,
                                     !.cursor = IF status = "completed" THEN worker.last ELSE @]
      BY <1>a, <2>1 DEF Record
    <3>3. QED
      BY <3>1, <3>2 DEF JobRow
  <2>3. ASSUME status = "completed" PROVE Unrotated' = {}
    <3>1. /\ worker.pc = "link" /\ LinkCells \cap Unrotated = {}
          /\ \A s \in Sessions : Done(s)
      BY <1>c, <2>1, <2>3 DEF ProgressInv
    <3>2. Unrotated = {}
      BY <3>1, RotatedCells DEF Unrotated, Done
    <3>3. QED
      BY <1>b, <3>2
  <2>4. workers'[j] = [IdleWorker EXCEPT !.pc = "ended"]
    BY <1>a, <2>1 DEF Record
  <2>5. QED
    BY <1>b, <2>2, <2>3, <2>4, WorkerFresh
<1>15. CASE AuditEnd(j) \/ Undecryptable(j) \/ WorkerFails(j)
  <2>1. workers'[j] = IdleWorker
    BY <1>15, <1>a DEF AuditEnd, Undecryptable, WorkerFails, GiveBack
  <2>2. jobs'[j].status \in {jobs[j].status, "failed"} /\ jobs'[j].cursor = jobs[j].cursor
    <3>1. jobs'[j] = jobs[j] \/ jobs'[j] = [jobs[j] EXCEPT !.status = "failed"]
      BY <1>15, <1>a DEF AuditEnd, Undecryptable, WorkerFails
    <3>2. jobs[j] \in JobRow /\ "failed" \in JobStatuses
      BY <1>a DEF JobStatuses
    <3>3. /\ [jobs[j] EXCEPT !.status = "failed"].status = "failed"
          /\ [jobs[j] EXCEPT !.status = "failed"].cursor = jobs[j].cursor
      BY <3>2, JobRowMade
    <3>4. QED
      BY <3>1, <3>3
  <2>3. jobs'[j].status = "completed" => Unrotated' = {}
    BY <1>b, <1>c, <2>2 DEF ProgressInv
  <2>4. QED
    BY <1>b, <2>1, <2>2, <2>3, WorkerFresh
<1>16. QED
  BY <1>1, <1>2, <1>3, <1>4, <1>5, <1>6, <1>7, <1>8, <1>9, <1>10, <1>11, <1>12, <1>13, <1>14, <1>15
     DEF Work

LEMMA InitRotation == Init => RotationInv
<1> SUFFICES ASSUME Init PROVE RotationInv
  OBVIOUS
<1>1. ASSUME NEW j \in Jobs PROVE WorkerInv(j)
  <2>1. jobs[j].status = "none" /\ jobs[j].cursor = None /\ workers[j] = IdleWorker
    BY DEF Init
  <2>2. workers[j].pc = "idle" /\ workers[j].last = None /\ workers[j].batch = {}
    BY <2>1, IdleFields
  <2>3. \A s \in Sessions : ~ (s <= None)
    <3>1. \A s \in Sessions : s \in Nat /\ None \in Nat /\ None < s
      BY PositionFacts
    <3>2. QED
      BY <3>1
  <2>4. BatchInv(j) /\ SessionInv(j) /\ NewJobInv(j)
    BY <2>1, <2>2 DEF BatchInv, SessionInv, NewJobInv, Within
  <2>5. ProgressInv(j)
    BY <2>1, <2>2, <2>3 DEF ProgressInv
  <2>6. QED
    BY <2>4, <2>5 DEF WorkerInv
<1>2. QED
  BY <1>1, InitTyped, InitWrite DEF RotationInv

(* Before a job has started all are as they were. *)
LEMMA NotStarted ==
  ASSUME RotationInv, ~ Started', jobs' = jobs, workers' = workers, NEW j \in Jobs
  PROVE  WorkerInv(j)'
<1>1. jobs[j].status = "none"
  BY DEF Started, TypeInv, TypeOK, RotationInv
<1>2. jobs[j].cursor = None /\ workers[j] = IdleWorker
  BY <1>1 DEF RotationInv, WorkerInv, NewJobInv
<1>3. QED
  BY <1>1, <1>2, WorkerNew

LEMMA WritingKept == RotationInv /\ Writing => RotationInv'
<1> SUFFICES ASSUME RotationInv, Writing PROVE RotationInv'
  OBVIOUS
<1>1. TypeInv /\ WriteInv
  BY DEF RotationInv
<1>2. TypeInv'
  BY <1>1, WriterTyped DEF Writing
<1>3. WriteInv'
  <2>1. writers' \in [Writers -> WriterRec]
    BY <1>2 DEF TypeInv, TypeOK
  <2>2. QED
    BY <1>1, WritingKeepsRows, WritingKeepsWriters DEF WriteInv
<1>4. jobs' = jobs /\ workers' = workers
  BY <1>1, WritingData
<1>5. ASSUME NEW j \in Jobs PROVE WorkerInv(j)'
  <2>1. CASE ~ Started
    <3>1. ~ Started'
      BY <1>4, <2>1 DEF Started
    <3>2. QED
      BY <1>4, <3>1, NotStarted
  <2>2. CASE Started
    <3>1. Unrotated' \subseteq Unrotated /\ rows' \ late' \subseteq rows \ late
      BY <1>1, <2>2, WritingData
    <3>2. ASSUME workers[j].pc = "put" PROVE stored'[workers[j].cell] = "old"
      <4>1. stored[workers[j].cell] = "old"
        BY <3>2 DEF RotationInv, WorkerInv, SessionInv
      <4>2. workers[j].cell \in Cells
        <5>1. workers[j].session \in Sessions
          BY <3>2, <1>1, WorkerFields DEF RotationInv, WorkerInv, BatchInv, Within, TypeInv, TypeOK
        <5>2. QED
          BY <3>2, <5>1, CellTypes DEF RotationInv, WorkerInv, SessionInv
      <4>3. QED
        BY <1>1, <4>1, <4>2, WritingData
    <3>3. QED
      BY <1>4, <3>1, <3>2, WorkerKept DEF RotationInv
  <2>3. QED
    BY <2>1, <2>2
<1>6. QED
  BY <1>2, <1>3, <1>5 DEF RotationInv

LEMMA WorkKept ==
  ASSUME RotationInv, OneWorker, NEW j \in Jobs, Work(j) \/ WorkerFails(j)
  PROVE  RotationInv' /\ Started /\ Started' /\ Unrotated' \subseteq Unrotated
<1>1. TypeInv /\ WriteInv /\ WorkerInv(j)
  BY DEF RotationInv
<1>2. TypeInv'
  BY <1>1, WorkTyped
<1>3. WorkerInv(j)'
  BY <1>1, WorkerStep
<1>4. /\ rows' = rows /\ late' = late /\ writers' = writers /\ Unrotated' \subseteq Unrotated
      /\ stored' = stored \/ AtWork(j)
      /\ \A i \in Jobs \ {j} : workers'[i] = workers[i] /\ jobs'[i] = jobs[i]
  BY <1>1, WorkShrinks
<1>5. Started'
  <2>1. jobs'[j].status # "none" \/ workers'[j] = IdleWorker
    BY <1>3 DEF WorkerInv, NewJobInv
  <2>2. jobs[j].status # "none" /\ jobs[j] \in JobRow
    BY <1>1, WorkShrinks DEF TypeInv, TypeOK
  <2>3. jobs'[j].status # "none"
    <3>1. CASE jobs' = jobs
      BY <2>2, <3>1
    <3>2. CASE jobs'[j] = [jobs[j] EXCEPT !.status = "failed"]
      BY <2>2, <3>2 DEF JobRow
    <3>3. ASSUME NEW status \in {"paused", "completed"}, Record(j, status) PROVE jobs'[j].status = status
      <4>1. jobs'[j] = [jobs[j] EXCEPT !.status = status,
                                       !.cursor = IF status = "completed" THEN workers[j].last ELSE @]
        BY <1>1, <3>3 DEF Record, TypeInv, TypeOK
      <4>2. QED
        BY <2>2, <4>1 DEF JobRow
    <3>4. CASE Checkpoint(j)
      <4>1. jobs'[j] = [jobs[j] EXCEPT !.cursor = workers[j].last]
        BY <1>1, <3>4 DEF Checkpoint, TypeInv, TypeOK
      <4>2. QED
        BY <2>2, <4>1 DEF JobRow
    <3>5. \/ jobs' = jobs \/ jobs' = [jobs EXCEPT ![j].status = "failed"]
          \/ Record(j, "paused") \/ Record(j, "completed") \/ Checkpoint(j)
      BY DEF Work, WorkerFails, ReadBatch, RotateRow, ListFiles, StopFiles, FilesDone, ReadPdf, ReadFile,
             RotateLink, StartPut, EndPut, ListLinks, StopLinks, Pause, Complete, AuditEnd, Undecryptable
    <3>6. jobs' = [jobs EXCEPT ![j].status = "failed"] => jobs'[j] = [jobs[j] EXCEPT !.status = "failed"]
      BY <1>1 DEF TypeInv, TypeOK
    <3>7. QED
      BY <3>1, <3>2, <3>3, <3>4, <3>5, <3>6
  <2>4. QED
    BY <2>3 DEF Started
<1>6. WriteInv'
  BY <1>1, <1>4, <1>5, OthersKeepWrite
<1>7. ASSUME NEW i \in Jobs \ {j} PROVE WorkerInv(i)'
  <2>1. ASSUME workers[i].pc = "put" PROVE stored'[workers[i].cell] = "old"
    <3>1. AtWork(i)
      BY <2>1 DEF AtWork
    <3>2. stored' = stored
      BY <1>4, <3>1 DEF OneWorker
    <3>3. QED
      BY <2>1, <3>2 DEF RotationInv, WorkerInv, SessionInv
  <2>2. QED
    BY <1>4, <2>1, WorkerKept DEF RotationInv
<1>8. Started
  BY <1>1, WorkShrinks DEF Started
<1>9. QED
  BY <1>2, <1>3, <1>4, <1>5, <1>6, <1>7, <1>8 DEF RotationInv

LEMMA AdminKept ==
  ASSUME RotationInv, NEW a \in Admins, Admin(a)
  PROVE  RotationInv' /\ rows' = rows /\ late' = late /\ stored' = stored
<1>1. TypeInv /\ WriteInv
  BY DEF RotationInv
<1>2. TypeInv'
  BY <1>1, AdminTyped
<1>3. rows' = rows /\ late' = late /\ stored' = stored /\ writers' = writers
  BY DEF Admin, StartOpenGate, OpenGate, StartRotate, Claim, Rotate, Resume, AuditResume, AdminFails, data
<1>4. Unrotated' = Unrotated
  BY <1>3 DEF Unrotated
<1>5. ASSUME NEW j \in Jobs, jobs'[j] = jobs[j], workers'[j] = workers[j] PROVE WorkerInv(j)'
  BY <1>3, <1>4, <1>5, WorkerKept DEF RotationInv, WorkerInv, SessionInv
<1>6. CASE jobs' = jobs /\ workers' = workers
  <2>1. Started' = Started
    BY <1>6 DEF Started
  <2>2. WriteInv'
    BY <1>1, <1>3, <2>1, OthersKeepWrite
  <2>3. QED
    BY <1>2, <1>3, <1>5, <1>6, <2>2 DEF RotationInv
<1>7. ASSUME NEW j \in Jobs, Dispatch(j), jobs[j].status # "completed" PROVE RotationInv'
  <2>1. /\ jobs \in [Jobs -> JobRow] /\ workers \in [Jobs -> WorkerRec] /\ "running" \in JobStatuses
    BY <1>1 DEF TypeInv, TypeOK, JobStatuses
  <2>2. /\ \A i \in Jobs \ {j} : jobs'[i] = jobs[i] /\ workers'[i] = workers[i]
        /\ jobs'[j] = [jobs[j] EXCEPT !.status = "running"]
        /\ workers'[j] = [IdleWorker EXCEPT !.pc = "batch", !.last = jobs[j].cursor]
    BY <1>7, <2>1 DEF Dispatch
  <2>3. jobs'[j].status = "running" /\ jobs'[j].cursor = jobs[j].cursor
    BY <2>1, <2>2, JobRowMade
  <2>4. WorkerInv(j)
    BY DEF RotationInv
  <2>5. WorkerInv(j)'
    BY <1>4, <2>2, <2>3, <2>4, WorkerFresh
  <2>6. Started'
    BY <2>3 DEF Started
  <2>7. WriteInv'
    BY <1>1, <1>3, <2>6, OthersKeepWrite
  <2>8. QED
    BY <1>2, <1>5, <2>2, <2>5, <2>7 DEF RotationInv
<1>8. CASE Rotate(a) \/ Resume(a)
  <2>1. admins[a].job \in Jobs
    BY <1>1, <1>8 DEF Rotate, Resume, TypeInv, JobInv
  <2>2. \/ jobs' = jobs /\ workers' = workers
        \/ Dispatch(admins[a].job) /\ jobs[admins[a].job].status # "completed"
    BY <1>8 DEF Rotate, Resume
  <2>3. QED
    BY <1>3, <1>6, <1>7, <2>1, <2>2
<1>9. CASE ~ (Rotate(a) \/ Resume(a))
  <2>1. jobs' = jobs /\ workers' = workers
    BY <1>9 DEF Admin, StartOpenGate, OpenGate, StartRotate, Claim, AuditResume, AdminFails
  <2>2. QED
    BY <1>6, <2>1
<1>10. QED
  BY <1>8, <1>9

LEMMA ProcessKept ==
  ASSUME RotationInv, CloseGate \/ Sigterm \/ Exit \/ Boot \/ UNCHANGED vars
  PROVE  RotationInv' /\ rows' = rows /\ late' = late /\ stored' = stored /\ jobs' = jobs
<1>1. TypeInv /\ WriteInv
  BY DEF RotationInv
<1>2. TypeInv'
  BY <1>1, ProcessTyped, NextTyped
<1>3. /\ rows' = rows /\ late' = late /\ stored' = stored /\ jobs' = jobs
      /\ writers' = writers \/ writers' = [w \in Writers |-> IdleWriter]
      /\ workers' = workers \/ workers' = [j \in Jobs |-> IdleWorker]
  BY DEF CloseGate, Sigterm, Exit, Boot, vars, data
<1>4. Unrotated' = Unrotated /\ Started' = Started
  BY <1>3 DEF Unrotated, Started
<1>5. WriteInv'
  BY <1>1, <1>3, <1>4, OthersKeepWrite
<1>6. ASSUME NEW j \in Jobs PROVE WorkerInv(j)'
  <2>1. CASE workers' = workers
    BY <1>3, <1>4, <2>1, WorkerKept DEF RotationInv, WorkerInv, SessionInv
  <2>2. CASE workers' = [i \in Jobs |-> IdleWorker]
    <3>1. WorkerInv(j) /\ workers'[j] = IdleWorker
      BY <2>2 DEF RotationInv
    <3>2. jobs[j].status = "completed" => Unrotated = {}
      BY <3>1 DEF WorkerInv, ProgressInv
    <3>3. CASE jobs[j].status = "none"
      BY <1>3, <3>1, <3>3, WorkerNew DEF WorkerInv, NewJobInv
    <3>4. CASE jobs[j].status # "none"
      BY <1>3, <1>4, <3>1, <3>2, <3>4, WorkerFresh
    <3>5. QED
      BY <3>3, <3>4
  <2>3. QED
    BY <1>3, <2>1, <2>2
<1>7. QED
  BY <1>2, <1>3, <1>5, <1>6 DEF RotationInv

LEMMA NextRotation == RotationInv /\ OneWorker /\ [Next]_vars => RotationInv'
<1> SUFFICES ASSUME RotationInv, OneWorker, [Next]_vars PROVE RotationInv'
  OBVIOUS
<1>1. QED
  BY WritingKept, WorkKept, AdminKept, ProcessKept DEF Next, Writing

LEMMA RotationInvariant == Spec /\ []OneWorker => []RotationInv
  BY InitRotation, NextRotation, PTL DEF Spec

LEMMA RotationImpliesSound == RotationInv => CheckpointSound
  BY DEF RotationInv, WorkerInv, ProgressInv, CheckpointSound, Done

(* Below the cursor of a job nothing is left to do, wherever its worker was stopped,   *)
(* killed or failed and whatever requests let in earlier store in the meantime, as     *)
(* long as no two workers run at once.                                                 *)
THEOREM CheckpointsAreSound == Spec /\ []OneWorker => []CheckpointSound
  BY RotationInvariant, RotationImpliesSound, PTL

(* With one job there is one worker, and nothing has to be supposed. *)
THEOREM CheckpointsOfOneJob ==
  ASSUME \A i, j \in Jobs : i = j
  PROVE  Spec => []CheckpointSound
<1>1. OneWorker
  BY DEF OneWorker
<1>2. QED
  BY <1>1, CheckpointsAreSound, PTL

-----------------------------------------------------------------------------
(* The refinement of KeyMigration. *)

Phase == IF Completed THEN "finished" ELSE IF Started THEN "started" ELSE "open"

LEMMA InitMigrates == Init => Migration!Init
<1> SUFFICES ASSUME Init PROVE Migration!Init
  OBVIOUS
<1>1. ~ Completed /\ ~ Started /\ Unrotated = {}
  BY DEF Init, Completed, Started, Unrotated
<1>2. QED
  BY <1>1 DEF Migration!Init

(* The steps that say how far a job has come do not touch what is stored, and those    *)
(* that touch it say nothing.                                                          *)
LEMMA JobsOrData ==
  ASSUME RotationInv, [Next]_vars
  PROVE  jobs' = jobs \/ Unrotated' = Unrotated
<1>1. \/ jobs' = jobs
      \/ stored' = stored /\ rows' = rows /\ late' = late
  <2>1. ASSUME NEW j \in Jobs, Work(j) \/ WorkerFails(j)
        PROVE  jobs' = jobs \/ (stored' = stored /\ rows' = rows /\ late' = late)
    BY <2>1 DEF Work, WorkerFails, ReadBatch, RotateRow, ListFiles, StopFiles, FilesDone, ReadPdf, ReadFile,
         RotateLink, StartPut, EndPut, Checkpoint, ListLinks, StopLinks, Pause, Complete, AuditEnd,
         Undecryptable, Record, GiveBack, data
  <2>2. CASE Writing
    BY <2>2, WritingData DEF RotationInv
  <2>3. QED
    BY <2>1, <2>2, AdminKept, ProcessKept DEF Next, Writing
<1>2. QED
  BY <1>1 DEF Unrotated

LEMMA AdminJobs ==
  ASSUME TypeInv, NEW a \in Admins, Admin(a)
  PROVE  jobs' = jobs \/ \E j \in Jobs : \A i \in Jobs : jobs'[i].status = IF i = j THEN "running" ELSE jobs[i].status
<1>1. CASE jobs' = jobs
  BY <1>1
<1>2. CASE jobs' # jobs
  <2>1. Dispatch(admins[a].job) /\ admins[a].job \in Jobs
    BY <1>2 DEF Admin, StartOpenGate, OpenGate, StartRotate, Claim, Rotate, Resume, AuditResume, AdminFails,
           TypeInv, JobInv
  <2>2. jobs' = [jobs EXCEPT ![admins[a].job].status = "running"]
    BY <2>1 DEF Dispatch
  <2>3. /\ \A i \in Jobs \ {admins[a].job} : jobs'[i] = jobs[i]
        /\ jobs'[admins[a].job] = [jobs[admins[a].job] EXCEPT !.status = "running"]
        /\ jobs[admins[a].job] \in JobRow
    BY <2>1, <2>2 DEF TypeInv, TypeOK
  <2>4. jobs'[admins[a].job].status = "running"
    BY <2>3, JobRowMade DEF JobStatuses
  <2>5. QED
    BY <2>1, <2>3, <2>4
<1>3. QED
  BY <1>1, <1>2

(* Once a job has started, one has started for good and what is left only shrinks;     *)
(* before, it only grows and no job finishes.                                          *)
LEMMA StartedFacts ==
  ASSUME RotationInv, OneWorker, [Next]_vars
  PROVE  /\ Started => Started' /\ Unrotated' \subseteq Unrotated
         /\ ~ Started => Unrotated \subseteq Unrotated' /\ ~ Completed'
<1>1. TypeInv
  BY DEF RotationInv
<1>2. ~ Started => ~ Completed
  BY DEF Started, Completed
<1>3. CASE Writing
  <2>1. Started' = Started /\ Completed' = Completed
    BY <1>1, <1>3, WritingData DEF Started, Completed
  <2>2. QED
    BY <1>1, <1>2, <1>3, <2>1, WritingData, WritingStores
<1>4. ASSUME NEW j \in Jobs, Work(j) \/ WorkerFails(j)
      PROVE  Started /\ Started' /\ Unrotated' \subseteq Unrotated
  BY <1>4, WorkKept
<1>5. ASSUME NEW a \in Admins, Admin(a)
      PROVE  /\ Unrotated' = Unrotated
             /\ Started => Started'
             /\ ~ Started => ~ Completed'
  <2>1. Unrotated' = Unrotated
    BY <1>5, AdminKept DEF Unrotated
  <2>2. CASE jobs' = jobs
    BY <1>2, <2>1, <2>2 DEF Started, Completed
  <2>3. CASE jobs' # jobs
    <3>1. PICK j \in Jobs : \A i \in Jobs : jobs'[i].status = IF i = j THEN "running" ELSE jobs[i].status
      BY <1>1, <1>5, <2>3, AdminJobs
    <3>2. QED
      BY <2>1, <3>1 DEF Started, Completed
  <2>4. QED
    BY <2>2, <2>3
<1>6. CASE CloseGate \/ Sigterm \/ Exit \/ Boot \/ UNCHANGED vars
  <2>1. Unrotated' = Unrotated /\ Started' = Started /\ Completed' = Completed
    BY <1>6, ProcessKept DEF Unrotated, Started, Completed
  <2>2. QED
    BY <1>2, <2>1
<1>7. QED
  BY <1>3, <1>4, <1>5, <1>6 DEF Next, Writing

LEMMA StepMigrates ==
  ASSUME RotationInv, RotationInv', OneWorker, [Next]_vars
  PROVE  [Migration!Next]_<<Unrotated, Phase>>
<1>1. Completed => Started
  BY DEF Completed, Started
<1>2. Completed' => Started'
  BY DEF Completed, Started
<1>3. Completed' => Unrotated' = {}
  BY DEF Completed, RotationInv, WorkerInv, ProgressInv
<1>4. jobs' = jobs => Started' = Started /\ Completed' = Completed
  BY DEF Started, Completed
<1>5. Unrotated' \subseteq Rotated
  BY DEF Unrotated
<1>6. CASE ~ Started /\ ~ Started'
  <2>1. Phase = "open" /\ Phase' = "open"
    BY <1>1, <1>2, <1>6 DEF Phase
  <2>2. Migration!Store
    BY <1>5, <1>6, <2>1, StartedFacts DEF Migration!Store, Phase
  <2>3. QED
    BY <2>2 DEF Migration!Next
<1>7. CASE ~ Started /\ Started'
  <2>1. Unrotated' = Unrotated
    BY <1>4, <1>7, JobsOrData
  <2>2. Phase = "open" /\ Phase' = "started"
    BY <1>1, <1>7, StartedFacts DEF Phase
  <2>3. Migration!Start
    BY <2>1, <2>2 DEF Migration!Start, Phase
  <2>4. QED
    BY <2>3 DEF Migration!Next
<1>8. CASE Started
  <2>1. Started' /\ Unrotated' \subseteq Unrotated
    BY <1>8, StartedFacts
  <2>2. CASE Completed' = Completed
    <3>1. Phase' = Phase /\ Phase # "open"
      BY <1>8, <2>1, <2>2 DEF Phase
    <3>2. Migration!Move
      BY <2>1, <3>1 DEF Migration!Move, Phase
    <3>3. QED
      BY <3>2 DEF Migration!Next
  <2>3. CASE ~ Completed /\ Completed'
    <3>1. Unrotated' = Unrotated /\ Unrotated = {}
      BY <1>3, <1>4, <2>3, JobsOrData
    <3>2. Phase = "started" /\ Phase' = "finished"
      BY <1>8, <2>3 DEF Phase
    <3>3. Migration!Complete
      BY <3>1, <3>2 DEF Migration!Complete, Phase
    <3>4. QED
      BY <3>3 DEF Migration!Next
  <2>4. CASE Completed /\ ~ Completed'
    <3>1. Unrotated' = Unrotated
      BY <1>4, <2>4, JobsOrData
    <3>2. Phase = "finished" /\ Phase' = "started"
      BY <2>1, <2>4 DEF Phase
    <3>3. Migration!Withdraw
      BY <3>1, <3>2 DEF Migration!Withdraw, Phase
    <3>4. QED
      BY <3>3 DEF Migration!Next
  <2>5. QED
    BY <2>2, <2>3, <2>4 DEF Completed
<1>9. QED
  BY <1>6, <1>7, <1>8

(* As long as no two workers run at once, a rotation is a KeyMigration across pauses,   *)
(* failures, crashes and resumes: nothing goes back to the old key, and no job reports  *)
(* that it is completed while something it answers for is left, a torn blob included.   *)
THEOREM RotationIsAMigration == Spec /\ []OneWorker => ImplementsMigration
<1>1. RotationInv /\ RotationInv' /\ OneWorker /\ [Next]_vars => [Migration!Next]_<<Unrotated, Phase>>
  BY StepMigrates
<1>2. QED
  BY <1>1, InitMigrates, RotationInvariant, PTL DEF Spec, ImplementsMigration, Migration!Spec, Phase

(* With one job there is one worker, and nothing has to be supposed. *)
THEOREM RotationOfOneJobIsAMigration ==
  ASSUME \A i, j \in Jobs : i = j
  PROVE  Spec => ImplementsMigration
<1>1. OneWorker
  BY DEF OneWorker
<1>2. QED
  BY <1>1, RotationIsAMigration, PTL

(* Whatever else throws, crashes or is shut down: while no audit of a resume throws,    *)
(* the checkpoints of any number of jobs are sound and together they are a migration.   *)
THEOREM AuditedRotations ==
  Spec /\ [][ResumesAreAudited]_vars => []CheckpointSound /\ ImplementsMigration
  BY SlotKeepsWorkersApart, CheckpointsAreSound, RotationIsAMigration, PTL

=============================================================================
