--------------------------- MODULE Retention_proofs ---------------------------
(***************************************************************************)
(* Proofs about Retention for every number of messages, attachments, edits *)
(* and sweeps: an attachment that can be downloaded has its blob, and      *)
(* nothing but a failure leaves a blob behind its row.                     *)
(***************************************************************************)
EXTENDS Retention, FiniteSetTheorems, TLAPS

Uploading == {"put", "insert", "scan"}
Editing == {"edit", "overwrite"}

(* What a request or a sweep may rely on at each of its statements: the row of an *)
(* upload is its own until the scan, and the rows of a sweep never come back.     *)
ProcInv(w) ==
  /\ w.pc \in Editing => w.msg \in Messages /\ msgs[w.msg].stored
  /\ w.att # NoAtt <=> w.pc \in Uploading
  /\ w.pc \in Uploading => w.msg # NoMsg
  /\ w.pc \in {"put", "insert"} => atts[w.att].row = "none"
  /\ w.pc = "insert" => w.att \in blobs
  /\ w.pc = "scan" => atts[w.att].row \in {"pending", "deleted"}
  /\ w.pc = "scan" /\ atts[w.att].row = "pending" => w.att \in blobs
  /\ w.pc = "shred" => \A a \in w.files : atts[a].row # "none"
  /\ w.pc = "blobs" => \A a \in w.files : atts[a].row = "deleted"

(* The blob of a row that is gone is on the list of some sweep. *)
Listed(a) == \E p \in Procs : procs[p].pc = "blobs" /\ a \in procs[p].files

OneUpload == \A p, q \in Procs : procs[p].att # NoAtt /\ procs[p].att = procs[q].att => p = q
Leaked == \A a \in blobs : atts[a].row = "deleted" => failures < MaxFailures \/ Listed(a)
VersionsLeft == \A m \in Messages : msgs[m].written + Cardinality(EditsOf(m)) <= MaxVersions

FInv ==
  /\ TypeOK
  /\ OneUpload
  /\ \A p \in Procs : ProcInv(procs[p])
  /\ CleanHasBlob
  /\ Leaked

RInv == FInv /\ VersionsLeft

-----------------------------------------------------------------------------
(* Requests and sweeps. *)
LEMMA IdleTyped == Idle \in Proc /\ ProcInv(Idle)
  BY ConstantsAssumption DEF Idle, Proc, Versions, Empty, ProcInv, Uploading, Editing

LEMMA IdleFields ==
  Idle.pc = "idle" /\ Idle.att = NoAtt /\ Idle.msg = NoMsg /\ Idle.files = {}
  BY DEF Idle

LEMMA GotoFacts ==
  ASSUME TypeOK, NEW p \in Procs, NEW w \in Proc, w.pc = "blobs" => w.files # {}, Goto(p, w)
  PROVE  /\ procs' \in [Procs -> Proc]
         /\ procs'[p] = w
         /\ \A q \in Procs : q # p => procs'[q] = procs[q]
         /\ \A q \in Procs : procs'[q].pc = "blobs" => procs'[q].files # {}
  BY DEF TypeOK, Goto

LEMMA InitInv == Init => RInv
  <1> SUFFICES ASSUME Init PROVE RInv
    OBVIOUS
  <1>1. msgs \in [Messages -> MsgRow] /\ \A m \in Messages : msgs[m].written = 0
    BY DEF Init, MsgRow, Versions, Empty
  <1>2. atts \in [Atts -> AttRow] /\ \A a \in Atts : atts[a].row = "none"
    BY DEF Init, AttRow
  <1>3. procs \in [Procs -> Proc] /\ \A p \in Procs : procs[p] = Idle
    BY IdleTyped DEF Init
  <1>4. snapshots \in [Messages -> SUBSET (Versions \cup {Empty})] /\ blobs = {}
    BY DEF Init
  <1>5. failures \in 0 .. MaxFailures
    BY ConstantsAssumption DEF Init
  <1>6. Idle.pc = "idle" /\ Idle.att = NoAtt
    BY DEF Idle
  <1>7. TypeOK
    BY <1>1, <1>2, <1>3, <1>4, <1>5, <1>6 DEF TypeOK, HasRow
  <1>8. \A m \in Messages : EditsOf(m) = {}
    BY <1>3, <1>6 DEF EditsOf
  <1>9. VersionsLeft
    <2>1. Cardinality({}) = 0
      BY FS_EmptySet
    <2> QED BY <1>1, <1>8, <2>1, ConstantsAssumption DEF VersionsLeft
  <1> QED BY <1>2, <1>3, <1>4, <1>6, <1>7, <1>9, IdleTyped
    DEF RInv, FInv, OneUpload, CleanHasBlob, Leaked

-----------------------------------------------------------------------------
(* What a step of one request or sweep owes to the others. *)
LEMMA StepInv ==
  ASSUME FInv, NEW p \in Procs, NEW w \in Proc, Goto(p, w),
         w.pc = "blobs" => w.files # {},
         msgs' \in [Messages -> MsgRow],
         \A m \in Messages : msgs[m].stored => msgs'[m].stored,
         snapshots' \in [Messages -> SUBSET (Versions \cup {Empty})],
         atts' \in [Atts -> AttRow], \A a \in Atts : HasRow(a)' => atts'[a].msg # NoMsg,
         \A a \in Atts : atts[a].row # "none" => atts'[a].row # "none",
         \A a \in Atts : atts[a].row = "deleted" => atts'[a].row = "deleted",
         \A a \in Atts : a # procs[p].att /\ atts[a].row = "none" => atts'[a].row = "none",
         \A a \in Atts : a # procs[p].att /\ atts[a].row = "pending"
                           => atts'[a].row \in {"pending", "deleted"},
         blobs' \subseteq Atts,
         \A a \in blobs : a \in blobs' \/ atts[a].row = "deleted" \/ a = procs[p].att,
         CleanHasBlob',
         failures' \in 0 .. MaxFailures, failures' <= failures,
         \A a \in blobs' : atts'[a].row = "deleted" => failures' < MaxFailures \/ Listed(a)',
         w.att = NoAtt \/ w.att = procs[p].att \/ \A q \in Procs : procs[q].att # w.att,
         ProcInv(w)'
  PROVE  FInv'
  <1>0. TypeOK
    BY DEF FInv
  <1>1. /\ procs' \in [Procs -> Proc]
        /\ procs'[p] = w
        /\ \A q \in Procs : q # p => procs'[q] = procs[q]
        /\ \A q \in Procs : procs'[q].pc = "blobs" => procs'[q].files # {}
    BY <1>0, GotoFacts
  <1>2. TypeOK'
    BY <1>1 DEF TypeOK
  <1>3. OneUpload'
    BY <1>1 DEF FInv, OneUpload
  <1>4. ASSUME NEW q \in Procs
        PROVE  ProcInv(procs[q])'
    <2>1. CASE q = p
      BY <1>1, <2>1
    <2>2. CASE q # p
      <3>1. ProcInv(procs[q]) /\ procs[q] \in Proc
        BY <1>0 DEF FInv, TypeOK
      <3>2. procs[q].att # NoAtt => procs[q].att # procs[p].att /\ procs[q].att \in Atts
        BY <2>2, <3>1 DEF FInv, OneUpload, Proc
      <3>3. procs[q].files \subseteq Atts
        BY <3>1 DEF Proc
      <3>4. ProcInv(procs[q])' <=> LET v == procs[q] IN
              /\ v.pc \in Editing => v.msg \in Messages /\ msgs'[v.msg].stored
              /\ v.att # NoAtt <=> v.pc \in Uploading
              /\ v.pc \in Uploading => v.msg # NoMsg
              /\ v.pc \in {"put", "insert"} => atts'[v.att].row = "none"
              /\ v.pc = "insert" => v.att \in blobs'
              /\ v.pc = "scan" => atts'[v.att].row \in {"pending", "deleted"}
              /\ v.pc = "scan" /\ atts'[v.att].row = "pending" => v.att \in blobs'
              /\ v.pc = "shred" => \A a \in v.files : atts'[a].row # "none"
              /\ v.pc = "blobs" => \A a \in v.files : atts'[a].row = "deleted"
        BY <1>1, <2>2 DEF ProcInv
      <3> QED BY <3>1, <3>2, <3>3, <3>4 DEF ProcInv, Uploading
    <2> QED BY <2>1, <2>2
  <1>5. Leaked'
    BY DEF Leaked
  <1> QED BY <1>2, <1>3, <1>4, <1>5 DEF FInv

-----------------------------------------------------------------------------
(* Messages and time. *)
LEMMA MessageSteps ==
  ASSUME FInv,
         \E m \in Messages : \/ \E s \in {"none", "later"} : Post(m, s)
                             \/ ComesDue(m) \/ GrowsOld(m) \/ SoftDelete(m)
  PROVE  FInv'
  <1>0. TypeOK
    BY DEF FInv
  <1>1. UNCHANGED <<snapshots, atts, blobs, procs, failures>>
    BY DEF Post, ComesDue, GrowsOld, SoftDelete
  <1>2. msgs' \in [Messages -> MsgRow] /\ \A m \in Messages : msgs[m].stored => msgs'[m].stored
    <2>1. PICK m \in Messages : \/ \E s \in {"none", "later"} : Post(m, s)
                                \/ ComesDue(m) \/ GrowsOld(m) \/ SoftDelete(m)
      OBVIOUS
    <2>2. PICK row \in MsgRow : msgs' = [msgs EXCEPT ![m] = row] /\ (msgs[m].stored => row.stored)
      <3>0. msgs[m] \in MsgRow
        BY <1>0 DEF TypeOK
      <3>1. ASSUME NEW s \in {"none", "later"}, Post(m, s)
            PROVE  \E row \in MsgRow :
                     msgs' = [msgs EXCEPT ![m] = row] /\ (msgs[m].stored => row.stored)
        <4> DEFINE row == [msgs[m] EXCEPT !.stored = TRUE, !.body = 1, !.written = 1,
                                          !.schedule = s]
        <4>1. 1 \in Versions
          BY ConstantsAssumption DEF Versions
        <4>2. row \in MsgRow /\ row.stored
          BY <3>0, <4>1 DEF MsgRow
        <4>3. msgs' = [msgs EXCEPT ![m] = row]
          BY <3>1, Zenon DEF Post
        <4> QED BY <4>2, <4>3
      <3>2. CASE ComesDue(m)
        <4>1. [msgs[m] EXCEPT !.schedule = "none"] \in MsgRow
          BY <3>0 DEF MsgRow
        <4> QED BY <3>0, <3>2, <4>1 DEF ComesDue, MsgRow
      <3>3. CASE GrowsOld(m)
        <4>1. [msgs[m] EXCEPT !.old = TRUE] \in MsgRow
          BY <3>0 DEF MsgRow
        <4> QED BY <3>0, <3>3, <4>1 DEF GrowsOld, MsgRow
      <3>4. CASE SoftDelete(m)
        <4>1. [msgs[m] EXCEPT !.deleted = TRUE] \in MsgRow
          BY <3>0 DEF MsgRow
        <4> QED BY <3>0, <3>4, <4>1 DEF SoftDelete, MsgRow
      <3> QED BY <2>1, <3>1, <3>2, <3>3, <3>4
    <2> QED BY <1>0, <2>2 DEF TypeOK
  <1>3. TypeOK'
    BY <1>0, <1>1, <1>2 DEF TypeOK, HasRow
  <1>4. \A p \in Procs : ProcInv(procs[p])'
    BY <1>1, <1>2 DEF FInv, ProcInv
  <1>5. OneUpload' /\ CleanHasBlob' /\ Leaked'
    BY <1>1 DEF FInv, OneUpload, CleanHasBlob, Leaked, Listed
  <1> QED BY <1>3, <1>4, <1>5 DEF FInv

-----------------------------------------------------------------------------
(* Edits, and steps that only change what a request or a sweep is at. *)
LEMMA Failing ==
  ASSUME TypeOK, Fail \/ UNCHANGED failures
  PROVE  failures' \in 0 .. MaxFailures /\ failures' <= failures
  BY ConstantsAssumption DEF TypeOK, Fail

LEMMA QuietStep ==
  ASSUME FInv, NEW p \in Procs, NEW w \in Proc, Goto(p, w),
         w.pc # "blobs", procs[p].pc # "blobs" \/ Fail, Fail \/ UNCHANGED failures,
         UNCHANGED <<atts, blobs>>, msgs' \in [Messages -> MsgRow],
         \A m \in Messages : msgs[m].stored => msgs'[m].stored,
         snapshots' \in [Messages -> SUBSET (Versions \cup {Empty})],
         w.att = NoAtt \/ \A q \in Procs : procs[q].att # w.att,
         ProcInv(w)'
  PROVE  FInv'
  <1>0. TypeOK
    BY DEF FInv
  <1>1. failures' \in 0 .. MaxFailures /\ failures' <= failures
    BY <1>0, Failing
  <1>2. \A a \in blobs' : atts'[a].row = "deleted" => failures' < MaxFailures \/ Listed(a)'
    <2>1. CASE Fail
      BY <1>0, <2>1, ConstantsAssumption DEF TypeOK, Fail
    <2>2. CASE procs[p].pc # "blobs" /\ UNCHANGED failures
      <3>1. \A q \in Procs : q # p => procs'[q] = procs[q]
        BY <1>0 DEF TypeOK, Goto
      <3>2. \A a \in Atts : Listed(a) => Listed(a)'
        BY <2>2, <3>1 DEF Listed
      <3>3. \A a \in blobs : atts[a].row = "deleted" => failures < MaxFailures \/ Listed(a)
        BY DEF FInv, Leaked
      <3> QED BY <1>0, <2>2, <3>2, <3>3 DEF TypeOK
    <2> QED BY <2>1, <2>2
  <1>3. atts' \in [Atts -> AttRow] /\ blobs' \subseteq Atts
        /\ (\A a \in Atts : HasRow(a)' => atts'[a].msg # NoMsg) /\ CleanHasBlob'
    BY <1>0 DEF FInv, TypeOK, HasRow, CleanHasBlob
  <1>4. \A a \in Atts : atts'[a] = atts[a]
    OBVIOUS
  <1> QED BY <1>1, <1>2, <1>3, <1>4, StepInv

LEMMA EditSteps ==
  ASSUME FInv, VersionsLeft, NEW p \in Procs,
         (\E m \in Messages : StartEdit(p, m)) \/ ReadPrior(p) \/ Overwrite(p)
  PROVE  FInv'
  <1>0. TypeOK /\ procs[p] \in Proc /\ ProcInv(procs[p])
    BY DEF FInv, TypeOK
  <1>1. ASSUME NEW m \in Messages, StartEdit(p, m) PROVE FInv'
    <2> DEFINE w == [Idle EXCEPT !.pc = "edit", !.msg = m]
    <2>1. w \in Proc /\ w.pc = "edit" /\ w.att = NoAtt /\ w.msg = m
      BY IdleTyped, IdleFields DEF Proc
    <2>2. Goto(p, w) /\ UNCHANGED <<msgs, snapshots, atts, blobs, failures>>
          /\ procs[p].pc = "idle" /\ msgs[m].stored
      BY <1>1, Zenon DEF StartEdit
    <2> HIDE DEF w
    <2>3. ProcInv(w)'
      BY <2>1, <2>2 DEF ProcInv, Uploading, Editing
    <2> QED BY <1>0, <2>1, <2>2, <2>3, QuietStep DEF TypeOK
  <1>2. ASSUME ReadPrior(p) PROVE FInv'
    <2>0. procs[p].msg \in Messages /\ msgs[procs[p].msg] \in MsgRow /\ msgs[procs[p].msg].stored
      BY <1>0, <1>2 DEF ReadPrior, TypeOK, ProcInv, Editing
    <2>1. PICK w \in Proc :
            w = [procs[p] EXCEPT !.pc = "overwrite", !.prior = msgs[procs[p].msg].body]
      BY <1>0, <2>0 DEF Proc, MsgRow
    <2>2. Goto(p, w) /\ UNCHANGED <<msgs, snapshots, atts, blobs, failures>>
          /\ procs[p].pc = "edit"
      BY <1>2, <2>1, Zenon DEF ReadPrior
    <2>3. w.pc = "overwrite" /\ w.msg = procs[p].msg /\ w.att = NoAtt
      BY <1>0, <2>1, <2>2 DEF ProcInv, Uploading, Proc
    <2>4. ProcInv(w)'
      BY <2>0, <2>1, <2>2, <2>3 DEF ProcInv, Uploading, Editing
    <2> QED BY <1>0, <2>1, <2>2, <2>3, <2>4, QuietStep DEF TypeOK
  <1>3. ASSUME Overwrite(p) PROVE FInv'
    <2> DEFINE m == procs[p].msg
    <2>1. m \in Messages /\ msgs[m] \in MsgRow /\ procs[p].prior \in Versions \cup {Empty}
      BY <1>0, <1>3 DEF Overwrite, TypeOK, ProcInv, Editing, Proc
    <2>2. p \in EditsOf(m) /\ EditsOf(m) \subseteq Procs
      BY <1>3 DEF Overwrite, EditsOf
    <2>3. IsFiniteSet(EditsOf(m)) /\ Cardinality(EditsOf(m)) \in Nat
      BY <2>2, ConstantsAssumption, FS_Subset, FS_CardinalityType
    <2>4. Cardinality(EditsOf(m)) # 0
      BY <2>2, <2>3, FS_EmptySet
    <2>5. msgs[m].written + 1 \in Versions
      <3>1. msgs[m].written \in Nat
        BY <2>1 DEF MsgRow, Versions
      <3>2. msgs[m].written + Cardinality(EditsOf(m)) <= MaxVersions
        BY <2>1 DEF VersionsLeft
      <3> HIDE DEF m
      <3> QED BY <2>3, <2>4, <3>1, <3>2, ConstantsAssumption DEF Versions
    <2>6. /\ snapshots' = [snapshots EXCEPT ![m] = @ \cup {procs[p].prior}]
          /\ msgs' = [msgs EXCEPT ![m] = [@ EXCEPT !.body = msgs[m].written + 1,
                                                   !.written = msgs[m].written + 1]]
          /\ Goto(p, Idle) /\ procs[p].pc = "overwrite"
          /\ UNCHANGED <<atts, blobs, failures>>
      BY <1>3 DEF Overwrite, Finish
    <2>7. msgs' \in [Messages -> MsgRow] /\ \A n \in Messages : msgs[n].stored => msgs'[n].stored
      BY <1>0, <2>1, <2>5, <2>6 DEF TypeOK, MsgRow
    <2>8. snapshots' \in [Messages -> SUBSET (Versions \cup {Empty})]
      BY <1>0, <2>1, <2>6 DEF TypeOK
    <2>9. ProcInv(Idle)' /\ Idle.pc = "idle" /\ Idle.att = NoAtt
      BY DEF ProcInv, Idle, Uploading, Editing
    <2> QED BY <2>6, <2>7, <2>8, <2>9, IdleTyped, QuietStep
  <1> QED BY <1>1, <1>2, <1>3

-----------------------------------------------------------------------------
(* Uploads. *)
LEMMA UploadBegins ==
  ASSUME FInv, NEW p \in Procs,
         \/ \E m \in Messages, a \in Atts : StartUpload(p, m, a)
         \/ PutBlob(p) \/ InsertRow(p)
  PROVE  FInv'
  <1>0. TypeOK /\ procs[p] \in Proc /\ ProcInv(procs[p])
    BY DEF FInv, TypeOK
  <1>1. ASSUME NEW m \in Messages, NEW a \in Atts, StartUpload(p, m, a) PROVE FInv'
    <2>1. PICK w \in Proc : w = [Idle EXCEPT !.pc = "put", !.msg = m, !.att = a]
      BY IdleTyped DEF Proc
    <2>2. Goto(p, w) /\ UNCHANGED <<msgs, snapshots, atts, blobs, failures>>
      BY <1>1, <2>1, Zenon DEF StartUpload
    <2>3. /\ procs[p].pc = "idle" /\ atts[a].row = "none"
          /\ \A q \in Procs : procs[q].att # a
      BY <1>1 DEF StartUpload
    <2>4. w.pc = "put" /\ w.msg = m /\ w.att = a /\ m # NoMsg /\ a # NoAtt
      BY <2>1, IdleTyped, ConstantsAssumption DEF Proc
    <2>5. ProcInv(w)'
      BY <2>2, <2>3, <2>4 DEF ProcInv, Uploading, Editing
    <2> QED BY <1>0, <2>2, <2>3, <2>4, <2>5, QuietStep DEF TypeOK
  <1>2. CASE PutBlob(p)
    <2>1. PICK w \in Proc : w = [procs[p] EXCEPT !.pc = "insert"]
      BY <1>0 DEF Proc
    <2>2. Goto(p, w) /\ UNCHANGED <<msgs, snapshots, atts, failures>>
          /\ procs[p].pc = "put" /\ blobs' = blobs \cup {procs[p].att}
      BY <1>2, <2>1 DEF PutBlob
    <2>3. /\ w.pc = "insert" /\ w.att = procs[p].att /\ w.msg = procs[p].msg
          /\ w.att \in Atts /\ w.att # NoAtt /\ w.msg # NoMsg /\ atts[w.att].row = "none"
      BY <1>0, <2>1, <2>2 DEF Proc, ProcInv, Uploading
    <2>4. ProcInv(w)'
      BY <2>2, <2>3 DEF ProcInv, Uploading, Editing
    <2>5. \A a \in blobs' : atts'[a].row = "deleted" => failures' < MaxFailures \/ Listed(a)'
      <3>1. \A q \in Procs : q # p => procs'[q] = procs[q]
        BY <1>0, <2>2 DEF TypeOK, Goto
      <3>2. \A a \in Atts : Listed(a) => Listed(a)'
        BY <2>2, <3>1 DEF Listed
      <3> QED BY <1>0, <2>2, <2>3, <3>2 DEF FInv, Leaked, TypeOK
    <2>6. /\ failures' \in 0 .. MaxFailures /\ failures' <= failures
          /\ CleanHasBlob' /\ blobs' \subseteq Atts /\ \A a \in Atts : HasRow(a)' => atts'[a].msg # NoMsg
      BY <1>0, <2>2, <2>3, Failing DEF FInv, TypeOK, CleanHasBlob, HasRow
    <2> QED BY <1>0, <2>2, <2>3, <2>4, <2>5, <2>6, StepInv DEF TypeOK
  <1>3. CASE InsertRow(p)
    <2>1. PICK w \in Proc : w = [procs[p] EXCEPT !.pc = "scan"]
      BY <1>0 DEF Proc
    <2>2. /\ Goto(p, w) /\ UNCHANGED <<msgs, snapshots, blobs, failures>>
          /\ procs[p].pc = "insert"
          /\ atts' = [atts EXCEPT ![procs[p].att] = [msg |-> procs[p].msg, row |-> "pending"]]
      BY <1>3, <2>1 DEF InsertRow
    <2>3. /\ w.pc = "scan" /\ w.att = procs[p].att /\ w.msg = procs[p].msg
          /\ w.att \in Atts /\ w.att # NoAtt /\ w.msg # NoMsg /\ atts[w.att].row = "none"
          /\ w.msg \in Messages /\ w.att \in blobs
      BY <1>0, <2>1, <2>2 DEF Proc, ProcInv, Uploading
    <2>4. /\ atts' \in [Atts -> AttRow] /\ atts'[w.att] = [msg |-> w.msg, row |-> "pending"]
          /\ \A a \in Atts : a # w.att => atts'[a] = atts[a]
      BY <1>0, <2>2, <2>3 DEF TypeOK, AttRow
    <2>5. ProcInv(w)'
      BY <2>2, <2>3, <2>4 DEF ProcInv, Uploading, Editing
    <2>6. \A a \in blobs' : atts'[a].row = "deleted" => failures' < MaxFailures \/ Listed(a)'
      <3>1. \A q \in Procs : q # p => procs'[q] = procs[q]
        BY <1>0, <2>2 DEF TypeOK, Goto
      <3>2. \A a \in Atts : Listed(a) => Listed(a)'
        BY <2>2, <3>1 DEF Listed
      <3> QED BY <1>0, <2>2, <2>4, <3>2 DEF FInv, Leaked, TypeOK
    <2>7. /\ failures' \in 0 .. MaxFailures /\ failures' <= failures
          /\ CleanHasBlob' /\ blobs' \subseteq Atts
      BY <1>0, <2>2, <2>4, Failing DEF FInv, TypeOK, CleanHasBlob
    <2>8. \A a \in Atts : HasRow(a)' => atts'[a].msg # NoMsg
      BY <1>0, <2>3, <2>4 DEF TypeOK, HasRow
    <2>9. \A a \in Atts : a # w.att => atts'[a].row = atts[a].row
      BY <2>4
    <2> QED BY <1>0, <2>2, <2>3, <2>4, <2>5, <2>6, <2>7, <2>8, <2>9, StepInv DEF TypeOK
  <1> QED BY <1>1, <1>2, <1>3

(* The three verdicts end an upload: its row, if a sweep has left it, gets a status. *)
LEMMA ScanSteps ==
  ASSUME FInv, NEW p \in Procs, ScanClean(p) \/ ScanInfected(p) \/ ScanError(p)
  PROVE  FInv'
  <1> DEFINE a == procs[p].att
  <1>0. TypeOK /\ procs[p] \in Proc /\ ProcInv(procs[p])
    BY DEF FInv, TypeOK
  <1>1. procs[p].pc = "scan" /\ Goto(p, Idle) /\ UNCHANGED <<msgs, snapshots>>
    BY DEF ScanClean, ScanInfected, ScanError, Finish
  <1>2. /\ a \in Atts /\ a # NoAtt /\ atts[a].row \in {"pending", "deleted"}
        /\ atts[a].row = "pending" => a \in blobs
    BY <1>0, <1>1 DEF Proc, ProcInv, Uploading
  <1>3. PICK st \in {"pending", "clean", "infected", "deleted"} :
          /\ atts' = [atts EXCEPT ![a].row = st]
          /\ atts[a].row = "deleted" => st = "deleted"
          /\ st = "clean" => UNCHANGED blobs
          /\ atts[a].row = "pending" /\ st = "deleted" => a \notin blobs' \/ Fail
    <2>1. atts = [atts EXCEPT ![a].row = atts[a].row]
      BY <1>0, <1>2 DEF TypeOK, AttRow
    <2>2. HasRow(a) <=> atts[a].row = "pending"
      BY <1>2 DEF HasRow
    <2>3. CASE ScanClean(p)
      BY <1>2, <2>1, <2>2, <2>3 DEF ScanClean, SetRow
    <2>4. CASE ScanInfected(p)
      BY <1>2, <2>1, <2>2, <2>4 DEF ScanInfected, SetRow
    <2>5. CASE ScanError(p)
      BY <1>2, <2>1, <2>2, <2>5 DEF ScanError, SetRow
    <2> QED BY <2>3, <2>4, <2>5
  <1>4. blobs' = blobs \/ blobs' = blobs \ {a}
    BY DEF ScanClean, ScanInfected, ScanError
  <1>5. failures' \in 0 .. MaxFailures /\ failures' <= failures /\ (Fail => failures' < MaxFailures)
    <2>1. Fail \/ UNCHANGED failures
      BY DEF ScanClean, ScanInfected, ScanError
    <2> QED BY <1>0, <2>1, ConstantsAssumption DEF TypeOK, Fail
  <1>6. /\ atts' \in [Atts -> AttRow] /\ atts'[a] = [atts[a] EXCEPT !.row = st]
        /\ atts'[a].row = st /\ atts'[a].msg = atts[a].msg
        /\ \A b \in Atts : b # a => atts'[b] = atts[b]
    BY <1>0, <1>2, <1>3 DEF TypeOK, AttRow
  <1> HIDE DEF a
  <1>7. ProcInv(Idle)' /\ Idle.att = NoAtt /\ Idle.pc = "idle"
    BY IdleFields DEF ProcInv, Uploading, Editing
  <1>8. \A b \in blobs' : atts'[b].row = "deleted" => failures' < MaxFailures \/ Listed(b)'
    <2>1. \A q \in Procs : q # p => procs'[q] = procs[q]
      BY <1>0, <1>1 DEF TypeOK, Goto
    <2>2. \A b \in Atts : Listed(b) => Listed(b)'
      BY <1>1, <2>1 DEF Listed
    <2>3. ASSUME NEW b \in blobs', atts'[b].row = "deleted"
          PROVE  failures' < MaxFailures \/ Listed(b)'
      <3>1. b \in Atts /\ b \in blobs
        BY <1>0, <1>4 DEF TypeOK
      <3>2. CASE atts[b].row = "deleted"
        BY <1>0, <1>5, <2>2, <3>1, <3>2, ConstantsAssumption DEF FInv, Leaked, TypeOK
      <3>3. CASE b = a /\ atts[a].row = "pending"
        BY <1>3, <1>5, <1>6, <2>3, <3>3
      <3> QED BY <1>2, <1>6, <2>3, <3>1, <3>2, <3>3
    <2> QED BY <2>3
  <1>9. CleanHasBlob' /\ blobs' \subseteq Atts /\ \A b \in Atts : HasRow(b)' => atts'[b].msg # NoMsg
    <2>1. CleanHasBlob'
      BY <1>2, <1>3, <1>4, <1>6 DEF FInv, CleanHasBlob
    <2>2. blobs' \subseteq Atts
      BY <1>0, <1>4 DEF TypeOK
    <2>3. ASSUME NEW b \in Atts, HasRow(b)' PROVE atts'[b].msg # NoMsg
      BY <1>0, <1>2, <1>3, <1>6, <2>3 DEF TypeOK, HasRow
    <2> QED BY <2>1, <2>2, <2>3
  <1>10. /\ \A b \in Atts : atts[b].row # "none" => atts'[b].row # "none"
         /\ \A b \in Atts : atts[b].row = "deleted" => atts'[b].row = "deleted"
         /\ \A b \in Atts : b # a => atts'[b].row = atts[b].row
    BY <1>2, <1>3, <1>6
  <1> QED BY <1>0, <1>1, <1>4, <1>5, <1>6, <1>7, <1>8, <1>9, <1>10, IdleTyped, StepInv DEF TypeOK, a

-----------------------------------------------------------------------------
(* The sweep, and whatever is abandoned. *)
LEMMA SweepBegins ==
  ASSUME FInv, NEW p \in Procs, SelectBatch(p) \/ SelectFiles(p) \/ Abandon(p)
  PROVE  FInv'
  <1>0. TypeOK /\ procs[p] \in Proc /\ ProcInv(procs[p])
    BY DEF FInv, TypeOK
  <1>1. CASE SelectBatch(p)
    <2>1. PICK batch \in SUBSET Eligible : Goto(p, [Idle EXCEPT !.pc = "files", !.batch = batch])
      BY <1>1 DEF SelectBatch
    <2>2. PICK w \in Proc : w = [Idle EXCEPT !.pc = "files", !.batch = batch]
      BY IdleTyped DEF Proc, Eligible
    <2>3. Goto(p, w)
      BY <2>1, <2>2
    <2>4. w.pc = "files" /\ w.att = NoAtt /\ procs[p].pc = "idle"
          /\ UNCHANGED <<msgs, snapshots, atts, blobs, failures>>
      BY <1>1, <2>2, IdleTyped, IdleFields DEF Proc, SelectBatch
    <2>5. ProcInv(w)'
      BY <2>4 DEF ProcInv, Uploading, Editing
    <2> QED BY <1>0, <2>3, <2>4, <2>5, QuietStep DEF TypeOK
  <1>2. CASE SelectFiles(p)
    <2> DEFINE files == {a \in Atts : HasRow(a) /\ atts[a].msg \in procs[p].batch}
    <2>1. PICK w \in Proc : w = [procs[p] EXCEPT !.pc = "shred", !.files = files]
      <3>1. files \in SUBSET Atts
        OBVIOUS
      <3> HIDE DEF files
      <3> QED BY <1>0, <3>1 DEF Proc
    <2>2. Goto(p, w) /\ UNCHANGED <<msgs, snapshots, atts, blobs, failures>> /\ procs[p].pc = "files"
      BY <1>2, <2>1, Zenon DEF SelectFiles
    <2>3. \A a \in files : atts[a].row # "none"
      BY DEF HasRow
    <2> HIDE DEF files
    <2>4. w.pc = "shred" /\ w.att = NoAtt /\ w.files = files
      BY <1>0, <2>1, <2>2 DEF Proc, ProcInv, Uploading
    <2>5. ProcInv(w)'
      BY <2>2, <2>3, <2>4 DEF ProcInv, Uploading, Editing
    <2> QED BY <1>0, <2>2, <2>4, <2>5, QuietStep DEF TypeOK
  <1>3. CASE Abandon(p)
    <2>1. Goto(p, Idle) /\ Fail /\ UNCHANGED <<msgs, snapshots, atts, blobs>>
      BY <1>3 DEF Abandon, Finish
    <2>2. ProcInv(Idle)'
      BY IdleFields DEF ProcInv, Uploading, Editing
    <2> QED BY <1>0, <2>1, <2>2, IdleFields, IdleTyped, QuietStep DEF TypeOK
  <1> QED BY <1>1, <1>2, <1>3

LEMMA ShredStep ==
  ASSUME FInv, NEW p \in Procs, Shred(p) PROVE FInv'
  <1>0. TypeOK /\ procs[p] \in Proc /\ ProcInv(procs[p])
    BY DEF FInv, TypeOK
  <1>1. procs[p].pc = "shred" /\ UNCHANGED <<snapshots, blobs, failures>>
    BY DEF Shred
  <1>2. /\ \A a \in procs[p].files : atts[a].row # "none"
        /\ procs[p].files \subseteq Atts /\ procs[p].att = NoAtt
    BY <1>0, <1>1 DEF ProcInv, Proc, Uploading
  <1>3. /\ atts' \in [Atts -> AttRow]
        /\ \A a \in procs[p].files : atts'[a].row = "deleted"
        /\ \A a \in Atts \ procs[p].files : atts'[a] = atts[a]
    <2>1. atts' = [a \in Atts |-> IF a \in procs[p].files /\ HasRow(a)
                                  THEN [atts[a] EXCEPT !.row = "deleted"] ELSE atts[a]]
      BY DEF Shred
    <2>2. \A a \in Atts : atts[a] \in AttRow /\ [atts[a] EXCEPT !.row = "deleted"] \in AttRow
                          /\ [atts[a] EXCEPT !.row = "deleted"].row = "deleted"
      BY <1>0 DEF TypeOK, AttRow
    <2>3. \A a \in procs[p].files : HasRow(a) \/ atts[a].row = "deleted"
      BY <1>2, <2>2 DEF HasRow, AttRow
    <2> QED BY <1>2, <2>1, <2>2, <2>3
  <1>4. msgs' \in [Messages -> MsgRow] /\ \A m \in Messages : msgs[m].stored => msgs'[m].stored
    <2>1. \A m \in Messages : /\ [msgs[m] EXCEPT !.body = Empty] \in MsgRow
                              /\ [msgs[m] EXCEPT !.body = Empty].stored = msgs[m].stored
      BY <1>0 DEF TypeOK, MsgRow
    <2> QED BY <1>0, <2>1 DEF TypeOK, Shred
  <1>5. PICK w \in Proc : /\ Goto(p, w) /\ w.att = NoAtt
                          /\ \/ procs[p].files = {} /\ w.pc = "idle"
                             \/ procs[p].files # {} /\ w.pc = "blobs" /\ w.files = procs[p].files
    <2>1. CASE procs[p].files = {}
      BY <2>1, IdleTyped, IdleFields DEF Shred, AfterShred, Finish
    <2>2. CASE procs[p].files # {}
      <3>1. PICK w \in Proc : w = [procs[p] EXCEPT !.pc = "blobs"]
        BY <1>0 DEF Proc
      <3>2. Goto(p, w)
        BY <2>2, <3>1 DEF Shred, AfterShred
      <3>3. w.att = NoAtt /\ w.pc = "blobs" /\ w.files = procs[p].files
        BY <1>0, <1>2, <3>1 DEF Proc
      <3> QED BY <2>2, <3>2, <3>3
    <2> QED BY <2>1, <2>2
  <1>6. ProcInv(w)'
    BY <1>3, <1>5 DEF ProcInv, Uploading, Editing
  <1>7. \A a \in blobs' : atts'[a].row = "deleted" => failures' < MaxFailures \/ Listed(a)'
    <2>1. /\ \A q \in Procs : q # p => procs'[q] = procs[q]
          /\ procs'[p] = w
      BY <1>0, <1>5 DEF TypeOK, Goto
    <2>2. \A a \in Atts : Listed(a) => Listed(a)'
      BY <1>1, <2>1 DEF Listed
    <2>3. \A a \in procs[p].files : Listed(a)'
      BY <1>5, <2>1 DEF Listed
    <2> QED BY <1>0, <1>1, <1>3, <2>2, <2>3 DEF FInv, Leaked, TypeOK
  <1>8. failures' \in 0 .. MaxFailures /\ failures' <= failures
    BY <1>0, <1>1, Failing
  <1>9. CleanHasBlob' /\ blobs' \subseteq Atts
    BY <1>0, <1>1, <1>3 DEF FInv, TypeOK, CleanHasBlob
  <1>10. \A a \in Atts : HasRow(a)' => atts'[a].msg # NoMsg
    BY <1>0, <1>3 DEF TypeOK, HasRow
  <1>11. /\ \A a \in Atts : atts[a].row # "none" => atts'[a].row # "none"
         /\ \A a \in Atts : atts[a].row = "deleted" => atts'[a].row = "deleted"
         /\ \A a \in Atts : atts[a].row = "none" => atts'[a].row = "none"
         /\ \A a \in Atts : atts[a].row = "pending" => atts'[a].row \in {"pending", "deleted"}
    BY <1>2, <1>3
  <1>12. snapshots' \in [Messages -> SUBSET (Versions \cup {Empty})]
    BY <1>0, <1>1 DEF TypeOK
  <1>13. (w.pc = "blobs" => w.files # {}) /\ \A a \in blobs : a \in blobs'
    BY <1>1, <1>5
  <1> QED BY <1>3, <1>4, <1>5, <1>6, <1>7, <1>8, <1>9, <1>10, <1>11, <1>12, <1>13, StepInv

LEMMA DeleteBlobStep ==
  ASSUME FInv, NEW p \in Procs, NEW a \in Atts, DeleteBlob(p, a) PROVE FInv'
  <1>0. TypeOK /\ procs[p] \in Proc /\ ProcInv(procs[p])
    BY DEF FInv, TypeOK
  <1>1. /\ procs[p].pc = "blobs" /\ a \in procs[p].files /\ UNCHANGED <<msgs, snapshots, atts>>
        /\ blobs' = blobs \ {a} \/ (blobs' = blobs /\ Fail)
    BY DEF DeleteBlob
  <1>2. (\A b \in procs[p].files : atts[b].row = "deleted") /\ procs[p].att = NoAtt
    BY <1>0, <1>1 DEF ProcInv, Uploading
  <1>3. failures' \in 0 .. MaxFailures /\ failures' <= failures /\ (Fail => failures' < MaxFailures)
    <2>1. Fail \/ UNCHANGED failures
      BY DEF DeleteBlob
    <2> QED BY <1>0, <2>1, ConstantsAssumption DEF TypeOK, Fail
  <1>4. PICK w \in Proc : /\ Goto(p, w) /\ w.att = NoAtt
                          /\ \/ procs[p].files = {a} /\ w.pc = "idle"
                             \/ /\ procs[p].files # {a} /\ w.pc = "blobs"
                                /\ w.files = procs[p].files \ {a}
    <2>1. CASE procs[p].files = {a}
      BY <2>1, IdleTyped, IdleFields DEF DeleteBlob, Finish
    <2>2. CASE procs[p].files # {a}
      <3>1. PICK w \in Proc : w = [procs[p] EXCEPT !.files = @ \ {a}]
        BY <1>0 DEF Proc
      <3>2. Goto(p, w)
        BY <2>2, <3>1 DEF DeleteBlob
      <3>3. w.att = NoAtt /\ w.pc = "blobs" /\ w.files = procs[p].files \ {a}
        BY <1>0, <1>1, <1>2, <3>1 DEF Proc
      <3> QED BY <2>2, <3>2, <3>3
    <2> QED BY <2>1, <2>2
  <1>5. ProcInv(w)'
    BY <1>1, <1>2, <1>4 DEF ProcInv, Uploading, Editing
  <1>6. \A b \in blobs' : atts'[b].row = "deleted" => failures' < MaxFailures \/ Listed(b)'
    <2>1. /\ \A q \in Procs : q # p => procs'[q] = procs[q]
          /\ procs'[p] = w
      BY <1>0, <1>4 DEF TypeOK, Goto
    <2>2. \A b \in Atts \ {a} : Listed(b) => Listed(b)'
      BY <1>4, <2>1 DEF Listed
    <2>3. \A b \in blobs : atts[b].row = "deleted" => failures < MaxFailures \/ Listed(b)
      BY DEF FInv, Leaked
    <2> QED BY <1>0, <1>1, <1>3, <2>2, <2>3, ConstantsAssumption DEF TypeOK
  <1>7. CleanHasBlob' /\ blobs' \subseteq Atts
    BY <1>0, <1>1, <1>2 DEF FInv, TypeOK, CleanHasBlob
  <1>8. \A b \in Atts : HasRow(b)' => atts'[b].msg # NoMsg
    BY <1>0, <1>1 DEF TypeOK, HasRow
  <1>9. (w.pc = "blobs" => w.files # {}) /\ \A b \in blobs : b \in blobs' \/ atts[b].row = "deleted"
    BY <1>1, <1>2, <1>4
  <1>10. \A b \in Atts : atts'[b] = atts[b]
    BY <1>1
  <1> QED BY <1>0, <1>1, <1>3, <1>4, <1>5, <1>6, <1>7, <1>8, <1>9, <1>10, StepInv DEF TypeOK

-----------------------------------------------------------------------------
LEMMA NextFInv == FInv /\ VersionsLeft /\ [Next]_vars => FInv'
  <1> SUFFICES ASSUME FInv, VersionsLeft, [Next]_vars PROVE FInv'
    OBVIOUS
  <1>1. CASE UNCHANGED vars
    BY <1>1 DEF vars, FInv, TypeOK, HasRow, OneUpload, ProcInv, CleanHasBlob, Leaked, Listed
  <1>2. CASE \E m \in Messages : \/ \E s \in {"none", "later"} : Post(m, s)
                                 \/ ComesDue(m) \/ GrowsOld(m) \/ SoftDelete(m)
    BY <1>2, MessageSteps
  <1>3. CASE \E p \in Procs : \/ \E m \in Messages : StartEdit(p, m) \/ \E a \in Atts : StartUpload(p, m, a)
                              \/ SelectBatch(p) \/ Step(p) \/ Abandon(p)
    <2>1. PICK p \in Procs : \/ \E m \in Messages : StartEdit(p, m) \/ \E a \in Atts : StartUpload(p, m, a)
                             \/ SelectBatch(p) \/ Step(p) \/ Abandon(p)
      BY <1>3
    <2>2. \/ (\E m \in Messages : StartEdit(p, m)) \/ ReadPrior(p) \/ Overwrite(p)
          \/ (\E m \in Messages, a \in Atts : StartUpload(p, m, a)) \/ PutBlob(p) \/ InsertRow(p)
          \/ ScanClean(p) \/ ScanInfected(p) \/ ScanError(p)
          \/ SelectBatch(p) \/ SelectFiles(p) \/ Abandon(p)
          \/ Shred(p) \/ \E a \in Atts : DeleteBlob(p, a)
      BY <2>1 DEF Step
    <2> QED BY <2>2, EditSteps, UploadBegins, ScanSteps, SweepBegins, ShredStep, DeleteBlobStep
  <1> QED BY <1>1, <1>2, <1>3 DEF Next

(* The edits under way are paid for by versions not written yet. *)
LEMMA NextVersions == FInv /\ VersionsLeft /\ [Next]_vars => VersionsLeft'
  <1> SUFFICES ASSUME FInv, VersionsLeft, [Next]_vars, NEW m \in Messages
               PROVE  (msgs[m].written + Cardinality(EditsOf(m)) <= MaxVersions)'
    BY DEF VersionsLeft
  <1> DEFINE edits == EditsOf(m)
             edits2 == {p \in Procs : procs'[p].pc \in {"edit", "overwrite"} /\ procs'[p].msg = m}
  <1>0. TypeOK
    BY DEF FInv
  <1>1. IsFiniteSet(edits) /\ Cardinality(edits) \in Nat
    BY ConstantsAssumption, FS_Subset, FS_CardinalityType DEF EditsOf
  <1>2. msgs[m].written \in Nat /\ msgs[m].written + Cardinality(edits) <= MaxVersions
    BY <1>0 DEF VersionsLeft, TypeOK, MsgRow, Versions
  <1>3. EditsOf(m)' = edits2
    BY DEF EditsOf
  <1> HIDE DEF edits2
  <1>4. CASE msgs'[m].written = msgs[m].written /\ edits2 \subseteq edits
    <2>1. Cardinality(edits2) <= Cardinality(edits)
      BY <1>1, <1>4, FS_Subset
    <2>2. Cardinality(edits2) \in Nat
      BY <1>1, <1>4, FS_Subset, FS_CardinalityType
    <2> HIDE DEF edits
    <2> QED BY <1>1, <1>2, <1>3, <1>4, <2>1, <2>2, ConstantsAssumption
  <1>5. CASE \E s \in {"none", "later"} : Post(m, s)
    <2>1. ~msgs[m].stored /\ UNCHANGED procs /\ msgs'[m].written = 1
      <3>1. PICK s \in {"none", "later"} : Post(m, s)
        BY <1>5
      <3>2. msgs'[m] = [msgs[m] EXCEPT !.stored = TRUE, !.body = 1, !.written = 1, !.schedule = s]
        BY <1>0, <3>1 DEF Post, TypeOK
      <3>3. msgs[m] \in MsgRow
        BY <1>0 DEF TypeOK
      <3>4. msgs'[m].written = 1
        BY <3>2, <3>3 DEF MsgRow
      <3>5. ~msgs[m].stored /\ UNCHANGED procs
        BY <3>1 DEF Post
      <3> QED BY <3>4, <3>5
    <2>2. edits2 = {}
      BY <1>0, <2>1 DEF edits2, FInv, ProcInv, Editing, TypeOK
    <2>3. Cardinality(edits2) = 0
      BY <2>2, FS_EmptySet
    <2> QED BY <1>3, <2>1, <2>3, ConstantsAssumption
  <1>6. CASE \E p \in Procs : StartEdit(p, m)
    <2>1. PICK p \in Procs : StartEdit(p, m)
      BY <1>6
    <2>2. UNCHANGED msgs /\ msgs[m].written + Cardinality(edits) < MaxVersions
          /\ \A q \in Procs : q # p => procs'[q] = procs[q]
      BY <1>0, <2>1 DEF StartEdit, Goto, TypeOK
    <2>3. edits2 \subseteq edits \cup {p}
      BY <2>2 DEF edits2, EditsOf
    <2>4. IsFiniteSet(edits \cup {p}) /\ Cardinality(edits \cup {p}) <= Cardinality(edits) + 1
          /\ Cardinality(edits \cup {p}) \in Nat
      <3> HIDE DEF edits
      <3>1. IsFiniteSet(edits \cup {p})
        BY <1>1, FS_AddElement
      <3>2. \/ Cardinality(edits \cup {p}) = Cardinality(edits)
            \/ Cardinality(edits \cup {p}) = Cardinality(edits) + 1
        BY <1>1, FS_AddElement
      <3> QED BY <1>1, <3>1, <3>2
    <2>5. Cardinality(edits2) <= Cardinality(edits \cup {p}) /\ Cardinality(edits2) \in Nat
      BY <2>3, <2>4, FS_Subset, FS_CardinalityType
    <2> HIDE DEF edits
    <2> QED BY <1>1, <1>2, <1>3, <2>2, <2>4, <2>5, ConstantsAssumption
  <1>7. CASE \E p \in Procs : Overwrite(p) /\ procs[p].msg = m
    <2>1. PICK p \in Procs : Overwrite(p) /\ procs[p].msg = m
      BY <1>7
    <2>2. p \in edits
      BY <2>1 DEF EditsOf, Overwrite
    <2>3. msgs'[m].written = msgs[m].written + 1
      <3>1. msgs'[m] = [msgs[m] EXCEPT !.body = msgs[m].written + 1, !.written = msgs[m].written + 1]
        BY <1>0, <2>1 DEF Overwrite, TypeOK
      <3>2. msgs[m] \in MsgRow
        BY <1>0 DEF TypeOK
      <3> QED BY <3>1, <3>2 DEF MsgRow
    <2>4. procs'[p] = Idle /\ \A q \in Procs : q # p => procs'[q] = procs[q]
      BY <1>0, <2>1 DEF Overwrite, Finish, Goto, TypeOK
    <2>5. edits2 \subseteq edits \ {p}
      BY <2>4, IdleFields DEF edits2, EditsOf
    <2>6. IsFiniteSet(edits \ {p}) /\ Cardinality(edits \ {p}) = Cardinality(edits) - 1
      BY <1>1, <2>2, FS_RemoveElement
    <2>7. Cardinality(edits2) <= Cardinality(edits) - 1 /\ Cardinality(edits2) \in Nat
      BY <2>5, <2>6, FS_Subset, FS_CardinalityType
    <2> HIDE DEF edits
    <2> QED BY <1>1, <1>2, <1>3, <2>3, <2>7, ConstantsAssumption
  <1>8. CASE UNCHANGED <<msgs, procs>>
    BY <1>4, <1>8 DEF edits2, EditsOf
  <1>9. CASE \E n \in Messages \ {m} : \/ \E s \in {"none", "later"} : Post(n, s)
                                       \/ ComesDue(n) \/ GrowsOld(n) \/ SoftDelete(n)
    <2>1. UNCHANGED procs /\ msgs'[m] = msgs[m]
      BY <1>0, <1>9 DEF TypeOK, Post, ComesDue, GrowsOld, SoftDelete
    <2> QED BY <1>4, <2>1 DEF edits2, EditsOf
  <1>10. CASE ComesDue(m) \/ GrowsOld(m) \/ SoftDelete(m)
    <2>1. UNCHANGED procs /\ msgs[m] \in MsgRow
      BY <1>0, <1>10 DEF TypeOK, ComesDue, GrowsOld, SoftDelete
    <2>2. msgs'[m].written = msgs[m].written
      <3>1. CASE ComesDue(m)
        BY <1>0, <2>1, <3>1 DEF TypeOK, ComesDue, MsgRow
      <3>2. CASE GrowsOld(m)
        BY <1>0, <2>1, <3>2 DEF TypeOK, GrowsOld, MsgRow
      <3>3. CASE SoftDelete(m)
        BY <1>0, <2>1, <3>3 DEF TypeOK, SoftDelete, MsgRow
      <3> QED BY <1>10, <3>1, <3>2, <3>3
    <2> QED BY <1>4, <2>1, <2>2 DEF edits2, EditsOf
  <1>11. CASE \E p \in Procs :
                \/ \E n \in Messages \ {m} : StartEdit(p, n) \/ (Overwrite(p) /\ procs[p].msg = n)
                \/ ReadPrior(p) \/ \E n \in Messages, a \in Atts : StartUpload(p, n, a)
                \/ PutBlob(p) \/ InsertRow(p) \/ ScanClean(p) \/ ScanInfected(p) \/ ScanError(p)
                \/ SelectBatch(p) \/ SelectFiles(p) \/ Abandon(p)
                \/ Shred(p) \/ \E a \in Atts : DeleteBlob(p, a)
    <2> SUFFICES msgs'[m].written = msgs[m].written /\ edits2 \subseteq edits
      BY <1>4
    <2> DEFINE Quiet(p) == \E w : /\ Goto(p, w)
                                  /\ w.pc \in Editing /\ w.msg = m
                                       => procs[p].pc \in Editing /\ procs[p].msg = m
    <2>1. PICK p \in Procs :
                \/ \E n \in Messages \ {m} : StartEdit(p, n) \/ (Overwrite(p) /\ procs[p].msg = n)
                \/ ReadPrior(p) \/ \E n \in Messages, a \in Atts : StartUpload(p, n, a)
                \/ PutBlob(p) \/ InsertRow(p) \/ ScanClean(p) \/ ScanInfected(p) \/ ScanError(p)
                \/ SelectBatch(p) \/ SelectFiles(p) \/ Abandon(p)
                \/ Shred(p) \/ \E a \in Atts : DeleteBlob(p, a)
      BY <1>11
    <2>2. procs[p] \in Proc
      BY <1>0 DEF TypeOK
    <2>3. \A w : w.pc \notin Editing /\ Goto(p, w) => Quiet(p)
      OBVIOUS
    <2>4. Quiet(p)
      <3>1. ASSUME NEW n \in Messages \ {m}, StartEdit(p, n) PROVE Quiet(p)
        <4> DEFINE w == [Idle EXCEPT !.pc = "edit", !.msg = n]
        <4>1. Goto(p, w)
          BY <3>1, Zenon DEF StartEdit
        <4>2. w.msg = n
          BY IdleTyped DEF Proc
        <4> HIDE DEF w
        <4> QED BY <4>1, <4>2
      <3>2. CASE Overwrite(p) \/ ScanClean(p) \/ ScanInfected(p) \/ ScanError(p) \/ Abandon(p)
        <4>1. Goto(p, Idle)
          BY <3>2 DEF Overwrite, ScanClean, ScanInfected, ScanError, Abandon, Finish
        <4> HIDE DEF Quiet
        <4> QED BY <2>3, <4>1, IdleFields DEF Editing
      <3>3. CASE ReadPrior(p)
        <4> DEFINE w == [procs[p] EXCEPT !.pc = "overwrite", !.prior = msgs[procs[p].msg].body]
        <4>1. Goto(p, w) /\ procs[p].pc = "edit"
          BY <3>3, Zenon DEF ReadPrior
        <4>2. w.msg = procs[p].msg
          BY <2>2 DEF Proc
        <4> HIDE DEF w
        <4> QED BY <4>1, <4>2 DEF Editing
      <3>4. ASSUME NEW n \in Messages, NEW a \in Atts, StartUpload(p, n, a) PROVE Quiet(p)
        <4> DEFINE w == [Idle EXCEPT !.pc = "put", !.msg = n, !.att = a]
        <4>1. Goto(p, w)
          BY <3>4, Zenon DEF StartUpload
        <4>2. w.pc = "put"
          BY IdleTyped DEF Proc
        <4> HIDE DEF w, Quiet
        <4> QED BY <2>3, <4>1, <4>2 DEF Editing
      <3>5. CASE PutBlob(p)
        <4>1. Goto(p, [procs[p] EXCEPT !.pc = "insert"])
          BY <3>5 DEF PutBlob
        <4>2. [procs[p] EXCEPT !.pc = "insert"].pc = "insert"
          BY <2>2 DEF Proc
        <4> HIDE DEF Quiet
        <4> QED BY <2>3, <4>1, <4>2 DEF Editing
      <3>6. CASE InsertRow(p)
        <4>1. Goto(p, [procs[p] EXCEPT !.pc = "scan"])
          BY <3>6 DEF InsertRow
        <4>2. [procs[p] EXCEPT !.pc = "scan"].pc = "scan"
          BY <2>2 DEF Proc
        <4> HIDE DEF Quiet
        <4> QED BY <2>3, <4>1, <4>2 DEF Editing
      <3>7. CASE SelectBatch(p)
        <4>1. PICK batch : Goto(p, [Idle EXCEPT !.pc = "files", !.batch = batch])
          BY <3>7 DEF SelectBatch
        <4> DEFINE w == [Idle EXCEPT !.pc = "files", !.batch = batch]
        <4>2. w.pc = "files"
          BY IdleTyped DEF Proc
        <4> HIDE DEF w, Quiet
        <4> QED BY <2>3, <4>1, <4>2 DEF Editing, w
      <3>8. CASE SelectFiles(p)
        <4>1. PICK files : Goto(p, [procs[p] EXCEPT !.pc = "shred", !.files = files])
          BY <3>8, Zenon DEF SelectFiles
        <4> DEFINE w == [procs[p] EXCEPT !.pc = "shred", !.files = files]
        <4>2. w.pc = "shred"
          BY <2>2 DEF Proc
        <4> HIDE DEF w, Quiet
        <4> QED BY <2>3, <4>1, <4>2 DEF Editing, w
      <3>9. CASE Shred(p)
        <4>1. Goto(p, Idle) \/ Goto(p, [procs[p] EXCEPT !.pc = "blobs"])
          BY <3>9, Zenon DEF Shred, AfterShred, Finish
        <4>2. [procs[p] EXCEPT !.pc = "blobs"].pc = "blobs"
          BY <2>2 DEF Proc
        <4> HIDE DEF Quiet
        <4> QED BY <2>3, <4>1, <4>2, IdleFields DEF Editing
      <3>10. ASSUME NEW a \in Atts, DeleteBlob(p, a) PROVE Quiet(p)
        <4>1. Goto(p, Idle) \/ Goto(p, [procs[p] EXCEPT !.files = @ \ {a}])
          BY <3>10, Zenon DEF DeleteBlob, Finish
        <4>2. [procs[p] EXCEPT !.files = @ \ {a}].pc = "blobs"
          BY <2>2, <3>10 DEF Proc, DeleteBlob
        <4> HIDE DEF Quiet
        <4> QED BY <2>3, <4>1, <4>2, IdleFields DEF Editing
      <3> HIDE DEF Quiet
      <3> QED BY <2>1, <3>1, <3>2, <3>3, <3>4, <3>5, <3>6, <3>7, <3>8, <3>9, <3>10
    <2>5. edits2 \subseteq edits
      <3>1. PICK w : /\ Goto(p, w)
                     /\ w.pc \in Editing /\ w.msg = m => procs[p].pc \in Editing /\ procs[p].msg = m
        BY <2>4
      <3>2. procs'[p] = w /\ \A q \in Procs : q # p => procs'[q] = procs[q]
        BY <1>0, <3>1 DEF Goto, TypeOK
      <3> QED BY <3>1, <3>2 DEF edits2, EditsOf, Editing
    <2> HIDE DEF Quiet
    <2>6. msgs'[m].written = msgs[m].written
      <3>1. msgs[m] \in MsgRow
        BY <1>0 DEF TypeOK
      <3>2. CASE Overwrite(p) /\ procs[p].msg # m
        BY <1>0, <3>2 DEF Overwrite, TypeOK
      <3>3. CASE Shred(p)
        <4>1. [msgs[m] EXCEPT !.body = Empty].written = msgs[m].written
          BY <3>1 DEF MsgRow
        <4> QED BY <3>3, <4>1 DEF Shred
      <3>4. CASE UNCHANGED msgs
        BY <3>4
      <3> QED BY <2>1, <3>2, <3>3, <3>4
          DEF StartEdit, ReadPrior, StartUpload, PutBlob, InsertRow, ScanClean, ScanInfected, ScanError,
              SelectBatch, SelectFiles, Abandon, DeleteBlob
    <2> QED BY <2>5, <2>6
  <1> QED
    <2>1. CASE \E p \in Procs : \/ \E n \in Messages : StartEdit(p, n) \/ \E a \in Atts : StartUpload(p, n, a)
                                \/ SelectBatch(p) \/ Step(p) \/ Abandon(p)
      <3>1. PICK p \in Procs : \/ \E n \in Messages : StartEdit(p, n) \/ \E a \in Atts : StartUpload(p, n, a)
                               \/ SelectBatch(p) \/ Step(p) \/ Abandon(p)
        BY <2>1
      <3>2. CASE Overwrite(p)
        <4>1. procs[p].msg \in Messages
          BY <3>2 DEF FInv, ProcInv, Editing, Overwrite
        <4> QED BY <1>7, <1>11, <3>2, <4>1
      <3>3. CASE ~Overwrite(p)
        BY <1>6, <1>11, <3>1, <3>3 DEF Step
      <3> QED BY <3>2, <3>3
    <2>2. CASE \E n \in Messages : \/ \E s \in {"none", "later"} : Post(n, s)
                                   \/ ComesDue(n) \/ GrowsOld(n) \/ SoftDelete(n)
      BY <1>5, <1>9, <1>10, <2>2
    <2>3. CASE UNCHANGED vars
      BY <1>8, <2>3 DEF vars
    <2> QED BY <2>1, <2>2, <2>3 DEF Next

-----------------------------------------------------------------------------
THEOREM RInvHolds == Spec => []RInv
  <1>1. RInv /\ [Next]_vars => RInv'
    BY NextFInv, NextVersions DEF RInv
  <1> QED BY InitInv, <1>1, PTL DEF Spec

(* Whatever edits, uploads and sweeps overlap, and wherever they die: an attachment that *)
(* can be downloaded has its blob.                                                        *)
THEOREM CleanFilesHaveBlobs == Spec => []CleanHasBlob
  <1>1. RInv => CleanHasBlob
    BY DEF RInv, FInv
  <1> QED BY RInvHolds, <1>1, PTL

(* An upload beside any number of sweeps leaks no blob: it takes a failure. *)
THEOREM NothingLeaksByItself == Spec => []LeaksNeedAFailure
  <1>1. RInv => LeaksNeedAFailure
    BY DEF RInv, FInv, TypeOK, Leaked, Listed, LeaksNeedAFailure
  <1> QED BY RInvHolds, <1>1, PTL

(* The tables and the statements under way keep their types; in particular no message    *)
(* gets more versions than edits were let in.                                            *)
THEOREM RetentionTypeCorrect == Spec => []TypeOK
  <1>1. RInv => TypeOK
    BY DEF RInv, FInv
  <1> QED BY RInvHolds, <1>1, PTL
===============================================================================
