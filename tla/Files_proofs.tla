----------------------------- MODULE Files_proofs -----------------------------
(***************************************************************************)
(* Proofs about the files of a client: Vault, for every number of devices, *)
(* sessions, files and folders (whoever can open a zone opens it with the  *)
(* same key, and a file never leaves its zone), and Tus, for every number  *)
(* of uploads and handlers, every size of file and chunk and any number of *)
(* failures (an upload none of whose PATCHes was cut off or overlapped is  *)
(* stored once, as it was sent, unless the sweep took its part; when the   *)
(* sweep can).                                                             *)
(***************************************************************************)
EXTENDS Vault, Tus, FiniteSetTheorems, SequenceTheorems, TLAPS

-----------------------------------------------------------------------------
(* Vault. *)

SameKey(row) ==
  \A q, r \in Recipients : row.wraps[q] # None /\ row.wraps[r] # None => row.wraps[q] = row.wraps[r]

InFolder(file) ==
  file.folder # None =>
    folders[file.folder].st # "none" /\ folders[file.folder].zone = file.zone

(* A file's folder has been made, and nothing moves a folder to another zone. *)
VInv ==
  /\ VaultTypeOK
  /\ \A z \in Zones : SameKey(keys[z])
  /\ \A f \in Files : InFolder(files[f])

-----------------------------------------------------------------------------
LEMMA NoWrapsTyped == NoWraps \in Wraps /\ \A r \in Recipients : NoWraps[r] = None
  BY DEF NoWraps, Wraps

LEMMA RestingTyped ==
  Resting \in [pc: {"idle", "expire", "shred"}, files: SUBSET Files, zones: SUBSET Zones]
  BY DEF Resting

(* The row of a fresh key seals that key and no other. *)
LEMMA SeededFacts ==
  ASSUME NEW s \in Staff
  PROVE  Seeded(s) \in KeyRow /\ SameKey(Seeded(s))
  <1> DEFINE ws == [r \in Recipients |->
                      IF r \in enrolled /\ MaySee(r, init[s].zone) THEN s ELSE None]
  <1>1. ws \in Wraps /\ \A r \in Recipients : ws[r] \in {s, None}
    BY DEF Wraps
  <1>2. Seeded(s) = [there |-> TRUE, wraps |-> ws]
    BY DEF Seeded
  <1> HIDE DEF ws
  <1>3. Seeded(s) \in KeyRow /\ Seeded(s).wraps = ws
    BY <1>1, <1>2 DEF KeyRow
  <1> QED BY <1>1, <1>3 DEF SameKey

LEMMA InitVInv == VaultInit => VInv
  <1> SUFFICES ASSUME VaultInit PROVE VInv
    OBVIOUS
  <1>1. keys \in [Zones -> KeyRow] /\ \A z \in Zones : SameKey(keys[z])
    BY NoWrapsTyped DEF VaultInit, KeyRow, SameKey
  <1>2. files \in [Files -> File] /\ folders \in [Folders -> Folder]
    BY DEF VaultInit, File, Folder, Zones
  <1>3. \A f \in Files : InFolder(files[f])
    BY DEF VaultInit, InFolder
  <1>4. enrolled \subseteq Recipients /\ init \in [Staff -> [pc: {"idle", "gather", "insert"}, zone: Zones]]
    BY DEF VaultInit, NoRequest, Zones
  <1>5. sweeper = Resting /\ page \subseteq Staff /\ incidents \in 0 .. MaxIncidents
    BY VaultAssumption DEF VaultInit
  <1> QED BY <1>1, <1>2, <1>3, <1>4, <1>5, RestingTyped DEF VInv, VaultTypeOK

-----------------------------------------------------------------------------
(* Requests and the sweep that leave keys, folders and files alone. *)
LEMMA QuietStep ==
  ASSUME VInv, UNCHANGED <<keys, folders, files>>,
         enrolled' \subseteq Recipients, page' \subseteq Staff,
         init' \in [Staff -> [pc: {"idle", "gather", "insert"}, zone: Zones]],
         sweeper' \in [pc: {"idle", "expire", "shred"}, files: SUBSET Files, zones: SUBSET Zones],
         sweeper'.pc = "idle" => sweeper' = Resting,
         incidents' \in 0 .. MaxIncidents
  PROVE  VInv'
  BY DEF VInv, VaultTypeOK, SameKey, InFolder

LEMMA IncidentTyped ==
  ASSUME VaultTypeOK, Incident \/ UNCHANGED incidents
  PROVE  incidents' \in 0 .. MaxIncidents
  BY VaultAssumption DEF VaultTypeOK, Incident

LEMMA PageSteps ==
  ASSUME VInv,
         \/ \E r \in Recipients : Enrol(r)
         \/ \E s \in Staff : Refresh(s) \/ ClickInitialize(s) \/ RotateRead(s) \/ InitializeFails(s)
  PROVE  VInv'
  <1>0. VaultTypeOK
    BY DEF VInv
  <1>1. /\ UNCHANGED <<keys, folders, files, sweeper>>
        /\ Incident \/ UNCHANGED incidents
    BY DEF Enrol, Refresh, ClickInitialize, RotateRead, InitializeFails
  <1>2. enrolled' \subseteq Recipients /\ page' \subseteq Staff
    BY <1>0 DEF VaultTypeOK, Enrol, Refresh, ClickInitialize, RotateRead, InitializeFails
  <1>3. init' \in [Staff -> [pc: {"idle", "gather", "insert"}, zone: Zones]]
    BY <1>0
    DEF VaultTypeOK, Enrol, Refresh, ClickInitialize, RotateRead, InitializeFails, NoRequest, Zones
  <1> QED BY <1>0, <1>1, <1>2, <1>3, QuietStep, IncidentTyped DEF VaultTypeOK

LEMMA SweepSteps ==
  ASSUME VInv, StartSweep \/ FindCandidate \/ SweepFails
  PROVE  VInv'
  <1>0. VaultTypeOK
    BY DEF VInv
  <1>1. /\ UNCHANGED <<keys, enrolled, page, init, folders, files>>
        /\ Incident \/ UNCHANGED incidents
    BY DEF StartSweep, FindCandidate, SweepFails
  <1>2. Expired \in SUBSET Files
    BY DEF Expired
  <1>3. /\ sweeper' \in [pc: {"idle", "expire", "shred"}, files: SUBSET Files, zones: SUBSET Zones]
        /\ sweeper'.pc = "idle" => sweeper' = Resting
    <2> HIDE DEF Expired
    <2>1. CASE StartSweep
      BY <1>0, <1>2, <2>1 DEF VaultTypeOK, StartSweep
    <2>2. CASE FindCandidate
      BY <1>0, <2>2, RestingTyped DEF VaultTypeOK, FindCandidate
    <2>3. CASE SweepFails
      BY <2>3, RestingTyped DEF SweepFails
    <2> QED BY <2>1, <2>2, <2>3
  <1> QED BY <1>0, <1>1, <1>3, QuietStep, IncidentTyped DEF VaultTypeOK

-----------------------------------------------------------------------------
(* Steps that write one row of vault_keys. *)
LEMMA KeysStep ==
  ASSUME VInv, NEW z \in Zones, NEW row \in KeyRow, SameKey(row),
         keys' = [keys EXCEPT ![z] = row],
         UNCHANGED <<enrolled, page, folders, files, incidents>>,
         init' \in [Staff -> [pc: {"idle", "gather", "insert"}, zone: Zones]],
         sweeper' \in [pc: {"idle", "expire", "shred"}, files: SUBSET Files, zones: SUBSET Zones],
         sweeper'.pc = "idle" => sweeper' = Resting
  PROVE  VInv'
  <1>1. keys' \in [Zones -> KeyRow] /\ \A y \in Zones : keys'[y] = IF y = z THEN row ELSE keys[y]
    BY DEF VInv, VaultTypeOK
  <1>2. VaultTypeOK'
    BY <1>1 DEF VInv, VaultTypeOK
  <1>3. (\A y \in Zones : SameKey(keys[y]))'
    BY <1>1 DEF VInv, SameKey
  <1>4. (\A f \in Files : InFolder(files[f]))'
    BY DEF VInv, InFolder
  <1> QED BY <1>2, <1>3, <1>4 DEF VInv

LEMMA RotateInsertStep ==
  ASSUME VInv, NEW s \in Staff, RotateInsert(s) PROVE VInv'
  <1>0. VaultTypeOK /\ init[s].zone \in Zones
    BY DEF VInv, VaultTypeOK
  <1>1. CASE keys[init[s].zone].there
    BY <1>0, <1>1, QuietStep DEF RotateInsert, VaultTypeOK, NoRequest, Zones
  <1>2. CASE ~keys[init[s].zone].there
    <2>1. /\ keys' = [keys EXCEPT ![init[s].zone] = Seeded(s)]
          /\ UNCHANGED <<enrolled, page, folders, files, sweeper, incidents>>
      BY <1>2 DEF RotateInsert
    <2>2. init' \in [Staff -> [pc: {"idle", "gather", "insert"}, zone: Zones]]
      BY <1>0, <1>2 DEF RotateInsert, VaultTypeOK, NoRequest, Zones
    <2> QED BY <1>0, <2>1, <2>2, SeededFacts, KeysStep DEF VaultTypeOK
  <1> QED BY <1>1, <1>2

(* The wrap that is added seals the key of the member of staff who adds it. *)
LEMMA AddRecipientStep ==
  ASSUME VInv, NEW s \in Staff, NEW z \in Zones, NEW r \in Recipients, AddRecipient(s, z, r)
  PROVE  VInv'
  <1> DEFINE ws == [keys[z].wraps EXCEPT ![r] = keys[z].wraps[s]]
             row == [keys[z] EXCEPT !.wraps = ws]
  <1>0. VaultTypeOK /\ keys[z] \in KeyRow /\ keys[z].wraps \in Wraps /\ SameKey(keys[z])
    BY DEF VInv, VaultTypeOK, KeyRow
  <1>1. s \in Recipients /\ keys[z].wraps[s] # None /\ keys[z].wraps[s] \in Staff
    BY <1>0 DEF AddRecipient, Opens, Recipients, Wraps
  <1>2. ws \in Wraps /\ \A q \in Recipients : ws[q] = IF q = r THEN keys[z].wraps[s] ELSE keys[z].wraps[q]
    BY <1>0, <1>1 DEF Wraps
  <1>3. keys' = [keys EXCEPT ![z] = row]
    BY <1>0 DEF AddRecipient, VaultTypeOK
  <1> HIDE DEF ws
  <1>4. row \in KeyRow /\ row.wraps = ws
    BY <1>0, <1>2 DEF KeyRow
  <1>5. SameKey(row)
    BY <1>0, <1>1, <1>2, <1>4 DEF SameKey
  <1> HIDE DEF row
  <1>6. UNCHANGED <<enrolled, page, init, folders, files, sweeper, incidents>>
    BY DEF AddRecipient
  <1> QED BY <1>0, <1>3, <1>4, <1>5, <1>6, KeysStep DEF VaultTypeOK

LEMMA ShredZoneStep ==
  ASSUME VInv, NEW z \in Zones, ShredZone(z) PROVE VInv'
  <1> DEFINE row == [keys[z] EXCEPT !.wraps = NoWraps]
  <1>0. VaultTypeOK /\ keys[z] \in KeyRow
    BY DEF VInv, VaultTypeOK
  <1>1. keys' = [keys EXCEPT ![z] = row]
    BY <1>0 DEF ShredZone, VaultTypeOK
  <1>2. row \in KeyRow /\ row.wraps = NoWraps
    BY <1>0, NoWrapsTyped DEF KeyRow
  <1>3. SameKey(row)
    BY <1>2, NoWrapsTyped DEF SameKey
  <1>4. /\ sweeper' \in [pc: {"idle", "expire", "shred"}, files: SUBSET Files, zones: SUBSET Zones]
        /\ sweeper'.pc = "idle" => sweeper' = Resting
    BY <1>0, RestingTyped DEF ShredZone, VaultTypeOK
  <1> HIDE DEF row
  <1>5. UNCHANGED <<enrolled, page, init, folders, files, incidents>>
    BY DEF ShredZone
  <1> QED BY <1>0, <1>1, <1>2, <1>3, <1>4, <1>5, KeysStep DEF VaultTypeOK

-----------------------------------------------------------------------------
(* Folders keep their zone and are never unmade. *)
LEMMA FolderSteps ==
  ASSUME VInv, NEW d \in Folders,
         \/ DeleteFolder(d)
         \/ \E z \in Zones, p \in Folders \cup {None} : CreateFolder(d, z, p)
         \/ \E p \in Folders \cup {None} : PatchFolder(d, p)
  PROVE  VInv'
  <1>0. VaultTypeOK
    BY DEF VInv
  <1>1. folders' \in [Folders -> Folder]
    BY <1>0 DEF VaultTypeOK, Folder, CreateFolder, PatchFolder, DeleteFolder
  <1>2. \A e \in Folders : folders[e].st # "none" =>
          folders'[e].st # "none" /\ folders'[e].zone = folders[e].zone
    BY <1>0 DEF VaultTypeOK, Folder, CreateFolder, PatchFolder, DeleteFolder
  <1>3. /\ UNCHANGED <<keys, enrolled, page, init, files, sweeper>>
        /\ Incident \/ UNCHANGED incidents
    BY DEF CreateFolder, PatchFolder, DeleteFolder
  <1>4. VaultTypeOK'
    BY <1>0, <1>1, <1>3, IncidentTyped DEF VaultTypeOK
  <1>5. (\A f \in Files : InFolder(files[f]))'
    BY <1>0, <1>2, <1>3 DEF VInv, VaultTypeOK, File, InFolder
  <1>6. (\A z \in Zones : SameKey(keys[z]))'
    BY <1>3 DEF VInv, SameKey
  <1> QED BY <1>4, <1>5, <1>6 DEF VInv

(* A step of one file is sound when its new row is. *)
LEMMA FileStep ==
  ASSUME VInv, NEW f \in Files, NEW row \in File, InFolder(row),
         files' = [files EXCEPT ![f] = row],
         UNCHANGED <<keys, enrolled, page, init, folders>>,
         sweeper' \in [pc: {"idle", "expire", "shred"}, files: SUBSET Files, zones: SUBSET Zones],
         sweeper'.pc = "idle" => sweeper' = Resting,
         Incident \/ UNCHANGED incidents
  PROVE  VInv'
  <1>0. VaultTypeOK
    BY DEF VInv
  <1>1. files' \in [Files -> File] /\ \A g \in Files : files'[g] = IF g = f THEN row ELSE files[g]
    BY <1>0 DEF VaultTypeOK
  <1>2. VaultTypeOK'
    BY <1>0, <1>1, IncidentTyped DEF VaultTypeOK
  <1>3. (\A g \in Files : InFolder(files[g]))'
    BY <1>1 DEF VInv, InFolder
  <1>4. (\A z \in Zones : SameKey(keys[z]))'
    BY DEF VInv, SameKey
  <1> QED BY <1>2, <1>3, <1>4 DEF VInv

LEMMA StartUploadStep ==
  ASSUME VInv, NEW f \in Files, NEW r, NEW z \in Zones, NEW d \in Folders \cup {None},
         StartUpload(f, r, z, d)
  PROVE  VInv'
  <1> DEFINE row == [files[f] EXCEPT !.st = "sent", !.zone = z, !.folder = d]
  <1>0. VaultTypeOK /\ files[f] \in File
    BY DEF VInv, VaultTypeOK
  <1>1. row \in File /\ row.folder = d /\ row.zone = z
    BY <1>0 DEF File
  <1>2. InFolder(row)
    BY <1>1 DEF StartUpload, InZone, InFolder
  <1>3. /\ files' = [files EXCEPT ![f] = row]
        /\ UNCHANGED <<keys, enrolled, page, init, folders, sweeper, incidents>>
    BY DEF StartUpload
  <1> HIDE DEF row
  <1> QED BY <1>0, <1>1, <1>2, <1>3, FileStep DEF VaultTypeOK

LEMMA FileSteps ==
  ASSUME VInv, NEW f \in Files,
         \/ FinishUpload(f) \/ RefuseUpload(f) \/ PatchFile(f) \/ DeleteFile(f)
         \/ TimePasses(f) \/ SweepFile(f)
  PROVE  VInv'
  <1>0. VaultTypeOK /\ files[f] \in File /\ InFolder(files[f])
    BY DEF VInv, VaultTypeOK
  <1>1. PICK row : files' = [files EXCEPT ![f] = row] /\ row \in File /\ InFolder(row)
    <2>1. CASE FinishUpload(f)
      <3> DEFINE row == [files[f] EXCEPT !.st = "live"]
      <3>1. row \in File /\ InFolder(row)
        BY <1>0 DEF File, InFolder
      <3>2. files' = [files EXCEPT ![f] = row]
        BY <1>0, <2>1 DEF VaultTypeOK, FinishUpload
      <3> QED BY <3>1, <3>2
    <2>2. CASE RefuseUpload(f)
      <3> DEFINE row == [files[f] EXCEPT !.st = "refused", !.zone = "shared", !.folder = None]
      <3>1. row \in File /\ InFolder(row)
        BY <1>0 DEF File, InFolder, Zones
      <3>2. files' = [files EXCEPT ![f] = row]
        BY <2>2 DEF RefuseUpload
      <3> QED BY <3>1, <3>2
    <2>3. CASE PatchFile(f)
      <3>1. ASSUME NEW d \in Folders \cup {None}, MoveTarget(f, d),
                   files' = [files EXCEPT ![f].folder = d]
            PROVE  \E row : files' = [files EXCEPT ![f] = row] /\ row \in File /\ InFolder(row)
        <4> DEFINE row == [files[f] EXCEPT !.folder = d]
        <4>1. row \in File /\ InFolder(row)
          BY <1>0, <3>1 DEF File, InFolder, MoveTarget, InZone
        <4>2. files' = [files EXCEPT ![f] = row]
          BY <1>0, <3>1 DEF VaultTypeOK
        <4> QED BY <4>1, <4>2
      <3>2. ASSUME NEW date \in {"future", "past", "month"},
                   files' = [files EXCEPT ![f].date = date]
            PROVE  \E row : files' = [files EXCEPT ![f] = row] /\ row \in File /\ InFolder(row)
        <4> DEFINE row == [files[f] EXCEPT !.date = date]
        <4>1. row \in File /\ InFolder(row)
          BY <1>0 DEF File, InFolder
        <4>2. files' = [files EXCEPT ![f] = row]
          BY <1>0, <3>2 DEF VaultTypeOK
        <4> QED BY <4>1, <4>2
      <3> QED BY <2>3, <3>1, <3>2 DEF PatchFile
    <2>4. ASSUME files' = SoftDeleted(f)
          PROVE  \E row : files' = [files EXCEPT ![f] = row] /\ row \in File /\ InFolder(row)
      <3> DEFINE row == [files[f] EXCEPT !.st = "deleted",
                                         !.date = IF @ = "null" THEN "past" ELSE @]
      <3>1. row \in File /\ InFolder(row)
        BY <1>0 DEF File, InFolder
      <3>2. files' = [files EXCEPT ![f] = row]
        BY <1>0, <2>4 DEF VaultTypeOK, SoftDeleted
      <3> QED BY <3>1, <3>2
    <2>5. CASE TimePasses(f)
      <3>1. PICK date \in {"past", "month"} : files' = [files EXCEPT ![f].date = date]
        BY <2>5 DEF TimePasses
      <3> DEFINE row == [files[f] EXCEPT !.date = date]
      <3>2. row \in File /\ InFolder(row)
        BY <1>0 DEF File, InFolder
      <3>3. files' = [files EXCEPT ![f] = row]
        BY <1>0, <3>1 DEF VaultTypeOK
      <3> QED BY <3>2, <3>3
    <2>6. CASE files' = files
      BY <1>0, <2>6 DEF VaultTypeOK
    <2> QED BY <2>1, <2>2, <2>3, <2>4, <2>5, <2>6 DEF DeleteFile, SweepFile
  <1>2. /\ UNCHANGED <<keys, enrolled, page, init, folders>>
        /\ Incident \/ UNCHANGED incidents
    BY DEF FinishUpload, RefuseUpload, PatchFile, DeleteFile, TimePasses, SweepFile
  <1>3. /\ sweeper' \in [pc: {"idle", "expire", "shred"}, files: SUBSET Files, zones: SUBSET Zones]
        /\ sweeper'.pc = "idle" => sweeper' = Resting
    BY <1>0 DEF VaultTypeOK, FinishUpload, RefuseUpload, PatchFile, DeleteFile, TimePasses, SweepFile
  <1> QED BY <1>1, <1>2, <1>3, FileStep

-----------------------------------------------------------------------------
LEMMA NextVInv == VInv /\ [VaultNext]_vaultVars => VInv'
  <1> SUFFICES ASSUME VInv, [VaultNext]_vaultVars PROVE VInv'
    OBVIOUS
  <1>1. CASE UNCHANGED vaultVars
    BY <1>1, QuietStep DEF vaultVars, VInv, VaultTypeOK
  <1>2. CASE \/ \E r \in Recipients : Enrol(r)
             \/ \E s \in Staff : Refresh(s) \/ ClickInitialize(s) \/ RotateRead(s)
                                   \/ InitializeFails(s)
    BY <1>2, PageSteps
  <1>3. CASE \E s \in Staff : RotateInsert(s)
    BY <1>3, RotateInsertStep
  <1>4. CASE \E s \in Staff, z \in Zones, r \in Recipients : AddRecipient(s, z, r)
    BY <1>4, AddRecipientStep
  <1>5. CASE \E d \in Folders :
               \/ DeleteFolder(d)
               \/ \E z \in Zones, p \in Folders \cup {None} : CreateFolder(d, z, p)
               \/ \E p \in Folders \cup {None} : PatchFolder(d, p)
    BY <1>5, FolderSteps
  <1>6. CASE \E f \in Files, r \in Recipients, z \in Zones, d \in Folders \cup {None} :
               StartUpload(f, r, z, d)
    BY <1>6, StartUploadStep
  <1>7. CASE \E f \in Files : \/ FinishUpload(f) \/ RefuseUpload(f) \/ PatchFile(f)
                              \/ DeleteFile(f) \/ TimePasses(f) \/ SweepFile(f)
    BY <1>7, FileSteps
  <1>8. CASE StartSweep \/ FindCandidate \/ SweepFails
    BY <1>8, SweepSteps
  <1>9. CASE \E z \in Zones : ShredZone(z)
    BY <1>9, ShredZoneStep
  <1>10. CASE Sweep \/ SweepFails
    BY <1>7, <1>8, <1>9, <1>10 DEF Sweep
  <1>11. CASE VaultNext /\ ~(Sweep \/ SweepFails)
    <2>1. CASE \E s \in Staff : \/ Refresh(s) \/ Initialize(s) \/ InitializeFails(s)
                               \/ \E z \in Zones, r \in Recipients : AddRecipient(s, z, r)
      BY <1>2, <1>3, <1>4, <2>1 DEF Initialize
    <2> QED BY <1>2, <1>5, <1>6, <1>7, <1>11, <2>1 DEF VaultNext
  <1> QED BY <1>1, <1>10, <1>11

THEOREM VInvHolds == VaultSpec => []VInv
  BY InitVInv, NextVInv, PTL DEF VaultSpec

(* Whoever initializes the vault at once, adds recipients or sweeps: all the wraps of a *)
(* zone seal one key.                                                                   *)
THEOREM ZoneHasOneKey == VaultSpec => []OneKeyPerZone
  <1>1. VInv => OneKeyPerZone
    <2> SUFFICES ASSUME VInv, NEW z \in Zones
                 PROVE  Cardinality({keys[z].wraps[r] : r \in Recipients} \ {None}) <= 1
      BY DEF OneKeyPerZone
    <2> DEFINE sealed == {keys[z].wraps[r] : r \in Recipients} \ {None}
    <2>1. \A x, y \in sealed : x = y
      BY DEF VInv, SameKey
    <2>2. CASE sealed = {}
      <3>1. Cardinality(sealed) = 0
        BY <2>2, FS_EmptySet
      <3> QED BY <3>1
    <2>3. CASE sealed # {}
      <3>1. PICK x : x \in sealed
        BY <2>3
      <3>2. sealed = {x}
        BY <2>1, <3>1
      <3>3. Cardinality(sealed) = 1
        BY <3>2, FS_Singleton
      <3> QED BY <3>3
    <2> QED BY <2>2, <2>3
  <1> QED BY VInvHolds, <1>1, PTL

(* An upload, a move, a deletion or a sweep never leaves a file in a folder of the other *)
(* zone, which clients could list.                                                       *)
THEOREM FilesNeverLeaveTheirZone == VaultSpec => []FilesStayInZone
  <1>1. VInv => FilesStayInZone
    BY DEF VInv, InFolder, FilesStayInZone
  <1> QED BY VInvHolds, <1>1, PTL

(* The tables, the pages and the sweep keep their types. *)
THEOREM VaultTypeCorrect == VaultSpec => []VaultTypeOK
  <1>1. VInv => VaultTypeOK
    BY DEF VInv
  <1> QED BY VInvHolds, <1>1, PTL

-----------------------------------------------------------------------------
(* Resumable uploads. *)

Prefix(n) == [i \in 1 .. n |-> i]

(* No PATCH will be accepted any more. *)
Closed(u) == rows[u].st = "gone" \/ rows[u].got = Size
Over(u) == client[u].pc \in {"done", "error"}
Starting(u) == client[u].pc \in {"new", "creating"}

(* What a handler relies on: while it writes, its part is what has been sent so far, *)
(* or gone together with the row or the token.                                       *)
HandlerOK(w, u) ==
  /\ w.pc = "stream" =>
       /\ stored[u] = <<>> /\ w.at <= w.put /\ w.put <= w.end
       /\ rows[u].st = "live" => rows[u].got = w.at
       /\ IF w.linked THEN part[u].there /\ part[u].units = Prefix(w.put)
                      ELSE ~part[u].there /\ ~Known(u)
  /\ w.pc \in {"read", "scan"} => stored[u] = <<>> /\ Closed(u)
  /\ w.pc = "read" /\ part[u].there => part[u].units = Whole
  /\ w.pc = "scan" => w.data = Whole
  /\ w.pc \in {"unlink", "forget"} => Closed(u) \/ Over(u)

Untorn(u) ==
  /\ stored[u] \in {<<>>, <<Whole>>}
  /\ stored[u] # <<>> => Closed(u)
  /\ \A g, h \in Working(u) : g = h
  /\ Known(u) /\ ~Closed(u) /\ ~Over(u) /\ Working(u) = {} => part[u].units = Prefix(rows[u].got)
  /\ \A h \in Working(u) : HandlerOK(handler[h], u)

UInv(u) ==
  /\ Starting(u) => /\ rows[u].st = "none" /\ rows[u].got = 0 /\ client[u].at = 0
                    /\ part[u].units = <<>>
  /\ client[u].pc = "new" => ~part[u].there
  /\ client[u].pc = "ready" => client[u].at < Size
  /\ Working(u) # {} => rows[u].st # "none"
  /\ \A h \in Working(u) : handler[h].linked => part[u].there
  /\ u \notin torn \cup lost => Untorn(u)

TInv == TypeOK /\ \A u \in Uploads : UInv(u)

-----------------------------------------------------------------------------
LEMMA PrefixGrows ==
  ASSUME NEW n \in Nat
  PROVE  /\ Prefix(0) = <<>>
         /\ Append(Prefix(n), n + 1) = Prefix(n + 1)
         /\ Prefix(Size) = Whole
  <1>1. Prefix(n) \in Seq(Nat) /\ Len(Prefix(n)) = n /\ Prefix(n + 1) \in Seq(Nat) /\ Len(Prefix(n + 1)) = n + 1
    BY DEF Prefix
  <1>2. \A i \in 1 .. n : Prefix(n)[i] = i
    BY DEF Prefix
  <1>3. \A i \in 1 .. n + 1 : Prefix(n + 1)[i] = i
    BY DEF Prefix
  <1>4. Append(Prefix(n), n + 1) \in Seq(Nat) /\ Len(Append(Prefix(n), n + 1)) = n + 1
    BY <1>1
  <1>5. \A i \in 1 .. n + 1 : Append(Prefix(n), n + 1)[i] = Prefix(n + 1)[i]
    BY <1>1, <1>2, <1>3
  <1>6. Append(Prefix(n), n + 1) = Prefix(n + 1)
    BY <1>1, <1>4, <1>5, SeqEqual
  <1>7. Prefix(0) = <<>>
    BY DEF Prefix
  <1>8. Prefix(Size) = Whole
    BY DEF Prefix, Whole
  <1> QED BY <1>6, <1>7, <1>8

LEMMA Constants == Size \in Nat /\ Size > 0 /\ Chunk \in Nat /\ Chunk > 0 /\ MaxFailures \in Nat
                   /\ MaxAge \in Nat /\ RowLife \in Nat /\ TokenLife \in Nat /\ Ttl \in Nat
  BY TusAssumption

(* What the type of the state says of one handler and one upload. *)
LEMMA HandlerTyped ==
  ASSUME TypeOK, NEW h \in Handlers
  PROVE  /\ handler[h].pc = "idle" <=> handler[h] = Idle
         /\ handler[h] # Idle =>
              /\ handler[h] \in Patching /\ handler[h].up \in Uploads
              /\ handler[h].at \in 0 .. Size /\ handler[h].put \in 0 .. Size /\ handler[h].end \in 0 .. Size
              /\ handler[h].data \in Seq(1 .. Size) /\ handler[h].linked \in BOOLEAN
              /\ handler[h].pc \in {"stream", "read", "scan", "unlink", "forget"}
  BY DEF TypeOK, Patching, Idle

LEMMA UploadTyped ==
  ASSUME TypeOK, NEW u \in Uploads
  PROVE  /\ rows[u] \in Row /\ rows[u].got \in 0 .. Size /\ rows[u].st \in {"none", "live", "gone"}
         /\ rows[u].kind \in {"vault", "intake"} /\ rows[u].age \in 0 .. MaxAge
         /\ part[u] \in Part /\ part[u].units \in Seq(1 .. Size)
         /\ part[u].there \in BOOLEAN /\ part[u].age \in 0 .. MaxAge
         /\ client[u] \in Client /\ client[u].at \in 0 .. Size
         /\ client[u].pc \in {"new", "creating", "ready", "waiting", "failed", "done", "error"}
         /\ stored[u] \in Seq(Seq(1 .. Size))
         /\ ~part[u].there => part[u] = Unlinked
  BY DEF TypeOK, Row, Part, Client

(* A step that leaves an upload and its handlers alone. *)
LEMMA Kept ==
  ASSUME TypeOK, NEW v \in Uploads, UInv(v),
         rows'[v] = rows[v], part'[v] = part[v], stored'[v] = stored[v],
         client'[v].at = client[v].at,
         client'[v].pc \in {"new", "creating", "ready"} => client'[v].pc = client[v].pc,
         Over(v) => Over(v)',
         \A h \in Handlers : \/ handler[h] # Idle /\ handler[h].up = v
                             \/ handler'[h] # Idle /\ handler'[h].up = v
                             => handler'[h] = handler[h],
         v \in torn \cup lost => v \in torn' \cup lost'
  PROVE  UInv(v)'
  <1>1. Working(v)' = Working(v)
    BY DEF Working
  <1>2. \A h \in Working(v) : handler'[h] = handler[h]
    BY DEF Working
  <1>3. Known(v)' = Known(v) /\ Closed(v)' = Closed(v) /\ (Starting(v)' => Starting(v))
    BY DEF Known, Late, Lifetime, Closed, Starting
  <1>4. ASSUME NEW h \in Working(v), HandlerOK(handler[h], v) PROVE HandlerOK(handler[h], v)'
    BY <1>2, <1>3, <1>4 DEF HandlerOK
  <1>5. Untorn(v) => Untorn(v)'
    BY <1>1, <1>3, <1>4 DEF Untorn
  <1> QED BY <1>1, <1>2, <1>3, <1>5 DEF UInv, Starting

LEMMA InitTInv == Init => TInv
  <1> SUFFICES ASSUME Init PROVE TInv
    OBVIOUS
  <1>1. \A u \in Uploads : /\ rows[u] \in Row /\ rows[u].st = "none" /\ rows[u].got = 0
                           /\ part[u] = Unlinked /\ client[u] = [pc |-> "new", at |-> 0]
                           /\ stored[u] = <<>>
    BY DEF Init, Unlinked
  <1>2. \A h \in Handlers : handler[h] = Idle
    BY DEF Init
  <1>3. Unlinked \in Part /\ [pc |-> "new", at |-> 0] \in Client
    BY Constants DEF Unlinked, Part, Client
  <1>4. TypeOK
    BY <1>1, <1>3, Constants DEF TypeOK, Init, Unlinked
  <1>5. ASSUME NEW u \in Uploads PROVE UInv(u)
    <2>1. Working(u) = {}
      BY <1>2 DEF Working
    <2>2. Untorn(u)
      BY <1>1, <2>1 DEF Untorn, Known, Late, Lifetime
    <2> QED BY <1>1, <2>1, <2>2, Constants DEF UInv, Starting, Known, Late, Lifetime, Init, Unlinked
  <1> QED BY <1>4, <1>5 DEF TInv

-----------------------------------------------------------------------------
(* Types. *)

LEMMA PutTyped ==
  ASSUME NEW w \in Patching, NEW n \in 0 .. Size
  PROVE  [w EXCEPT !.put = n] \in Patching
  BY DEF Patching

LEMMA DataTyped ==
  ASSUME NEW w \in Patching
  PROVE  [w EXCEPT !.data = <<>>] \in Patching
  <1>1. ASSUME NEW d \in Seq(1 .. Size) PROVE [w EXCEPT !.data = d] \in Patching
    BY DEF Patching
  <1>2. <<>> \in Seq(1 .. Size)
    OBVIOUS
  <1> QED BY <1>1, <1>2

LEMMA UnitsTyped ==
  ASSUME NEW p \in Part, NEW d \in Seq(1 .. Size)
  PROVE  /\ [p EXCEPT !.units = d, !.age = 0] \in Part
         /\ [p EXCEPT !.units = d, !.age = 0].there = p.there
  <1>1. [p EXCEPT !.units = d] \in Part /\ [p EXCEPT !.units = d].there = p.there
    BY DEF Part
  <1>2. 0 \in 0 .. MaxAge
    BY Constants
  <1>3. ASSUME NEW q \in Part PROVE [q EXCEPT !.age = 0] \in Part /\ [q EXCEPT !.age = 0].there = q.there
    BY <1>2 DEF Part
  <1>4. [p EXCEPT !.units = d, !.age = 0] = [[p EXCEPT !.units = d] EXCEPT !.age = 0]
    BY DEF Part
  <1> QED BY <1>1, <1>3, <1>4

LEMMA CutTyped ==
  ASSUME NEW us, NEW hs \in [Handlers -> Patching \cup {Idle}]
  PROVE  Cut(hs, us) \in [Handlers -> Patching \cup {Idle}]
  <1>1. ASSUME NEW h \in Handlers
        PROVE  (IF hs[h] # Idle /\ hs[h].up \in us THEN [hs[h] EXCEPT !.linked = FALSE] ELSE hs[h])
                 \in Patching \cup {Idle}
    <2>1. hs[h] # Idle => [hs[h] EXCEPT !.linked = FALSE] \in Patching
      BY DEF Patching
    <2> QED BY <2>1
  <1> QED BY <1>1 DEF Cut

LEMMA GoesTyped ==
  ASSUME TypeOK, NEW u \in Uploads,
         NEW pc \in {"new", "creating", "ready", "waiting", "failed", "done", "error"}
  PROVE  Goes(u, pc) \in [Uploads -> Client]
  <1>1. [client[u] EXCEPT !.pc = pc] \in Client
    BY UploadTyped DEF Client
  <1> QED BY <1>1 DEF Goes, TypeOK

LEMMA HearsTyped ==
  ASSUME TypeOK, NEW u \in Uploads, NEW c \in Client
  PROVE  Hears(u, c) \in [Uploads -> Client]
  BY DEF Hears, TypeOK

LEMMA ClientStepsTyped ==
  ASSUME TInv, NEW u \in Uploads,
         \/ CreatePart(u) \/ CreateRow(u) \/ CreateFails(u) \/ RefusePatch(u) \/ Lose(u)
         \/ AskOffset(u)
  PROVE  TypeOK'
  <1>0. TypeOK
    BY DEF TInv
  <1>1. CASE CreatePart(u)
    <2>1. [there |-> TRUE, units |-> <<>>, age |-> 0] \in Part
      BY Constants DEF Part
    <2>2. client' \in [Uploads -> Client]
      BY <1>0, <1>1, GoesTyped DEF CreatePart
    <2> QED BY <1>0, <1>1, <2>1, <2>2 DEF CreatePart, TypeOK
  <1>2. CASE CreateRow(u)
    <2>1. [rows[u] EXCEPT !.st = "live"] \in Row
      BY <1>0, UploadTyped DEF Row
    <2>2. client' \in [Uploads -> Client]
      BY <1>0, <1>2, GoesTyped DEF CreateRow
    <2> QED BY <1>0, <1>2, <2>1, <2>2 DEF CreateRow, TypeOK
  <1>3. CASE CreateFails(u) \/ Lose(u)
    <2>2. client' \in [Uploads -> Client]
      BY <1>0, <1>3, GoesTyped DEF CreateFails, Lose
    <2>3. failures' \in 0 .. MaxFailures
      BY <1>0, <1>3, Constants DEF CreateFails, Lose, Fail, TypeOK
    <2> QED BY <1>0, <1>3, <2>2, <2>3 DEF CreateFails, Lose, TypeOK
  <1>4. CASE RefusePatch(u)
    <2>2. client' \in [Uploads -> Client]
      BY <1>0, <1>4, GoesTyped DEF RefusePatch
    <2> QED BY <1>0, <1>4, <2>2 DEF RefusePatch, TypeOK
  <1>5. CASE AskOffset(u)
    <2>1. AfterAsking(u) \in Client
      BY <1>0, UploadTyped, Constants DEF AfterAsking, Client
    <2> QED BY <1>0, <1>5, <2>1 DEF AskOffset, TypeOK
  <1> QED BY <1>1, <1>2, <1>3, <1>4, <1>5

LEMMA RequestStartsTyped ==
  ASSUME TInv, NEW u \in Uploads, NEW h \in Handlers, StartPatch(h, u) \/ Terminate(h, u)
  PROVE  TypeOK'
  <1>0. TypeOK
    BY DEF TInv
  <1>1. CASE StartPatch(h, u)
    <2> DEFINE last == client[u].at + Chunk
               w == [pc |-> "stream", up |-> u, at |-> rows[u].got, put |-> client[u].at,
                     end |-> IF last < Size THEN last ELSE Size, ok |-> TRUE, linked |-> TRUE,
                     data |-> <<>>]
               p == IF part[u].there THEN part[u] ELSE [part[u] EXCEPT !.there = TRUE]
    <2>1. w \in Patching
      BY <1>0, UploadTyped, Constants DEF Patching
    <2>2. p \in Part /\ p.there
      BY <1>0, UploadTyped DEF Part
    <2>3. client' \in [Uploads -> Client]
      BY <1>0, <1>1, GoesTyped DEF StartPatch
    <2>4. handler' = [handler EXCEPT ![h] = w] /\ part' = [part EXCEPT ![u] = p]
          /\ torn' \subseteq Uploads /\ UNCHANGED <<rows, stored, sweep, lost, failures>>
      BY <1>0, <1>1 DEF StartPatch, TypeOK
    <2> HIDE DEF w, p
    <2> QED BY <1>0, <2>1, <2>2, <2>3, <2>4 DEF TypeOK
  <1>2. CASE Terminate(h, u)
    <2> DEFINE w == [pc |-> "unlink", up |-> u, at |-> 0, put |-> 0, end |-> 0, ok |-> FALSE,
                     linked |-> FALSE, data |-> <<>>]
    <2>1. w \in Patching
      BY Constants DEF Patching
    <2>3. client' \in [Uploads -> Client]
      BY <1>0, <1>2, GoesTyped DEF Terminate
    <2>4. handler' = [handler EXCEPT ![h] = w]
          /\ torn' \subseteq Uploads /\ UNCHANGED <<rows, part, stored, sweep, lost, failures>>
      BY <1>0, <1>2 DEF Terminate, TypeOK
    <2> HIDE DEF w
    <2> QED BY <1>0, <2>1, <2>3, <2>4 DEF TypeOK
  <1> QED BY <1>1, <1>2

LEMMA WritesTyped ==
  ASSUME TInv, NEW h \in Handlers, Stream(h) \/ Record(h) \/ Break(h)
  PROVE  TypeOK'
  <1> DEFINE w == handler[h]
             u == w.up
  <1>0. TypeOK /\ w.pc = "stream"
    BY DEF TInv, Stream, Record, Break
  <1>1. w # Idle /\ w \in Patching /\ u \in Uploads /\ w.put \in 0 .. Size /\ w.end \in 0 .. Size
    BY <1>0, HandlerTyped DEF Idle
  <1>2. w.linked => part[u].there
    BY <1>1 DEF TInv, UInv, Working
  <1>3. CASE Stream(h)
    <2>1. w.put + 1 \in 1 .. Size /\ w.put + 1 \in 0 .. Size
      BY <1>1, <1>3, Constants DEF Stream
    <2>2. [w EXCEPT !.put = w.put + 1] \in Patching
      BY <1>1, <2>1, PutTyped
    <2>3. ASSUME w.linked
          PROVE  /\ [part[u] EXCEPT !.units = Append(part[u].units, w.put + 1), !.age = 0] \in Part
                 /\ [part[u] EXCEPT !.units = Append(part[u].units, w.put + 1), !.age = 0].there
      <3>1. Append(part[u].units, w.put + 1) \in Seq(1 .. Size)
        BY <1>0, <1>1, <2>1, UploadTyped
      <3>2. part[u] \in Part /\ part[u].there
        BY <1>0, <1>1, <1>2, <2>3, UploadTyped
      <3> HIDE DEF w, u
      <3> QED BY <3>1, <3>2, UnitsTyped
    <2>4. part' \in [Uploads -> Part] /\ \A v \in Uploads : ~part'[v].there => part'[v] = Unlinked
      BY <1>0, <1>1, <1>3, <2>3 DEF Stream, TypeOK
    <2> QED BY <1>0, <1>1, <1>3, <2>2, <2>4 DEF Stream, TypeOK
  <1>4. CASE Record(h)
    <2>1. Counted(w) \in Row
      BY <1>0, <1>1, UploadTyped DEF Counted, Row
    <2>2. [w EXCEPT !.pc = "read"] \in Patching
      BY <1>1 DEF Patching
    <2>3. [pc |-> "ready", at |-> w.end] \in Client
      BY <1>1 DEF Client
    <2>4. client' \in [Uploads -> Client]
      BY <1>0, <1>1, <1>4, <2>3, HearsTyped DEF Record, TypeOK
    <2> QED BY <1>0, <1>1, <1>4, <2>1, <2>2, <2>4 DEF Record, TypeOK
  <1>5. CASE Break(h)
    <2>1. client' \in [Uploads -> Client]
      BY <1>0, <1>1, <1>5, GoesTyped DEF Break, TypeOK
    <2>2. failures' \in 0 .. MaxFailures
      BY <1>0, <1>5, Constants DEF Break, Fail, TypeOK
    <2> QED BY <1>0, <1>1, <1>5, <2>1, <2>2 DEF Break, TypeOK
  <1> QED BY <1>3, <1>4, <1>5

LEMMA FinalizingTyped ==
  ASSUME TInv, NEW h \in Handlers,
         ReadPart(h) \/ Insert(h) \/ RefuseFile(h) \/ UnlinkPart(h) \/ Forget(h)
  PROVE  TypeOK'
  <1> DEFINE w == handler[h]
             u == w.up
  <1>0. TypeOK /\ w.pc \in {"read", "scan", "unlink", "forget"}
    BY DEF TInv, ReadPart, Insert, RefuseFile, UnlinkPart, Forget
  <1>1. w # Idle /\ w \in Patching /\ u \in Uploads /\ w.data \in Seq(1 .. Size)
    BY <1>0, HandlerTyped DEF Idle
  <1>2. part[u].units \in Seq(1 .. Size)
    BY <1>0, <1>1, UploadTyped
  <1>3. CASE ReadPart(h)
    <2>1. [w EXCEPT !.pc = "scan", !.data = part[u].units] \in Patching
          /\ [w EXCEPT !.pc = "unlink", !.ok = FALSE] \in Patching
      BY <1>1, <1>2 DEF Patching
    <2> QED BY <1>0, <1>1, <1>3, <2>1 DEF ReadPart, TypeOK
  <1>4. CASE Insert(h)
    <2>0. [w EXCEPT !.pc = "unlink"] \in Patching
      BY <1>1 DEF Patching
    <2>1. [[w EXCEPT !.pc = "unlink"] EXCEPT !.data = <<>>] \in Patching
      BY <2>0, DataTyped
    <2>2. handler' \in [Handlers -> Patching \cup {Idle}]
      <3>1. handler' = [handler EXCEPT ![h] = [[w EXCEPT !.pc = "unlink"] EXCEPT !.data = <<>>]]
        BY <1>0, <1>4 DEF Insert, TypeOK
      <3> QED BY <1>0, <2>1, <3>1 DEF TypeOK
    <2>3. stored' \in [Uploads -> Seq(Seq(1 .. Size))]
      <3>1. Append(stored[u], w.data) \in Seq(Seq(1 .. Size))
        BY <1>0, <1>1, UploadTyped
      <3> QED BY <1>0, <1>1, <1>4, <3>1 DEF Insert, TypeOK
    <2> QED BY <1>0, <1>4, <2>2, <2>3 DEF Insert, TypeOK
  <1>5. CASE RefuseFile(h)
    <2>0. [w EXCEPT !.pc = "unlink", !.ok = FALSE] \in Patching
      BY <1>1 DEF Patching
    <2>1. [w EXCEPT !.pc = "unlink", !.ok = FALSE, !.data = <<>>] \in Patching
      BY <2>0, DataTyped
    <2>2. failures' \in 0 .. MaxFailures
      BY <1>0, <1>5, Constants DEF RefuseFile, Fail, TypeOK
    <2> QED BY <1>0, <1>5, <2>1, <2>2 DEF RefuseFile, TypeOK
  <1>6. CASE UnlinkPart(h)
    <2>1. [w EXCEPT !.pc = "forget"] \in Patching
      BY <1>1 DEF Patching
    <2>2. [handler EXCEPT ![h].pc = "forget"] \in [Handlers -> Patching \cup {Idle}]
      BY <1>0, <2>1 DEF TypeOK
    <2>3. handler' \in [Handlers -> Patching \cup {Idle}]
      BY <1>6, <2>2, CutTyped DEF UnlinkPart
    <2>4. Unlinked \in Part
      BY Constants DEF Unlinked, Part
    <2> QED BY <1>0, <1>1, <1>6, <2>3, <2>4 DEF UnlinkPart, TypeOK
  <1>7. CASE Forget(h)
    <2>1. [rows[u] EXCEPT !.st = "gone"] \in Row
      BY <1>0, <1>1, UploadTyped DEF Row
    <2>2. (IF w.ok THEN [pc |-> "done", at |-> Size] ELSE [pc |-> "failed", at |-> client[u].at]) \in Client
      BY <1>0, <1>1, UploadTyped, Constants DEF Client
    <2>3. client' \in [Uploads -> Client]
      BY <1>0, <1>1, <1>7, <2>2, HearsTyped DEF Forget
    <2> QED BY <1>0, <1>1, <1>7, <2>1, <2>3 DEF Forget, TypeOK
  <1> QED BY <1>3, <1>4, <1>5, <1>6, <1>7

(* Rows and parts get no younger, and Late stays. *)
LEMMA OlderFacts ==
  ASSUME NEW a \in 0 .. MaxAge, NEW most \in 0 .. MaxAge
  PROVE  Older(a, most) \in 0 .. MaxAge /\ a <= Older(a, most)
  BY Constants DEF Older

LEMMA LifetimeTyped ==
  \A u \in Uploads : Lifetime(u) \in Nat /\ Lifetime(u) \in 0 .. MaxAge
  BY TusAssumption DEF Lifetime

LEMMA Ticked ==
  ASSUME TypeOK, Tick, NEW u \in Uploads
  PROVE  /\ rows'[u] \in Row /\ part'[u] \in Part
         /\ rows'[u].st = rows[u].st /\ rows'[u].got = rows[u].got /\ rows'[u].kind = rows[u].kind
         /\ rows[u].age <= rows'[u].age
         /\ rows[u].st # "none" => rows'[u].age = Older(rows[u].age, Lifetime(u))
         /\ part'[u].units = part[u].units /\ part'[u].there = part[u].there
         /\ part[u].there => part'[u].age = Older(part[u].age, Ttl)
         /\ ~part[u].there => part'[u] = Unlinked
         /\ Late(u) => Late(u)'
  <1>1. rows[u] \in Row /\ rows[u].age \in 0 .. MaxAge /\ part[u] \in Part /\ part[u].age \in 0 .. MaxAge
    BY UploadTyped
  <1>2. /\ Older(rows[u].age, Lifetime(u)) \in 0 .. MaxAge /\ rows[u].age <= Older(rows[u].age, Lifetime(u))
        /\ Older(part[u].age, Ttl) \in 0 .. MaxAge
    <2>1. Ttl \in 0 .. MaxAge
      BY TusAssumption
    <2> QED BY <1>1, <2>1, OlderFacts, LifetimeTyped
  <1>3. /\ rows'[u] = IF rows[u].st = "none" THEN rows[u] ELSE [rows[u] EXCEPT !.age = Older(rows[u].age, Lifetime(u))]
        /\ part'[u] = IF part[u].there THEN [part[u] EXCEPT !.age = Older(part[u].age, Ttl)] ELSE part[u]
    BY DEF Tick
  <1>4. /\ rows'[u] \in Row
        /\ rows'[u].st = rows[u].st /\ rows'[u].got = rows[u].got /\ rows'[u].kind = rows[u].kind
        /\ rows'[u].age = IF rows[u].st = "none" THEN rows[u].age ELSE Older(rows[u].age, Lifetime(u))
    BY <1>1, <1>2, <1>3 DEF Row
  <1>5. /\ part'[u] \in Part
        /\ part'[u].units = part[u].units /\ part'[u].there = part[u].there
        /\ part[u].there => part'[u].age = Older(part[u].age, Ttl)
    BY <1>1, <1>2, <1>3 DEF Part
  <1>6. rows[u].age <= rows'[u].age /\ rows'[u].age \in Nat /\ rows[u].age \in Nat
    BY <1>1, <1>2, <1>4, Constants
  <1>7. Late(u) => Late(u)'
    BY <1>4, <1>6, Constants DEF Late, Lifetime
  <1>8. ~part[u].there => part'[u] = Unlinked
    BY <1>3, UploadTyped
  <1> QED BY <1>4, <1>5, <1>6, <1>7, <1>8

LEMMA SystemStepsTyped ==
  ASSUME TInv, Crash \/ Tick \/ ReapRows \/ SweepParts
  PROVE  TypeOK'
  <1>0. TypeOK
    BY DEF TInv
  <1>1. CASE Crash
    <2>1. \A u \in Uploads : [client[u] EXCEPT !.pc = "failed"] \in Client
      BY <1>0, UploadTyped DEF Client
    <2>2. client' \in [Uploads -> Client]
      BY <1>0, <1>1, <2>1 DEF Crash, TypeOK
    <2>3. failures' \in 0 .. MaxFailures
      BY <1>0, <1>1, Constants DEF Crash, Fail, TypeOK
    <2> QED BY <1>0, <1>1, <2>2, <2>3 DEF Crash, TypeOK
  <1>2. CASE Tick
    <2>1. /\ rows' \in [Uploads -> Row] /\ part' \in [Uploads -> Part]
          /\ \A u \in Uploads : ~part'[u].there => part'[u] = Unlinked
      <3>1. \A u \in Uploads : /\ rows'[u] \in Row /\ part'[u] \in Part
                               /\ ~part'[u].there => part'[u] = Unlinked
        BY <1>0, <1>2, Ticked
      <3>2. rows' = [u \in Uploads |-> rows'[u]] /\ part' = [u \in Uploads |-> part'[u]]
        BY <1>2 DEF Tick
      <3> QED BY <3>1, <3>2
    <2> QED BY <1>0, <1>2, <2>1 DEF Tick, TypeOK
  <1>3. CASE ReapRows
    <2>1. \A u \in Uploads : [rows[u] EXCEPT !.st = "gone"] \in Row
      BY <1>0, UploadTyped DEF Row
    <2>2. rows' \in [Uploads -> Row]
      BY <1>0, <1>3, <2>1 DEF ReapRows, Reaped, TypeOK
    <2>3. sweep' \subseteq Uploads
      BY <1>3 DEF ReapRows
    <2> QED BY <1>0, <1>3, <2>2, <2>3 DEF ReapRows, TypeOK
  <1>4. CASE SweepParts
    <2>1. handler' \in [Handlers -> Patching \cup {Idle}]
      BY <1>0, <1>4, CutTyped DEF SweepParts, TypeOK
    <2>2. Unlinked \in Part
      BY Constants DEF Unlinked, Part
    <2> QED BY <1>0, <1>4, <2>1, <2>2 DEF SweepParts, TypeOK
  <1> QED BY <1>1, <1>2, <1>3, <1>4

-----------------------------------------------------------------------------
(* The steps of a client and of the clock. *)

LEMMA ClientSteps ==
  ASSUME TInv, NEW u \in Uploads,
         \/ CreatePart(u) \/ CreateRow(u) \/ CreateFails(u) \/ RefusePatch(u) \/ Lose(u)
         \/ AskOffset(u)
  PROVE  \A v \in Uploads : UInv(v)'
  <1>0. TypeOK /\ \A v \in Uploads : UInv(v)
    BY DEF TInv
  <1>1. UNCHANGED <<handler, stored, torn, lost>>
    BY DEF CreatePart, CreateRow, CreateFails, RefusePatch, Lose, AskOffset
  <1>2. ASSUME NEW v \in Uploads, v # u PROVE UInv(v)'
    <2>1. rows'[v] = rows[v] /\ part'[v] = part[v] /\ client'[v] = client[v]
      BY <1>0, <1>2 DEF CreatePart, CreateRow, CreateFails, RefusePatch, Lose, AskOffset, Goes, TypeOK
    <2> QED BY <1>0, <1>1, <2>1, Kept DEF Over
  <1> SUFFICES UInv(u)'
    BY <1>2
  <1>3. Working(u)' = Working(u) /\ UInv(u)
    BY <1>0, <1>1 DEF Working
  <1>4. CASE CreatePart(u)
    <2>1. /\ rows'[u] = rows[u] /\ part'[u] = [there |-> TRUE, units |-> <<>>, age |-> 0]
          /\ client'[u].pc = "creating" /\ client'[u].at = client[u].at /\ client[u].pc = "new"
      BY <1>0, <1>4, UploadTyped DEF CreatePart, Goes, TypeOK, Client
    <2>2. Starting(u) /\ rows[u].st = "none" /\ Working(u) = {}
      BY <1>3, <2>1 DEF UInv, Starting
    <2>3. Untorn(u) => Untorn(u)'
      BY <1>1, <1>3, <2>1, <2>2 DEF Untorn, Known, Late, Lifetime, Closed
    <2> QED BY <1>1, <1>3, <2>1, <2>2, <2>3 DEF UInv, Starting, Known, Late, Lifetime
  <1>5. CASE CreateRow(u)
    <2>1. /\ rows'[u].st = "live" /\ rows'[u].got = rows[u].got /\ part'[u] = part[u]
          /\ client'[u].pc = "ready" /\ client'[u].at = client[u].at /\ client[u].pc = "creating"
      BY <1>0, <1>5, UploadTyped DEF CreateRow, Goes, TypeOK, Client, Row
    <2>2. Starting(u) /\ rows[u].st = "none" /\ Working(u) = {} /\ rows[u].got = 0 /\ client[u].at = 0
      BY <1>3, <2>1 DEF UInv, Starting
    <2>3. Untorn(u) => Untorn(u)'
      <3>1. part[u].units = Prefix(0)
        BY <1>3, <2>2, PrefixGrows DEF UInv
      <3> QED BY <1>1, <1>3, <2>1, <2>2, <3>1, Constants DEF Untorn, Known, Late, Lifetime, Closed
    <2> QED BY <1>1, <1>3, <2>1, <2>2, <2>3, Constants DEF UInv, Starting, Known, Late, Lifetime
  <1>6. CASE CreateFails(u) \/ RefusePatch(u) \/ Lose(u)
    <2>1. /\ rows'[u] = rows[u] /\ part'[u] = part[u] /\ client'[u].at = client[u].at
          /\ client'[u].pc \in {"failed", "error"}
          /\ client[u].pc \notin {"done", "error"}
      BY <1>0, <1>6, UploadTyped DEF CreateFails, RefusePatch, Lose, Goes, TypeOK, Client
    <2>2. Over(u) => Over(u)'
      BY <2>1 DEF Over
    <2> QED BY <1>0, <1>1, <1>3, <2>1, <2>2, Kept
  <1>7. CASE AskOffset(u)
    <2>1. /\ rows'[u] = rows[u] /\ part'[u] = part[u] /\ client'[u] = AfterAsking(u)
          /\ client[u].pc = "failed"
      BY <1>0, <1>7 DEF AskOffset, TypeOK
    <2>2. /\ client'[u].pc \in {"ready", "done", "error"}
          /\ client'[u].pc = "ready" => client'[u].at < Size
      BY <1>0, <2>1, UploadTyped, Constants DEF AfterAsking
    <2>3. Known(u)' = Known(u) /\ Closed(u)' = Closed(u) /\ ~Over(u) /\ ~Starting(u)'
      BY <2>1, <2>2 DEF Known, Late, Lifetime, Closed, Over, Starting
    <2>4. ASSUME NEW h \in Working(u), HandlerOK(handler[h], u) PROVE HandlerOK(handler[h], u)'
      BY <1>1, <2>1, <2>3, <2>4 DEF HandlerOK
    <2>5. Untorn(u) => Untorn(u)'
      BY <1>1, <1>3, <2>1, <2>3, <2>4 DEF Untorn
    <2> QED BY <1>1, <1>3, <2>1, <2>2, <2>3, <2>5 DEF UInv, Starting
  <1> QED BY <1>4, <1>5, <1>6, <1>7

LEMMA RequestStarts ==
  ASSUME TInv, NEW u \in Uploads, NEW h \in Handlers, StartPatch(h, u) \/ Terminate(h, u)
  PROVE  \A v \in Uploads : UInv(v)'
  <1>0. TypeOK /\ (\A v \in Uploads : UInv(v)) /\ UInv(u)
    BY DEF TInv
  <1>1. /\ UNCHANGED <<rows, stored, sweep, lost, failures>> /\ handler[h] = Idle
        /\ \A g \in Handlers \ {h} : handler'[g] = handler[g]
        /\ handler'[h].up = u /\ handler'[h].pc \in {"stream", "unlink"}
        /\ Working(u) # {} => u \in torn'
        /\ torn \subseteq torn' /\ torn' \subseteq torn \cup {u}
        /\ client[u].pc \in {"ready", "failed"} /\ Known(u)
    BY <1>0 DEF StartPatch, Terminate, Free, TypeOK, Accepts
  <1>2. handler'[h] # Idle
    BY <1>1 DEF Idle
  <1>3. ASSUME NEW v \in Uploads, v # u PROVE UInv(v)'
    <2>1. part'[v] = part[v] /\ client'[v] = client[v] /\ rows'[v] = rows[v] /\ stored'[v] = stored[v]
      BY <1>0, <1>1, <1>3 DEF StartPatch, Terminate, Goes, TypeOK
    <2>2. \A g \in Handlers : \/ handler[g] # Idle /\ handler[g].up = v
                              \/ handler'[g] # Idle /\ handler'[g].up = v
                              => handler'[g] = handler[g]
      BY <1>1, <1>3
    <2> QED BY <1>0, <1>1, <2>1, <2>2, Kept DEF Over
  <1> SUFFICES UInv(u)'
    BY <1>3
  <1>4. Working(u)' = Working(u) \cup {h} /\ h \notin Working(u)
    BY <1>1, <1>2 DEF Working
  <1>5. rows[u].st = "live" /\ ~Starting(u)
    BY <1>0, <1>1 DEF Known, Late, Lifetime, Starting, UInv
  <1>6. CASE StartPatch(h, u)
    <2>1. /\ handler'[h].pc = "stream" /\ handler'[h].at = rows[u].got /\ handler'[h].put = client[u].at
          /\ handler'[h].linked /\ client[u].at = rows[u].got /\ client[u].pc = "ready"
          /\ handler'[h].end = IF client[u].at + Chunk < Size THEN client[u].at + Chunk ELSE Size
      BY <1>0, <1>6 DEF StartPatch, Accepts, TypeOK
    <2>2. part'[u].there /\ part'[u].units = part[u].units
      <3>1. [part[u] EXCEPT !.there = TRUE].there /\ [part[u] EXCEPT !.there = TRUE].units = part[u].units
        BY <1>0, UploadTyped DEF Part
      <3> QED BY <1>0, <1>6, <3>1 DEF StartPatch, TypeOK
    <2>3. client'[u].pc = "waiting"
      BY <1>0, <1>6, UploadTyped DEF StartPatch, Goes, TypeOK, Client
    <2>4. client[u].at < Size /\ client[u].at \in Nat
      BY <1>0, <2>1, UploadTyped, Constants DEF UInv
    <2>5. ~Closed(u) /\ ~Over(u)
      BY <1>5, <2>1, <2>4 DEF Closed, Over
    <2>6. ASSUME u \notin torn' \cup lost' PROVE Untorn(u)'
      <3>1. u \notin torn \cup lost /\ Working(u) = {} /\ Untorn(u)
        BY <1>0, <1>1, <2>6 DEF UInv
      <3>2. stored[u] = <<>> /\ part[u].units = Prefix(rows[u].got)
        BY <1>1, <2>5, <3>1 DEF Untorn
      <3>3. HandlerOK(handler[h], u)'
        BY <1>1, <2>1, <2>2, <2>4, <3>2, Constants DEF HandlerOK
      <3> QED BY <1>1, <1>4, <3>1, <3>2, <3>3 DEF Untorn
    <2>7. \A g \in Working(u)' : handler'[g].linked => part'[u].there
      BY <2>2
    <2> QED BY <1>0, <1>1, <1>5, <2>2, <2>3, <2>6, <2>7 DEF UInv, Starting, Known, Late, Lifetime
  <1>7. CASE Terminate(h, u)
    <2>1. /\ handler'[h].pc = "unlink" /\ ~handler'[h].linked /\ part' = part
      BY <1>0, <1>7 DEF Terminate, TypeOK
    <2>2. client'[u].pc = "error"
      BY <1>0, <1>7, UploadTyped DEF Terminate, Goes, TypeOK, Client
    <2>6. ASSUME u \notin torn' \cup lost' PROVE Untorn(u)'
      <3>1. u \notin torn \cup lost /\ Working(u) = {} /\ Untorn(u)
        BY <1>0, <1>1, <2>6 DEF UInv
      <3>2. Over(u)'
        BY <2>2 DEF Over
      <3>3. HandlerOK(handler[h], u)'
        BY <2>1, <3>2 DEF HandlerOK
      <3> QED BY <1>1, <1>4, <3>1, <3>3 DEF Untorn, Closed
    <2>7. \A g \in Working(u)' : handler'[g].linked => part'[u].there
      BY <1>0, <1>1, <1>4, <2>1 DEF UInv, Working
    <2> QED BY <1>0, <1>1, <1>5, <2>1, <2>2, <2>6, <2>7 DEF UInv, Starting, Known, Late, Lifetime
  <1> QED BY <1>6, <1>7

-----------------------------------------------------------------------------
(* The steps of a handler. *)

LEMMA WriteSteps ==
  ASSUME TInv, NEW h \in Handlers, NEW u \in Uploads, handler[h].up = u,
         Stream(h) \/ Record(h) \/ Break(h)
  PROVE  \A v \in Uploads : UInv(v)'
  <1> DEFINE w == handler[h]
  <1>0. TypeOK /\ (\A v \in Uploads : UInv(v)) /\ w.pc = "stream"
    BY DEF TInv, Stream, Record, Break
  <1>1. /\ w # Idle /\ w \in Patching /\ w.up = u /\ UInv(u) /\ h \in Working(u)
        /\ w.at \in 0 .. Size /\ w.put \in 0 .. Size /\ w.end \in 0 .. Size
    BY <1>0, HandlerTyped DEF Idle, Working
  <1>2. /\ UNCHANGED <<stored, lost>>
        /\ \A g \in Handlers \ {h} : handler'[g] = handler[g]
        /\ handler'[h] = Idle \/ handler'[h].up = u
        /\ torn \subseteq torn' /\ torn' \subseteq torn \cup {u}
    BY <1>0, <1>1 DEF Stream, Record, Break, TypeOK, Patching
  <1>3. ASSUME NEW v \in Uploads, v # u PROVE UInv(v)'
    <2>1. part'[v] = part[v] /\ client'[v] = client[v] /\ rows'[v] = rows[v] /\ stored'[v] = stored[v]
      BY <1>0, <1>1, <1>2, <1>3 DEF Stream, Record, Break, Goes, Hears, TypeOK
    <2>2. \A g \in Handlers : \/ handler[g] # Idle /\ handler[g].up = v
                              \/ handler'[g] # Idle /\ handler'[g].up = v
                              => handler'[g] = handler[g]
      BY <1>2, <1>3
    <2> QED BY <1>0, <1>2, <2>1, <2>2, Kept DEF Over
  <1> SUFFICES UInv(u)'
    BY <1>3
  <1>4. ~Starting(u) /\ rows[u].st \in {"live", "gone"} /\ (w.linked => part[u].there)
    BY <1>0, <1>1, UploadTyped DEF UInv, Starting
  <1>5. ASSUME u \notin torn \cup lost PROVE Untorn(u) /\ Working(u) = {h} /\ HandlerOK(w, u)
    BY <1>1, <1>5 DEF UInv, Untorn
  <1>6. CASE Stream(h)
    <2>1. /\ UNCHANGED <<rows, client, torn>>
          /\ handler'[h] = [w EXCEPT !.put = w.put + 1]
      BY <1>0, <1>6 DEF Stream, TypeOK
    <2>2. /\ handler'[h].pc = "stream" /\ handler'[h].up = u /\ handler'[h].at = w.at
          /\ handler'[h].put = w.put + 1 /\ handler'[h].end = w.end /\ handler'[h].linked = w.linked
          /\ handler'[h] # Idle /\ w.put + 1 <= w.end
      BY <1>0, <1>1, <1>6, <2>1 DEF Stream, Patching, Idle
    <2>3. part'[u] = IF w.linked
                     THEN [part[u] EXCEPT !.units = Append(part[u].units, w.put + 1), !.age = 0]
                     ELSE part[u]
      BY <1>0, <1>1, <1>6 DEF Stream, TypeOK
    <2>4. /\ part'[u].there = part[u].there
          /\ w.linked => part'[u].units = Append(part[u].units, w.put + 1)
          /\ ~w.linked => part'[u] = part[u]
      BY <1>0, <1>1, <2>3, UploadTyped DEF Part
    <2>5. Working(u)' = Working(u)
      BY <1>1, <1>2, <2>2 DEF Working
    <2>6. Known(u)' = Known(u) /\ Closed(u)' = Closed(u) /\ ~Starting(u)'
      BY <1>4, <2>1 DEF Known, Late, Lifetime, Closed, Starting
    <2>7. ASSUME u \notin torn \cup lost PROVE Untorn(u)'
      <3>1. w.linked => part'[u].units = Prefix(w.put + 1)
        <4>0. w.put \in Nat
          BY <1>1, Constants
        <4>1. Append(Prefix(w.put), w.put + 1) = Prefix(w.put + 1)
          BY <4>0, PrefixGrows
        <4>2. w.linked => part[u].units = Prefix(w.put)
          BY <1>0, <1>5, <2>7 DEF HandlerOK
        <4> QED BY <2>4, <4>1, <4>2
      <3>2. HandlerOK(handler[h], u)'
        BY <1>0, <1>1, <1>2, <1>4, <1>5, <2>1, <2>2, <2>4, <2>6, <2>7, <3>1 DEF HandlerOK
      <3> QED BY <1>2, <1>5, <2>1, <2>5, <2>6, <2>7, <3>2 DEF Untorn
    <2>8. \A g \in Working(u)' : handler'[g].linked => part'[u].there
      BY <1>1, <1>2, <2>2, <2>4, <2>5 DEF UInv, Working
    <2> QED BY <1>1, <1>2, <1>4, <2>1, <2>4, <2>5, <2>6, <2>7, <2>8 DEF UInv
  <1>7. CASE Record(h)
    <2>1. UNCHANGED <<part, torn>> /\ w.put = w.end /\ rows'[u] = Counted(w)
      BY <1>0, <1>1, <1>7 DEF Record, TypeOK
    <2>2. /\ rows'[u].st = rows[u].st /\ rows'[u].kind = rows[u].kind /\ rows'[u].age = rows[u].age
          /\ rows[u].st = "live" => rows'[u].got = w.end
          /\ rows[u].st = "gone" => rows'[u] = rows[u]
      BY <1>0, <1>1, <2>1, UploadTyped DEF Counted, Row
    <2>3. Known(u)' = Known(u) /\ (Known(u) => rows[u].st = "live")
      BY <2>2 DEF Known, Late, Lifetime
    <2>4. CASE w.end = Size
      <3>1. /\ UNCHANGED client /\ handler'[h].pc = "read" /\ handler'[h].up = u
            /\ handler'[h].linked = w.linked /\ handler'[h] # Idle
        BY <1>0, <1>1, <1>7, <2>4 DEF Record, TypeOK, Patching, Idle
      <3>2. Working(u)' = Working(u) /\ Closed(u)' /\ Over(u)' = Over(u) /\ ~Starting(u)'
        BY <1>1, <1>2, <1>4, <2>2, <2>4, <3>1 DEF Working, Closed, Over, Starting
      <3>3. ASSUME u \notin torn \cup lost PROVE Untorn(u)'
        <4>1. stored[u] = <<>> /\ (part[u].there => part[u].units = Whole)
          BY <1>0, <1>1, <1>5, <2>1, <2>4, <3>3, PrefixGrows, Constants DEF HandlerOK
        <4>2. HandlerOK(handler[h], u)'
          BY <1>2, <2>1, <3>1, <3>2, <4>1 DEF HandlerOK
        <4> QED BY <1>2, <1>5, <3>2, <3>3, <4>1, <4>2 DEF Untorn
      <3>4. \A g \in Working(u)' : handler'[g].linked => part'[u].there
        BY <1>1, <1>2, <2>1, <3>1, <3>2 DEF UInv, Working
      <3> QED BY <1>1, <1>2, <1>4, <2>1, <2>2, <2>3, <3>1, <3>2, <3>3, <3>4 DEF UInv
    <2>5. CASE w.end # Size
      <3>1. handler'[h] = Idle /\ client' = Hears(u, [pc |-> "ready", at |-> w.end])
        BY <1>0, <1>1, <1>7, <2>5 DEF Record, TypeOK
      <3>2. \/ client'[u] = client[u]
            \/ client[u].pc = "waiting" /\ client'[u].pc = "ready" /\ client'[u].at = w.end
        BY <1>0, <1>1, <3>1 DEF Hears, TypeOK
      <3>3. Working(u)' = Working(u) \ {h} /\ (Over(u)' => Over(u)) /\ (Over(u) => Over(u)') /\ ~Starting(u)'
        BY <1>1, <1>2, <1>4, <3>1, <3>2 DEF Working, Over, Starting
      <3>4. client'[u].pc = "ready" => client'[u].at < Size
        BY <1>1, <2>5, <3>2, Constants DEF UInv
      <3>5. ASSUME u \notin torn \cup lost PROVE Untorn(u)'
        <4>1. stored[u] = <<>>
          BY <1>0, <1>5, <3>5 DEF HandlerOK
        <4>2. Known(u) => w.linked
          BY <1>0, <1>5, <3>5 DEF HandlerOK
        <4>3. w.linked => part[u].units = Prefix(w.end)
          BY <1>0, <1>5, <2>1, <3>5 DEF HandlerOK
        <4> QED BY <1>2, <1>5, <2>1, <2>2, <2>3, <3>3, <3>5, <4>1, <4>2, <4>3 DEF Untorn
      <3>6. \A g \in Working(u)' : handler'[g].linked => part'[u].there
        BY <1>1, <1>2, <2>1, <3>3 DEF UInv, Working
      <3>7. rows'[u].st # "none" /\ (u \notin torn' \cup lost' => Untorn(u)') /\ client'[u].pc # "new"
        BY <1>2, <1>4, <2>1, <2>2, <3>3, <3>5 DEF Starting
      <3> QED BY <3>3, <3>4, <3>6, <3>7 DEF UInv
    <2> QED BY <2>4, <2>5
  <1>8. CASE Break(h)
    <2>1. /\ UNCHANGED <<rows, part>> /\ handler'[h] = Idle
          /\ HasWritten(h) => u \in torn'
      BY <1>0, <1>1, <1>8 DEF Break, TypeOK
    <2>2. client'[u] = client[u] \/ (client[u].pc = "waiting" /\ client'[u].pc = "failed")
      BY <1>0, <1>1, <1>8, UploadTyped DEF Break, Goes, TypeOK, Client
    <2>3. Working(u)' = Working(u) \ {h} /\ Over(u)' = Over(u) /\ ~Starting(u)'
      BY <1>1, <1>2, <1>4, <2>1, <2>2 DEF Working, Over, Starting
    <2>4. Known(u)' = Known(u) /\ Closed(u)' = Closed(u)
      BY <2>1 DEF Known, Late, Lifetime, Closed
    <2>5. ASSUME u \notin torn' \cup lost' PROVE Untorn(u)'
      <3>1. u \notin torn \cup lost /\ w.put = w.at
        BY <1>0, <1>1, <1>2, <1>5, <2>1, <2>5 DEF HasWritten, HandlerOK
      <3>2. stored[u] = <<>>
        BY <1>0, <1>5, <3>1 DEF HandlerOK
      <3>3. Known(u) => part[u].units = Prefix(rows[u].got)
        BY <1>0, <1>5, <3>1 DEF HandlerOK, Known, Late, Lifetime
      <3> QED BY <1>2, <1>5, <2>1, <2>3, <2>4, <3>1, <3>2, <3>3 DEF Untorn
    <2>6. \A g \in Working(u)' : handler'[g].linked => part'[u].there
      BY <1>1, <1>2, <2>1, <2>3 DEF UInv, Working
    <2> QED BY <1>1, <1>2, <1>4, <2>1, <2>2, <2>3, <2>4, <2>5, <2>6 DEF UInv
  <1> QED BY <1>6, <1>7, <1>8

LEMMA FinalizingKeepsUpload ==
  ASSUME TypeOK, NEW h \in Handlers, ReadPart(h) \/ Insert(h) \/ RefuseFile(h)
  PROVE  /\ handler'[h] # Idle /\ handler'[h].up = handler[h].up
         /\ handler'[h].linked = handler[h].linked
  <1>1. handler[h] \in Patching
    BY HandlerTyped DEF ReadPart, Insert, RefuseFile, Idle
  <1>2. CASE ReadPart(h)
    <2>1. \/ handler'[h] = [handler[h] EXCEPT !.pc = "scan", !.data = part[handler[h].up].units]
          \/ handler'[h] = [handler[h] EXCEPT !.pc = "unlink", !.ok = FALSE]
      BY <1>2 DEF ReadPart, TypeOK
    <2> QED BY <1>1, <2>1 DEF Patching, Idle
  <1>3. CASE Insert(h)
    <2>1. handler'[h] = [[handler[h] EXCEPT !.pc = "unlink"] EXCEPT !.data = <<>>]
      BY <1>3 DEF Insert, TypeOK
    <2> QED BY <1>1, <2>1 DEF Patching, Idle
  <1>4. CASE RefuseFile(h)
    <2>1. handler'[h] = [handler[h] EXCEPT !.pc = "unlink", !.ok = FALSE, !.data = <<>>]
      BY <1>4 DEF RefuseFile, TypeOK
    <2> QED BY <1>1, <2>1 DEF Patching, Idle
  <1> QED BY <1>2, <1>3, <1>4

LEMMA FinalizingSteps ==
  ASSUME TInv, NEW h \in Handlers, NEW u \in Uploads, handler[h].up = u,
         ReadPart(h) \/ Insert(h) \/ RefuseFile(h) \/ UnlinkPart(h) \/ Forget(h)
  PROVE  \A v \in Uploads : UInv(v)'
  <1> DEFINE w == handler[h]
  <1>0. TypeOK /\ (\A v \in Uploads : UInv(v)) /\ w.pc \in {"read", "scan", "unlink", "forget"}
    BY DEF TInv, ReadPart, Insert, RefuseFile, UnlinkPart, Forget
  <1>1. w # Idle /\ w \in Patching /\ w.up = u /\ UInv(u) /\ h \in Working(u)
    BY <1>0, HandlerTyped DEF Idle, Working
  <1>2. /\ UNCHANGED <<torn, lost>>
        /\ \A g \in Handlers \ {h} : handler[g] = Idle \/ handler[g].up # u => handler'[g] = handler[g]
        /\ \A g \in Handlers \ {h} : handler[g] # Idle /\ handler[g].up = u
             => /\ handler'[g] # Idle /\ handler'[g].up = u
                /\ handler'[g].linked => handler[g].linked
    <2>1. CASE ~UnlinkPart(h)
      BY <1>0, <2>1 DEF ReadPart, Insert, RefuseFile, Forget, TypeOK
    <2>2. CASE UnlinkPart(h)
      <3>1. \A g \in Handlers \ {h} :
              handler'[g] = IF handler[g] # Idle /\ handler[g].up = u
                            THEN [handler[g] EXCEPT !.linked = FALSE] ELSE handler[g]
        BY <1>0, <2>2 DEF UnlinkPart, Cut, TypeOK
      <3>2. \A g \in Handlers : handler[g] # Idle =>
              /\ [handler[g] EXCEPT !.linked = FALSE].up = handler[g].up
              /\ [handler[g] EXCEPT !.linked = FALSE] # Idle
              /\ ~[handler[g] EXCEPT !.linked = FALSE].linked
        BY <1>0, HandlerTyped DEF Patching, Idle
      <3> QED BY <2>2, <3>1, <3>2 DEF UnlinkPart
    <2> QED BY <2>1, <2>2
  <1>3. \/ /\ handler'[h] # Idle /\ handler'[h].up = u
           /\ handler'[h].linked => w.linked
        \/ handler'[h] = Idle
    <2>0. CASE Forget(h)
      BY <1>0, <2>0 DEF Forget, TypeOK
    <2>1. CASE ReadPart(h) \/ Insert(h) \/ RefuseFile(h)
      BY <1>0, <2>1, FinalizingKeepsUpload
    <2>2. CASE UnlinkPart(h)
      <3>1. handler'[h] = [[w EXCEPT !.pc = "forget"] EXCEPT !.linked = FALSE]
        BY <1>0, <1>1, <2>2 DEF UnlinkPart, Cut, TypeOK, Patching, Idle
      <3> QED BY <1>1, <3>1 DEF Patching, Idle
    <2> QED BY <2>0, <2>1, <2>2
  <1>4. ASSUME NEW v \in Uploads, v # u PROVE UInv(v)'
    <2>1. part'[v] = part[v] /\ client'[v] = client[v] /\ rows'[v] = rows[v] /\ stored'[v] = stored[v]
      BY <1>0, <1>1, <1>4 DEF ReadPart, Insert, RefuseFile, UnlinkPart, Forget, Hears, TypeOK
    <2>2. \A g \in Handlers : \/ handler[g] # Idle /\ handler[g].up = v
                              \/ handler'[g] # Idle /\ handler'[g].up = v
                              => handler'[g] = handler[g]
      BY <1>1, <1>2, <1>3, <1>4
    <2> QED BY <1>0, <1>2, <2>1, <2>2, Kept DEF Over
  <1> SUFFICES UInv(u)'
    BY <1>4
  <1>5. ~Starting(u) /\ rows[u].st \in {"live", "gone"}
    BY <1>0, <1>1, UploadTyped DEF UInv, Starting
  <1>6. ASSUME u \notin torn \cup lost PROVE Untorn(u) /\ Working(u) = {h} /\ HandlerOK(w, u)
    BY <1>1, <1>6 DEF UInv, Untorn
  <1>7. CASE ReadPart(h) \/ Insert(h) \/ RefuseFile(h)
    <2>1. /\ UNCHANGED <<rows, part, client>> /\ handler'[h] # Idle /\ handler'[h].up = u
      BY <1>0, <1>7, FinalizingKeepsUpload DEF ReadPart, Insert, RefuseFile
    <2>2. Working(u)' = Working(u)
      BY <1>1, <1>2, <2>1 DEF Working
    <2>3. Known(u)' = Known(u) /\ Closed(u)' = Closed(u) /\ Over(u)' = Over(u) /\ ~Starting(u)'
      BY <1>5, <2>1 DEF Known, Late, Lifetime, Closed, Over, Starting
    <2>4. ASSUME u \notin torn \cup lost PROVE Untorn(u)'
      <3>1. stored[u] = <<>> /\ Closed(u)
        BY <1>0, <1>6, <1>7, <2>4 DEF HandlerOK, ReadPart, Insert, RefuseFile
      <3>2. CASE ReadPart(h)
        <4>1. stored' = stored
          BY <3>2 DEF ReadPart
        <4>2. \/ handler'[h].pc = "scan" /\ handler'[h].data = Whole
              \/ handler'[h].pc = "unlink"
          BY <1>0, <1>1, <1>6, <2>4, <3>2 DEF ReadPart, HandlerOK, TypeOK, Patching
        <4>3. HandlerOK(handler[h], u)'
          BY <2>1, <2>3, <3>1, <4>1, <4>2 DEF HandlerOK
        <4> QED BY <1>6, <2>2, <2>3, <2>4, <3>1, <4>1, <4>3 DEF Untorn
      <3>3. CASE Insert(h)
        <4>1. stored'[u] = Append(<<>>, w.data) /\ w.data = Whole /\ handler'[h].pc = "unlink"
          BY <1>0, <1>1, <1>6, <2>4, <3>1, <3>3 DEF Insert, HandlerOK, TypeOK, Patching
        <4>2. stored'[u] = <<Whole>>
          BY <4>1
        <4>3. HandlerOK(handler[h], u)'
          BY <2>3, <3>1, <4>1 DEF HandlerOK
        <4> QED BY <1>6, <2>2, <2>3, <2>4, <3>1, <4>2, <4>3 DEF Untorn
      <3>4. CASE RefuseFile(h)
        <4>1. stored' = stored /\ handler'[h].pc = "unlink"
          BY <1>0, <1>1, <3>4 DEF RefuseFile, TypeOK, Patching
        <4>3. HandlerOK(handler[h], u)'
          BY <2>3, <3>1, <4>1 DEF HandlerOK
        <4> QED BY <1>6, <2>2, <2>3, <2>4, <3>1, <4>1, <4>3 DEF Untorn
      <3> QED BY <1>7, <3>2, <3>3, <3>4
    <2>5. \A g \in Working(u)' : handler'[g].linked => part'[u].there
      BY <1>1, <1>2, <1>3, <2>1, <2>2 DEF UInv, Working
    <2> QED BY <1>1, <1>2, <1>5, <2>1, <2>2, <2>3, <2>4, <2>5 DEF UInv
  <1>8. CASE UnlinkPart(h)
    <2>1. /\ UNCHANGED <<rows, client, stored>> /\ part'[u] = Unlinked
          /\ handler'[h] = [[w EXCEPT !.pc = "forget"] EXCEPT !.linked = FALSE]
      BY <1>0, <1>1, <1>8 DEF UnlinkPart, Cut, TypeOK, Patching, Idle
    <2>2. handler'[h].pc = "forget" /\ handler'[h].up = u /\ ~handler'[h].linked /\ handler'[h] # Idle
      BY <1>1, <2>1 DEF Patching, Idle
    <2>3. Working(u)' = Working(u)
      BY <1>1, <1>2, <2>2 DEF Working
    <2>4. Known(u)' = Known(u) /\ Closed(u)' = Closed(u) /\ Over(u)' = Over(u) /\ ~Starting(u)'
      BY <1>5, <2>1 DEF Known, Late, Lifetime, Closed, Over, Starting
    <2>5. ASSUME u \notin torn \cup lost PROVE Untorn(u)'
      <3>1. HandlerOK(handler[h], u)'
        BY <1>6, <1>8, <2>2, <2>4, <2>5 DEF HandlerOK, UnlinkPart
      <3> QED BY <1>6, <2>1, <2>3, <2>4, <2>5, <3>1 DEF Untorn
    <2>6. \A g \in Working(u)' : ~handler'[g].linked
      <3>1. ASSUME NEW g \in Handlers \ {h}, g \in Working(u) PROVE ~handler'[g].linked
        <4>1. handler'[g] = [handler[g] EXCEPT !.linked = FALSE] /\ handler[g] \in Patching
          BY <1>0, <1>8, <3>1, HandlerTyped DEF UnlinkPart, Cut, TypeOK, Working
        <4> QED BY <4>1 DEF Patching
      <3> QED BY <2>2, <2>3, <3>1 DEF Working
    <2> QED BY <1>1, <1>2, <1>5, <2>1, <2>3, <2>4, <2>5, <2>6 DEF UInv, Unlinked
  <1>9. CASE Forget(h)
    <2>1. UNCHANGED <<part, stored>> /\ handler'[h] = Idle /\ rows'[u].st = "gone" /\ rows'[u].got = rows[u].got
      BY <1>0, <1>1, <1>9, UploadTyped DEF Forget, TypeOK, Row
    <2>2. client'[u] = client[u] \/ (client[u].pc = "waiting" /\ client'[u].pc \in {"done", "failed"})
      BY <1>0, <1>1, <1>9 DEF Forget, Hears, TypeOK
    <2>3. ~Known(u)' /\ Closed(u)' /\ ~Starting(u)'
      BY <1>5, <2>1, <2>2 DEF Known, Late, Lifetime, Closed, Starting
    <2>4. Working(u)' = Working(u) \ {h}
      BY <1>1, <1>2, <2>1 DEF Working
    <2>5. ASSUME u \notin torn \cup lost PROVE Untorn(u)'
      BY <1>6, <2>1, <2>3, <2>4, <2>5 DEF Untorn
    <2>6. \A g \in Working(u)' : handler'[g].linked => part'[u].there
      BY <1>1, <1>2, <2>1, <2>4 DEF UInv, Working
    <2> QED BY <1>1, <1>2, <1>5, <2>1, <2>2, <2>3, <2>5, <2>6 DEF UInv
  <1> QED BY <1>7, <1>8, <1>9

-----------------------------------------------------------------------------
(* The steps of the system. *)

LEMMA CrashStep ==
  ASSUME TInv, Crash
  PROVE  \A u \in Uploads : UInv(u)'
  <1>0. TypeOK /\ \A u \in Uploads : UInv(u)
    BY DEF TInv
  <1> SUFFICES ASSUME NEW u \in Uploads PROVE UInv(u)'
    OBVIOUS
  <1>1. UNCHANGED <<rows, part, stored, lost>> /\ Working(u)' = {}
    BY DEF Crash, Working
  <1>2. client'[u] = client[u] \/ (client[u].pc = "waiting" /\ client'[u].pc = "failed")
    BY <1>0, UploadTyped DEF Crash, Client
  <1>3. /\ Known(u)' = Known(u) /\ Closed(u)' = Closed(u) /\ Over(u)' = Over(u)
        /\ Starting(u)' => Starting(u) /\ client'[u] = client[u]
    BY <1>1, <1>2 DEF Known, Late, Lifetime, Closed, Over, Starting
  <1>4. ASSUME u \notin torn' \cup lost' PROVE Untorn(u)'
    <2>1. u \notin torn \cup lost /\ Untorn(u) /\ \A h \in Working(u) : ~HasWritten(h) /\ HandlerOK(handler[h], u)
      BY <1>0, <1>4 DEF Crash, UInv, Untorn
    <2>2. ASSUME Known(u), ~Closed(u), ~Over(u) PROVE part[u].units = Prefix(rows[u].got)
      <3>1. CASE Working(u) = {}
        BY <2>1, <2>2, <3>1 DEF Untorn
      <3>2. ASSUME NEW h \in Working(u) PROVE part[u].units = Prefix(rows[u].got)
        <4>1. handler[h].pc = "stream"
          BY <1>0, <2>1, <2>2, <3>2, HandlerTyped DEF HandlerOK, Working
        <4>2. handler[h].put = handler[h].at
          BY <1>0, <2>1, <3>2, <4>1, HandlerTyped, Constants DEF HandlerOK, HasWritten, Working
        <4> QED BY <2>1, <2>2, <3>2, <4>1, <4>2 DEF HandlerOK, Known, Late, Lifetime
      <3> QED BY <3>1, <3>2
    <2> QED BY <1>1, <1>3, <2>1, <2>2 DEF Untorn
  <1> QED BY <1>0, <1>1, <1>2, <1>3, <1>4 DEF UInv, Starting

LEMMA TickStep ==
  ASSUME TInv, Tick
  PROVE  \A u \in Uploads : UInv(u)'
  <1>0. TypeOK /\ \A u \in Uploads : UInv(u)
    BY DEF TInv
  <1> SUFFICES ASSUME NEW u \in Uploads PROVE UInv(u)'
    OBVIOUS
  <1>1. UNCHANGED <<client, handler, stored, torn, lost>> /\ Working(u)' = Working(u)
    BY DEF Tick, Working
  <1>2. /\ rows'[u].st = rows[u].st /\ rows'[u].got = rows[u].got /\ rows'[u].kind = rows[u].kind
        /\ part'[u].units = part[u].units /\ part'[u].there = part[u].there
        /\ Late(u) => Late(u)'
    BY <1>0, Ticked
  <1>3. (Known(u)' => Known(u)) /\ Closed(u)' = Closed(u) /\ Over(u)' = Over(u) /\ Starting(u)' = Starting(u)
    BY <1>1, <1>2 DEF Known, Closed, Over, Starting
  <1>4. ASSUME u \notin torn \cup lost PROVE Untorn(u)'
    <2>1. Untorn(u)
      BY <1>0, <1>4 DEF UInv
    <2>2. ASSUME NEW h \in Working(u), HandlerOK(handler[h], u) PROVE HandlerOK(handler[h], u)'
      BY <1>1, <1>2, <1>3, <2>2 DEF HandlerOK
    <2> QED BY <1>1, <1>2, <1>3, <2>1, <2>2 DEF Untorn
  <1> QED BY <1>0, <1>1, <1>2, <1>3, <1>4 DEF UInv, Starting

LEMMA ReapStep ==
  ASSUME TInv, ReapRows
  PROVE  \A u \in Uploads : UInv(u)'
  <1>0. TypeOK /\ \A u \in Uploads : UInv(u)
    BY DEF TInv
  <1> SUFFICES ASSUME NEW u \in Uploads PROVE UInv(u)'
    OBVIOUS
  <1>1. UNCHANGED <<part, client, handler, stored, torn, lost>> /\ Working(u)' = Working(u)
    BY DEF ReapRows, Working
  <1>2. /\ rows'[u].got = rows[u].got /\ rows'[u].kind = rows[u].kind /\ rows'[u].age = rows[u].age
        /\ \/ rows'[u].st = rows[u].st
           \/ rows[u].st = "live" /\ rows'[u].st = "gone"
    BY <1>0, UploadTyped DEF ReapRows, Reaped, RowDue, Row
  <1>3. /\ Known(u)' => Known(u)
        /\ Closed(u) => Closed(u)'
        /\ ~Closed(u)' => rows'[u].st = rows[u].st /\ ~Closed(u)
        /\ Over(u)' = Over(u) /\ Starting(u)' = Starting(u)
    BY <1>1, <1>2 DEF Known, Late, Lifetime, Closed, Over, Starting
  <1>4. ASSUME u \notin torn \cup lost PROVE Untorn(u)'
    <2>1. Untorn(u)
      BY <1>0, <1>4 DEF UInv
    <2>2. ASSUME NEW h \in Working(u), HandlerOK(handler[h], u) PROVE HandlerOK(handler[h], u)'
      BY <1>1, <1>2, <1>3, <2>2 DEF HandlerOK
    <2> QED BY <1>1, <1>2, <1>3, <2>1, <2>2 DEF Untorn
  <1> QED BY <1>0, <1>1, <1>2, <1>3, <1>4 DEF UInv, Starting

LEMMA SweepStep ==
  ASSUME TInv, SweepParts
  PROVE  \A u \in Uploads : UInv(u)'
  <1>0. TypeOK /\ \A u \in Uploads : UInv(u)
    BY DEF TInv
  <1> SUFFICES ASSUME NEW u \in Uploads PROVE UInv(u)'
    OBVIOUS
  <1> DEFINE gone == {v \in sweep : Stale(v)}
  <1>1. /\ UNCHANGED <<rows, client, stored, torn>> /\ handler' = Cut(handler, gone)
        /\ lost' = lost \cup {v \in gone : Known(v)}
    BY DEF SweepParts
  <1>2. part'[u] = IF u \in gone THEN Unlinked ELSE part[u]
    BY DEF SweepParts
  <1>3. \A h \in Handlers :
          handler'[h] = IF handler[h] # Idle /\ handler[h].up \in gone
                        THEN [handler[h] EXCEPT !.linked = FALSE] ELSE handler[h]
    BY <1>1 DEF Cut
  <1>4. ASSUME NEW h \in Handlers
        PROVE  /\ handler'[h] = Idle <=> handler[h] = Idle
               /\ handler[h] # Idle => handler'[h].up = handler[h].up
    BY <1>0, <1>3, HandlerTyped DEF Patching, Idle
  <1>5. Working(u)' = Working(u)
    BY <1>4 DEF Working
  <1>6. CASE u \notin gone
    <2>1. \A h \in Handlers : \/ handler[h] # Idle /\ handler[h].up = u
                              \/ handler'[h] # Idle /\ handler'[h].up = u
                              => handler'[h] = handler[h]
      BY <1>3, <1>4, <1>6
    <2> HIDE DEF gone
    <2>2. part'[u] = part[u] /\ (u \in torn \cup lost => u \in torn' \cup lost')
      BY <1>1, <1>2, <1>6
    <2> QED BY <1>0, <1>1, <1>6, <2>1, <2>2, Kept DEF Over
  <1>7. CASE u \in gone
    <2>1. part'[u] = Unlinked /\ (u \notin lost' => u \notin lost /\ ~Known(u))
      BY <1>1, <1>2, <1>7
    <2>2. Known(u)' = Known(u) /\ Closed(u)' = Closed(u) /\ Over(u)' = Over(u) /\ Starting(u)' = Starting(u)
      BY <1>1 DEF Known, Late, Lifetime, Closed, Over, Starting
    <2>3. ASSUME NEW h \in Working(u)
          PROVE  /\ handler'[h].pc = handler[h].pc /\ handler'[h].at = handler[h].at
                 /\ handler'[h].put = handler[h].put /\ handler'[h].end = handler[h].end
                 /\ handler'[h].data = handler[h].data /\ ~handler'[h].linked
      BY <1>0, <1>3, <1>7, <2>3, HandlerTyped DEF Patching, Working
    <2>4. ASSUME u \notin torn' \cup lost' PROVE Untorn(u)'
      <3>1. Untorn(u) /\ ~Known(u)
        BY <1>0, <1>1, <2>1, <2>4 DEF UInv
      <3>2. ASSUME NEW h \in Working(u), HandlerOK(handler[h], u) PROVE HandlerOK(handler[h], u)'
        BY <1>1, <2>1, <2>2, <2>3, <3>1, <3>2 DEF HandlerOK, Unlinked
      <3> QED BY <1>1, <1>5, <2>1, <2>2, <3>1, <3>2 DEF Untorn
    <2>5. client[u].pc = "new" => ~part'[u].there
      BY <2>1 DEF Unlinked
    <2>6. Starting(u) => part'[u].units = <<>>
      BY <2>1 DEF Unlinked
    <2>7. \A h \in Working(u) : ~handler'[h].linked
      BY <2>3
    <2> QED BY <1>0, <1>1, <1>5, <2>2, <2>4, <2>5, <2>6, <2>7 DEF UInv, Starting
  <1> QED BY <1>6, <1>7

LEMMA NextTInv == TInv /\ [Next]_vars => TInv'
  <1> SUFFICES ASSUME TInv, [Next]_vars PROVE TInv'
    OBVIOUS
  <1>0. TypeOK
    BY DEF TInv
  <1>1. ASSUME NEW u \in Uploads,
               \/ CreatePart(u) \/ CreateRow(u) \/ CreateFails(u) \/ RefusePatch(u) \/ Lose(u)
               \/ AskOffset(u)
        PROVE  TInv'
    BY <1>1, ClientStepsTyped, ClientSteps DEF TInv
  <1>2. ASSUME NEW u \in Uploads, NEW h \in Handlers, StartPatch(h, u) \/ Terminate(h, u)
        PROVE  TInv'
    BY <1>2, RequestStartsTyped, RequestStarts DEF TInv
  <1>3. ASSUME NEW h \in Handlers, Stream(h) \/ Record(h) \/ Break(h)
        PROVE  TInv'
    <2>1. PICK u \in Uploads : handler[h].up = u
      BY <1>0, <1>3, HandlerTyped DEF Stream, Record, Break, Idle
    <2> QED BY <1>3, <2>1, WritesTyped, WriteSteps DEF TInv
  <1>4. ASSUME NEW h \in Handlers,
               ReadPart(h) \/ Insert(h) \/ RefuseFile(h) \/ UnlinkPart(h) \/ Forget(h)
        PROVE  TInv'
    <2>1. PICK u \in Uploads : handler[h].up = u
      BY <1>0, <1>4, HandlerTyped DEF ReadPart, Insert, RefuseFile, UnlinkPart, Forget, Idle
    <2> QED BY <1>4, <2>1, FinalizingTyped, FinalizingSteps DEF TInv
  <1>5. CASE Crash \/ Tick \/ ReapRows \/ SweepParts
    BY <1>5, SystemStepsTyped, CrashStep, TickStep, ReapStep, SweepStep DEF TInv
  <1>6. CASE UNCHANGED vars
    <2>1. TypeOK'
      BY <1>0, <1>6 DEF vars, TypeOK
    <2>2. \A u \in Uploads : UInv(u)'
      BY <1>0, <1>6, Kept DEF TInv, vars, Over
    <2> QED BY <2>1, <2>2 DEF TInv
  <1> QED BY <1>1, <1>2, <1>3, <1>4, <1>5, <1>6 DEF Next, Serve, Send

LEMMA TInvHolds == Spec => []TInv
  BY InitTInv, NextTInv, PTL DEF Spec

-----------------------------------------------------------------------------
(* The rows, the parts, the clients and the handlers always have their types, and an *)
(* unlinked part keeps nothing, whatever the PATCHes, crashes and sweeps do.         *)
THEOREM TusTypeCorrect == Spec => []TypeOK
  <1>1. TInv => TypeOK
    BY DEF TInv
  <1> QED BY <1>1, TInvHolds, PTL

(* However the chunks, the failures, the HEADs, the reaper and the sweep interleave, and *)
(* whatever the TTL: an upload none of whose PATCHes was cut off or overlapped, and whose *)
(* part was not swept while a PATCH would be taken, is stored at most once, and as sent.  *)
THEOREM UntornStoredWhole == Spec => []UntornIsWhole
  <1>1. TInv => UntornIsWhole
    BY DEF TInv, UInv, Untorn, UntornIsWhole
  <1> QED BY <1>1, TInvHolds, PTL

-----------------------------------------------------------------------------
(* The ages: a part is no older than its row, unless that has reached its lifetime. *)

AInv(u) ==
  /\ Starting(u) => part[u].age = 0
  /\ rows[u].st = "none" \/ part[u].age <= rows[u].age \/ Late(u)
  /\ u \in lost /\ Ttl >= Lifetime(u) =>
       rows[u].st # "none" /\ rows[u].kind = "vault" /\ Late(u)

Aged == TInv /\ \A u \in Uploads : AInv(u)

LEMMA AgesKept ==
  ASSUME TypeOK, NEW u \in Uploads, AInv(u),
         rows'[u].kind = rows[u].kind, rows'[u].age = rows[u].age,
         rows'[u].st = "none" <=> rows[u].st = "none",
         part'[u].age \in {0, part[u].age}, Starting(u)' => Starting(u),
         u \in lost' => u \in lost
  PROVE  AInv(u)'
  <1>1. rows[u].age \in Nat /\ part[u].age \in Nat
    BY UploadTyped, Constants
  <1> QED BY <1>1 DEF AInv, Late, Lifetime

LEMMA ClientAges ==
  ASSUME Aged, NEW v \in Uploads,
         \/ CreatePart(v) \/ CreateRow(v) \/ CreateFails(v) \/ RefusePatch(v) \/ Lose(v)
         \/ AskOffset(v) \/ \E h \in Handlers : StartPatch(h, v) \/ Terminate(h, v)
  PROVE  \A u \in Uploads : AInv(u)'
  <1>0. TypeOK /\ \A u \in Uploads : AInv(u) /\ UInv(u)
    BY DEF Aged, TInv
  <1> SUFFICES ASSUME NEW u \in Uploads PROVE AInv(u)'
    OBVIOUS
  <1>1. lost' = lost
    BY DEF CreatePart, CreateRow, CreateFails, RefusePatch, Lose, AskOffset, StartPatch, Terminate
  <1>2. CASE u # v
    <2>1. rows'[u] = rows[u] /\ part'[u] = part[u] /\ client'[u] = client[u]
      BY <1>0, <1>2 DEF CreatePart, CreateRow, CreateFails, RefusePatch, Lose, AskOffset, StartPatch,
                        Terminate, Goes, TypeOK
    <2> QED BY <1>0, <1>1, <2>1, AgesKept DEF Starting
  <1>3. CASE u = v /\ CreateRow(u)
    <2>1. /\ rows'[u].kind = rows[u].kind /\ rows'[u].age = rows[u].age /\ part'[u] = part[u]
          /\ client[u].pc = "creating" /\ client'[u].pc = "ready"
      BY <1>0, <1>3, UploadTyped DEF CreateRow, Goes, TypeOK, Row, Client
    <2>2. part[u].age = 0 /\ rows[u].age \in Nat /\ ~Starting(u)' /\ rows[u].st = "none"
      BY <1>0, <2>1, UploadTyped, Constants DEF AInv, UInv, Starting
    <2>3. Lifetime(u)' = Lifetime(u)
      BY <2>1 DEF Lifetime
    <2> QED BY <1>0, <1>1, <2>1, <2>2, <2>3, Constants DEF AInv
  <1>4. CASE u = v /\ ~CreateRow(u)
    <2>1. rows' = rows
      BY <1>4 DEF CreatePart, CreateFails, RefusePatch, Lose, AskOffset, StartPatch, Terminate
    <2>2. part'[u].age \in {0, part[u].age}
      <3>1. CASE CreatePart(u)
        BY <1>0, <3>1 DEF CreatePart, TypeOK
      <3>2. CASE \E h \in Handlers : StartPatch(h, u)
        <4>1. [part[u] EXCEPT !.there = TRUE].age = part[u].age
          BY <1>0, UploadTyped DEF Part
        <4>2. part'[u] = part[u] \/ part'[u] = [part[u] EXCEPT !.there = TRUE]
          BY <1>0, <3>2 DEF StartPatch, TypeOK
        <4> QED BY <4>1, <4>2
      <3> QED BY <1>4, <3>1, <3>2 DEF CreateFails, RefusePatch, Lose, AskOffset, Terminate
    <2>3. Starting(u)' => Starting(u)
      <3>1. CASE CreatePart(u)
        BY <3>1 DEF CreatePart, Starting
      <3>2. CASE AskOffset(u)
        <4>1. client'[u].pc \in {"error", "done", "ready"}
          BY <1>0, <3>2 DEF AskOffset, AfterAsking, TypeOK
        <4> QED BY <4>1 DEF Starting
      <3>3. CASE ~CreatePart(u) /\ ~AskOffset(u)
        <4>1. client'[u].pc \in {"failed", "error", "waiting"}
          BY <1>0, <1>4, <3>3, UploadTyped
             DEF CreateFails, RefusePatch, Lose, StartPatch, Terminate, Goes, TypeOK, Client
        <4> QED BY <4>1 DEF Starting
      <3> QED BY <3>1, <3>2, <3>3
    <2> QED BY <1>0, <1>1, <2>1, <2>2, <2>3, AgesKept
  <1> QED BY <1>2, <1>3, <1>4

LEMMA HandlerAges ==
  ASSUME Aged, NEW h \in Handlers, Serve(h) \/ Break(h) \/ RefuseFile(h)
  PROVE  \A u \in Uploads : AInv(u)'
  <1>0. TypeOK /\ \A u \in Uploads : AInv(u) /\ UInv(u)
    BY DEF Aged, TInv
  <1>1. handler[h] # Idle /\ handler[h].up \in Uploads /\ handler[h] \in Patching
    BY <1>0, HandlerTyped DEF Serve, Stream, Record, ReadPart, Insert, UnlinkPart, Forget, Break,
                              RefuseFile, Idle
  <1> SUFFICES ASSUME NEW u \in Uploads PROVE AInv(u)'
    OBVIOUS
  <1>2. lost' = lost
    BY DEF Serve, Stream, Record, ReadPart, Insert, UnlinkPart, Forget, Break, RefuseFile
  <1>3. /\ rows'[u].kind = rows[u].kind /\ rows'[u].age = rows[u].age
        /\ rows'[u].st = "none" <=> rows[u].st = "none"
    <2>1. rows[u] \in Row
      BY <1>0, UploadTyped
    <2>2. CASE Record(h)
      <3>1. rows'[u] = rows[u] \/ rows'[u] = [rows[u] EXCEPT !.got = handler[h].end]
        BY <1>0, <2>2 DEF Record, Counted, TypeOK
      <3> QED BY <2>1, <3>1 DEF Row
    <2>3. CASE Forget(h)
      <3>1. rows'[u] = rows[u] \/ (handler[h].up = u /\ rows'[u] = [rows[u] EXCEPT !.st = "gone"])
        BY <1>0, <2>3 DEF Forget, TypeOK
      <3>2. handler[h].up = u => rows[u].st # "none"
        BY <1>0, <1>1 DEF UInv, Working
      <3>3. [rows[u] EXCEPT !.st = "gone"].st = "gone" /\ [rows[u] EXCEPT !.st = "gone"].kind = rows[u].kind
            /\ [rows[u] EXCEPT !.st = "gone"].age = rows[u].age
        BY <2>1 DEF Row
      <3> QED BY <3>1, <3>2, <3>3
    <2> QED BY <2>2, <2>3 DEF Serve, Stream, ReadPart, Insert, UnlinkPart, Break, RefuseFile
  <1>4. part'[u].age \in {0, part[u].age}
    <2>1. CASE Stream(h)
      <3>1. \/ part'[u] = part[u]
            \/ part'[u] = [part[u] EXCEPT !.units = Append(part[u].units, handler[h].put + 1), !.age = 0]
        BY <1>0, <2>1 DEF Stream, TypeOK
      <3>2. part[u] \in Part
        BY <1>0, UploadTyped
      <3> QED BY <3>1, <3>2 DEF Part
    <2>2. CASE UnlinkPart(h)
      BY <1>0, <2>2 DEF UnlinkPart, Unlinked, TypeOK
    <2> QED BY <2>1, <2>2 DEF Serve, Record, ReadPart, Insert, Forget, Break, RefuseFile
  <1>5. Starting(u)' => Starting(u)
    <2>1. client'[u] = client[u] \/ client'[u].pc \in {"ready", "failed", "done"}
      BY <1>0, <1>1, UploadTyped
         DEF Serve, Stream, Record, ReadPart, Insert, UnlinkPart, Forget, Break, RefuseFile, Hears,
             Goes, TypeOK, Client
    <2> QED BY <2>1 DEF Starting
  <1> QED BY <1>0, <1>2, <1>3, <1>4, <1>5, AgesKept

LEMMA SystemAges ==
  ASSUME Aged, Crash \/ Tick \/ ReapRows \/ SweepParts
  PROVE  \A u \in Uploads : AInv(u)'
  <1>0. TypeOK /\ \A u \in Uploads : AInv(u) /\ UInv(u)
    BY DEF Aged, TInv
  <1> SUFFICES ASSUME NEW u \in Uploads PROVE AInv(u)'
    OBVIOUS
  <1>1. /\ rows[u] \in Row /\ part[u] \in Part /\ rows[u].age \in 0 .. MaxAge /\ part[u].age \in 0 .. MaxAge
        /\ rows[u].age \in Nat /\ part[u].age \in Nat /\ rows[u].kind \in {"vault", "intake"}
    BY <1>0, UploadTyped, Constants
  <1>2. CASE Crash
    <2>1. UNCHANGED <<rows, part, lost>> /\ (client'[u] = client[u] \/ client'[u].pc = "failed")
      BY <1>0, <1>2, UploadTyped DEF Crash, Client
    <2> QED BY <1>0, <2>1, AgesKept DEF Starting
  <1>3. CASE ReapRows
    <2>1. UNCHANGED <<client, part, lost>> /\ (rows'[u] = rows[u] \/ (rows[u].st = "live" /\ rows'[u] = [rows[u] EXCEPT !.st = "gone"]))
      BY <1>3 DEF ReapRows, Reaped, RowDue
    <2>2. /\ rows'[u].kind = rows[u].kind /\ rows'[u].age = rows[u].age
          /\ rows'[u].st = "none" <=> rows[u].st = "none"
      BY <1>1, <2>1 DEF Row
    <2> QED BY <1>0, <2>1, <2>2, AgesKept DEF Starting
  <1>4. CASE Tick
    <2>1. UNCHANGED <<client, lost>> /\ client[u].pc # "creating"
      BY <1>4 DEF Tick
    <2>2. /\ rows'[u].st = rows[u].st /\ rows'[u].kind = rows[u].kind
          /\ rows[u].st # "none" => rows'[u].age = Older(rows[u].age, Lifetime(u))
          /\ part[u].there => part'[u].age = Older(part[u].age, Ttl)
          /\ ~part[u].there => part'[u] = Unlinked
          /\ Late(u) => Late(u)'
          /\ rows'[u] \in Row
      BY <1>0, <1>4, Ticked
    <2>3. Starting(u)' => part'[u].age = 0
      BY <1>0, <2>1, <2>2 DEF Starting, UInv, Unlinked
    <2>4. rows[u].st # "none" => part'[u].age <= rows'[u].age \/ Late(u)'
      <3>1. CASE Late(u)
        BY <2>2, <3>1
      <3>2. CASE ~Late(u) /\ rows[u].st # "none"
        <4>1. rows[u].age < Lifetime(u) /\ part[u].age <= rows[u].age
          BY <1>0, <1>1, <3>2, LifetimeTyped DEF AInv, Late
        <4>2. rows'[u].age = rows[u].age + 1
          BY <2>2, <3>2, <4>1 DEF Older
        <4>3. part'[u].age \in {0, part[u].age, part[u].age + 1}
          BY <2>2, <1>0 DEF Older, Unlinked, UInv
        <4> QED BY <1>1, <4>1, <4>2, <4>3
      <3> QED BY <3>1, <3>2
    <2>5. Lifetime(u)' = Lifetime(u)
      BY <2>2 DEF Lifetime
    <2> QED BY <1>0, <2>1, <2>2, <2>3, <2>4, <2>5 DEF AInv
  <1>5. CASE SweepParts
    <2>1. UNCHANGED <<rows, client>> /\ (part'[u] = part[u] \/ part'[u] = Unlinked)
      BY <1>5 DEF SweepParts
    <2>2. part'[u].age = 0 \/ part'[u].age = part[u].age
      BY <2>1 DEF Unlinked
    <2>3. u \in lost' => u \in lost \/ (Stale(u) /\ Known(u))
      BY <1>5 DEF SweepParts
    <2>4. ASSUME Stale(u), Known(u), Ttl >= Lifetime(u)
          PROVE  rows[u].st # "none" /\ rows[u].kind = "vault" /\ Late(u)
      <3>1. /\ rows[u].st = "live" /\ part[u].age >= Ttl
            /\ part[u].age <= rows[u].age \/ Late(u)
        BY <1>0, <2>4 DEF Stale, Known, AInv
      <3>2. Late(u)
        BY <1>1, <2>4, <3>1, Constants, LifetimeTyped DEF Late
      <3> QED BY <2>4, <3>1, <3>2 DEF Known
    <2>5. Late(u)' = Late(u) /\ Lifetime(u)' = Lifetime(u)
      BY <2>1 DEF Late, Lifetime
    <2> QED BY <1>0, <1>1, <2>1, <2>2, <2>3, <2>4, <2>5 DEF AInv, Starting
  <1> QED BY <1>2, <1>3, <1>4, <1>5

LEMMA NextAged == Aged /\ [Next]_vars => Aged'
  <1> SUFFICES ASSUME Aged, [Next]_vars PROVE Aged'
    OBVIOUS
  <1>1. TInv'
    BY NextTInv DEF Aged
  <1>2. ASSUME UNCHANGED vars PROVE \A u \in Uploads : AInv(u)'
    BY <1>2 DEF Aged, AInv, Starting, Late, Lifetime, vars
  <1>3. \A u \in Uploads : AInv(u)'
    BY <1>2, ClientAges, HandlerAges, SystemAges DEF Next, Serve, Send
  <1> QED BY <1>1, <1>3 DEF Aged

LEMMA InitAged == Init => Aged
  <1> SUFFICES ASSUME Init, NEW u \in Uploads PROVE AInv(u)
    BY InitTInv DEF Aged
  <1> QED BY DEF Init, AInv

(* A part that is swept while a PATCH would be taken is one of an upload that lives longer *)
(* than the TTL, or of the vault and past its Upload-Expires.                               *)
THEOREM SweptPartsAreLate == Spec => []SweptAreLate
  <1>1. ASSUME Aged PROVE SweptAreLate
    <2> SUFFICES ASSUME NEW u \in lost
                 PROVE  Lifetime(u) > Ttl \/ (rows[u].kind = "vault" /\ Late(u))
      BY DEF SweptAreLate
    <2>1. AInv(u) /\ Lifetime(u) \in Nat /\ Ttl \in Nat
      BY <1>1, Constants, LifetimeTyped DEF Aged, TInv, TypeOK
    <2> QED BY <2>1 DEF AInv
  <1> QED BY InitAged, NextAged, <1>1, PTL DEF Spec

=============================================================================
