-------------------------------- MODULE Vault --------------------------------
(***************************************************************************)
(* The file vault of one client (services/vaultService.ts,                 *)
(* vaultUploadService.ts, vaultRetention.ts, repositories/vaults.ts) with  *)
(* the page staff open it in (web/src/pages/ClientFiles.tsx): a zone the   *)
(* client shares and one for staff only, each with keys wrapped to the     *)
(* devices and sessions that may read it, folders, and files whose key is  *)
(* sealed under the key of their zone.  Bytes are the matter of Tus.       *)
(***************************************************************************)
EXTENDS Naturals, FiniteSets

CONSTANTS
  Staff,        \* devices of staff, which also name the keys they generate
  Sessions,     \* the client's portal sessions
  Files, Folders,
  None,
  MaxIncidents  \* PATCHes of files and folders, and requests and sweeps that fail half way

Zones == {"shared", "staff_only"}
Recipients == Staff \cup Sessions

ASSUME VaultAssumption ==
  /\ None \notin Staff \cup Folders /\ Staff \cap Sessions = {}
  /\ MaxIncidents \in Nat

VARIABLES
  keys,      \* vault_keys: the row of each zone, a wrap per recipient (no client rotates on)
  enrolled,  \* user_keys and client_sessions: who there is to wrap to
  page,      \* the members of staff whose page, as last loaded, lists no key
  init,      \* the Initialize button: the zones to go, and the request under way
  folders, files,
  sweeper,   \* runVaultRetentionSweep
  incidents

vaultVars == <<keys, enrolled, page, init, folders, files, sweeper, incidents>>

Wraps == [Recipients -> Staff \cup {None}]
NoWraps == [r \in Recipients |-> None]
KeyRow == [there: BOOLEAN, wraps: Wraps]
Folder == [st: {"none", "live", "deleted"}, zone: Zones, parent: Folders \cup {None}]
(* date: how far in the past retention_expires_at, or else deleted_at, is. *)
File == [st: {"none", "sent", "live", "deleted", "refused"}, zone: Zones,
         folder: Folders \cup {None},
         date: {"null", "future", "past", "month"}]

NoRequest == [pc |-> "idle", zone |-> "shared"]
Resting == [pc |-> "idle", files |-> {}, zones |-> {}]

VaultInit ==
  /\ keys = [z \in Zones |-> [there |-> FALSE, wraps |-> NoWraps]]
  /\ enrolled \in {e \in SUBSET Recipients : Staff \subseteq e}
  /\ page = Staff
  /\ init = [s \in Staff |-> NoRequest]
  /\ folders = [d \in Folders |-> [st |-> "none", zone |-> "shared", parent |-> None]]
  /\ files = [f \in Files |-> [st |-> "none", zone |-> "shared", folder |-> None,
                               date |-> "null"]]
  /\ sweeper = Resting
  /\ incidents = MaxIncidents

Incident == incidents > 0 /\ incidents' = incidents - 1

Emptied(z) == keys[z].wraps = NoWraps
MaySee(r, z) == r \in Staff \/ z = "shared"
Opens(r, z) == MaySee(r, z) /\ keys[z].wraps[r] # None

-----------------------------------------------------------------------------
(* Clients. *)

(* A device or a session registers its key. *)
Enrol(r) ==
  /\ r \notin enrolled
  /\ enrolled' = enrolled \cup {r}
  /\ UNCHANGED <<keys, page, init, folders, files, sweeper, incidents>>

(* GET the vault. *)
Refresh(s) ==
  /\ s \in page /\ \E z \in Zones : keys[z].there
  /\ page' = page \ {s}
  /\ UNCHANGED <<keys, enrolled, init, folders, files, sweeper, incidents>>

(* Initialize files, offered while no key is listed: for each zone in turn a *)
(* fresh key, wrapped to whoever there is.                                   *)
ClickInitialize(s) ==
  /\ s \in page /\ init[s].pc = "idle"
  /\ init' = [init EXCEPT ![s] = [pc |-> "gather", zone |-> "shared"]]
  /\ UNCHANGED <<keys, enrolled, page, folders, files, sweeper, incidents>>

-----------------------------------------------------------------------------
(* POST /rotate-keys. *)

Seeded(s) == [there |-> TRUE, wraps |-> [r \in Recipients |->
  IF r \in enrolled /\ MaySee(r, init[s].zone) THEN s ELSE None]]

(* The row is to be version 1: none may be there. *)
RotateRead(s) ==
  LET z == init[s].zone IN
  /\ init[s].pc = "gather"
  /\ init' = [init EXCEPT ![s] = IF keys[z].there THEN NoRequest
       ELSE [pc |-> "insert", zone |-> z]]
  /\ UNCHANGED <<keys, enrolled, page, folders, files, sweeper, incidents>>

(* Nothing keeps two rows of a version apart: the maps run together. *)
RotateInsert_merged(s) ==
  LET z == init[s].zone
      was == keys[z].wraps
      new == Seeded(s).wraps IN
  /\ init[s].pc = "insert"
  /\ keys' = [keys EXCEPT ![z] =
       [there |-> TRUE, wraps |-> [r \in Recipients |-> IF was[r] # None THEN was[r] ELSE new[r]]]]
  /\ init' = [init EXCEPT ![s] =
       IF z = "shared" THEN [pc |-> "gather", zone |-> "staff_only"] ELSE NoRequest]
  /\ UNCHANGED <<enrolled, page, folders, files, sweeper, incidents>>

(* (vault, zone, version) is unique; whoever loses stops with an error. *)
RotateInsert(s) ==
  LET z == init[s].zone IN
  /\ init[s].pc = "insert"
  /\ IF keys[z].there
     THEN init' = [init EXCEPT ![s] = NoRequest] /\ UNCHANGED keys
     ELSE /\ keys' = [keys EXCEPT ![z] = Seeded(s)]
          /\ init' = [init EXCEPT ![s] =
               IF z = "shared" THEN [pc |-> "gather", zone |-> "staff_only"] ELSE NoRequest]
  /\ UNCHANGED <<enrolled, page, folders, files, sweeper, incidents>>

(* The page is closed, the request fails. *)
InitializeFails(s) ==
  /\ init[s].pc # "idle" /\ Incident
  /\ init' = [init EXCEPT ![s] = NoRequest]
  /\ UNCHANGED <<keys, enrolled, page, folders, files, sweeper>>

(* POST /recipients, for a session that came later: what the row holds by *)
(* the time of the UPDATE goes over the wrap that is added.                 *)
AddRecipient(s, z, r) ==
  /\ Opens(s, z)
  /\ r \in enrolled /\ MaySee(r, z) /\ keys[z].wraps[r] = None
  /\ keys' = [keys EXCEPT ![z].wraps[r] = keys[z].wraps[s]]
  /\ UNCHANGED <<enrolled, page, init, folders, files, sweeper, incidents>>

-----------------------------------------------------------------------------
(* Folders. *)

InZone(d, z) == d # None => folders[d].st = "live" /\ folders[d].zone = z

CreateFolder(d, z, parent) ==
  /\ folders[d].st = "none" /\ \E s \in Staff : Opens(s, z)
  /\ parent # None => /\ folders[parent].st # "none" /\ folders[parent].parent = None
                      /\ folders[parent].zone = z
  /\ folders' = [folders EXCEPT ![d] = [st |-> "live", zone |-> z, parent |-> parent]]
  /\ UNCHANGED <<keys, enrolled, page, init, files, sweeper, incidents>>

(* A move takes whatever parent it is given. *)
PatchFolder(d, parent) ==
  /\ folders[d].st = "live" /\ Incident
  /\ parent # None => folders[parent].st # "none"
  /\ folders' = [folders EXCEPT ![d].parent = parent]
  /\ UNCHANGED <<keys, enrolled, page, init, files, sweeper>>

(* What is in it stays as it is. *)
DeleteFolder(d) ==
  /\ folders[d].st = "live"
  /\ folders' = [folders EXCEPT ![d].st = "deleted"]
  /\ UNCHANGED <<keys, enrolled, page, init, files, sweeper, incidents>>

-----------------------------------------------------------------------------
(* Files. *)

(* POST /uploads: the folder is looked at now, the row made when the bytes are in. *)
StartUpload(f, r, z, d) ==
  /\ files[f].st = "none" /\ Opens(r, z)
  /\ InZone(d, z)
  /\ files' = [files EXCEPT ![f] =
       [@ EXCEPT !.st = "sent", !.zone = z, !.folder = d]]
  /\ UNCHANGED <<keys, enrolled, page, init, folders, sweeper, incidents>>

(* onTusUploadFinish: a clean file gets its row. *)
FinishUpload(f) ==
  /\ files[f].st = "sent"
  /\ files' = [files EXCEPT ![f].st = "live"]
  /\ UNCHANGED <<keys, enrolled, page, init, folders, sweeper, incidents>>

(* Infected, not scanned, not stored, or reaped. *)
RefuseUpload(f) ==
  /\ files[f].st = "sent" /\ Incident
  /\ files' = [files EXCEPT ![f] = [@ EXCEPT !.st = "refused", !.zone = "shared", !.folder = None]]
  /\ UNCHANGED <<keys, enrolled, page, init, folders, sweeper>>

(* The folder is looked up, its zone is not. *)
MoveTarget_anyZone(f, d) == d # None => folders[d].st = "live"
MoveTarget(f, d) == InZone(d, files[f].zone)

(* PATCH: a move, or a new date; null leaves the date as it is. *)
PatchFile(f) ==
  /\ files[f].st = "live" /\ Incident
  /\ \/ \E d \in Folders \cup {None} :
          /\ MoveTarget(f, d)
          /\ files' = [files EXCEPT ![f].folder = d]
     \/ \E date \in {"future", "past", "month"} : files' = [files EXCEPT ![f].date = date]
  /\ UNCHANGED <<keys, enrolled, page, init, folders, sweeper>>

SoftDeleted(f) ==
  [files EXCEPT ![f].st = "deleted", ![f].date = IF @ = "null" THEN "past" ELSE @]

(* DELETE: by staff, or by the client who has uploaded it. *)
DeleteFile(f) ==
  /\ files[f].st = "live"
  /\ files' = SoftDeleted(f)
  /\ UNCHANGED <<keys, enrolled, page, init, folders, sweeper, incidents>>

(* Its date passes; a month more does. *)
TimePasses(f) ==
  /\ \/ files[f].date = "future" /\ files' = [files EXCEPT ![f].date = "past"]
     \/ files[f].date = "past" /\ files' = [files EXCEPT ![f].date = "month"]
  /\ UNCHANGED <<keys, enrolled, page, init, folders, sweeper, incidents>>

-----------------------------------------------------------------------------
(* The hourly sweep. *)

Expired == {f \in Files : files[f].st = "live" /\ files[f].date \in {"past", "month"}}

(* No file of the vault lives, and the latest of their dates is a month ago. *)
Rows == {f \in Files : files[f].st \in {"live", "deleted"}}
Abandoned == Rows # {} /\ \A f \in Rows : files[f].st = "deleted" /\ files[f].date = "month"

StartSweep ==
  /\ sweeper.pc = "idle"
  /\ Expired # {} \/ (Abandoned /\ \E z \in Zones : ~Emptied(z))
  /\ sweeper' = [sweeper EXCEPT !.pc = "expire", !.files = Expired]
  /\ UNCHANGED <<keys, enrolled, page, init, folders, files, incidents>>

(* The file as it was listed: a date put off since then is not seen. *)
SweepFile(f) ==
  /\ sweeper.pc = "expire" /\ f \in sweeper.files
  /\ files' = IF files[f].st = "live" THEN SoftDeleted(f) ELSE files
  /\ sweeper' = [sweeper EXCEPT !.files = @ \ {f}]
  /\ UNCHANGED <<keys, enrolled, page, init, folders, incidents>>

FindCandidate ==
  /\ sweeper.pc = "expire" /\ sweeper.files = {}
  /\ sweeper' = IF Abandoned THEN [sweeper EXCEPT !.pc = "shred", !.zones = Zones] ELSE Resting
  /\ UNCHANGED <<keys, enrolled, page, init, folders, files, incidents>>

(* The loop ends at a zone with nothing to empty. *)
ShredZone_stopsShort(z) ==
  /\ sweeper.pc = "shred" /\ z \in sweeper.zones
  /\ keys' = [keys EXCEPT ![z].wraps = NoWraps]
  /\ sweeper' = IF sweeper.zones = {z} THEN Resting
            ELSE IF Emptied(z) THEN [sweeper EXCEPT !.pc = "idle"] ELSE [sweeper EXCEPT !.zones = @ \ {z}]
  /\ UNCHANGED <<enrolled, page, init, folders, files, incidents>>

ShredZone(z) ==
  /\ sweeper.pc = "shred" /\ z \in sweeper.zones
  /\ keys' = [keys EXCEPT ![z].wraps = NoWraps]
  /\ sweeper' = IF sweeper.zones = {z} THEN Resting ELSE [sweeper EXCEPT !.zones = @ \ {z}]
  /\ UNCHANGED <<enrolled, page, init, folders, files, incidents>>

(* A statement of the sweep fails, or the process stops: the next one starts over. *)
SweepFails ==
  /\ sweeper.pc # "idle" /\ Incident
  /\ sweeper' = Resting
  /\ UNCHANGED <<keys, enrolled, page, init, folders, files>>

-----------------------------------------------------------------------------
Sweep ==
  \/ StartSweep \/ FindCandidate
  \/ \E f \in Files : SweepFile(f)
  \/ \E z \in Zones : ShredZone(z)

Initialize(s) ==
  ClickInitialize(s) \/ RotateRead(s) \/ RotateInsert(s)

VaultNext ==
  \/ \E r \in Recipients : Enrol(r)
  \/ \E s \in Staff :
       \/ Refresh(s) \/ Initialize(s) \/ InitializeFails(s)
       \/ \E z \in Zones, r \in Recipients : AddRecipient(s, z, r)
  \/ \E d \in Folders :
       \/ DeleteFolder(d)
       \/ \E z \in Zones, p \in Folders \cup {None} : CreateFolder(d, z, p)
       \/ \E p \in Folders \cup {None} : PatchFolder(d, p)
  \/ \E f \in Files :
       \/ FinishUpload(f) \/ RefuseUpload(f) \/ PatchFile(f) \/ DeleteFile(f)
       \/ TimePasses(f)
       \/ \E r \in Recipients, z \in Zones, d \in Folders \cup {None} : StartUpload(f, r, z, d)
  \/ Sweep \/ SweepFails

(* The sweep is on a timer. *)
VaultSpec == VaultInit /\ [][VaultNext]_vaultVars /\ WF_vaultVars(Sweep)

-----------------------------------------------------------------------------
(* Every variable has its type, and a sweep that rests holds nothing. *)
VaultTypeOK ==
  /\ keys \in [Zones -> KeyRow]
  /\ enrolled \subseteq Recipients
  /\ page \subseteq Staff
  /\ init \in [Staff -> [pc: {"idle", "gather", "insert"}, zone: Zones]]
  /\ folders \in [Folders -> Folder] /\ files \in [Files -> File]
  /\ sweeper \in [pc: {"idle", "expire", "shred"}, files: SUBSET Files, zones: SUBSET Zones]
  /\ incidents \in 0 .. MaxIncidents
  /\ sweeper.pc = "idle" => sweeper = Resting

(* Two members of staff who initialize the vault at once, additions beside *)
(* them and a shred: the wraps of a zone all seal the same key, so that *)
(* whoever can open the zone opens the same files.                         *)
OneKeyPerZone ==
  \A z \in Zones : Cardinality({keys[z].wraps[r] : r \in Recipients} \ {None}) <= 1

(* A file is in a folder of its own zone, whatever was moved or deleted *)
(* between the start of its upload and its row.                         *)
FilesStayInZone ==
  \A f \in Files : files[f].folder # None => folders[files[f].folder].zone = files[f].zone

(* A file past its date goes, unless the date is put off; a vault left  *)
(* empty for a month loses the keys of both zones, however often the    *)
(* sweep is cut short.                                                  *)
RetentionIsApplied ==
  /\ \A f \in Files : [](f \in Expired => <>(f \notin Expired))
  /\ \A z \in Zones : [](Abandoned => <>(~Abandoned \/ Emptied(z)))

=============================================================================
