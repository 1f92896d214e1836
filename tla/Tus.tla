--------------------------------- MODULE Tus ---------------------------------
(***************************************************************************)
(* Resumable uploads (services/tusProtocol.ts, tusServer.ts and            *)
(* intakeTusServer.ts, with the browser client of lib/vaultClient.ts):     *)
(* the client sends a file in chunks, one PATCH at a time, and after a     *)
(* failure asks with HEAD where the server is.  The server appends what    *)
(* arrives to a .part file and counts it in the row of the upload only     *)
(* when the whole body is in.  A request of the client and the handler it  *)
(* started may end at different moments: the connection between them can   *)
(* fail in either direction.                                               *)
(***************************************************************************)
EXTENDS Naturals, Sequences, FiniteSets

CONSTANTS
  Uploads,
  Handlers,     \* requests the server can be working on at a time
  Size, Chunk,  \* of a file and of a PATCH, in units
  RowLife,      \* ticks until a row of the vault expires (UPLOAD_TTL_SECONDS)
  TokenLife,    \* ticks until the token of an intake session does
  Ttl,          \* ticks a part may lie unwritten (TUS_ORPHAN_TTL_HOURS)
  MaxAge,       \* no less than any of the three, above which ages are not told apart
  MaxFailures   \* broken connections, scans gone wrong and crashes

(* Nothing relates the operator's Ttl to the two lifetimes. *)
ASSUME TusAssumption ==
  /\ Size \in Nat \ {0} /\ Chunk \in Nat \ {0} /\ MaxFailures \in Nat /\ MaxAge \in Nat
  /\ RowLife \in 1 .. MaxAge /\ TokenLife \in 1 .. MaxAge /\ Ttl \in 0 .. MaxAge

VARIABLES
  rows,     \* vault_uploads_in_progress, intake_uploads_in_progress
  part,     \* the .part file of each upload
  client,   \* what the client is doing, and the offset it goes on from
  handler,  \* the request each handler works on
  stored,   \* the contents inserted as a clean file, in order
  sweep,    \* the parts the reaper is about to remove
  torn,     \* uploads with bytes in the part that no row counts, or two PATCHes at once
  lost,     \* uploads whose part was swept while a PATCH would still be taken
  failures

vars == <<rows, part, client, handler, stored, sweep, torn, lost, failures>>

Whole == [i \in 1 .. Size |-> i]
Idle == [pc |-> "idle"]

(* The age of a row of the vault is its own, that of an intake row its token's; *)
(* the age of a part counts from the last write.                                *)
Row == [kind: {"vault", "intake"}, st: {"none", "live", "gone"}, got: 0 .. Size, age: 0 .. MaxAge]
Part == [there: BOOLEAN, units: Seq(1 .. Size), age: 0 .. MaxAge]
Client == [pc: {"new", "creating", "ready", "waiting", "failed", "done", "error"}, at: 0 .. Size]

(* Units at + 1 .. end are in the body; those up to put are written.  A file *)
(* unlinked under its writer takes the rest with it: linked turns FALSE.     *)
Patching == [pc: {"stream", "read", "scan", "unlink", "forget"}, up: Uploads,
             at: 0 .. Size, put: 0 .. Size, end: 0 .. Size, ok: BOOLEAN, linked: BOOLEAN,
             data: Seq(1 .. Size)]

Init ==
  /\ rows \in [Uploads -> {r \in Row : /\ r.st = "none" /\ r.got = 0
                                       /\ IF r.kind = "vault" THEN r.age = 0 ELSE r.age < TokenLife}]
  /\ part = [u \in Uploads |-> [there |-> FALSE, units |-> <<>>, age |-> 0]]
  /\ client = [u \in Uploads |-> [pc |-> "new", at |-> 0]]
  /\ handler = [h \in Handlers |-> Idle]
  /\ stored = [u \in Uploads |-> <<>>]
  /\ sweep = {} /\ torn = {} /\ lost = {} /\ failures = MaxFailures

Fail == failures > 0 /\ failures' = failures - 1

Working(u) == {h \in Handlers : handler[h] # Idle /\ handler[h].up = u}
HasWritten(h) == handler[h].pc = "stream" /\ handler[h].put > handler[h].at

Unlinked == [there |-> FALSE, units |-> <<>>, age |-> 0]
Cut(hs, us) == [h \in Handlers |->
  IF hs[h] # Idle /\ hs[h].up \in us THEN [hs[h] EXCEPT !.linked = FALSE] ELSE hs[h]]
Goes(u, pc) == [client EXCEPT ![u].pc = pc]

(* The client of u hears the answer, if it is still waiting for one. *)
Hears(u, c) == IF client[u].pc = "waiting" THEN [client EXCEPT ![u] = c] ELSE client

-----------------------------------------------------------------------------
(* POST: an empty part, then the row. *)

CreatePart(u) ==
  /\ client[u].pc = "new"
  /\ part' = [part EXCEPT ![u] = [there |-> TRUE, units |-> <<>>, age |-> 0]]
  /\ client' = Goes(u, "creating")
  /\ UNCHANGED <<rows, handler, stored, sweep, torn, lost, failures>>

CreateRow(u) ==
  /\ client[u].pc = "creating"
  /\ rows' = [rows EXCEPT ![u].st = "live"]
  /\ client' = Goes(u, "ready")
  /\ UNCHANGED <<part, handler, stored, sweep, torn, lost, failures>>

(* The insert fails, or the process dies: the part has no row. *)
CreateFails(u) ==
  /\ client[u].pc = "creating" /\ Fail
  /\ client' = Goes(u, "error")
  /\ UNCHANGED <<rows, part, handler, stored, sweep, torn, lost>>

-----------------------------------------------------------------------------
(* PATCH. *)

Lifetime(u) == IF rows[u].kind = "vault" THEN RowLife ELSE TokenLife
Late(u) == rows[u].age >= Lifetime(u)

(* The row is there, and for an intake upload the token still holds: nobody *)
(* looks at expires_at but the reaper.                                      *)
Known(u) == rows[u].st = "live" /\ (rows[u].kind = "vault" \/ ~Late(u))

(* The offset the client names is not compared. *)
Accepts_anyOffset(u) == Known(u)

Accepts(u) == Known(u) /\ client[u].at = rows[u].got

(* Which of the idle handlers takes a request makes no difference. *)
Free(h) == handler[h] = Idle /\ h = CHOOSE g \in Handlers : handler[g] = Idle

StartPatch(h, u) ==
  /\ client[u].pc = "ready" /\ Free(h) /\ Accepts(u)
  /\ LET last == client[u].at + Chunk IN
     handler' = [handler EXCEPT ![h] =
       [pc |-> "stream", up |-> u, at |-> rows[u].got, put |-> client[u].at,
        end |-> IF last < Size THEN last ELSE Size, ok |-> TRUE, linked |-> TRUE, data |-> <<>>]]
  /\ part' = [part EXCEPT ![u] = IF @.there THEN @ ELSE [@ EXCEPT !.there = TRUE]]
  /\ client' = Goes(u, "waiting")
  /\ torn' = IF Working(u) # {} THEN torn \cup {u} ELSE torn
  /\ UNCHANGED <<rows, stored, sweep, lost, failures>>

(* 404, or 409 offset_mismatch. *)
RefusePatch(u) ==
  /\ client[u].pc = "ready" /\ ~Accepts(u)
  /\ client' = Goes(u, "failed")
  /\ UNCHANGED <<rows, part, handler, stored, sweep, torn, lost, failures>>

(* Opened with flags a: the next unit goes to the end of whatever is there. *)
Stream(h) ==
  LET w == handler[h] IN
  /\ w.pc = "stream" /\ w.put < w.end
  /\ part' = IF w.linked
             THEN [part EXCEPT ![w.up].units = Append(@, w.put + 1), ![w.up].age = 0]
             ELSE part
  /\ handler' = [handler EXCEPT ![h].put = w.put + 1]
  /\ UNCHANGED <<rows, client, stored, sweep, torn, lost, failures>>

(* The whole offset is added, not the bytes of this PATCH. *)
Counted_twice(w) ==
  IF rows[w.up].st = "live" THEN [rows[w.up] EXCEPT !.got = @ + w.end] ELSE rows[w.up]

(* An UPDATE by id, which finds no row when the upload has gone. *)
Counted(w) == IF rows[w.up].st = "live" THEN [rows[w.up] EXCEPT !.got = w.end] ELSE rows[w.up]

(* The body is in: setBytesReceived, and the last PATCH goes on to finalize. *)
Record(h) ==
  LET w == handler[h] IN
  /\ w.pc = "stream" /\ w.put = w.end
  /\ rows' = [rows EXCEPT ![w.up] = Counted(w)]
  /\ IF w.end = Size
     THEN /\ handler' = [handler EXCEPT ![h].pc = "read"]
          /\ UNCHANGED client
     ELSE /\ handler' = [handler EXCEPT ![h] = Idle]
          /\ client' = Hears(w.up, [pc |-> "ready", at |-> w.end])
  /\ UNCHANGED <<part, stored, sweep, torn, lost, failures>>

(* The server sees the connection break: 400 write_failed to nobody. *)
Break(h) ==
  LET w == handler[h] IN
  /\ w.pc = "stream" /\ w.put < w.end
  /\ handler' = [handler EXCEPT ![h] = Idle]
  /\ torn' = IF HasWritten(h) THEN torn \cup {w.up} ELSE torn
  /\ IF client[w.up].pc = "waiting"
     THEN Fail /\ client' = Goes(w.up, "failed")
     ELSE UNCHANGED <<client, failures>>
  /\ UNCHANGED <<rows, part, stored, sweep, lost>>

(* Only the client does: the handler goes on with what has arrived. *)
Lose(u) ==
  /\ client[u].pc = "waiting" /\ Fail
  /\ client' = Goes(u, "failed")
  /\ UNCHANGED <<rows, part, handler, stored, sweep, torn, lost>>

-----------------------------------------------------------------------------
(* Finalizing. *)

ReadPart(h) ==
  LET w == handler[h] IN
  /\ w.pc = "read"
  /\ handler' = [handler EXCEPT ![h] =
       IF part[w.up].there THEN [w EXCEPT !.pc = "scan", !.data = part[w.up].units]
                           ELSE [w EXCEPT !.pc = "unlink", !.ok = FALSE]]
  /\ UNCHANGED <<rows, part, client, stored, sweep, torn, lost, failures>>

(* Clean: the blob and its row.  Its size is the one announced. *)
Insert(h) ==
  LET w == handler[h] IN
  /\ w.pc = "scan"
  /\ stored' = [stored EXCEPT ![w.up] = Append(@, w.data)]
  /\ handler' = [handler EXCEPT ![h].pc = "unlink", ![h].data = <<>>]
  /\ UNCHANGED <<rows, part, client, sweep, torn, lost, failures>>

(* Infected, a scanner that does not answer, no room for the blob. *)
RefuseFile(h) ==
  LET w == handler[h] IN
  /\ w.pc = "scan" /\ Fail
  /\ handler' = [handler EXCEPT ![h] = [w EXCEPT !.pc = "unlink", !.ok = FALSE, !.data = <<>>]]
  /\ UNCHANGED <<rows, part, client, stored, sweep, torn, lost>>

UnlinkPart(h) ==
  LET w == handler[h] IN
  /\ w.pc = "unlink"
  /\ part' = [part EXCEPT ![w.up] = Unlinked]
  /\ handler' = Cut([handler EXCEPT ![h].pc = "forget"], {w.up})
  /\ UNCHANGED <<rows, client, stored, sweep, torn, lost, failures>>

(* The row goes whether the file was taken or not, and the client is told. *)
Forget(h) ==
  LET w == handler[h] IN
  /\ w.pc = "forget"
  /\ rows' = [rows EXCEPT ![w.up].st = "gone"]
  /\ handler' = [handler EXCEPT ![h] = Idle]
  /\ client' = Hears(w.up, IF w.ok THEN [pc |-> "done", at |-> Size]
                                   ELSE [pc |-> "failed", at |-> client[w.up].at])
  /\ UNCHANGED <<part, stored, sweep, torn, lost, failures>>

(* DELETE: unlink and forget, from the page that has given up. *)
Terminate(h, u) ==
  /\ client[u].pc \in {"ready", "failed"} /\ Free(h) /\ Known(u)
  /\ client' = Goes(u, "error")
  /\ handler' = [handler EXCEPT ![h] =
       [pc |-> "unlink", up |-> u, at |-> 0, put |-> 0, end |-> 0, ok |-> FALSE,
        linked |-> FALSE, data |-> <<>>]]
  /\ torn' = IF Working(u) # {} THEN torn \cup {u} ELSE torn
  /\ UNCHANGED <<rows, part, stored, sweep, lost, failures>>

-----------------------------------------------------------------------------
(* The client after a failure: HEAD, and on from there. *)

(* A row that has gone counts as an upload to be started over. *)
AfterAsking_fromZero(u) ==
  IF ~Known(u) THEN [pc |-> "ready", at |-> 0]
  ELSE IF rows[u].got >= Size THEN [pc |-> "done", at |-> Size]
  ELSE [pc |-> "ready", at |-> rows[u].got]

(* An upload that is all there counts as finalized; one that has gone is *)
(* reported as the failure before.                                       *)
AfterAsking(u) ==
  IF ~Known(u) THEN [pc |-> "error", at |-> client[u].at]
  ELSE IF rows[u].got >= Size THEN [pc |-> "done", at |-> Size]
  ELSE [pc |-> "ready", at |-> rows[u].got]

AskOffset(u) ==
  /\ client[u].pc = "failed"
  /\ client' = [client EXCEPT ![u] = AfterAsking(u)]
  /\ UNCHANGED <<rows, part, handler, stored, sweep, torn, lost, failures>>

(* The server dies: its handlers with it. *)
Crash ==
  /\ Fail
  /\ \E h \in Handlers : handler[h] # Idle
  /\ handler' = [h \in Handlers |-> Idle]
  /\ torn' = torn \cup {u \in Uploads : \E h \in Working(u) : HasWritten(h)}
  /\ client' = [u \in Uploads |->
       IF client[u].pc = "waiting" THEN [client[u] EXCEPT !.pc = "failed"] ELSE client[u]]
  /\ UNCHANGED <<rows, part, stored, sweep, lost>>

-----------------------------------------------------------------------------
(* reapExpiredTusUploads, hourly: the rows of the vault past their day, then *)
(* every part, of either kind of upload, nobody has written to for the TTL.  *)

Older(age, most) == IF age < most THEN age + 1 ELSE age

(* An hour passes, as it may between any two steps of the server but those of *)
(* a POST, which dates the part and the row.                                  *)
Tick ==
  /\ \A u \in Uploads : client[u].pc # "creating"
  /\ rows' = [u \in Uploads |->
       IF rows[u].st = "none" THEN rows[u] ELSE [rows[u] EXCEPT !.age = Older(@, Lifetime(u))]]
  /\ part' = [u \in Uploads |->
       IF part[u].there THEN [part[u] EXCEPT !.age = Older(@, Ttl)] ELSE part[u]]
  /\ UNCHANGED <<client, handler, stored, sweep, torn, lost, failures>>

RowDue(u) == rows[u].kind = "vault" /\ rows[u].st = "live" /\ Late(u)

(* An hour short. *)
Stale_early(u) == part[u].there /\ part[u].age + 1 >= Ttl

Stale(u) == part[u].there /\ part[u].age >= Ttl

Reaped(dead) ==
  [u \in Uploads |-> IF u \in dead THEN [rows[u] EXCEPT !.st = "gone"] ELSE rows[u]]

(* Only the parts of the rows that are reaped. *)
ReapRows_ownParts ==
  LET dead == {u \in Uploads : RowDue(u)} IN
  /\ sweep = {} /\ dead # {}
  /\ rows' = Reaped(dead)
  /\ sweep' = {u \in dead : part[u].there}
  /\ UNCHANGED <<part, client, handler, stored, torn, lost, failures>>

(* The rows, then the names in the directory. *)
ReapRows ==
  LET dead == {u \in Uploads : RowDue(u)} IN
  /\ sweep = {}
  /\ rows' = Reaped(dead)
  /\ sweep' = {u \in Uploads : part[u].there}
  /\ dead # {} \/ sweep' # {}
  /\ UNCHANGED <<part, client, handler, stored, torn, lost, failures>>

SweepParts ==
  /\ sweep # {}
  /\ LET gone == {u \in sweep : Stale(u)} IN
     /\ part' = [u \in Uploads |-> IF u \in gone THEN Unlinked ELSE part[u]]
     /\ handler' = Cut(handler, gone)
     /\ lost' = lost \cup {u \in gone : Known(u)}
  /\ sweep' = {}
  /\ UNCHANGED <<rows, client, stored, torn, failures>>

-----------------------------------------------------------------------------
Serve(h) == Stream(h) \/ Record(h) \/ ReadPart(h) \/ Insert(h) \/ UnlinkPart(h) \/ Forget(h)

Send(u) ==
  \/ CreatePart(u) \/ CreateRow(u) \/ RefusePatch(u) \/ AskOffset(u)
  \/ \E h \in Handlers : StartPatch(h, u)

Next ==
  \/ \E h \in Handlers : Serve(h) \/ Break(h) \/ RefuseFile(h)
  \/ \E u \in Uploads :
       \/ Send(u) \/ CreateFails(u) \/ Lose(u)
       \/ \E h \in Handlers : Terminate(h, u)
  \/ Crash \/ Tick \/ ReapRows \/ SweepParts

(* A page goes on with its upload, a running handler with its request, the *)
(* sweep is on a timer and time goes by.                                   *)
Fairness ==
  /\ \A h \in Handlers : WF_vars(Serve(h))
  /\ \A u \in Uploads : SF_vars(Send(u))
  /\ WF_vars(Tick) /\ WF_vars(ReapRows \/ SweepParts)

Spec == Init /\ [][Next]_vars /\ Fairness

-----------------------------------------------------------------------------
(* Every variable has its type, and an unlinked part has no bytes left over.  *)
TypeOK ==
  /\ rows \in [Uploads -> Row] /\ part \in [Uploads -> Part] /\ client \in [Uploads -> Client]
  /\ handler \in [Handlers -> Patching \cup {Idle}]
  /\ stored \in [Uploads -> Seq(Seq(1 .. Size))]
  /\ sweep \subseteq Uploads /\ torn \subseteq Uploads /\ lost \subseteq Uploads
  /\ failures \in 0 .. MaxFailures
  /\ \A u \in Uploads : ~part[u].there => part[u] = Unlinked

(* However the chunks, the HEADs, the reaper and the sweep interleave, and    *)
(* however short the TTL: an upload none of whose PATCHes was cut off or      *)
(* overlapped is stored once and as it was sent, unless its part was swept    *)
(* while its next PATCH would still be taken.                                 *)
UntornIsWhole == \A u \in Uploads \ (torn \cup lost) : stored[u] \in {<<>>, <<Whole>>}

(* That happens to uploads that live longer than the TTL, and of the others    *)
(* only to those of the vault past their Upload-Expires, which nothing but the *)
(* reaper ends.                                                                *)
SweptAreLate ==
  \A u \in lost : Lifetime(u) > Ttl \/ (rows[u].kind = "vault" /\ Late(u))

(* "Sweep the incoming dir for orphaned partials": not with a shorter TTL, and *)
(* not past Upload-Expires.                                                    *)
OnlyOrphansAreSwept == lost = {}

(* "kill the network mid-stream, resume; final scan + insert succeed exactly *)
(* once": what is stored is the file, whatever broke on the way.             *)
StoredIsWhole == \A u \in Uploads : \A i \in DOMAIN stored[u] : stored[u][i] = Whole

(* However it fails, the client's loop of PATCH and HEAD comes to an end. *)
ClientSettles ==
  \A u \in Uploads : [](client[u].pc = "ready" => <>(client[u].pc \in {"done", "error"}))

(* No orphaned temp files: the part of an upload that is over goes. *)
PartsAreReclaimed ==
  \A u \in Uploads : [](client[u].pc \in {"done", "error"} => <>(~part[u].there))

=============================================================================
