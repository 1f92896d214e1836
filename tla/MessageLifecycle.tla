--------------------------- MODULE MessageLifecycle ---------------------------
(***************************************************************************)
(* The life of a chat message on the server: an idempotent send, the       *)
(* announcement of a message when it becomes visible, the self-destruct    *)
(* timer a first read arms, and deletion (routes/conversations.ts,         *)
(* services/scheduledMessages.ts, services/destructMessages.ts, and the    *)
(* idempotency clean-up of services/retention.ts).                         *)
(*                                                                         *)
(* No handler here spans its work with one transaction: each awaits        *)
(* several single statements, and other handlers and both tickers run in   *)
(* between.  A handler or a tick in progress is an element of Procs; two   *)
(* of them are two requests, two server instances, or a tick that overlaps *)
(* the next one (setInterval does not wait).  A statement is one action.   *)
(* Clocks are abstracted: what a time can enable is enabled at any time.   *)
(***************************************************************************)
EXTENDS Naturals, FiniteSets

CONSTANTS
  Messages,     \* messages rows that can be inserted
  Keys,         \* idempotency keys of one user
  Procs,        \* handlers and ticks that can be in progress at once
  Sends,        \* what a sender asks for: a send time and a destruct timer
  MaxFailures,  \* failed statements, failed broadcasts and crashes in a behaviour
  NoMsg, NoKey

ASSUME ConstantsAssumption ==
  /\ NoMsg \notin Messages /\ NoKey \notin Keys
  /\ Sends \subseteq [schedule: {"none", "later", "due"}, timer: {"off", "set"}]
  /\ IsFiniteSet(Messages) /\ IsFiniteSet(Procs)
  /\ MaxFailures \in Nat

VARIABLES
  msgs,      \* the messages rows
  keys,      \* the idempotency_keys rows
  procs,     \* the handlers and ticks in progress
  failures,  \* failures still to happen
  (* What has happened. *)
  posted,    \* messages whose handler published message:new
  ticked,    \* how often the ticker published message:new for a message
  burned,    \* message.destructed audit rows of a message
  freed,     \* how often a key's row was collected
  lost       \* messages a failure left stamped or stored but not announced

history == <<posted, ticked, burned, freed, lost>>
vars == <<msgs, keys, procs, failures, posted, ticked, burned, freed, lost>>

(* scheduled_for is null, in the future, or in the past; stamped is             *)
(* scheduled_broadcast_at; timer abstracts destruct_after_view_seconds and      *)
(* destruct_at; nudge marks a request_nudge_sent system message.                *)
MsgRow == [stored: BOOLEAN, key: Keys \cup {NoKey}, nudge: BOOLEAN,
           schedule: {"none", "later", "due"}, stamped: BOOLEAN,
           timer: {"off", "set", "running", "elapsed"}, deleted: BOOLEAN]
(* A claimed key without a message is the '{}' placeholder. *)
KeyRow == [claimed: BOOLEAN, msg: Messages \cup {NoMsg}]

Proc == [pc: {"idle", "send", "publish", "answer", "arm", "delete", "announce", "unstamp", "burn"},
         key: Keys \cup {NoKey}, msg: Messages \cup {NoMsg},
         batch: SUBSET Messages, failed: SUBSET Messages]

FreshMsg == [stored |-> FALSE, key |-> NoKey, nudge |-> FALSE, schedule |-> "none",
             stamped |-> FALSE, timer |-> "off", deleted |-> FALSE]
FreeKey == [claimed |-> FALSE, msg |-> NoMsg]
Idle == [pc |-> "idle", key |-> NoKey, msg |-> NoMsg, batch |-> {}, failed |-> {}]

Init ==
  /\ msgs = [m \in Messages |-> FreshMsg]
  /\ keys = [k \in Keys |-> FreeKey]
  /\ procs = [p \in Procs |-> Idle]
  /\ failures = MaxFailures
  /\ posted = {} /\ lost = {}
  /\ ticked = [m \in Messages |-> 0]
  /\ burned = [m \in Messages |-> 0]
  /\ freed = [k \in Keys |-> 0]

Goto(p, proc) == procs' = [procs EXCEPT ![p] = proc]
Finish(p) == Goto(p, Idle)
Fail == failures > 0 /\ failures' = failures - 1

(* The handler has m to answer with: a claimed slot is filled in first. *)
Respond(p, m) ==
  IF procs[p].key = NoKey THEN Finish(p) ELSE Goto(p, [procs[p] EXCEPT !.pc = "answer", !.msg = m])

(* Faulty variants are named <definition>_<fault>; a mutation run puts one in the *)
(* place of the definition after it.                                              *)
-----------------------------------------------------------------------------
(* Sending. *)

(* INSERT ... ON CONFLICT DO NOTHING claims the key.  A request that loses the     *)
(* claim changes nothing: it polls the row and replays it or answers 409.          *)
StartSend(p, k) ==
  /\ procs[p].pc = "idle"
  /\ IF k = NoKey THEN keys' = keys
     ELSE /\ ~keys[k].claimed
          /\ keys' = [keys EXCEPT ![k] = [claimed |-> TRUE, msg |-> NoMsg]]
  /\ Goto(p, [Idle EXCEPT !.pc = "send", !.key = k])
  /\ UNCHANGED <<msgs, failures, history>>

(* The firm's destruct gates answer 400 and leave the placeholder. *)
RefuseSend(p) ==
  /\ procs[p].pc = "send"
  /\ Finish(p)
  /\ UNCHANGED <<msgs, keys, failures, history>>

(* A send time checked to lie ahead may have passed by now (isVisibleNow). *)
InsertMessage(p, m, send) ==
  /\ procs[p].pc = "send"
  /\ ~msgs[m].stored
  /\ msgs' = [msgs EXCEPT ![m] = [FreshMsg EXCEPT !.stored = TRUE, !.key = procs[p].key,
                                                  !.schedule = send.schedule, !.timer = send.timer]]
  /\ IF send.schedule # "later"
     THEN Goto(p, [procs[p] EXCEPT !.msg = m, !.pc = "publish"])
     ELSE Respond(p, m)
  /\ UNCHANGED <<keys, failures, history>>

PublishNew(p) ==
  /\ procs[p].pc = "publish"
  /\ posted' = posted \cup {procs[p].msg}
  /\ Respond(p, procs[p].msg)
  /\ UNCHANGED <<msgs, keys, failures, ticked, burned, freed, lost>>

RecordAnswer_restores(p) ==
  /\ procs[p].pc = "answer"
  /\ keys' = [keys EXCEPT ![procs[p].key].msg = procs[p].msg]
  /\ Finish(p)
  /\ UNCHANGED <<msgs, failures, history>>

(* An UPDATE: nothing to fill in when the row was collected meanwhile. *)
RecordAnswer(p) ==
  /\ procs[p].pc = "answer"
  /\ keys' = IF keys[procs[p].key].claimed
             THEN [keys EXCEPT ![procs[p].key].msg = procs[p].msg] ELSE keys
  /\ Finish(p)
  /\ UNCHANGED <<msgs, failures, history>>

Collect_answeredOnly(k) ==
  /\ keys[k].claimed /\ keys[k].msg # NoMsg
  /\ keys' = [keys EXCEPT ![k] = FreeKey]
  /\ freed' = [freed EXCEPT ![k] = @ + 1]
  /\ UNCHANGED <<msgs, procs, failures, posted, ticked, burned, lost>>

(* runRetentionSweep: any row after 24 hours, a placeholder after 5 minutes. *)
(* freed saturates at the number of messages.                                *)
Collect(k) ==
  /\ keys[k].claimed
  /\ keys' = [keys EXCEPT ![k] = FreeKey]
  /\ freed' = [freed EXCEPT ![k] = IF @ < Cardinality(Messages) THEN @ + 1 ELSE @]
  /\ UNCHANGED <<msgs, procs, failures, posted, ticked, burned, lost>>

(* enqueueNudge: a system message, due at once or later.  Its checks are on the    *)
(* request list, which is outside this module.                                     *)
EnqueueNudge(m, schedule) ==
  /\ ~msgs[m].stored
  /\ msgs' = [msgs EXCEPT ![m] = [FreshMsg EXCEPT !.stored = TRUE, !.nudge = TRUE,
                                                  !.schedule = schedule]]
  /\ UNCHANGED <<keys, procs, failures, history>>

-----------------------------------------------------------------------------
(* The scheduled-message tick: claim, announce row by row, un-stamp the failures. *)

ComesDue(m) ==
  /\ msgs[m].schedule = "later"
  /\ msgs' = [msgs EXCEPT ![m].schedule = "due"]
  /\ UNCHANGED <<keys, procs, failures, history>>

DueRows_ignoresStamp == {m \in Messages : msgs[m].schedule = "due" /\ ~msgs[m].deleted}

DueRows == {m \in Messages : msgs[m].schedule = "due" /\ ~msgs[m].stamped /\ ~msgs[m].deleted}

ClaimDue(p) ==
  /\ procs[p].pc = "idle"
  /\ DueRows # {}
  /\ msgs' = [m \in Messages |-> IF m \in DueRows THEN [msgs[m] EXCEPT !.stamped = TRUE] ELSE msgs[m]]
  /\ Goto(p, [Idle EXCEPT !.pc = "announce", !.batch = DueRows])
  /\ UNCHANGED <<keys, failures, history>>

(* One row of the loop is done; the last one ends it. *)
RowDone(p, m, hasFailed) ==
  LET batch == procs[p].batch \ {m}
      failed == procs[p].failed \cup (IF hasFailed THEN {m} ELSE {})
  IN IF batch = {} /\ failed = {} THEN Finish(p)
     ELSE Goto(p, [procs[p] EXCEPT !.pc = IF batch = {} THEN "unstamp" ELSE @,
                                   !.batch = batch, !.failed = failed])

(* A nudge whose list needs none any more is deleted and audited instead. *)
SkipNudge(p, m) ==
  /\ procs[p].pc = "announce" /\ m \in procs[p].batch /\ msgs[m].nudge
  /\ msgs' = [msgs EXCEPT ![m].deleted = TRUE]
  /\ RowDone(p, m, FALSE)
  /\ UNCHANGED <<keys, failures, history>>

Announce(p, m) ==
  /\ procs[p].pc = "announce" /\ m \in procs[p].batch
  /\ ticked' = [ticked EXCEPT ![m] = @ + 1]
  /\ RowDone(p, m, FALSE)
  /\ UNCHANGED <<msgs, keys, failures, posted, burned, freed, lost>>

(* The broadcast throws; or, for a nudge, the audit write after it does. *)
AnnounceFails(p, m) ==
  /\ procs[p].pc = "announce" /\ m \in procs[p].batch
  /\ Fail
  /\ \/ ticked' = ticked
     \/ msgs[m].nudge /\ ticked' = [ticked EXCEPT ![m] = @ + 1]
  /\ RowDone(p, m, TRUE)
  /\ UNCHANGED <<msgs, keys, posted, burned, freed, lost>>

Unstamp_forgets(p) ==
  /\ procs[p].pc = "unstamp"
  /\ Finish(p)
  /\ UNCHANGED <<msgs, keys, failures, history>>

Unstamp(p) ==
  /\ procs[p].pc = "unstamp"
  /\ msgs' = [m \in Messages |->
                IF m \in procs[p].failed THEN [msgs[m] EXCEPT !.stamped = FALSE] ELSE msgs[m]]
  /\ Finish(p)
  /\ UNCHANGED <<keys, failures, history>>

-----------------------------------------------------------------------------
(* Reading, the destruct timer, and deletion. *)

(* The first read of a destructing message; the receipt itself is not modelled. *)
StartRead(p, m) ==
  /\ procs[p].pc = "idle"
  /\ msgs[m].stored /\ msgs[m].schedule # "later"
  /\ msgs[m].timer = "set"
  /\ Goto(p, [Idle EXCEPT !.pc = "arm", !.msg = m])
  /\ UNCHANGED <<msgs, keys, failures, history>>

StampDestructAt_unguarded(p) ==
  /\ procs[p].pc = "arm"
  /\ msgs' = [msgs EXCEPT ![procs[p].msg].timer = "running"]
  /\ Finish(p)
  /\ UNCHANGED <<keys, failures, history>>

(* Guarded by destruct_at IS NULL and deleted_at IS NULL. *)
StampDestructAt(p) ==
  LET m == procs[p].msg IN
  /\ procs[p].pc = "arm"
  /\ msgs' = IF msgs[m].timer = "set" /\ ~msgs[m].deleted
             THEN [msgs EXCEPT ![m].timer = "running"] ELSE msgs
  /\ Finish(p)
  /\ UNCHANGED <<keys, failures, history>>

TimerElapses(m) ==
  /\ msgs[m].timer = "running"
  /\ msgs' = [msgs EXCEPT ![m].timer = "elapsed"]
  /\ UNCHANGED <<keys, procs, failures, history>>

ElapsedRows_ignoresDeleted == {m \in Messages : msgs[m].timer = "elapsed"}
ElapsedRows_sentOnly ==
  {m \in Messages : msgs[m].timer = "elapsed" /\ ~msgs[m].deleted /\ msgs[m].schedule = "none"}

ElapsedRows == {m \in Messages : msgs[m].timer = "elapsed" /\ ~msgs[m].deleted}

(* The destruct tick: one UPDATE deletes every elapsed row and returns it. *)
ClaimElapsed(p) ==
  /\ procs[p].pc = "idle"
  /\ ElapsedRows # {}
  /\ msgs' = [m \in Messages |->
                IF m \in ElapsedRows THEN [msgs[m] EXCEPT !.deleted = TRUE] ELSE msgs[m]]
  /\ Goto(p, [Idle EXCEPT !.pc = "burn", !.batch = ElapsedRows])
  /\ UNCHANGED <<keys, failures, history>>

AuditBurn(p, m) ==
  /\ procs[p].pc = "burn" /\ m \in procs[p].batch
  /\ burned' = [burned EXCEPT ![m] = @ + 1]
  /\ RowDone(p, m, FALSE)
  /\ UNCHANGED <<msgs, keys, failures, posted, ticked, freed, lost>>

(* Logged, and the loop goes on: the row stays deleted. *)
AuditBurnFails(p, m) ==
  /\ procs[p].pc = "burn" /\ m \in procs[p].batch
  /\ Fail
  /\ RowDone(p, m, FALSE)
  /\ UNCHANGED <<msgs, keys, history>>

StartDelete(p, m) ==
  /\ procs[p].pc = "idle"
  /\ msgs[m].stored
  /\ Goto(p, [Idle EXCEPT !.pc = "delete", !.msg = m])
  /\ UNCHANGED <<msgs, keys, failures, history>>

(* softDelete matches on the id alone. *)
SoftDelete(p) ==
  /\ procs[p].pc = "delete"
  /\ msgs' = [msgs EXCEPT ![procs[p].msg].deleted = TRUE]
  /\ Finish(p)
  /\ UNCHANGED <<keys, failures, history>>

-----------------------------------------------------------------------------
(* A statement throws, or the server dies: the handler or tick ends where it is. *)
Abandon(p) ==
  /\ procs[p].pc # "idle"
  /\ Fail
  /\ lost' = lost \cup
       CASE procs[p].pc = "publish" -> {procs[p].msg}
         [] procs[p].pc \in {"announce", "unstamp"} -> procs[p].batch \cup procs[p].failed
         [] OTHER -> {}
  /\ Finish(p)
  /\ UNCHANGED <<msgs, keys, posted, ticked, burned, freed>>

Step(p) ==
  \/ RefuseSend(p)
  \/ \E m \in Messages, send \in Sends : InsertMessage(p, m, send)
  \/ PublishNew(p) \/ RecordAnswer(p)
  \/ \E m \in Messages : SkipNudge(p, m) \/ Announce(p, m) \/ AuditBurn(p, m)
  \/ Unstamp(p) \/ StampDestructAt(p) \/ SoftDelete(p)

Request(p) ==
  \/ \E k \in Keys \cup {NoKey} : StartSend(p, k)
  \/ \E m \in Messages : StartRead(p, m) \/ StartDelete(p, m)

Failure(p) ==
  \/ \E m \in Messages : AnnounceFails(p, m) \/ AuditBurnFails(p, m)
  \/ Abandon(p)

Clock ==
  \/ \E m \in Messages : ComesDue(m) \/ TimerElapses(m)
  \/ \E k \in Keys : Collect(k)

Next ==
  \/ \E p \in Procs : Request(p) \/ ClaimDue(p) \/ ClaimElapsed(p) \/ Step(p) \/ Failure(p)
  \/ \E m \in Messages, s \in {"later", "due"} : EnqueueNudge(m, s)
  \/ Clock

(* A handler that has not failed goes on; the tickers fire on their intervals       *)
(* whatever requests are in progress; the sweep comes round.  Nobody has to send,   *)
(* read or delete, and nothing has to become due.                                   *)
Fairness ==
  /\ \A p \in Procs : WF_vars(Step(p))
  /\ SF_vars(\E p \in Procs : ClaimDue(p))
  /\ SF_vars(\E p \in Procs : ClaimElapsed(p))
  /\ \A k \in Keys : WF_vars(Collect(k))

Unfair == Init /\ [][Next]_vars
Spec == Unfair /\ Fairness

-----------------------------------------------------------------------------
(* Properties. *)

(* A key that is not claimed names no message: an answer that arrives after its row *)
(* was collected does not bring the row back.                                       *)
TypeOK ==
  /\ msgs \in [Messages -> MsgRow]
  /\ keys \in [Keys -> KeyRow]
  /\ \A k \in Keys : keys[k].msg # NoMsg => keys[k].claimed
  /\ procs \in [Procs -> Proc]
  /\ failures \in 0 .. MaxFailures
  /\ posted \subseteq Messages /\ lost \subseteq Messages
  /\ ticked \in [Messages -> Nat] /\ burned \in [Messages -> Nat] /\ freed \in [Keys -> Nat]

(* "No two concurrent senders can both create messages": a key creates a second      *)
(* message only after its row was collected, whoever retries, crashes or is refused. *)
MadeWith(k) == {m \in Messages : msgs[m].key = k}

OneMessagePerKey == \A k \in Keys : Cardinality(MadeWith(k)) <= 1 + freed[k]

(* "Each row is returned to exactly one caller": overlapping ticks, failures and     *)
(* un-stamping included, the tickers announce a message a member sent at most once.  *)
TickedOnce == \A m \in Messages : ~msgs[m].nudge => ticked[m] <= 1

(* "The audit log records exactly one message.destructed per message", also when     *)
(* the sender deletes it meanwhile.                                                  *)
BurnedOnce == \A m \in Messages : burned[m] <= 1

(* The timer runs from the first read: a later read, even one that saw no timer,     *)
(* does not postpone it.                                                             *)
TimerNeverPostponed ==
  [][\A m \in Messages : msgs[m].timer = "elapsed" => msgs'[m].timer = "elapsed"]_vars

(* A visible message is announced in the end, by its sender's request or by a tick,  *)
(* or deleted, or a crash between a claim and its broadcast lost it.                 *)
Visible(m) == msgs[m].stored /\ msgs[m].schedule # "later"
Announced(m) == m \in posted \/ ticked[m] > 0

VisibleIsAnnounced ==
  \A m \in Messages : Visible(m) ~> (Announced(m) \/ msgs[m].deleted \/ m \in lost)

(* An elapsed message is deleted in the end. *)
ElapsedIsDeleted == \A m \in Messages : msgs[m].timer = "elapsed" ~> msgs[m].deleted

(* A placeholder left by a refused or crashed send does not block its key forever.   *)
KeyComesFree ==
  \A k \in Keys : (keys[k].claimed /\ keys[k].msg = NoMsg)
                     ~> ~(keys[k].claimed /\ keys[k].msg = NoMsg)

=============================================================================
