------------------------------ MODULE Requests ------------------------------
(***************************************************************************)
(* Client requests: the lists and items of one conversation, the staff     *)
(* operations on them, and the two hooks that move an item when a client's *)
(* message or attachment lands (services/requestsService.ts, the upload    *)
(* handlers of routes/portalUpload.ts and routes/conversations.ts).        *)
(*                                                                         *)
(* Every service function is one Postgres transaction at READ COMMITTED.   *)
(* It reads rows, decides, and then updates.  A read sees what is          *)
(* committed plus the transaction's own writes; an UPDATE waits for the    *)
(* transaction that holds the row, then evaluates its WHERE on the         *)
(* committed row; writes become visible at commit.  A call in progress is  *)
(* an element of Ops: it keeps what it has read, the rows it has locked    *)
(* and the values it will commit.                                          *)
(***************************************************************************)
EXTENDS Naturals, FiniteSets

CONSTANTS
  Ops,            \* calls that can be in progress at once
  Lists, Items,   \* request_lists and request_items rows that can be inserted
  ListOf,         \* request_items.list_id
  Messages, Atts, \* messages and attachments rows that can be inserted
  ResponseTypes,  \* response types in use
  MaxActiveLists, \* MAX_ACTIVE_LISTS_PER_CONVERSATION
  MaxItems,       \* MAX_ITEMS_PER_LIST
  MaxAtts,        \* MAX_ATTACHMENTS_PER_MESSAGE
  MayFail,        \* whether calls can be abandoned
  NoItem, NoList, NoMsg, NoAtt

ASSUME RowsAssumption ==
  /\ ListOf \in [Items -> Lists]
  /\ NoItem \notin Items /\ NoList \notin Lists
  /\ NoMsg \notin Messages /\ NoAtt \notin Atts
  /\ ResponseTypes \subseteq {"file", "text", "both"}
  /\ ResponseTypes # {}
  /\ MayFail \in BOOLEAN

VARIABLES
  lists,  \* committed request_lists rows
  items,  \* committed request_items rows
  msgs,   \* committed messages rows: linked item and whether there is a text body
  atts,   \* committed attachments rows
  ops     \* the calls in progress

data == <<lists, items, msgs, atts>>
vars == <<lists, items, msgs, atts, ops>>

ListStatus == {"active", "completed", "archived", "cancelled"}
ItemStatus == {"pending", "submitted", "done", "revision"}
AttStatus == {"pending", "clean", "infected"}

(* A row: "none" before its insert, "deleted" after its delete. completed_at,   *)
(* completed_by and revision_note_ciphertext count only as set or null; by is   *)
(* the message named in the item's last request.item_submitted audit row.       *)
ListRow == [status: ListStatus \cup {"none"}, stamped: BOOLEAN]
ItemRow == [status: ItemStatus \cup {"none", "deleted"}, note: BOOLEAN, closed: BOOLEAN,
            rtype: ResponseTypes, by: Messages \cup {NoMsg}]
MsgRow == [posted: BOOLEAN, item: Items \cup {NoItem}, text: BOOLEAN]
AttRow == [msg: Messages \cup {NoMsg}, status: AttStatus \cup {"none", "deleted"}]

Kinds == {"createList", "addItem", "updateItem", "deleteItem", "updateList", "markDone",
          "requestRevision", "messagePosted", "scanFailed", "upload"}
Steps == {"insert", "put", "scan", "infectedCheck", "read", "item", "count", "list", "commit"}

OpRec == [kind: Kinds \cup {"none"}, pc: Steps \cup {"idle"},
          item: Items \cup {NoItem}, list: Lists \cup {NoList},
          msg: Messages \cup {NoMsg}, att: Atts \cup {NoAtt}, files: BOOLEAN,
          arg: ListStatus \cup ResponseTypes \cup {"none"},
          seen: ListRow, row: ItemRow, lrow: ListRow, held: SUBSET {"item", "list"}]

FreshList == [status |-> "none", stamped |-> FALSE]
FreshItem == [status |-> "none", note |-> FALSE, closed |-> FALSE,
              rtype |-> CHOOSE t \in ResponseTypes : TRUE, by |-> NoMsg]

IdleOp == [kind |-> "none", pc |-> "idle", item |-> NoItem, list |-> NoList, msg |-> NoMsg,
           att |-> NoAtt, files |-> FALSE, arg |-> "none", seen |-> FreshList,
           row |-> FreshItem, lrow |-> FreshList, held |-> {}]

Init ==
  /\ lists = [l \in Lists |-> FreshList]
  /\ items = [i \in Items |-> FreshItem]
  /\ msgs = [m \in Messages |-> [posted |-> FALSE, item |-> NoItem, text |-> FALSE]]
  /\ atts = [a \in Atts |-> [msg |-> NoMsg, status |-> "none"]]
  /\ ops = [o \in Ops |-> IdleOp]

-----------------------------------------------------------------------------
(* Reading the tables. *)

Stored(i) == items[i].status \in ItemStatus
ActiveLists == {l \in Lists : lists[l].status = "active"}
ItemsIn(l) == {i \in Items : ListOf[i] = l /\ Stored(i)}
AttsOf(m) == {a \in Atts : atts[a].msg = m /\ atts[a].status \in AttStatus}
InfectedIn(m) == {a \in AttsOf(m) : atts[a].status = "infected"}

(* Another transaction holds the row, so an UPDATE of it waits. *)
ItemLocked(o) == \E p \in Ops \ {o} : "item" \in ops[p].held /\ ops[p].item = ops[o].item
ListLocked(o) == \E p \in Ops \ {o} : "list" \in ops[p].held /\ ops[p].list = ops[o].list

Goto(o, op) == ops' = [ops EXCEPT ![o] = op]
Finish(o) == Goto(o, IdleOp)

(* Faulty variants, one beside each definition they replace in a mutation run,   *)
(* are named <definition>_<fault>.                                               *)
StepAfter_listFirst(op, pc) ==
  CASE pc = "start" /\ op.kind = "requestRevision" -> "list"
    [] pc = "list" /\ op.kind = "requestRevision" -> "item"
    [] pc = "start" -> "item"
    [] pc = "item" /\ op.kind = "markDone" -> "count"
    [] OTHER -> "commit"

(* The order of a transaction's statements: the item row first, then the list  *)
(* row when markDone counted every item done or a revision read its list as     *)
(* completed.                                                                    *)
StepAfter(op, pc) ==
  CASE pc = "start" -> "item"
    [] pc = "item" /\ op.kind = "markDone" -> "count"
    [] pc = "item" /\ op.kind = "requestRevision" /\ op.seen.status = "completed" -> "list"
    [] OTHER -> "commit"

(* loadItemAndListOr404: the item exists; the list row as read is kept where it *)
(* is used again after a write.                                                  *)
OnItem(kind, i, seen) ==
  LET op == [IdleOp EXCEPT !.kind = kind, !.item = i, !.list = ListOf[i], !.seen = seen]
  IN [op EXCEPT !.pc = StepAfter(op, "start")]

FromStates_unguarded(op) == ItemStatus

(* transitionStatus, deleteIfPending, updatePartial: the states the WHERE allows *)
(* and the row the UPDATE writes, as a function of the row it finds.             *)
FromStates(op) ==
  CASE op.kind = "markDone" -> {"submitted", "revision"}
    [] op.kind = "requestRevision" -> {"submitted", "done"}
    [] op.kind = "messagePosted" -> {"pending", "revision"}
    [] op.kind = "scanFailed" -> {"submitted"}
    [] op.kind = "deleteItem" -> {"pending"}
    [] op.kind = "updateItem" -> ItemStatus
    [] OTHER -> {}

ItemUpdate_keepsCloser(op, row) ==
  CASE op.kind = "markDone" -> [row EXCEPT !.status = "done", !.closed = TRUE]
    [] op.kind = "requestRevision" -> [row EXCEPT !.status = "revision", !.note = TRUE]
    [] op.kind = "messagePosted" ->
         [row EXCEPT !.status = "submitted", !.note = FALSE, !.by = op.msg]
    [] OTHER -> row

ItemUpdate_writesUnsetColumn(op, row) ==
  IF op.kind = "markDone" THEN [row EXCEPT !.status = "done", !.closed = TRUE, !.rtype = op.arg]
  ELSE IF op.kind = "messagePosted" THEN [row EXCEPT !.status = "submitted", !.by = op.msg]
  ELSE row

ItemUpdate(op, row) ==
  CASE op.kind = "markDone" -> [row EXCEPT !.status = "done", !.closed = TRUE]
    [] op.kind = "requestRevision" ->
         [row EXCEPT !.status = "revision", !.note = TRUE, !.closed = FALSE]
    [] op.kind = "messagePosted" ->
         [row EXCEPT !.status = "submitted", !.note = FALSE, !.by = op.msg]
    [] op.kind = "scanFailed" -> [row EXCEPT !.status = "revision", !.note = FALSE]
    [] op.kind = "deleteItem" -> [row EXCEPT !.status = "deleted"]
    [] op.kind = "updateItem" -> [row EXCEPT !.rtype = op.arg]
    [] OTHER -> row

(* The list UPDATE of markDone is guarded by status = 'active'; the other two   *)
(* match on the id alone, and updateList derives completed_at from the row it   *)
(* read, not from the row it writes.                                            *)
ListMatches(op, row) == op.kind = "markDone" => row.status = "active"

ListUpdate(op, row) ==
  CASE op.kind = "markDone" -> [status |-> "completed", stamped |-> TRUE]
    [] op.kind = "requestRevision" -> [status |-> "active", stamped |-> FALSE]
    [] op.kind = "updateList" ->
         [status |-> op.arg,
          stamped |-> IF op.arg = "completed" /\ ~op.seen.stamped THEN TRUE
                      ELSE IF op.arg # "completed" /\ op.seen.stamped THEN FALSE
                      ELSE row.stamped]
    [] OTHER -> row

(* The response_type rule of onMessagePosted. *)
Satisfied(op) ==
  LET t == items[op.item].rtype IN
  \/ t \in {"file", "both"} /\ op.files
  \/ t \in {"text", "both"} /\ msgs[op.msg].text

-----------------------------------------------------------------------------
(* Staff calls: the first step of each transaction reads and checks. *)

StartCreateList(o) ==
  /\ ops[o].pc = "idle"
  /\ Cardinality(ActiveLists) < MaxActiveLists
  /\ Goto(o, [IdleOp EXCEPT !.kind = "createList", !.pc = "insert"])
  /\ UNCHANGED data

(* The list and its seed items become visible together. *)
CreateList(o, l, seeds) ==
  /\ ops[o].pc = "insert" /\ ops[o].kind = "createList"
  /\ lists[l].status = "none"
  /\ \A i \in seeds : items[i].status = "none" /\ ListOf[i] = l
  /\ lists' = [lists EXCEPT ![l] = [status |-> "active", stamped |-> FALSE]]
  /\ \E t \in ResponseTypes :
       items' = [i \in Items |->
                   IF i \in seeds THEN [FreshItem EXCEPT !.status = "pending", !.rtype = t]
                   ELSE items[i]]
  /\ Finish(o)
  /\ UNCHANGED <<msgs, atts>>

StartAddItem(o, l) ==
  /\ ops[o].pc = "idle"
  /\ lists[l].status = "active"
  /\ Cardinality(ItemsIn(l)) < MaxItems
  /\ Goto(o, [IdleOp EXCEPT !.kind = "addItem", !.pc = "insert", !.list = l])
  /\ UNCHANGED data

AddItem(o, i, t) ==
  /\ ops[o].pc = "insert" /\ ops[o].kind = "addItem"
  /\ items[i].status = "none" /\ ListOf[i] = ops[o].list
  /\ items' = [items EXCEPT ![i] = [FreshItem EXCEPT !.status = "pending", !.rtype = t]]
  /\ Finish(o)
  /\ UNCHANGED <<lists, msgs, atts>>

StartUpdateItem(o, i, t) ==
  /\ ops[o].pc = "idle"
  /\ Stored(i)
  /\ Goto(o, [OnItem("updateItem", i, FreshList) EXCEPT !.arg = t])
  /\ UNCHANGED data

StartDeletePendingItem(o, i) ==
  /\ ops[o].pc = "idle"
  /\ items[i].status = "pending"
  /\ Goto(o, OnItem("deleteItem", i, FreshList))
  /\ UNCHANGED data

StartUpdateList(o, l, status) ==
  /\ ops[o].pc = "idle"
  /\ lists[l].status \in ListStatus
  /\ Goto(o, [IdleOp EXCEPT !.kind = "updateList", !.pc = "list", !.list = l,
                            !.seen = lists[l], !.arg = status])
  /\ UNCHANGED data

StartMarkDone(o, i) ==
  /\ ops[o].pc = "idle"
  /\ Stored(i)
  /\ lists[ListOf[i]].status = "active"
  /\ Goto(o, OnItem("markDone", i, FreshList))
  /\ UNCHANGED data

StartRequestRevision(o, i) ==
  /\ ops[o].pc = "idle"
  /\ Stored(i)
  /\ lists[ListOf[i]].status \notin {"archived", "cancelled"}
  /\ Goto(o, OnItem("requestRevision", i, lists[ListOf[i]]))
  /\ UNCHANGED data

-----------------------------------------------------------------------------
(* Messages, attachments and the hooks they fire. *)

(* POST message: the row is committed, then onMessagePosted runs on its own      *)
(* with attachmentCount 0.  The item id is the client's, and may be of an item    *)
(* deleted since the client saw it.                                              *)
PostMessage(o, m, i, text) ==
  /\ ops[o].pc = "idle"
  /\ ~msgs[m].posted
  /\ i # NoItem => items[i].status # "none"
  /\ msgs' = [msgs EXCEPT ![m] = [posted |-> TRUE, item |-> i, text |-> text]]
  /\ IF i = NoItem THEN Finish(o)
     ELSE Goto(o, [IdleOp EXCEPT !.kind = "messagePosted", !.pc = "infectedCheck",
                                 !.item = i, !.list = ListOf[i], !.msg = m])
  /\ UNCHANGED <<lists, items, atts>>

(* linkMessage, then the route's overwrite of ciphertext_meta. *)
LinkMessage(m, i) ==
  /\ msgs[m].posted /\ Stored(i)
  /\ msgs' = [msgs EXCEPT ![m].item = i]
  /\ UNCHANGED <<lists, items, atts, ops>>

StartUpload(o, m) ==
  /\ ops[o].pc = "idle"
  /\ msgs[m].posted
  /\ Cardinality(AttsOf(m)) < MaxAtts
  /\ Goto(o, [IdleOp EXCEPT !.kind = "upload", !.pc = "put", !.msg = m, !.item = msgs[m].item])
  /\ UNCHANGED data

InsertAttachment(o, a) ==
  /\ ops[o].pc = "put"
  /\ atts[a].status = "none"
  /\ atts' = [atts EXCEPT ![a] = [msg |-> ops[o].msg, status |-> "pending"]]
  /\ Goto(o, [ops[o] EXCEPT !.pc = "scan", !.att = a])
  /\ UNCHANGED <<lists, items, msgs>>

(* The handler ends by firing a hook for the linked item, if there is one. *)
FireHook(o, kind, pc, i) ==
  IF i = NoItem THEN Finish(o)
  ELSE Goto(o, [IdleOp EXCEPT !.kind = kind, !.pc = pc, !.item = i, !.list = ListOf[i],
                              !.msg = ops[o].msg, !.files = TRUE])

(* The infected row stays; its blob goes. *)
ScanInfected(o) ==
  /\ ops[o].pc = "scan"
  /\ atts' = [atts EXCEPT ![ops[o].att].status = "infected"]
  /\ FireHook(o, "scanFailed", "read", msgs[ops[o].msg].item)
  /\ UNCHANGED <<lists, items, msgs>>

(* clamd unreachable: the row is deleted, or stays pending if the delete fails. *)
ScanError(o) ==
  /\ ops[o].pc = "scan"
  /\ \E s \in {"deleted", "pending"} : atts' = [atts EXCEPT ![ops[o].att].status = s]
  /\ FireHook(o, "scanFailed", "read", msgs[ops[o].msg].item)
  /\ UNCHANGED <<lists, items, msgs>>

(* The staff route uses the link it read at the start, the portal route reads it *)
(* again.                                                                        *)
ScanClean(o) ==
  /\ ops[o].pc = "scan"
  /\ atts' = [atts EXCEPT ![ops[o].att].status = "clean"]
  /\ \E i \in {ops[o].item, msgs[ops[o].msg].item} :
       FireHook(o, "messagePosted", "infectedCheck", i)
  /\ UNCHANGED <<lists, items, msgs>>

(* onMessagePosted looks for infected siblings before its transaction begins.  The  *)
(* firm's requests switch is on: off, the hook ends here.                            *)
CheckInfected(o) ==
  /\ ops[o].pc = "infectedCheck"
  /\ IF InfectedIn(ops[o].msg) # {} THEN Finish(o)
     ELSE Goto(o, [ops[o] EXCEPT !.pc = "read"])
  /\ UNCHANGED data

(* The hooks' read of item and list.  onMessagePosted wants an active list and a *)
(* satisfied response type; onAttachmentScanFailed only an existing item.        *)
HookMayGo(op) ==
  /\ Stored(op.item)
  /\ op.kind = "messagePosted" => lists[op.list].status = "active" /\ Satisfied(op)

ReadHook(o) ==
  /\ ops[o].pc = "read"
  /\ IF HookMayGo(ops[o])
     THEN Goto(o, [ops[o] EXCEPT !.pc = StepAfter(ops[o], "start")])
     ELSE Finish(o)
  /\ UNCHANGED data

-----------------------------------------------------------------------------
(* The updates of a transaction, its commit and its rollback. *)

UpdateItemRow(o) ==
  LET op == ops[o] IN
  /\ op.pc = "item"
  /\ ~ItemLocked(o)
  /\ IF items[op.item].status \in FromStates(op)
     THEN Goto(o, [op EXCEPT !.row = ItemUpdate(op, items[op.item]),
                             !.held = @ \cup {"item"}, !.pc = StepAfter(op, "item")])
     ELSE Finish(o)
  /\ UNCHANGED data

(* statusCounts: the committed rows, and this transaction's own. *)
EveryItemDone(op) ==
  \A i \in ItemsIn(op.list) \ {op.item} : items[i].status = "done"

CountItems(o) ==
  /\ ops[o].pc = "count"
  /\ Goto(o, [ops[o] EXCEPT !.pc = IF EveryItemDone(ops[o]) THEN "list" ELSE "commit"])
  /\ UNCHANGED data

UpdateListRow(o) ==
  LET op == ops[o] IN
  /\ op.pc = "list"
  /\ ~ListLocked(o)
  /\ IF ListMatches(op, lists[op.list])
     THEN Goto(o, [op EXCEPT !.lrow = ListUpdate(op, lists[op.list]),
                             !.held = @ \cup {"list"}, !.pc = StepAfter(op, "list")])
     ELSE Goto(o, [op EXCEPT !.pc = "commit"])
  /\ UNCHANGED data

Commit(o) ==
  LET op == ops[o] IN
  /\ op.pc = "commit"
  /\ items' = IF "item" \in op.held THEN [items EXCEPT ![op.item] = op.row] ELSE items
  /\ lists' = IF "list" \in op.held THEN [lists EXCEPT ![op.list] = op.lrow] ELSE lists
  /\ Finish(o)
  /\ UNCHANGED <<msgs, atts>>

(* A dropped connection or a dead process: an open transaction leaves nothing, a *)
(* handler or a fired hook stops where it is.                                    *)
Abandon(o) ==
  /\ MayFail
  /\ ops[o].pc # "idle"
  /\ Finish(o)
  /\ UNCHANGED data

-----------------------------------------------------------------------------
Start(o) ==
  \/ StartCreateList(o)
  \/ \E l \in Lists : StartAddItem(o, l)
  \/ \E l \in Lists, s \in ListStatus : StartUpdateList(o, l, s)
  \/ \E i \in Items, t \in ResponseTypes : StartUpdateItem(o, i, t)
  \/ \E i \in Items : StartDeletePendingItem(o, i)
  \/ \E i \in Items : StartMarkDone(o, i)
  \/ \E i \in Items : StartRequestRevision(o, i)
  \/ \E m \in Messages, i \in Items \cup {NoItem}, t \in BOOLEAN : PostMessage(o, m, i, t)
  \/ \E m \in Messages : StartUpload(o, m)

Continue(o) ==
  \/ \E l \in Lists : \E seeds \in SUBSET {i \in Items : ListOf[i] = l} : CreateList(o, l, seeds)
  \/ \E i \in Items, t \in ResponseTypes : AddItem(o, i, t)
  \/ \E a \in Atts : InsertAttachment(o, a)
  \/ ScanInfected(o) \/ ScanError(o) \/ ScanClean(o)
  \/ CheckInfected(o) \/ ReadHook(o)
  \/ UpdateItemRow(o) \/ CountItems(o) \/ UpdateListRow(o) \/ Commit(o)

Next ==
  \/ \E o \in Ops : Start(o) \/ Continue(o) \/ Abandon(o)
  \/ \E m \in Messages, i \in Items : LinkMessage(m, i)

Spec == Init /\ [][Next]_vars

-----------------------------------------------------------------------------
(* Properties. *)

TypeOK ==
  /\ lists \in [Lists -> ListRow]
  /\ items \in [Items -> ItemRow]
  /\ msgs \in [Messages -> MsgRow]
  /\ atts \in [Atts -> AttRow]
  /\ ops \in [Ops -> OpRec]

(* The statuses an item can take after each status. *)
LegalNext(s) ==
  CASE s = "none" -> {"pending"}
    [] s = "pending" -> {"submitted", "deleted"}
    [] s = "submitted" -> {"revision", "done"}
    [] s = "revision" -> {"submitted", "done"}
    [] s = "done" -> {"revision"}
    [] OTHER -> {}

(* The guarded UPDATE "prevents skipping states (e.g., pending -> done)": however   *)
(* calls overlap, a committed item only moves along the state machine, and only a  *)
(* pending item is ever deleted.                                                    *)
StatusMovesLegally ==
  [][\A i \in Items : items'[i].status # items[i].status =>
                        items'[i].status \in LegalNext(items[i].status)]_vars

(* completed_by is set exactly on done items, whichever of the five updates ran    *)
(* last: a reopened item never keeps the stamp and a done one never loses it.      *)
DoneItemsAreClosed == \A i \in Items : items[i].closed <=> items[i].status = "done"

(* An item waiting for review carries no revision note: the client's answer        *)
(* clears it.                                                                      *)
NoteOnlyAfterRevision ==
  \A i \in Items : items[i].note => items[i].status \in {"revision", "done"}

(* Two calls never hold the same row, so a commit never overwrites a row that      *)
(* changed after the transaction read it for its UPDATE.                           *)
OneWriterPerRow ==
  \A o, p \in Ops : o # p =>
    /\ ~("item" \in ops[o].held /\ "item" \in ops[p].held /\ ops[o].item = ops[p].item)
    /\ ~("list" \in ops[o].held /\ "list" \in ops[p].held /\ ops[o].list = ops[p].list)

Committing(o) == ops[o].pc = "commit" /\ ops'[o].pc = "idle" /\ data' # data

(* Of two markDone calls on the last items, only one completes the list: a markDone *)
(* commit that writes the list finds it active.                                     *)
CompletedOnce ==
  [][\A o \in Ops : ops[o].kind = "markDone" /\ "list" \in ops[o].held /\ Committing(o)
                      => lists[ops[o].list].status = "active"]_vars

(* The rows are locked in one order, so no two calls wait for each other. *)
WaitsFor(o, p) ==
  \/ ops[o].pc = "item" /\ "item" \in ops[p].held /\ ops[p].item = ops[o].item
  \/ ops[o].pc = "list" /\ "list" \in ops[p].held /\ ops[p].list = ops[o].list

NoDeadlock == \A o, p \in Ops : o # p => ~(WaitsFor(o, p) /\ WaitsFor(p, o))

-----------------------------------------------------------------------------
(* What the operations promise of the state they leave.  These hold when calls do   *)
(* not overlap (the Alone... theorems of Requests_proofs); two calls that do are    *)
(* enough to break each of them, so no configuration lists them.                    *)

(* "If the move makes every item in the list done, also auto-completes the list." *)
MarkDoneCompletes ==
  [][\A o \in Ops : ops[o].kind = "markDone" /\ Committing(o) =>
       LET l == ops[o].list IN
       (\A i \in ItemsIn(l) : items'[i].status = "done") => lists'[l].status # "active"]_vars

(* "Re-opening drops the list out of completed", and "archived/cancelled lists" are *)
(* rejected: after a revision the item's list is active.                            *)
RevisionLeavesListActive ==
  [][\A o \in Ops : ops[o].kind = "requestRevision" /\ Committing(o)
                      => /\ lists[ops[o].list].status \in {"active", "completed"}
                         /\ lists'[ops[o].list].status = "active"]_vars

(* "Any infected attachment on the message blocks subsequent re-promotion forever": *)
(* a message with an infected attachment submits no item, unless the walk-back the  *)
(* infected attachment fired is still to come.                                      *)
WalkBackToCome(m) == \E o \in Ops : ops[o].kind = "scanFailed" /\ ops[o].msg = m

InfectedBlocksPromotion ==
  [][\A i \in Items : items'[i].status = "submitted" /\ items[i].status # "submitted" =>
       LET m == items'[i].by IN InfectedIn(m) = {} \/ WalkBackToCome(m)]_vars

(* A list is completed exactly when its completed_at is set. *)
StampMatchesStatus == \A l \in Lists : lists[l].stamped <=> lists[l].status = "completed"

(* At most MaxAtts rows per message, the "up to 10 files per submission". *)
AttachmentCap == \A m \in Messages : Cardinality(AttsOf(m)) <= MaxAtts

===========================================================================
