--------------------------- MODULE Requests_proofs ---------------------------
(***************************************************************************)
(* Proofs about Requests for every number of calls, lists, items, messages *)
(* and attachments: the tables stay well typed, a row has one writer, and  *)
(* because of it a committed item only moves along the state machine and   *)
(* keeps its stamps.  The last part proves what the operations promise of  *)
(* calls that do not overlap.                                              *)
(***************************************************************************)
EXTENDS Requests, FiniteSetTheorems, TLAPS

ItemKinds == {"updateItem", "deleteItem", "markDone", "requestRevision", "messagePosted",
              "scanFailed"}
ListKinds == {"updateList", "markDone", "requestRevision"}

(* What one call in progress knows.  A call at its item update has the arguments it *)
(* needs; one that holds an item holds the update of the row as it is now; one that *)
(* holds a list is about to commit and its WHERE still matches.                     *)
OpOK(op) ==
  /\ op.pc \in {"infectedCheck", "read"} =>
       op.kind \in {"messagePosted", "scanFailed"} /\ op.item \in Items
                                                    /\ op.list = ListOf[op.item]
  /\ op.pc \in {"infectedCheck", "read", "item"} =>
       op.item \in Items /\ op.kind \in ItemKinds /\ op.list = ListOf[op.item]
  /\ op.pc = "list" => op.list \in Lists /\ op.kind \in ListKinds
  /\ op.pc \in {"scan", "put"} => op.msg \in Messages
  /\ op.pc = "scan" => op.att \in Atts
  /\ op.kind = "updateItem" => op.arg \in ResponseTypes
  /\ op.kind = "updateList" => op.arg \in ListStatus
  /\ op.kind \in {"messagePosted", "scanFailed"} => op.msg \in Messages
  /\ "item" \in op.held =>
       /\ op.item \in Items
       /\ op.list = ListOf[op.item]
       /\ op.kind \in ItemKinds
       /\ op.pc \in {"count", "list", "commit"}
       /\ items[op.item].status \in FromStates(op)
       /\ op.row = ItemUpdate(op, items[op.item])
  /\ op.pc = "count" => "item" \in op.held /\ op.kind = "markDone"
  /\ "list" \in op.held =>
       /\ op.list \in Lists
       /\ op.kind \in ListKinds
       /\ op.pc = "commit"
       /\ ListMatches(op, lists[op.list])

IInv ==
  /\ TypeOK
  /\ \A o \in Ops : OpOK(ops[o])
  /\ OneWriterPerRow
  /\ DoneItemsAreClosed
  /\ NoteOnlyAfterRevision

-----------------------------------------------------------------------------
(* Facts about the values a call writes. *)

LEMMA FreshItemTyped == FreshItem \in ItemRow /\ FreshList \in ListRow
  BY RowsAssumption DEF FreshItem, FreshList, ItemRow, ListRow

LEMMA IdleTyped == IdleOp \in OpRec /\ OpOK(IdleOp) /\ IdleOp.held = {}
  <1>1. IdleOp \in OpRec
    BY FreshItemTyped DEF IdleOp, OpRec
  <1>2. IdleOp.pc = "idle" /\ IdleOp.held = {} /\ IdleOp.kind = "none"
    BY DEF IdleOp
  <1> QED BY <1>1, <1>2 DEF OpOK

(* An item UPDATE keeps the row's type, moves the status along the state machine    *)
(* or leaves it, and keeps the stamps of the row in step with the status.           *)
LEMMA ItemUpdateFacts ==
  ASSUME NEW op \in OpRec, NEW row \in ItemRow, row.status \in FromStates(op),
         op.kind = "updateItem" => op.arg \in ResponseTypes
  PROVE  /\ ItemUpdate(op, row) \in ItemRow
         /\ ItemUpdate(op, row).status # row.status =>
              ItemUpdate(op, row).status \in LegalNext(row.status)
         /\ (row.closed <=> row.status = "done") =>
              (ItemUpdate(op, row).closed <=> ItemUpdate(op, row).status = "done")
         /\ (row.note => row.status \in {"revision", "done"}) =>
              (ItemUpdate(op, row).note => ItemUpdate(op, row).status \in {"revision", "done"})
         /\ row.status \in ItemStatus
  <1> USE DEF ItemRow, LegalNext, ItemStatus
  <1>1. CASE op.kind = "markDone"
    BY <1>1 DEF FromStates, ItemUpdate
  <1>2. CASE op.kind = "requestRevision"
    BY <1>2 DEF FromStates, ItemUpdate
  <1>3. CASE op.kind = "messagePosted"
    BY <1>3 DEF FromStates, ItemUpdate, OpRec
  <1>4. CASE op.kind = "scanFailed"
    BY <1>4 DEF FromStates, ItemUpdate
  <1>5. CASE op.kind = "deleteItem"
    BY <1>5 DEF FromStates, ItemUpdate
  <1>6. CASE op.kind = "updateItem"
    BY <1>6 DEF FromStates, ItemUpdate
  <1> QED BY <1>1, <1>2, <1>3, <1>4, <1>5, <1>6 DEF FromStates

LEMMA ListUpdateTyped ==
  ASSUME NEW op \in OpRec, NEW row \in ListRow,
         op.kind = "updateList" => op.arg \in ListStatus
  PROVE  ListUpdate(op, row) \in ListRow
  BY DEF OpRec, ListRow, ListUpdate, ListStatus

-----------------------------------------------------------------------------
(* A step of one call that leaves lists and items alone keeps the invariant when    *)
(* the call's new record is sound and takes no row another call holds.              *)
LEMMA CallStep ==
  ASSUME IInv, NEW o \in Ops, NEW op \in OpRec, OpOK(op),
         Goto(o, op), UNCHANGED <<lists, items>>,
         msgs' \in [Messages -> MsgRow], atts' \in [Atts -> AttRow],
         \A p \in Ops \ {o} :
           /\ ~("item" \in op.held /\ "item" \in ops[p].held /\ ops[p].item = op.item)
           /\ ~("list" \in op.held /\ "list" \in ops[p].held /\ ops[p].list = op.list)
  PROVE  IInv'
  <1>0. ops \in [Ops -> OpRec]
    BY DEF IInv, TypeOK
  <1>1. /\ ops' \in [Ops -> OpRec]
        /\ ops'[o] = op
        /\ \A p \in Ops \ {o} : ops'[p] = ops[p]
    BY <1>0 DEF Goto
  <1>2. TypeOK'
    BY <1>1 DEF IInv, TypeOK
  <1>3. \A p \in Ops : OpOK(ops[p])'
    <2> TAKE p \in Ops
    <2>1. CASE p = o
      BY <1>1, <2>1 DEF OpOK
    <2>2. CASE p # o
      BY <1>1, <2>2 DEF IInv, OpOK
    <2> QED BY <2>1, <2>2
  <1>4. OneWriterPerRow'
    BY <1>1 DEF IInv, OneWriterPerRow
  <1>5. DoneItemsAreClosed' /\ NoteOnlyAfterRevision'
    BY DEF IInv, DoneItemsAreClosed, NoteOnlyAfterRevision
  <1> QED BY <1>2, <1>3, <1>4, <1>5 DEF IInv

(* The same for a call that ends. *)
LEMMA FinishStep ==
  ASSUME IInv, NEW o \in Ops, Finish(o), UNCHANGED <<lists, items>>,
         msgs' \in [Messages -> MsgRow], atts' \in [Atts -> AttRow]
  PROVE  IInv'
  BY IdleTyped, CallStep DEF Finish

(* A call that holds nothing yet. *)
LEMMA FreeHandedStep ==
  ASSUME IInv, NEW o \in Ops, NEW op \in OpRec, OpOK(op), op.held = {},
         Goto(o, op), UNCHANGED <<lists, items>>,
         msgs' \in [Messages -> MsgRow], atts' \in [Atts -> AttRow]
  PROVE  IInv'
  BY CallStep

LEMMA InitInv == Init => IInv
  <1> SUFFICES ASSUME Init PROVE IInv
    OBVIOUS
  <1>1. \A o \in Ops : ops[o] = IdleOp
    BY DEF Init
  <1>2. TypeOK
    BY FreshItemTyped, IdleTyped DEF Init, TypeOK, MsgRow, AttRow
  <1>3. OneWriterPerRow
    BY <1>1, IdleTyped DEF OneWriterPerRow
  <1>4. DoneItemsAreClosed /\ NoteOnlyAfterRevision
    BY DEF Init, DoneItemsAreClosed, NoteOnlyAfterRevision, FreshItem
  <1> QED BY <1>1, <1>2, <1>3, <1>4, IdleTyped DEF IInv

-----------------------------------------------------------------------------
(* The first steps. *)

LEMMA OnItemTyped ==
  ASSUME NEW kind \in ItemKinds, NEW i \in Items, NEW seen \in ListRow
  PROVE  LET op == OnItem(kind, i, seen) IN
         /\ op \in OpRec
         /\ op.kind = kind /\ op.pc = "item" /\ op.item = i /\ op.list = ListOf[i]
         /\ op.held = {}
  <1> DEFINE op0 == [IdleOp EXCEPT !.kind = kind, !.item = i, !.list = ListOf[i],
                                   !.seen = seen]
  <1>1. ListOf[i] \in Lists
    BY RowsAssumption
  <1>2. op0 \in OpRec
    BY ZenonT(90), <1>1, IdleTyped DEF OpRec, Kinds, ItemKinds
  <1>3. op0.kind = kind /\ op0.item = i /\ op0.list = ListOf[i] /\ op0.held = {}
    BY IdleTyped DEF OpRec
  <1>4. OnItem(kind, i, seen) = [op0 EXCEPT !.pc = "item"]
    BY DEF OnItem, StepAfter
  <1> HIDE DEF op0
  <1> QED BY <1>2, <1>3, <1>4 DEF OpRec, Steps

LEMMA StartStep ==
  ASSUME IInv, NEW o \in Ops, Start(o)
  PROVE  IInv'
  <1>0. /\ lists \in [Lists -> ListRow] /\ msgs \in [Messages -> MsgRow]
        /\ atts \in [Atts -> AttRow] /\ items \in [Items -> ItemRow]
    BY DEF IInv, TypeOK
  <1> USE <1>0
  <1>1. CASE StartCreateList(o)
    <2> DEFINE op == [IdleOp EXCEPT !.kind = "createList", !.pc = "insert"]
    <2>0. op \in OpRec /\ op.held = {} /\ op.kind = "createList" /\ op.pc = "insert"
      BY ZenonT(90), IdleTyped DEF OpRec, Kinds, Steps
    <2>1. op \in OpRec /\ OpOK(op) /\ op.held = {}
      BY <2>0 DEF OpOK
    <2> QED BY <1>1, <2>1, FreeHandedStep DEF StartCreateList, data
  <1>2. ASSUME NEW l \in Lists, StartAddItem(o, l) PROVE IInv'
    <2> DEFINE op == [IdleOp EXCEPT !.kind = "addItem", !.pc = "insert", !.list = l]
    <2>0. op \in OpRec /\ op.held = {} /\ op.kind = "addItem" /\ op.pc = "insert"
      BY ZenonT(90), IdleTyped DEF OpRec, Kinds, Steps
    <2>1. op \in OpRec /\ OpOK(op) /\ op.held = {}
      BY <2>0 DEF OpOK
    <2> QED BY <1>2, <2>1, FreeHandedStep DEF StartAddItem, data
  <1>3. ASSUME NEW l \in Lists, NEW s \in ListStatus, StartUpdateList(o, l, s) PROVE IInv'
    <2> DEFINE op == [IdleOp EXCEPT !.kind = "updateList", !.pc = "list", !.list = l,
                                    !.seen = lists[l], !.arg = s]
    <2>0. /\ op \in OpRec /\ op.held = {}
          /\ op.kind = "updateList" /\ op.pc = "list" /\ op.list = l /\ op.arg = s
      BY ZenonT(90), IdleTyped DEF OpRec, Kinds, Steps
    <2>1. op \in OpRec /\ OpOK(op) /\ op.held = {}
      BY <2>0 DEF OpOK, ListKinds
    <2> QED BY <1>3, <2>1, FreeHandedStep DEF StartUpdateList, data
  <1>4. ASSUME NEW i \in Items, NEW t \in ResponseTypes, StartUpdateItem(o, i, t) PROVE IInv'
    <2> DEFINE op == [OnItem("updateItem", i, FreshList) EXCEPT !.arg = t]
    <2>0. /\ op \in OpRec /\ op.held = {}
          /\ op.kind = "updateItem" /\ op.pc = "item" /\ op.item = i
          /\ op.list = ListOf[i] /\ op.arg = t
      BY OnItemTyped, FreshItemTyped DEF OpRec, ItemKinds
    <2>1. op \in OpRec /\ OpOK(op) /\ op.held = {}
      BY <2>0 DEF OpOK, ItemKinds
    <2> QED BY <1>4, <2>1, FreeHandedStep DEF StartUpdateItem, data
  <1>5. ASSUME NEW i \in Items, StartDeletePendingItem(o, i) PROVE IInv'
    <2> DEFINE op == OnItem("deleteItem", i, FreshList)
    <2>0. /\ op \in OpRec /\ op.held = {}
          /\ op.kind = "deleteItem" /\ op.pc = "item" /\ op.item = i /\ op.list = ListOf[i]
      BY OnItemTyped, FreshItemTyped, RowsAssumption DEF ItemKinds
    <2> HIDE DEF op
    <2>1. OpOK(op)
      BY <2>0 DEF OpOK, ItemKinds
    <2>2. Goto(o, op) /\ UNCHANGED data
      BY <1>5 DEF StartDeletePendingItem, op
    <2> QED BY <2>0, <2>1, <2>2, FreeHandedStep DEF data
  <1>6. ASSUME NEW i \in Items, StartMarkDone(o, i) PROVE IInv'
    <2> DEFINE op == OnItem("markDone", i, FreshList)
    <2>0. /\ op \in OpRec /\ op.held = {}
          /\ op.kind = "markDone" /\ op.pc = "item" /\ op.item = i /\ op.list = ListOf[i]
      BY OnItemTyped, FreshItemTyped, RowsAssumption DEF ItemKinds
    <2> HIDE DEF op
    <2>1. OpOK(op)
      BY <2>0 DEF OpOK, ItemKinds
    <2>2. Goto(o, op) /\ UNCHANGED data
      BY <1>6 DEF StartMarkDone, op
    <2> QED BY <2>0, <2>1, <2>2, FreeHandedStep DEF data
  <1>7. ASSUME NEW i \in Items, StartRequestRevision(o, i) PROVE IInv'
    <2> DEFINE op == OnItem("requestRevision", i, lists[ListOf[i]])
    <2>0. /\ op \in OpRec /\ op.held = {}
          /\ op.kind = "requestRevision" /\ op.pc = "item" /\ op.item = i /\ op.list = ListOf[i]
      BY OnItemTyped, FreshItemTyped, RowsAssumption DEF ItemKinds
    <2> HIDE DEF op
    <2>1. OpOK(op)
      BY <2>0 DEF OpOK, ItemKinds
    <2>2. Goto(o, op) /\ UNCHANGED data
      BY <1>7 DEF StartRequestRevision, op
    <2> QED BY <2>0, <2>1, <2>2, FreeHandedStep DEF data
  <1>8. ASSUME NEW m \in Messages, NEW i \in Items \cup {NoItem}, NEW t \in BOOLEAN,
               PostMessage(o, m, i, t)
        PROVE IInv'
    <2>1. msgs' \in [Messages -> MsgRow] /\ UNCHANGED <<lists, items, atts>>
      BY <1>8 DEF PostMessage, MsgRow
    <2>2. CASE i = NoItem
      BY <1>8, <2>1, <2>2, FinishStep DEF PostMessage
    <2>3. CASE i # NoItem
      <3> DEFINE op == [IdleOp EXCEPT !.kind = "messagePosted", !.pc = "infectedCheck",
                                      !.item = i, !.list = ListOf[i], !.msg = m]
      <3>0. /\ op \in OpRec /\ op.held = {}
            /\ op.kind = "messagePosted" /\ op.pc = "infectedCheck" /\ op.item = i
            /\ op.list = ListOf[i] /\ op.msg = m
        BY ZenonT(90), <2>3, IdleTyped, RowsAssumption DEF OpRec, Kinds, Steps
      <3>1. op \in OpRec /\ OpOK(op) /\ op.held = {}
        BY <2>3, <3>0 DEF OpOK, ItemKinds
      <3>2. Goto(o, op)
        BY <1>8, <2>3 DEF PostMessage
      <3> QED BY <2>1, <3>1, <3>2, FreeHandedStep
    <2> QED BY <2>2, <2>3
  <1>9. ASSUME NEW m \in Messages, StartUpload(o, m) PROVE IInv'
    <2> DEFINE op == [IdleOp EXCEPT !.kind = "upload", !.pc = "put", !.msg = m,
                                    !.item = msgs[m].item]
    <2>0. op \in OpRec /\ op.held = {} /\ op.kind = "upload" /\ op.pc = "put" /\ op.msg = m
      BY ZenonT(90), IdleTyped DEF OpRec, Kinds, Steps, MsgRow
    <2>1. op \in OpRec /\ OpOK(op) /\ op.held = {}
      BY <2>0 DEF OpOK
    <2> QED BY <1>9, <2>1, FreeHandedStep DEF StartUpload, data
  <1> QED BY <1>1, <1>2, <1>3, <1>4, <1>5, <1>6, <1>7, <1>8, <1>9 DEF Start

-----------------------------------------------------------------------------
(* The steps that change committed items and lists.  A call that ends may change a  *)
(* row no other call holds, as long as the rows stay typed and stamped.             *)
LEMMA TableStep ==
  ASSUME IInv, NEW o \in Ops, Finish(o), UNCHANGED <<msgs, atts>>,
         items' \in [Items -> ItemRow], lists' \in [Lists -> ListRow],
         \A p \in Ops \ {o} : "item" \in ops[p].held =>
                                items'[ops[p].item] = items[ops[p].item],
         \A p \in Ops \ {o} : "list" \in ops[p].held =>
                                ListMatches(ops[p], lists'[ops[p].list]),
         DoneItemsAreClosed', NoteOnlyAfterRevision'
  PROVE  IInv'
  <1>0. ops \in [Ops -> OpRec]
    BY DEF IInv, TypeOK
  <1>1. /\ ops' \in [Ops -> OpRec]
        /\ ops'[o] = IdleOp
        /\ \A p \in Ops \ {o} : ops'[p] = ops[p]
    BY <1>0, IdleTyped DEF Finish, Goto
  <1>2. TypeOK'
    BY <1>1 DEF IInv, TypeOK
  <1>3. \A p \in Ops : OpOK(ops[p])'
    <2> TAKE p \in Ops
    <2>1. CASE p = o
      <3>1. IdleOp.pc = "idle" /\ IdleOp.held = {} /\ IdleOp.kind = "none"
        BY DEF IdleOp
      <3> QED BY <1>1, <2>1, <3>1 DEF OpOK
    <2>2. CASE p # o
      <3>1. OpOK(ops[p]) /\ ops'[p] = ops[p]
        BY <1>1, <2>2 DEF IInv
      <3> QED BY <2>2, <3>1 DEF OpOK
    <2> QED BY <2>1, <2>2
  <1>4. OneWriterPerRow'
    BY <1>1, IdleTyped DEF IInv, OneWriterPerRow
  <1> QED BY <1>2, <1>3, <1>4 DEF IInv

(* Inserted rows are held by nobody: a held item is stored.                         *)
LEMMA HeldAreStored ==
  ASSUME IInv, NEW p \in Ops
  PROVE  /\ "item" \in ops[p].held =>
              ops[p].item \in Items /\ items[ops[p].item].status \in ItemStatus
         /\ "list" \in ops[p].held => ops[p].list \in Lists
                                      /\ ListMatches(ops[p], lists[ops[p].list])
  <1>1. OpOK(ops[p]) /\ ops[p] \in OpRec /\ items \in [Items -> ItemRow]
    BY DEF IInv, TypeOK
  <1>2. "item" \in ops[p].held =>
          ops[p].item \in Items /\ items[ops[p].item].status \in FromStates(ops[p])
          /\ (ops[p].kind = "updateItem" => ops[p].arg \in ResponseTypes)
    BY <1>1 DEF OpOK
  <1> QED BY <1>1, <1>2, ItemUpdateFacts DEF OpOK

LEMMA CreateListStep ==
  ASSUME IInv, NEW o \in Ops, NEW l \in Lists,
         NEW seeds \in SUBSET {i \in Items : ListOf[i] = l}, CreateList(o, l, seeds)
  PROVE  IInv'
  <1>0. items \in [Items -> ItemRow] /\ lists \in [Lists -> ListRow]
    BY DEF IInv, TypeOK
  <1>1. PICK t \in ResponseTypes :
          items' = [i \in Items |->
                     IF i \in seeds THEN [FreshItem EXCEPT !.status = "pending", !.rtype = t]
                     ELSE items[i]]
    BY DEF CreateList
  <1>2. lists' \in [Lists -> ListRow]
    BY <1>0 DEF CreateList, ListRow, ListStatus
  <1>3. items' \in [Items -> ItemRow]
    BY <1>0, <1>1, FreshItemTyped DEF ItemRow, ItemStatus
  <1>4. ASSUME NEW p \in Ops, "item" \in ops[p].held
        PROVE  items'[ops[p].item] = items[ops[p].item]
    BY <1>1, <1>4, HeldAreStored DEF CreateList, ItemStatus
  <1>5. ASSUME NEW p \in Ops, "list" \in ops[p].held
        PROVE  ListMatches(ops[p], lists'[ops[p].list])
    BY <1>0, <1>5, HeldAreStored DEF CreateList, ListMatches
  <1>6. FreshItem.closed = FALSE /\ FreshItem.note = FALSE
    BY DEF FreshItem
  <1>7. DoneItemsAreClosed' /\ NoteOnlyAfterRevision'
    BY <1>0, <1>1, <1>6, FreshItemTyped DEF IInv, DoneItemsAreClosed, NoteOnlyAfterRevision, ItemRow
  <1> QED BY <1>2, <1>3, <1>4, <1>5, <1>7, TableStep DEF CreateList

LEMMA AddItemStep ==
  ASSUME IInv, NEW o \in Ops, NEW i \in Items, NEW t \in ResponseTypes, AddItem(o, i, t)
  PROVE  IInv'
  <1>0. items \in [Items -> ItemRow] /\ lists \in [Lists -> ListRow]
    BY DEF IInv, TypeOK
  <1>1. items' \in [Items -> ItemRow]
    BY <1>0, FreshItemTyped DEF AddItem, ItemRow, ItemStatus
  <1>2. ASSUME NEW p \in Ops, "item" \in ops[p].held
        PROVE  items'[ops[p].item] = items[ops[p].item]
    BY <1>0, <1>2, HeldAreStored DEF AddItem, ItemStatus
  <1>3. FreshItem.closed = FALSE /\ FreshItem.note = FALSE
    BY DEF FreshItem
  <1>4. DoneItemsAreClosed' /\ NoteOnlyAfterRevision'
    BY <1>0, <1>3, FreshItemTyped
       DEF AddItem, IInv, DoneItemsAreClosed, NoteOnlyAfterRevision, ItemRow
  <1> QED BY <1>0, <1>1, <1>2, <1>4, HeldAreStored, TableStep DEF AddItem

LEMMA CommitStep ==
  ASSUME IInv, NEW o \in Ops, Commit(o)
  PROVE  IInv'
  <1> DEFINE op == ops[o]
  <1>0. /\ items \in [Items -> ItemRow] /\ lists \in [Lists -> ListRow]
        /\ op \in OpRec /\ OpOK(op)
    BY DEF IInv, TypeOK
  <1>1. lists' \in [Lists -> ListRow]
    BY <1>0 DEF Commit, OpRec
  <1>2. items' \in [Items -> ItemRow]
    BY <1>0 DEF Commit, OpRec
  <1>3. ASSUME NEW p \in Ops \ {o}, "item" \in ops[p].held
        PROVE  items'[ops[p].item] = items[ops[p].item]
    BY <1>0, <1>3, HeldAreStored DEF Commit, IInv, OneWriterPerRow
  <1>4. ASSUME NEW p \in Ops \ {o}, "list" \in ops[p].held
        PROVE  ListMatches(ops[p], lists'[ops[p].list])
    BY <1>0, <1>4, HeldAreStored DEF Commit, IInv, OneWriterPerRow
  <1>5. DoneItemsAreClosed' /\ NoteOnlyAfterRevision'
    <2>1. CASE "item" \notin op.held
      BY <2>1 DEF Commit, IInv, DoneItemsAreClosed, NoteOnlyAfterRevision
    <2>2. CASE "item" \in op.held
      <3>1. /\ op.item \in Items
            /\ items[op.item].status \in FromStates(op)
            /\ op.row = ItemUpdate(op, items[op.item])
            /\ op.kind = "updateItem" => op.arg \in ResponseTypes
        BY <1>0, <2>2 DEF OpOK
      <3>2. items[op.item] \in ItemRow
        BY <1>0, <3>1
      <3>3. /\ items[op.item].closed <=> items[op.item].status = "done"
            /\ items[op.item].note => items[op.item].status \in {"revision", "done"}
        BY <3>1 DEF IInv, DoneItemsAreClosed, NoteOnlyAfterRevision
      <3>4. /\ op.row.closed <=> op.row.status = "done"
            /\ op.row.note => op.row.status \in {"revision", "done"}
        BY <1>0, <3>1, <3>2, <3>3, ItemUpdateFacts
      <3>5. items' = [items EXCEPT ![op.item] = op.row]
        BY <2>2 DEF Commit
      <3> QED BY <1>0, <3>4, <3>5 DEF IInv, DoneItemsAreClosed, NoteOnlyAfterRevision
    <2> QED BY <2>1, <2>2
  <1> QED BY <1>1, <1>2, <1>3, <1>4, <1>5, TableStep DEF Commit

-----------------------------------------------------------------------------
(* The other steps. *)

LEMMA FireHookStep ==
  ASSUME IInv, NEW o \in Ops, NEW i \in Items \cup {NoItem}, ops[o].pc = "scan",
         NEW kind \in {"messagePosted", "scanFailed"}, NEW pc \in {"infectedCheck", "read"},
         FireHook(o, kind, pc, i), UNCHANGED <<lists, items, msgs>>,
         atts' \in [Atts -> AttRow]
  PROVE  IInv'
  <1>0. msgs' \in [Messages -> MsgRow] /\ ops[o] \in OpRec /\ ops[o].msg \in Messages
    BY DEF IInv, TypeOK, OpOK
  <1>1. CASE i = NoItem
    BY <1>0, <1>1, FinishStep DEF FireHook
  <1>2. CASE i # NoItem
    <2> DEFINE op == [IdleOp EXCEPT !.kind = kind, !.pc = pc, !.item = i, !.list = ListOf[i],
                                    !.msg = ops[o].msg, !.files = TRUE]
    <2>1. /\ op \in OpRec /\ op.held = {}
          /\ op.kind = kind /\ op.pc = pc /\ op.item = i /\ op.list = ListOf[i]
          /\ op.msg = ops[o].msg
      <3>1. i \in Items /\ ListOf[i] \in Lists
        BY <1>2, RowsAssumption
      <3>2. kind \in Kinds /\ pc \in Steps
        BY DEF Kinds, Steps
      <3>3. op \in OpRec
        BY ZenonT(90), <1>0, <3>1, <3>2, IdleTyped DEF OpRec
      <3>4. IdleOp \in OpRec /\ IdleOp.held = {}
        BY IdleTyped
      <3> QED BY <3>3, <3>4 DEF OpRec
    <2>2. Goto(o, op)
      BY <1>2 DEF FireHook
    <2> HIDE DEF op
    <2>3. OpOK(op)
      BY <1>0, <1>2, <2>1 DEF OpOK, ItemKinds
    <2> QED BY <1>0, <2>1, <2>2, <2>3, FreeHandedStep
  <1> QED BY <1>1, <1>2

LEMMA ScanStep ==
  ASSUME IInv, NEW o \in Ops, ScanInfected(o) \/ ScanError(o) \/ ScanClean(o)
  PROVE  IInv'
  <1>0. /\ msgs \in [Messages -> MsgRow] /\ atts \in [Atts -> AttRow]
        /\ ops[o] \in OpRec /\ OpOK(ops[o])
    BY DEF IInv, TypeOK
  <1>1. ops[o].pc = "scan" /\ ops[o].msg \in Messages /\ ops[o].att \in Atts
    BY <1>0 DEF OpOK, ScanInfected, ScanError, ScanClean
  <1>2. msgs[ops[o].msg].item \in Items \cup {NoItem} /\ ops[o].item \in Items \cup {NoItem}
    BY <1>0, <1>1 DEF MsgRow, OpRec
  <1>3. \A s \in AttStatus \cup {"deleted"} :
          [atts EXCEPT ![ops[o].att].status = s] \in [Atts -> AttRow]
    BY <1>0, <1>1 DEF AttRow
  <1>4. CASE ScanInfected(o)
    BY ZenonT(90), <1>1, <1>2, <1>3, <1>4, FireHookStep DEF ScanInfected, AttStatus
  <1>5. CASE ScanError(o)
    BY ZenonT(90), <1>1, <1>2, <1>3, <1>5, FireHookStep DEF ScanError, AttStatus
  <1>6. CASE ScanClean(o)
    BY <1>1, <1>2, <1>3, <1>6, FireHookStep DEF ScanClean, AttStatus
  <1> QED BY <1>4, <1>5, <1>6

LEMMA InsertAttachmentStep ==
  ASSUME IInv, NEW o \in Ops, NEW a \in Atts, InsertAttachment(o, a)
  PROVE  IInv'
  <1> DEFINE op == [ops[o] EXCEPT !.pc = "scan", !.att = a]
  <1>0. /\ msgs \in [Messages -> MsgRow] /\ atts \in [Atts -> AttRow]
        /\ ops[o] \in OpRec /\ OpOK(ops[o]) /\ ops[o].pc = "put"
    BY DEF IInv, TypeOK, InsertAttachment
  <1>1. ops[o].msg \in Messages /\ "item" \notin ops[o].held /\ "list" \notin ops[o].held
    BY <1>0 DEF OpOK
  <1>2. atts' \in [Atts -> AttRow]
    BY <1>0, <1>1 DEF InsertAttachment, AttRow, AttStatus
  <1>3. /\ op \in OpRec /\ op.pc = "scan" /\ op.att = a
        /\ op.kind = ops[o].kind /\ op.msg = ops[o].msg /\ op.arg = ops[o].arg
        /\ op.held = ops[o].held
    BY ZenonT(90), <1>0 DEF OpRec, Steps
  <1>4. OpOK(op)
    BY <1>0, <1>1, <1>3 DEF OpOK
  <1>5. Goto(o, op) /\ UNCHANGED <<lists, items, msgs>>
    BY DEF InsertAttachment
  <1> HIDE DEF op
  <1> QED BY <1>0, <1>1, <1>2, <1>3, <1>4, <1>5, CallStep

(* A step that only moves a call's pc. *)
LEMMA MoveStep ==
  ASSUME IInv, NEW o \in Ops, NEW pc \in Steps, Goto(o, [ops[o] EXCEPT !.pc = pc]),
         UNCHANGED data, OpOK([ops[o] EXCEPT !.pc = pc])
  PROVE  IInv'
  <1> DEFINE op == [ops[o] EXCEPT !.pc = pc]
  <1>0. /\ msgs \in [Messages -> MsgRow] /\ atts \in [Atts -> AttRow]
        /\ ops[o] \in OpRec
    BY DEF IInv, TypeOK
  <1>1. op \in OpRec /\ op.held = ops[o].held /\ op.item = ops[o].item /\ op.list = ops[o].list
    BY <1>0 DEF OpRec
  <1>2. OpOK(op) /\ Goto(o, op)
    OBVIOUS
  <1> HIDE DEF op
  <1> QED BY <1>0, <1>1, <1>2, CallStep DEF data, IInv, OneWriterPerRow

LEMMA UpdateItemRowStep ==
  ASSUME IInv, NEW o \in Ops, UpdateItemRow(o)
  PROVE  IInv'
  <1> DEFINE row == ItemUpdate(ops[o], items[ops[o].item])
             pc == StepAfter(ops[o], "item")
             op == [ops[o] EXCEPT !.row = row, !.held = @ \cup {"item"}, !.pc = pc]
  <1>0. /\ msgs \in [Messages -> MsgRow] /\ atts \in [Atts -> AttRow]
        /\ items \in [Items -> ItemRow]
        /\ ops[o] \in OpRec /\ OpOK(ops[o]) /\ ops[o].pc = "item"
    BY DEF IInv, TypeOK, UpdateItemRow
  <1>1. /\ ops[o].item \in Items /\ ops[o].kind \in ItemKinds
        /\ ops[o].list = ListOf[ops[o].item] /\ ListOf[ops[o].item] \in Lists
        /\ "item" \notin ops[o].held /\ "list" \notin ops[o].held
    BY <1>0, RowsAssumption DEF OpOK
  <1>2. CASE items[ops[o].item].status \notin FromStates(ops[o])
    BY <1>0, <1>2, FinishStep DEF UpdateItemRow, data
  <1>3. CASE items[ops[o].item].status \in FromStates(ops[o])
    <2>1. Goto(o, op) /\ UNCHANGED data
      BY <1>3 DEF UpdateItemRow
    <2>2. row \in ItemRow
      <3>1. ops[o].kind = "updateItem" => ops[o].arg \in ResponseTypes
        BY <1>0 DEF OpOK
      <3>2. items[ops[o].item] \in ItemRow
        BY <1>0, <1>1
      <3> QED BY <1>0, <1>3, <3>1, <3>2, ItemUpdateFacts
    <2>3. /\ pc \in {"count", "list", "commit"}
          /\ pc = "list" => ops[o].kind = "requestRevision"
          /\ pc = "count" => ops[o].kind = "markDone"
      BY DEF StepAfter
    <2>4. /\ op \in OpRec /\ op.row = row /\ op.pc = pc /\ op.held = ops[o].held \cup {"item"}
          /\ op.item = ops[o].item /\ op.list = ops[o].list /\ op.kind = ops[o].kind
          /\ op.arg = ops[o].arg /\ op.msg = ops[o].msg
      BY ZenonT(90), <1>0, <2>2, <2>3 DEF OpRec, Steps
    <2> HIDE DEF op
    <2>5. FromStates(op) = FromStates(ops[o])
      BY <2>4 DEF FromStates
    <2>6. op.row = ItemUpdate(op, items[op.item])
      BY <2>4 DEF ItemUpdate
    <2> HIDE DEF row, pc
    <2>7. OpOK(op)
      BY <1>0, <1>1, <1>3, <2>3, <2>4, <2>5, <2>6 DEF OpOK, ListKinds
    <2>8. \A p \in Ops \ {o} : ~("item" \in ops[p].held /\ ops[p].item = op.item)
      BY <2>4 DEF UpdateItemRow, ItemLocked
    <2> QED BY <1>0, <1>1, <2>1, <2>4, <2>7, <2>8, CallStep DEF data
  <1> QED BY <1>2, <1>3

LEMMA UpdateListRowStep ==
  ASSUME IInv, NEW o \in Ops, UpdateListRow(o)
  PROVE  IInv'
  <1> DEFINE row == ListUpdate(ops[o], lists[ops[o].list])
             op == [ops[o] EXCEPT !.lrow = row, !.held = @ \cup {"list"}, !.pc = "commit"]
  <1>0. /\ msgs \in [Messages -> MsgRow] /\ atts \in [Atts -> AttRow]
        /\ lists \in [Lists -> ListRow]
        /\ ops[o] \in OpRec /\ OpOK(ops[o]) /\ ops[o].pc = "list"
    BY DEF IInv, TypeOK, UpdateListRow
  <1>1. /\ ops[o].list \in Lists /\ ops[o].kind \in ListKinds /\ "list" \notin ops[o].held
    BY <1>0 DEF OpOK
  <1>2. StepAfter(ops[o], "list") = "commit"
    BY DEF StepAfter
  <1>3. CASE ~ListMatches(ops[o], lists[ops[o].list])
    <2> DEFINE op2 == [ops[o] EXCEPT !.pc = "commit"]
    <2>1. /\ op2.pc = "commit" /\ op2.held = ops[o].held /\ op2.row = ops[o].row
          /\ op2.item = ops[o].item /\ op2.list = ops[o].list /\ op2.kind = ops[o].kind
          /\ op2.arg = ops[o].arg /\ op2.msg = ops[o].msg
      BY <1>0 DEF OpRec
    <2> HIDE DEF op2
    <2>2. FromStates(op2) = FromStates(ops[o])
      BY <2>1 DEF FromStates
    <2>3. ItemUpdate(op2, items[op2.item]) = ItemUpdate(ops[o], items[ops[o].item])
      BY <2>1 DEF ItemUpdate
    <2>4. OpOK(op2)
      BY <1>0, <1>1, <2>1, <2>2, <2>3 DEF OpOK
    <2>5. Goto(o, op2) /\ UNCHANGED data
      BY <1>3 DEF UpdateListRow, op2
    <2> QED BY <2>4, <2>5, MoveStep DEF op2, Steps
  <1>4. CASE ListMatches(ops[o], lists[ops[o].list])
    <2>1. Goto(o, op) /\ UNCHANGED data
      BY <1>2, <1>4 DEF UpdateListRow
    <2>2. row \in ListRow
      BY <1>0, <1>1, ListUpdateTyped DEF OpOK
    <2>3. /\ op \in OpRec /\ op.pc = "commit" /\ op.held = ops[o].held \cup {"list"}
          /\ op.row = ops[o].row
          /\ op.item = ops[o].item /\ op.list = ops[o].list /\ op.kind = ops[o].kind
          /\ op.arg = ops[o].arg /\ op.msg = ops[o].msg
      BY ZenonT(90), <1>0, <2>2 DEF OpRec, Steps
    <2> HIDE DEF op, row
    <2>4. FromStates(op) = FromStates(ops[o])
      BY <2>3 DEF FromStates
    <2>5. ItemUpdate(op, items[op.item]) = ItemUpdate(ops[o], items[ops[o].item])
      BY <2>3 DEF ItemUpdate
    <2>6. ListMatches(op, lists[op.list])
      BY <1>4, <2>3 DEF ListMatches
    <2>7. OpOK(op)
      BY <1>0, <1>1, <2>3, <2>4, <2>5, <2>6 DEF OpOK
    <2>8. \A p \in Ops \ {o} :
            /\ ~("list" \in ops[p].held /\ ops[p].list = op.list)
            /\ ~("item" \in op.held /\ "item" \in ops[p].held /\ ops[p].item = op.item)
      BY <2>3 DEF UpdateListRow, ListLocked, IInv, OneWriterPerRow
    <2> QED BY <1>0, <2>1, <2>3, <2>7, <2>8, CallStep DEF data
  <1> QED BY <1>3, <1>4

LEMMA CheckInfectedStep ==
  ASSUME IInv, NEW o \in Ops, CheckInfected(o)
  PROVE  IInv'
  <1>0. /\ msgs \in [Messages -> MsgRow] /\ atts \in [Atts -> AttRow]
        /\ ops[o] \in OpRec /\ OpOK(ops[o]) /\ ops[o].pc = "infectedCheck"
    BY DEF IInv, TypeOK, CheckInfected
  <1>1. CASE InfectedIn(ops[o].msg) # {}
    BY <1>0, <1>1, FinishStep DEF CheckInfected, data
  <1>2. CASE InfectedIn(ops[o].msg) = {}
    <2> DEFINE op == [ops[o] EXCEPT !.pc = "read"]
    <2>1. /\ op.pc = "read" /\ op.held = ops[o].held
          /\ op.item = ops[o].item /\ op.list = ops[o].list /\ op.kind = ops[o].kind
          /\ op.arg = ops[o].arg /\ op.msg = ops[o].msg
      BY <1>0 DEF OpRec
    <2> HIDE DEF op
    <2>2. OpOK(op)
      BY <1>0, <2>1 DEF OpOK
    <2>3. Goto(o, op) /\ UNCHANGED data
      BY <1>2 DEF CheckInfected, op
    <2> QED BY <2>2, <2>3, MoveStep DEF op, Steps
  <1> QED BY <1>1, <1>2

LEMMA ReadHookStep ==
  ASSUME IInv, NEW o \in Ops, ReadHook(o)
  PROVE  IInv'
  <1>0. /\ msgs \in [Messages -> MsgRow] /\ atts \in [Atts -> AttRow]
        /\ ops[o] \in OpRec /\ OpOK(ops[o]) /\ ops[o].pc = "read"
    BY DEF IInv, TypeOK, ReadHook
  <1>1. CASE ~HookMayGo(ops[o])
    BY <1>0, <1>1, FinishStep DEF ReadHook, data
  <1>2. CASE HookMayGo(ops[o])
    <2> DEFINE op == [ops[o] EXCEPT !.pc = "item"]
    <2>1. /\ op.pc = "item" /\ op.held = ops[o].held
          /\ op.item = ops[o].item /\ op.list = ops[o].list /\ op.kind = ops[o].kind
          /\ op.arg = ops[o].arg /\ op.msg = ops[o].msg
      BY <1>0 DEF OpRec
    <2> HIDE DEF op
    <2>2. OpOK(op)
      BY <1>0, <2>1 DEF OpOK
    <2>3. Goto(o, op) /\ UNCHANGED data
      BY <1>2 DEF ReadHook, StepAfter, op
    <2> QED BY <2>2, <2>3, MoveStep DEF op, Steps
  <1> QED BY <1>1, <1>2

LEMMA CountItemsStep ==
  ASSUME IInv, NEW o \in Ops, CountItems(o)
  PROVE  IInv'
  <1>0. /\ ops[o] \in OpRec /\ OpOK(ops[o]) /\ ops[o].pc = "count"
    BY DEF IInv, TypeOK, CountItems
  <1>1. PICK pc \in {"list", "commit"} : Goto(o, [ops[o] EXCEPT !.pc = pc])
    BY DEF CountItems
  <1> DEFINE op == [ops[o] EXCEPT !.pc = pc]
  <1>2. /\ op.pc = pc /\ op.held = ops[o].held /\ op.row = ops[o].row
        /\ op.item = ops[o].item /\ op.list = ops[o].list /\ op.kind = ops[o].kind
        /\ op.arg = ops[o].arg /\ op.msg = ops[o].msg
    BY <1>0 DEF OpRec
  <1> HIDE DEF op
  <1>3. FromStates(op) = FromStates(ops[o])
    BY <1>2 DEF FromStates
  <1>4. ItemUpdate(op, items[op.item]) = ItemUpdate(ops[o], items[ops[o].item])
    BY <1>2 DEF ItemUpdate
  <1>5. "item" \in ops[o].held /\ ops[o].kind = "markDone"
    BY <1>0 DEF OpOK
  <1>6. OpOK(op)
    <2>1. pc = "list" => op.list \in Lists /\ op.kind \in ListKinds
      BY <1>0, <1>2, <1>5, RowsAssumption DEF OpOK, ListKinds
    <2> QED BY <1>0, <1>2, <1>3, <1>4, <1>5, <2>1 DEF OpOK
  <1> QED BY <1>1, <1>6, MoveStep DEF op, Steps, CountItems

LEMMA NextStep == IInv /\ [Next]_vars => IInv'
  <1> SUFFICES ASSUME IInv, [Next]_vars PROVE IInv'
    OBVIOUS
  <1>0. msgs \in [Messages -> MsgRow] /\ atts \in [Atts -> AttRow]
    BY DEF IInv, TypeOK
  <1>1. ASSUME NEW o \in Ops, Start(o) PROVE IInv'
    BY <1>1, StartStep
  <1>2. ASSUME NEW o \in Ops, Continue(o) PROVE IInv'
    BY <1>2, CreateListStep, AddItemStep, InsertAttachmentStep, ScanStep, CheckInfectedStep,
       ReadHookStep, UpdateItemRowStep, CountItemsStep, UpdateListRowStep, CommitStep
       DEF Continue
  <1>3. ASSUME NEW o \in Ops, Abandon(o) PROVE IInv'
    BY <1>0, <1>3, FinishStep DEF Abandon, data
  <1>4. ASSUME NEW m \in Messages, NEW i \in Items, LinkMessage(m, i) PROVE IInv'
    <2>1. msgs' \in [Messages -> MsgRow]
      BY <1>0, <1>4 DEF LinkMessage, MsgRow
    <2> QED BY <1>4, <2>1 DEF LinkMessage, IInv, TypeOK, OpOK, OneWriterPerRow,
                              DoneItemsAreClosed, NoteOnlyAfterRevision
  <1>5. CASE UNCHANGED vars
    BY <1>5 DEF vars, IInv, TypeOK, OpOK, OneWriterPerRow, DoneItemsAreClosed,
                NoteOnlyAfterRevision
  <1> QED BY <1>1, <1>2, <1>3, <1>4, <1>5 DEF Next

(* The invariant holds throughout. *)
THEOREM Invariance == Spec => []IInv
  BY InitInv, NextStep, PTL DEF Spec

-----------------------------------------------------------------------------
(* What follows from it. *)

(* The tables keep their column types. *)
THEOREM TypeCorrect == Spec => []TypeOK
  BY Invariance, PTL DEF IInv

(* No row ever has two writers. *)
THEOREM RowsHaveOneWriter == Spec => []OneWriterPerRow
  BY Invariance, PTL DEF IInv

(* completed_by is set on done items and on no others. *)
THEOREM ClosedMeansDone == Spec => []DoneItemsAreClosed
  BY Invariance, PTL DEF IInv

(* An item a client has answered carries no revision note. *)
THEOREM AnswerClearsNote == Spec => []NoteOnlyAfterRevision
  BY Invariance, PTL DEF IInv

(* Calls take the item row before the list row and commit once they have the list,  *)
(* so no two wait for each other.                                                   *)
THEOREM NoTwoCallsWaitForEachOther == Spec => []NoDeadlock
  <1>1. IInv => NoDeadlock
    BY DEF IInv, OpOK, NoDeadlock, WaitsFor
  <1> QED BY <1>1, Invariance, PTL

(* However calls overlap, a committed item only moves along the state machine: the  *)
(* status a call found when it locked the row is still there when it commits.       *)
THEOREM ItemsMoveLegally == Spec => StatusMovesLegally
  <1> DEFINE Moves == \A i \in Items : items'[i].status # items[i].status =>
                                         items'[i].status \in LegalNext(items[i].status)
  <1>1. ASSUME IInv, [Next]_vars PROVE Moves
    <2>0. items \in [Items -> ItemRow]
      BY <1>1 DEF IInv, TypeOK
    <2>1. CASE UNCHANGED items
      BY <2>1
    <2>2. ASSUME NEW o \in Ops, NEW l \in Lists,
                 NEW seeds \in SUBSET {i \in Items : ListOf[i] = l}, CreateList(o, l, seeds)
          PROVE Moves
      <3>1. PICK t \in ResponseTypes :
              items' = [i \in Items |->
                         IF i \in seeds THEN [FreshItem EXCEPT !.status = "pending", !.rtype = t]
                         ELSE items[i]]
        BY <2>2 DEF CreateList
      <3>2. \A i \in seeds : items[i].status = "none"
        BY <2>2 DEF CreateList
      <3>3. ASSUME NEW i \in Items, i \in seeds PROVE items'[i].status = "pending"
        BY <3>1, <3>3, FreshItemTyped DEF ItemRow
      <3>4. ASSUME NEW i \in Items, i \notin seeds PROVE items'[i] = items[i]
        BY <3>1, <3>4
      <3> QED BY <3>2, <3>3, <3>4 DEF LegalNext
    <2>3. ASSUME NEW o \in Ops, NEW i \in Items, NEW t \in ResponseTypes, AddItem(o, i, t)
          PROVE Moves
      <3>1. items'[i].status = "pending" /\ items[i].status = "none"
        BY <2>0, <2>3, FreshItemTyped DEF AddItem, ItemRow
      <3>2. \A j \in Items \ {i} : items'[j] = items[j]
        BY <2>0, <2>3 DEF AddItem
      <3> QED BY <3>1, <3>2 DEF LegalNext
    <2>4. ASSUME NEW o \in Ops, Commit(o) PROVE Moves
      <3>1. CASE "item" \notin ops[o].held
        BY <2>4, <3>1 DEF Commit
      <3>2. CASE "item" \in ops[o].held
        <4>1. /\ ops[o] \in OpRec /\ ops[o].item \in Items
              /\ items[ops[o].item].status \in FromStates(ops[o])
              /\ ops[o].row = ItemUpdate(ops[o], items[ops[o].item])
              /\ ops[o].kind = "updateItem" => ops[o].arg \in ResponseTypes
          BY <1>1, <3>2 DEF IInv, OpOK, TypeOK
        <4>2. items[ops[o].item] \in ItemRow
          BY <2>0, <4>1
        <4>3. ops[o].row.status # items[ops[o].item].status =>
                ops[o].row.status \in LegalNext(items[ops[o].item].status)
          BY <4>1, <4>2, ItemUpdateFacts
        <4>4. items' = [items EXCEPT ![ops[o].item] = ops[o].row]
          BY <2>4, <3>2 DEF Commit
        <4> QED BY <2>0, <4>3, <4>4
      <3> QED BY <3>1, <3>2
    <2>5. ASSUME NEW o \in Ops, Start(o) \/ Abandon(o) PROVE UNCHANGED items
      BY <2>5 DEF Start, Abandon, StartCreateList, StartAddItem, StartUpdateList,
                  StartUpdateItem, StartDeletePendingItem, StartMarkDone, StartRequestRevision,
                  PostMessage, StartUpload, data
    <2>6. ASSUME NEW o \in Ops, Continue(o),
                 ~(\E l \in Lists : \E seeds \in SUBSET {i \in Items : ListOf[i] = l} :
                     CreateList(o, l, seeds)),
                 ~(\E i \in Items, t \in ResponseTypes : AddItem(o, i, t)),
                 ~Commit(o)
          PROVE UNCHANGED items
      BY <2>6 DEF Continue, InsertAttachment, ScanInfected, ScanError, ScanClean,
                  CheckInfected, ReadHook, UpdateItemRow, CountItems, UpdateListRow, data
    <2>7. ASSUME NEW m \in Messages, NEW i \in Items, LinkMessage(m, i) PROVE UNCHANGED items
      BY <2>7 DEF LinkMessage
    <2> HIDE DEF Moves
    <2>8. CASE Next
      BY <2>1, <2>2, <2>3, <2>4, <2>5, <2>6, <2>7, <2>8 DEF Next
    <2> QED BY <1>1, <2>1, <2>8 DEF vars
  <1>2. IInv /\ [Next]_vars => [Moves]_vars
    BY <1>1
  <1> QED BY <1>2, Invariance, PTL DEF Spec, StatusMovesLegally

(* Of several markDone calls, only one completes the list: its guarded UPDATE still  *)
(* finds the list active when it commits.                                           *)
THEOREM ListsCompleteOnce == Spec => CompletedOnce
  <1> DEFINE Once == \A o \in Ops :
               ops[o].kind = "markDone" /\ "list" \in ops[o].held /\ Committing(o)
                 => lists[ops[o].list].status = "active"
  <1>1. IInv => Once
    BY DEF IInv, OpOK, ListMatches
  <1>2. IInv /\ [Next]_vars => [Once]_vars
    BY <1>1
  <1> QED BY <1>2, Invariance, PTL DEF Spec, CompletedOnce

-----------------------------------------------------------------------------
(* What the operations promise when calls do not overlap.  While one call is in     *)
(* progress no other starts; what it read is then still true when it writes.  A     *)
(* link a staff user sets and a message without an item need no call in progress    *)
(* and may still come between two of its steps.                                      *)
OneAtATime == \A o, p \in Ops : ops[o].pc # "idle" /\ ops[p].pc # "idle" => o = p

(* What a call that is alone knows of the committed rows at each of its steps.       *)
Fresh(op) ==
  /\ op.pc = "insert" /\ op.kind = "addItem" =>
       op.list \in Lists /\ lists[op.list].status = "active"
  /\ op.kind = "updateList" =>
       /\ op.pc = "list" => op.seen = lists[op.list]
       /\ op.pc = "commit" /\ "list" \in op.held => op.lrow = ListUpdate(op, lists[op.list])
                                                   /\ op.seen = lists[op.list]
  /\ op.kind = "requestRevision" /\ op.pc \in {"item", "list", "commit"} =>
       /\ op.seen = lists[op.list]
       /\ op.seen.status \in {"active", "completed"}
       /\ op.pc = "commit" => "list" \in op.held \/ op.seen.status = "active"
       /\ op.pc = "commit" /\ "list" \in op.held => op.lrow = ListUpdate(op, lists[op.list])
  /\ op.kind = "markDone" /\ op.pc \in {"item", "count", "list", "commit"} =>
       /\ lists[op.list].status = "active"
       /\ op.pc = "commit" => "list" \in op.held \/ ~EveryItemDone(op)
       /\ op.pc = "commit" /\ "list" \in op.held => op.lrow = ListUpdate(op, lists[op.list])
  /\ op.kind = "messagePosted" /\ op.pc \in {"read", "item", "commit"} =>
       InfectedIn(op.msg) = {}
  /\ op.pc = "put" => Cardinality(AttsOf(op.msg)) < MaxAtts
  /\ op.pc = "scan" => atts[op.att].status = "pending"

ItemsHaveLists == \A i \in Items : items[i].status # "none" => lists[ListOf[i]].status # "none"

SerialInv ==
  /\ \A o \in Ops : Fresh(ops[o])
  /\ ItemsHaveLists
  /\ StampMatchesStatus


(* A call that has ended, or a hook that has yet to read.                            *)
Unread(op) ==
  \/ op.pc \in {"idle", "infectedCheck"}
  \/ op.pc = "read" /\ op.kind = "scanFailed"

(* A step of a call that leaves the tables its promises are about alone keeps what   *)
(* every call knows.                                                                 *)
LEMMA FreshStep ==
  ASSUME IInv, SerialInv, NEW o \in Ops, NEW op \in OpRec, Fresh(op),
         Goto(o, op), UNCHANGED <<lists, items, atts>>
  PROVE  SerialInv'
  <1>1. ops'[o] = op /\ \A p \in Ops \ {o} : ops'[p] = ops[p]
    BY DEF IInv, TypeOK, Goto
  <1>2. \A q \in OpRec : Fresh(q) <=> Fresh(q)'
    BY DEF Fresh, EveryItemDone, ItemsIn, Stored, InfectedIn, AttsOf
  <1>3. \A p \in Ops : Fresh(ops[p])'
    <2> TAKE p \in Ops
    <2>1. ops[p] \in OpRec /\ Fresh(ops[p])
      BY DEF IInv, TypeOK, SerialInv
    <2>2. ops'[p] = op \/ ops'[p] = ops[p]
      BY <1>1
    <2>3. PICK q \in OpRec : ops'[p] = q /\ Fresh(q)'
      BY <1>2, <2>1, <2>2
    <2> QED BY <2>3 DEF Fresh
  <1>4. ItemsHaveLists' /\ StampMatchesStatus'
    BY DEF SerialInv, ItemsHaveLists, StampMatchesStatus
  <1> QED BY <1>3, <1>4 DEF SerialInv

(* A step of the one call in progress may change any table: nobody else has read it. *)
LEMMA AloneStep ==
  ASSUME IInv, OneAtATime, NEW o \in Ops, ops[o].pc # "idle",
         NEW op \in OpRec, Goto(o, op), Unread(op) \/ Fresh(op)',
         ItemsHaveLists', StampMatchesStatus'
  PROVE  SerialInv'
  <1>1. ops'[o] = op /\ \A p \in Ops \ {o} : ops'[p] = ops[p]
    BY DEF IInv, TypeOK, Goto
  <1>2. \A p \in Ops \ {o} : ops[p].pc = "idle"
    BY DEF OneAtATime
  <1>3. \A p \in Ops : Fresh(ops[p])'
    BY <1>1, <1>2 DEF Fresh, Unread
  <1> QED BY <1>3 DEF SerialInv

(* The first step of a call keeps what it reads.                                     *)
LEMMA StartFresh ==
  ASSUME IInv, SerialInv, NEW o \in Ops, Start(o)
  PROVE  SerialInv'
  <1>0. lists \in [Lists -> ListRow] /\ items \in [Items -> ItemRow]
    BY DEF IInv, TypeOK
  <1>1. CASE StartCreateList(o)
    <2> DEFINE op == [IdleOp EXCEPT !.kind = "createList", !.pc = "insert"]
    <2>0. op \in OpRec /\ op.kind = "createList" /\ op.pc = "insert"
      BY ZenonT(90), IdleTyped DEF OpRec, Kinds, Steps
    <2>1. Fresh(op)
      BY <2>0 DEF Fresh
    <2> QED BY <1>1, <2>0, <2>1, FreshStep DEF StartCreateList, data
  <1>2. ASSUME NEW l \in Lists, StartAddItem(o, l) PROVE SerialInv'
    <2> DEFINE op == [IdleOp EXCEPT !.kind = "addItem", !.pc = "insert", !.list = l]
    <2>0. op \in OpRec /\ op.kind = "addItem" /\ op.pc = "insert" /\ op.list = l
      BY ZenonT(90), IdleTyped DEF OpRec, Kinds, Steps
    <2>1. Fresh(op)
      BY <1>2, <2>0 DEF Fresh, StartAddItem
    <2> QED BY <1>2, <2>0, <2>1, FreshStep DEF StartAddItem, data
  <1>3. ASSUME NEW l \in Lists, NEW s \in ListStatus, StartUpdateList(o, l, s)
        PROVE  SerialInv'
    <2> DEFINE op == [IdleOp EXCEPT !.kind = "updateList", !.pc = "list", !.list = l,
                                    !.seen = lists[l], !.arg = s]
    <2>0. op \in OpRec
      BY ZenonT(90), <1>0, IdleTyped DEF OpRec, Kinds, Steps
    <2>1. op.kind = "updateList" /\ op.pc = "list" /\ op.list = l /\ op.seen = lists[l]
      BY ZenonT(90), IdleTyped DEF OpRec
    <2>2. Fresh(op)
      BY <2>1 DEF Fresh
    <2> QED BY <1>3, <2>0, <2>2, FreshStep DEF StartUpdateList, data
  <1>4. ASSUME NEW i \in Items, NEW t \in ResponseTypes, StartUpdateItem(o, i, t)
        PROVE  SerialInv'
    <2> DEFINE op == [OnItem("updateItem", i, FreshList) EXCEPT !.arg = t]
    <2>0. op \in OpRec /\ op.kind = "updateItem" /\ op.pc = "item"
      BY OnItemTyped, FreshItemTyped DEF OpRec, ItemKinds
    <2>1. Fresh(op)
      BY <2>0 DEF Fresh
    <2> QED BY <1>4, <2>0, <2>1, FreshStep DEF StartUpdateItem, data
  <1>5. ASSUME NEW i \in Items, StartDeletePendingItem(o, i) PROVE SerialInv'
    <2> DEFINE op == OnItem("deleteItem", i, FreshList)
    <2>0. op \in OpRec /\ op.kind = "deleteItem" /\ op.pc = "item"
      BY OnItemTyped, FreshItemTyped DEF ItemKinds
    <2> HIDE DEF op
    <2>1. Fresh(op)
      BY <2>0 DEF Fresh
    <2>2. Goto(o, op) /\ UNCHANGED data
      BY <1>5 DEF StartDeletePendingItem, op
    <2> QED BY <2>0, <2>1, <2>2, FreshStep DEF data
  <1>6. ASSUME NEW i \in Items, StartMarkDone(o, i) PROVE SerialInv'
    <2> DEFINE op == OnItem("markDone", i, FreshList)
    <2>0. /\ op \in OpRec /\ op.kind = "markDone" /\ op.pc = "item" /\ op.list = ListOf[i]
      BY OnItemTyped, FreshItemTyped DEF ItemKinds
    <2> HIDE DEF op
    <2>1. Fresh(op)
      BY <1>6, <2>0 DEF Fresh, StartMarkDone
    <2>2. Goto(o, op) /\ UNCHANGED data
      BY <1>6 DEF StartMarkDone, op
    <2> QED BY <2>0, <2>1, <2>2, FreshStep DEF data
  <1>7. ASSUME NEW i \in Items, StartRequestRevision(o, i) PROVE SerialInv'
    <2> DEFINE op == OnItem("requestRevision", i, lists[ListOf[i]])
    <2>0. /\ ListOf[i] \in Lists /\ lists[ListOf[i]] \in ListRow
          /\ lists[ListOf[i]].status \in {"active", "completed"}
      <3>1. ListOf[i] \in Lists /\ lists[ListOf[i]] \in ListRow
        BY <1>0, RowsAssumption
      <3>2. lists[ListOf[i]].status # "none"
        BY <1>7 DEF StartRequestRevision, Stored, ItemStatus, SerialInv, ItemsHaveLists
      <3> QED BY <1>7, <3>1, <3>2 DEF StartRequestRevision, ListRow, ListStatus
    <2>1. /\ op \in OpRec
          /\ op.kind = "requestRevision" /\ op.pc = "item" /\ op.list = ListOf[i]
      BY <2>0, OnItemTyped DEF ItemKinds
    <2>2. op.seen = lists[ListOf[i]]
      BY <2>0, IdleTyped DEF OnItem, OpRec
    <2> HIDE DEF op
    <2>3. Fresh(op)
      BY <2>0, <2>1, <2>2 DEF Fresh
    <2>4. Goto(o, op) /\ UNCHANGED data
      BY <1>7 DEF StartRequestRevision, op
    <2> QED BY <2>1, <2>3, <2>4, FreshStep DEF data
  <1>8. ASSUME NEW m \in Messages, NEW i \in Items \cup {NoItem}, NEW t \in BOOLEAN,
               PostMessage(o, m, i, t)
        PROVE  SerialInv'
    <2>1. UNCHANGED <<lists, items, atts>>
      BY <1>8 DEF PostMessage
    <2>2. CASE i = NoItem
      <3>1. Fresh(IdleOp)
        BY DEF Fresh, IdleOp
      <3> QED BY <1>8, <2>1, <2>2, <3>1, IdleTyped, FreshStep DEF PostMessage, Finish
    <2>3. CASE i # NoItem
      <3> DEFINE op == [IdleOp EXCEPT !.kind = "messagePosted", !.pc = "infectedCheck",
                                      !.item = i, !.list = ListOf[i], !.msg = m]
      <3>0. op \in OpRec /\ op.kind = "messagePosted" /\ op.pc = "infectedCheck"
        BY ZenonT(90), <2>3, IdleTyped, RowsAssumption DEF OpRec, Kinds, Steps
      <3>1. Fresh(op)
        BY <3>0 DEF Fresh
      <3>2. Goto(o, op)
        BY <1>8, <2>3 DEF PostMessage
      <3> QED BY <2>1, <3>0, <3>1, <3>2, FreshStep
    <2> QED BY <2>2, <2>3
  <1>9. ASSUME NEW m \in Messages, StartUpload(o, m) PROVE SerialInv'
    <2> DEFINE op == [IdleOp EXCEPT !.kind = "upload", !.pc = "put", !.msg = m,
                                    !.item = msgs[m].item]
    <2>0. op \in OpRec /\ op.kind = "upload" /\ op.pc = "put" /\ op.msg = m
      BY ZenonT(90), IdleTyped DEF OpRec, Kinds, Steps, MsgRow, IInv, TypeOK
    <2>1. Fresh(op)
      BY <1>9, <2>0 DEF Fresh, StartUpload
    <2> QED BY <1>9, <2>0, <2>1, FreshStep DEF StartUpload, data
  <1> QED BY <1>1, <1>2, <1>3, <1>4, <1>5, <1>6, <1>7, <1>8, <1>9 DEF Start

(* Inserts: the list of a new item is there, and a new list is active, not completed. *)
LEMMA InsertFresh ==
  ASSUME IInv, SerialInv, OneAtATime, NEW o \in Ops,
         \/ \E l \in Lists : \E seeds \in SUBSET {i \in Items : ListOf[i] = l} :
              CreateList(o, l, seeds)
         \/ \E i \in Items, t \in ResponseTypes : AddItem(o, i, t)
  PROVE  SerialInv'
  <1>0. lists \in [Lists -> ListRow] /\ items \in [Items -> ItemRow]
    BY DEF IInv, TypeOK
  <1>1. Unread(IdleOp)
    BY DEF Unread, IdleOp
  <1>2. ASSUME NEW l \in Lists, NEW seeds \in SUBSET {i \in Items : ListOf[i] = l},
               CreateList(o, l, seeds)
        PROVE  SerialInv'
    <2>1. lists' = [lists EXCEPT ![l] = [status |-> "active", stamped |-> FALSE]]
      BY <1>2 DEF CreateList
    <2>2. \A i \in Items : i \in seeds => ListOf[i] = l
      OBVIOUS
    <2>3. \A i \in Items : i \notin seeds => items'[i] = items[i]
      BY <1>2 DEF CreateList
    <2>4. ItemsHaveLists'
      BY <1>0, <2>1, <2>2, <2>3, RowsAssumption DEF SerialInv, ItemsHaveLists
    <2>5. StampMatchesStatus'
      BY <1>0, <2>1 DEF SerialInv, StampMatchesStatus
    <2>6. ops[o].pc # "idle" /\ Goto(o, IdleOp)
      BY <1>2 DEF CreateList, Finish
    <2> QED BY <1>1, <2>4, <2>5, <2>6, IdleTyped, AloneStep
  <1>3. ASSUME NEW i \in Items, NEW t \in ResponseTypes, AddItem(o, i, t) PROVE SerialInv'
    <2>1. ListOf[i] = ops[o].list /\ lists[ops[o].list].status = "active"
      BY <1>3 DEF AddItem, SerialInv, Fresh
    <2>2. UNCHANGED lists /\ \A j \in Items \ {i} : items'[j] = items[j]
      BY <1>0, <1>3 DEF AddItem
    <2>3. ItemsHaveLists' /\ StampMatchesStatus'
      BY <2>1, <2>2 DEF SerialInv, ItemsHaveLists, StampMatchesStatus
    <2>4. ops[o].pc # "idle" /\ Goto(o, IdleOp)
      BY <1>3 DEF AddItem, Finish
    <2> QED BY <1>1, <2>3, <2>4, IdleTyped, AloneStep
  <1> QED BY <1>2, <1>3

(* What a commit writes: a list that stays inserted, with its stamp in step.         *)
LEMMA CommitWrites ==
  ASSUME IInv, SerialInv, NEW o \in Ops, Commit(o), "list" \in ops[o].held
  PROVE  /\ ops[o].list \in Lists
         /\ ops[o].kind \in ListKinds
         /\ ops[o].lrow = ListUpdate(ops[o], lists[ops[o].list])
         /\ ops[o].lrow.status # "none"
         /\ ops[o].lrow.stamped <=> ops[o].lrow.status = "completed"
         /\ lists' = [lists EXCEPT ![ops[o].list] = ops[o].lrow]
  <1>0. /\ lists \in [Lists -> ListRow] /\ ops[o] \in OpRec /\ OpOK(ops[o]) /\ Fresh(ops[o])
        /\ ops[o].pc = "commit" /\ lists' = [lists EXCEPT ![ops[o].list] = ops[o].lrow]
    BY DEF IInv, TypeOK, SerialInv, Commit
  <1>1. ops[o].list \in Lists /\ ops[o].kind \in ListKinds
    BY <1>0 DEF OpOK
  <1>2. ops[o].lrow = ListUpdate(ops[o], lists[ops[o].list])
    BY <1>0, <1>1 DEF Fresh, ListKinds
  <1>3. CASE ops[o].kind = "markDone"
    BY <1>0, <1>1, <1>2, <1>3 DEF ListUpdate
  <1>4. CASE ops[o].kind = "requestRevision"
    BY <1>0, <1>1, <1>2, <1>4 DEF ListUpdate
  <1>5. CASE ops[o].kind = "updateList"
    <2>1. ops[o].seen = lists[ops[o].list] /\ ops[o].arg \in ListStatus
      BY <1>0, <1>5 DEF Fresh, OpOK
    <2>2. lists[ops[o].list].stamped <=> lists[ops[o].list].status = "completed"
      BY <1>1 DEF SerialInv, StampMatchesStatus
    <2>3. lists[ops[o].list].stamped \in BOOLEAN
      BY <1>0, <1>1 DEF ListRow
    <2>4. /\ ops[o].lrow.status = ops[o].arg
          /\ ops[o].lrow.stamped = IF ops[o].arg = "completed" /\ ~ops[o].seen.stamped THEN TRUE
                                   ELSE IF ops[o].arg # "completed" /\ ops[o].seen.stamped
                                        THEN FALSE
                                   ELSE lists[ops[o].list].stamped
      <3>1. ops[o].lrow =
              [status |-> ops[o].arg,
               stamped |-> IF ops[o].arg = "completed" /\ ~ops[o].seen.stamped THEN TRUE
                           ELSE IF ops[o].arg # "completed" /\ ops[o].seen.stamped THEN FALSE
                           ELSE lists[ops[o].list].stamped]
        BY <1>2, <1>5 DEF ListUpdate
      <3> QED BY ONLY <3>1
    <2>5. ops[o].lrow.stamped <=> ops[o].arg = "completed"
      <3>1. ops[o].seen.stamped \in BOOLEAN
        BY <1>0 DEF OpRec, ListRow
      <3> QED BY <2>1, <2>2, <2>3, <2>4, <3>1
    <2> QED BY <1>0, <1>1, <1>2, <2>1, <2>4, <2>5 DEF ListStatus
  <1> QED BY <1>1, <1>3, <1>4, <1>5 DEF ListKinds

LEMMA CommitFresh ==
  ASSUME IInv, SerialInv, OneAtATime, NEW o \in Ops, Commit(o)
  PROVE  SerialInv'
  <1>0. /\ lists \in [Lists -> ListRow] /\ items \in [Items -> ItemRow]
        /\ OpOK(ops[o]) /\ ops[o] \in OpRec
    BY DEF IInv, TypeOK
  <1>1. \A l \in Lists : /\ lists[l].status # "none" => lists'[l].status # "none"
                         /\ lists'[l].stamped <=> lists'[l].status = "completed"
    <2>1. CASE "list" \in ops[o].held
      BY <1>0, <2>1, CommitWrites DEF SerialInv, StampMatchesStatus
    <2>2. CASE "list" \notin ops[o].held
      BY <2>2 DEF Commit, SerialInv, StampMatchesStatus
    <2> QED BY <2>1, <2>2
  <1>2. \A i \in Items : items'[i].status # "none" => items[i].status # "none"
    <2>1. CASE "item" \in ops[o].held
      <3>1. ops[o].item \in Items /\ items[ops[o].item].status \in ItemStatus
        BY <2>1, HeldAreStored
      <3>2. items' = [items EXCEPT ![ops[o].item] = ops[o].row]
        BY <2>1 DEF Commit
      <3> QED BY <1>0, <3>1, <3>2 DEF ItemStatus
    <2>2. CASE "item" \notin ops[o].held
      BY <2>2 DEF Commit
    <2> QED BY <2>1, <2>2
  <1>3. ItemsHaveLists'
    BY <1>1, <1>2, RowsAssumption DEF SerialInv, ItemsHaveLists
  <1>4. StampMatchesStatus'
    BY <1>1 DEF StampMatchesStatus
  <1>5. ops[o].pc # "idle" /\ Goto(o, IdleOp) /\ Unread(IdleOp)
    BY DEF Commit, Finish, Unread, IdleOp
  <1> QED BY <1>3, <1>4, <1>5, IdleTyped, AloneStep

(* Where a scan leaves its call: ended, or at the start of a hook.                   *)
LEMMA ScanLeaves ==
  ASSUME IInv, NEW o \in Ops, ScanInfected(o) \/ ScanError(o) \/ ScanClean(o)
  PROVE  /\ ops[o].pc = "scan" /\ UNCHANGED <<lists, items, msgs>>
         /\ \E op \in OpRec : /\ Goto(o, op)
                              /\ Unread(op)
  <1>0. msgs \in [Messages -> MsgRow] /\ ops[o] \in OpRec /\ OpOK(ops[o])
    BY DEF IInv, TypeOK
  <1>1. ops[o].pc = "scan" /\ UNCHANGED <<lists, items, msgs>>
    BY DEF ScanInfected, ScanError, ScanClean
  <1>2. ops[o].msg \in Messages
    BY <1>0, <1>1 DEF OpOK
  <1>3. ops[o].item \in Items \cup {NoItem} /\ msgs[ops[o].msg].item \in Items \cup {NoItem}
    BY <1>0, <1>2 DEF OpRec, MsgRow
  <1>4. PICK i \in Items \cup {NoItem}, kind \in {"messagePosted", "scanFailed"},
             pc \in {"infectedCheck", "read"} :
          /\ FireHook(o, kind, pc, i)
          /\ pc = "read" => kind = "scanFailed"
    BY <1>3 DEF ScanInfected, ScanError, ScanClean
  <1>5. CASE i = NoItem
    <2>1. Goto(o, IdleOp) /\ IdleOp.pc = "idle"
      BY <1>4, <1>5 DEF FireHook, Finish, IdleOp
    <2> QED BY <1>1, <2>1, IdleTyped DEF Unread
  <1>6. CASE i # NoItem
    <2> DEFINE op == [IdleOp EXCEPT !.kind = kind, !.pc = pc, !.item = i, !.list = ListOf[i],
                                    !.msg = ops[o].msg, !.files = TRUE]
    <2>1. Goto(o, op)
      BY <1>4, <1>6 DEF FireHook
    <2>2. op \in OpRec /\ op.kind = kind /\ op.pc = pc
      <3>1. i \in Items /\ ListOf[i] \in Lists
        BY <1>6, RowsAssumption
      <3> QED BY ZenonT(90), <1>2, <3>1, IdleTyped DEF OpRec, Kinds, Steps
    <2> HIDE DEF op
    <2> QED BY <1>1, <1>4, <2>1, <2>2 DEF Unread
  <1> QED BY <1>5, <1>6

LEMMA UploadFresh ==
  ASSUME IInv, SerialInv, OneAtATime, NEW o \in Ops,
         \/ \E a \in Atts : InsertAttachment(o, a)
         \/ ScanInfected(o) \/ ScanError(o) \/ ScanClean(o)
  PROVE  SerialInv'
  <1>1. ASSUME NEW a \in Atts, InsertAttachment(o, a) PROVE SerialInv'
    <2>1. ops[o] \in OpRec /\ atts \in [Atts -> AttRow]
      BY DEF IInv, TypeOK
    <2>2. PICK op : op = [ops[o] EXCEPT !.pc = "scan", !.att = a]
      OBVIOUS
    <2>3. op \in OpRec /\ op.pc = "scan" /\ op.att = a
      BY ZenonT(90), <2>1, <2>2 DEF OpRec, Steps
    <2>4. Goto(o, op) /\ ops[o].pc # "idle" /\ UNCHANGED <<lists, items>>
      BY <1>1, <2>2 DEF InsertAttachment
    <2>5. Fresh(op)'
      BY <1>1, <2>1, <2>3 DEF Fresh, InsertAttachment
    <2>6. ItemsHaveLists' /\ StampMatchesStatus'
      BY <2>4 DEF SerialInv, ItemsHaveLists, StampMatchesStatus
    <2> QED BY <2>3, <2>4, <2>5, <2>6, AloneStep
  <1>2. ASSUME ScanInfected(o) \/ ScanError(o) \/ ScanClean(o) PROVE SerialInv'
    <2>1. PICK op \in OpRec : Goto(o, op) /\ Unread(op)
      BY <1>2, ScanLeaves
    <2>2. ops[o].pc # "idle" /\ UNCHANGED <<lists, items>>
      BY <1>2, ScanLeaves
    <2>3. ItemsHaveLists' /\ StampMatchesStatus'
      BY <2>2 DEF SerialInv, ItemsHaveLists, StampMatchesStatus
    <2> QED BY <2>1, <2>2, <2>3, AloneStep
  <1> QED BY <1>1, <1>2

(* The other steps of a transaction: what was read at the start is handed on.        *)
LEMMA HooksFresh ==
  ASSUME IInv, SerialInv, NEW o \in Ops, CheckInfected(o) \/ ReadHook(o)
  PROVE  SerialInv'
  <1>0. ops[o] \in OpRec /\ OpOK(ops[o]) /\ Fresh(ops[o]) /\ UNCHANGED data
    BY DEF IInv, TypeOK, SerialInv, CheckInfected, ReadHook
  <1>1. Fresh(IdleOp)
    BY DEF Fresh, IdleOp
  <1>2. CASE Finish(o)
    BY <1>0, <1>1, <1>2, IdleTyped, FreshStep DEF Finish, data
  <1>3. CASE CheckInfected(o) /\ ~Finish(o)
    <2> DEFINE op == [ops[o] EXCEPT !.pc = "read"]
    <2>1. /\ op \in OpRec /\ op.pc = "read" /\ op.kind = ops[o].kind /\ op.msg = ops[o].msg
          /\ op.kind \in {"messagePosted", "scanFailed"}
      BY ZenonT(90), <1>0, <1>3 DEF OpRec, Steps, OpOK, CheckInfected
    <2>2. Goto(o, op) /\ InfectedIn(ops[o].msg) = {}
      BY <1>3 DEF CheckInfected
    <2> HIDE DEF op
    <2>3. Fresh(op)
      BY <2>1, <2>2 DEF Fresh
    <2> QED BY <1>0, <2>1, <2>2, <2>3, FreshStep DEF data
  <1>4. CASE ReadHook(o) /\ ~Finish(o)
    <2> DEFINE op == [ops[o] EXCEPT !.pc = "item"]
    <2>1. /\ op \in OpRec /\ op.pc = "item" /\ op.kind = ops[o].kind /\ op.msg = ops[o].msg
          /\ op.kind \in {"messagePosted", "scanFailed"} /\ ops[o].pc = "read"
      BY ZenonT(90), <1>0, <1>4 DEF OpRec, Steps, OpOK, ReadHook
    <2>2. Goto(o, op)
      BY <1>4 DEF ReadHook, StepAfter
    <2> HIDE DEF op
    <2>3. Fresh(op)
      BY <1>0, <2>1 DEF Fresh
    <2> QED BY <1>0, <2>1, <2>2, <2>3, FreshStep DEF data
  <1> QED BY <1>2, <1>3, <1>4

LEMMA UpdateItemRowFresh ==
  ASSUME IInv, SerialInv, NEW o \in Ops, UpdateItemRow(o)
  PROVE  SerialInv'
  <1> DEFINE row == ItemUpdate(ops[o], items[ops[o].item])
             pc == StepAfter(ops[o], "item")
             op == [ops[o] EXCEPT !.row = row, !.held = @ \cup {"item"}, !.pc = pc]
  <1>0. /\ items \in [Items -> ItemRow] /\ ops[o].pc = "item" /\ UNCHANGED data
        /\ ops[o] \in OpRec /\ OpOK(ops[o]) /\ Fresh(ops[o])
    BY DEF IInv, TypeOK, SerialInv, UpdateItemRow
  <1>1. ops[o].item \in Items /\ ops[o].kind \in ItemKinds /\ items[ops[o].item] \in ItemRow
    BY <1>0 DEF OpOK
  <1>2. CASE items[ops[o].item].status \notin FromStates(ops[o])
    <2>1. Fresh(IdleOp) /\ Goto(o, IdleOp)
      BY <1>2 DEF Fresh, IdleOp, UpdateItemRow, Finish
    <2> QED BY <1>0, <2>1, IdleTyped, FreshStep DEF data
  <1>3. CASE items[ops[o].item].status \in FromStates(ops[o])
    <2>1. Goto(o, op)
      BY <1>3 DEF UpdateItemRow
    <2>2. row \in ItemRow
      BY <1>0, <1>1, <1>3, ItemUpdateFacts DEF OpOK
    <2>3. /\ pc \in {"count", "list", "commit"}
          /\ ops[o].kind = "markDone" => pc = "count"
          /\ ops[o].kind = "requestRevision" =>
               pc = IF ops[o].seen.status = "completed" THEN "list" ELSE "commit"
          /\ ops[o].kind = "messagePosted" => pc = "commit"
      BY DEF StepAfter
    <2>4. /\ op \in OpRec /\ op.pc = pc /\ op.list = ops[o].list /\ op.kind = ops[o].kind
          /\ op.seen = ops[o].seen /\ op.msg = ops[o].msg /\ op.held = ops[o].held \cup {"item"}
      BY ZenonT(90), <1>0, <2>2, <2>3 DEF OpRec, Steps
    <2>5. "list" \notin op.held
      BY <1>0, <2>4 DEF OpOK
    <2> HIDE DEF op, row, pc
    <2>6. CASE ops[o].kind = "markDone"
      BY <1>0, <2>3, <2>4, <2>5, <2>6, FreshStep, <2>1 DEF Fresh, data
    <2>7. CASE ops[o].kind = "requestRevision"
      BY <1>0, <2>3, <2>4, <2>5, <2>7, FreshStep, <2>1 DEF Fresh, data
    <2>8. CASE ops[o].kind = "messagePosted"
      BY <1>0, <2>3, <2>4, <2>5, <2>8, FreshStep, <2>1 DEF Fresh, data
    <2>9. CASE ops[o].kind \in {"updateItem", "deleteItem", "scanFailed"}
      BY <1>0, <2>3, <2>4, <2>9, FreshStep, <2>1 DEF Fresh, data
    <2> QED BY <1>1, <2>6, <2>7, <2>8, <2>9 DEF ItemKinds
  <1> QED BY <1>2, <1>3

LEMMA CountItemsFresh ==
  ASSUME IInv, SerialInv, NEW o \in Ops, CountItems(o)
  PROVE  SerialInv'
  <1> DEFINE pc == IF EveryItemDone(ops[o]) THEN "list" ELSE "commit"
             op == [ops[o] EXCEPT !.pc = pc]
  <1>0. /\ ops[o].pc = "count" /\ UNCHANGED data /\ Goto(o, op)
        /\ ops[o] \in OpRec /\ OpOK(ops[o]) /\ Fresh(ops[o])
    BY DEF IInv, TypeOK, SerialInv, CountItems
  <1>1. ops[o].kind = "markDone" /\ "list" \notin ops[o].held
    BY <1>0 DEF OpOK
  <1>2. /\ op.pc = pc /\ op.kind = ops[o].kind /\ op.list = ops[o].list
        /\ op.item = ops[o].item /\ op.held = ops[o].held
    BY <1>0 DEF OpRec
  <1>3. op \in OpRec
    BY ZenonT(90), <1>0 DEF OpRec, Steps
  <1>4. pc = "commit" => ~EveryItemDone(ops[o])
    OBVIOUS
  <1>5. pc \in {"list", "commit"} /\ (EveryItemDone(op) <=> EveryItemDone(ops[o]))
    BY <1>2 DEF EveryItemDone
  <1> HIDE DEF op, pc
  <1>6. Fresh(op)
    BY <1>0, <1>1, <1>2, <1>4, <1>5 DEF Fresh
  <1> QED BY <1>0, <1>3, <1>6, FreshStep DEF data

LEMMA UpdateListRowFresh ==
  ASSUME IInv, SerialInv, NEW o \in Ops, UpdateListRow(o)
  PROVE  SerialInv'
  <1> DEFINE row == ListUpdate(ops[o], lists[ops[o].list])
             op == [ops[o] EXCEPT !.lrow = row, !.held = @ \cup {"list"}, !.pc = "commit"]
  <1>0. /\ lists \in [Lists -> ListRow] /\ ops[o].pc = "list" /\ UNCHANGED data
        /\ ops[o] \in OpRec /\ OpOK(ops[o]) /\ Fresh(ops[o])
    BY DEF IInv, TypeOK, SerialInv, UpdateListRow
  <1>1. ops[o].list \in Lists /\ ops[o].kind \in ListKinds
    BY <1>0 DEF OpOK
  <1>2. ListMatches(ops[o], lists[ops[o].list])
    BY <1>0 DEF ListMatches, Fresh
  <1>3. Goto(o, op)
    <2>1. StepAfter(ops[o], "list") = "commit"
      BY DEF StepAfter
    <2> QED BY <1>2, <2>1 DEF UpdateListRow
  <1>4. row \in ListRow
    BY <1>0, <1>1, ListUpdateTyped DEF OpOK
  <1>5. /\ op \in OpRec /\ op.pc = "commit" /\ op.list = ops[o].list /\ op.kind = ops[o].kind
        /\ op.seen = ops[o].seen /\ op.lrow = row /\ "list" \in op.held /\ op.arg = ops[o].arg
    BY ZenonT(90), <1>0, <1>4 DEF OpRec, Steps
  <1>6. row = ListUpdate(op, lists[op.list])
    BY <1>5 DEF ListUpdate
  <1> HIDE DEF op, row
  <1>7. Fresh(op)
    BY <1>0, <1>1, <1>5, <1>6 DEF Fresh, ListKinds
  <1> QED BY <1>0, <1>3, <1>5, <1>7, FreshStep DEF data

LEMMA InitSerial == Init => SerialInv
  <1> SUFFICES ASSUME Init PROVE SerialInv
    OBVIOUS
  <1>1. \A o \in Ops : Fresh(ops[o])
    BY DEF Init, Fresh, IdleOp
  <1>2. ItemsHaveLists /\ StampMatchesStatus
    BY DEF Init, ItemsHaveLists, StampMatchesStatus, FreshItem, FreshList
  <1> QED BY <1>1, <1>2 DEF SerialInv

LEMMA SerialStep == IInv /\ SerialInv /\ OneAtATime /\ [Next]_vars => SerialInv'
  <1> SUFFICES ASSUME IInv, SerialInv, OneAtATime, [Next]_vars PROVE SerialInv'
    OBVIOUS
  <1>1. ASSUME NEW o \in Ops, Start(o) PROVE SerialInv'
    BY <1>1, StartFresh
  <1>2. ASSUME NEW o \in Ops, Continue(o) PROVE SerialInv'
    BY <1>2, InsertFresh, UploadFresh, HooksFresh, UpdateItemRowFresh, CountItemsFresh,
       UpdateListRowFresh, CommitFresh DEF Continue
  <1>3. ASSUME NEW o \in Ops, Abandon(o) PROVE SerialInv'
    <2>1. Fresh(IdleOp)
      BY DEF Fresh, IdleOp
    <2> QED BY <1>3, <2>1, IdleTyped, FreshStep DEF Abandon, Finish, data
  <1>4. CASE UNCHANGED <<lists, items, atts, ops>>
    BY <1>4 DEF SerialInv, ItemsHaveLists, StampMatchesStatus, Fresh, EveryItemDone, ItemsIn,
                Stored, InfectedIn, AttsOf
  <1> QED BY <1>1, <1>2, <1>3, <1>4 DEF Next, LinkMessage, vars

(* While calls do not overlap, what each has read stays true until it has written.   *)
THEOREM AloneNothingGoesStale == Spec /\ []OneAtATime => []SerialInv
  BY InitSerial, SerialStep, Invariance, PTL DEF Spec

(* A list is completed exactly when its completed_at is set, as long as calls do not *)
(* overlap: updateList derives the stamp from the row it read.                       *)
THEOREM AloneStampsMatch == Spec /\ []OneAtATime => []StampMatchesStatus
  BY AloneNothingGoesStale, PTL DEF SerialInv

-----------------------------------------------------------------------------
(* The commits of the calls that are alone.                                          *)

(* A step of one call leaves the other calls where they are.                         *)
LEMMA OthersStay ==
  ASSUME TypeOK, NEW p \in Ops, Start(p) \/ Continue(p) \/ Abandon(p),
         NEW o \in Ops, o # p
  PROVE  ops'[o] = ops[o]
  <1>1. ASSUME NEW op, Goto(p, op) PROVE ops'[o] = ops[o]
    BY <1>1 DEF Goto, TypeOK
  <1>2. \E op : Goto(p, op)
    BY DEF Start, Continue, Abandon, StartCreateList, StartAddItem, StartUpdateList,
           StartUpdateItem, StartDeletePendingItem, StartMarkDone, StartRequestRevision,
           PostMessage, StartUpload, CreateList, AddItem, InsertAttachment, ScanInfected,
           ScanError, ScanClean, FireHook, CheckInfected, ReadHook, UpdateItemRow, CountItems,
           UpdateListRow, Commit, Finish
  <1> QED BY <1>1, <1>2

LEMMA CommittingCommits ==
  ASSUME TypeOK, [Next]_vars, NEW o \in Ops, Committing(o)
  PROVE  Commit(o)
  <1>0. ops[o].pc = "commit" /\ ops'[o].pc = "idle" /\ data' # data
    BY DEF Committing
  <1>1. ASSUME NEW p \in Ops, Start(p) \/ Continue(p) \/ Abandon(p) PROVE Commit(o)
    <2>1. p = o
      BY <1>0, <1>1, OthersStay
    <2>2. ~Start(o)
      BY <1>0 DEF Start, StartCreateList, StartAddItem, StartUpdateList, StartUpdateItem,
                  StartDeletePendingItem, StartMarkDone, StartRequestRevision, PostMessage,
                  StartUpload
    <2>3. ~Abandon(o)
      BY <1>0 DEF Abandon
    <2> QED BY <1>0, <1>1, <2>1, <2>2, <2>3
            DEF Continue, CreateList, AddItem, InsertAttachment, ScanInfected, ScanError,
                ScanClean, CheckInfected, ReadHook, UpdateItemRow, CountItems, UpdateListRow
  <1>2. ASSUME NEW m \in Messages, NEW i \in Items, LinkMessage(m, i) PROVE FALSE
    BY <1>0, <1>2 DEF LinkMessage
  <1>3. ~UNCHANGED vars
    BY <1>0 DEF vars, data
  <1> QED BY <1>1, <1>2, <1>3 DEF Next

LEMMA ItemsOnlyChange ==
  ASSUME [Next]_vars, items' # items
  PROVE  \E o \in Ops :
           \/ \E l \in Lists : \E seeds \in SUBSET {i \in Items : ListOf[i] = l} :
                CreateList(o, l, seeds)
           \/ \E i \in Items, t \in ResponseTypes : AddItem(o, i, t)
           \/ Commit(o)
  <1>1. ASSUME NEW o \in Ops, Start(o) \/ Abandon(o) PROVE UNCHANGED items
    BY <1>1 DEF Start, Abandon, StartCreateList, StartAddItem, StartUpdateList,
                StartUpdateItem, StartDeletePendingItem, StartMarkDone, StartRequestRevision,
                PostMessage, StartUpload, data
  <1>2. ASSUME NEW o \in Ops,
               \/ \E a \in Atts : InsertAttachment(o, a)
               \/ ScanInfected(o) \/ ScanError(o) \/ ScanClean(o) \/ CheckInfected(o)
               \/ ReadHook(o) \/ UpdateItemRow(o) \/ CountItems(o) \/ UpdateListRow(o)
        PROVE  UNCHANGED items
    BY <1>2 DEF InsertAttachment, ScanInfected, ScanError, ScanClean, CheckInfected, ReadHook,
                UpdateItemRow, CountItems, UpdateListRow, data
  <1>3. ASSUME NEW m \in Messages, NEW i \in Items, LinkMessage(m, i) PROVE UNCHANGED items
    BY <1>3 DEF LinkMessage
  <1>4. ~UNCHANGED vars
    BY DEF vars
  <1> QED BY <1>1, <1>2, <1>3, <1>4 DEF Next, Continue

(* "If the move makes every item in the list done, also auto-completes the list":    *)
(* what markDone counted still holds when it commits, if no other call is at work.   *)
THEOREM AloneMarkDoneCompletes == Spec /\ []OneAtATime => MarkDoneCompletes
  <1> DEFINE Completes == \A o \in Ops : ops[o].kind = "markDone" /\ Committing(o) =>
               LET l == ops[o].list IN
               (\A i \in ItemsIn(l) : items'[i].status = "done") => lists'[l].status # "active"
  <1>1. ASSUME IInv, SerialInv, [Next]_vars PROVE Completes
    <2> SUFFICES ASSUME NEW o \in Ops, ops[o].kind = "markDone", Committing(o),
                        \A i \in ItemsIn(ops[o].list) : items'[i].status = "done"
                 PROVE  lists'[ops[o].list].status # "active"
      OBVIOUS
    <2>1. Commit(o) /\ ops[o].pc = "commit" /\ Fresh(ops[o])
      BY <1>1, CommittingCommits DEF IInv, SerialInv, Committing
    <2>2. CASE "list" \in ops[o].held
      <3>1. lists' = [lists EXCEPT ![ops[o].list] = [status |-> "completed", stamped |-> TRUE]]
            /\ ops[o].list \in Lists
        BY <1>1, <2>1, <2>2, CommitWrites DEF ListUpdate
      <3> QED BY <1>1, <3>1 DEF IInv, TypeOK
    <2>3. CASE "list" \notin ops[o].held
      <3>1. PICK i \in ItemsIn(ops[o].list) \ {ops[o].item} : items[i].status # "done"
        BY <2>1, <2>3 DEF Fresh, EveryItemDone
      <3>2. items'[i] = items[i]
        BY <1>1, <2>1, <3>1 DEF Commit, IInv, TypeOK, ItemsIn
      <3> QED BY <3>1, <3>2
    <2> QED BY <2>2, <2>3
  <1>2. IInv /\ SerialInv /\ [Next]_vars => [Completes]_vars
    BY <1>1
  <1> QED BY <1>2, Invariance, AloneNothingGoesStale, PTL DEF Spec, MarkDoneCompletes

(* "Re-opening drops the list out of completed", and archived and cancelled lists    *)
(* are rejected: the status a revision read is the one it finds when it commits.     *)
THEOREM AloneRevisionReopens == Spec /\ []OneAtATime => RevisionLeavesListActive
  <1> DEFINE Reopens == \A o \in Ops : ops[o].kind = "requestRevision" /\ Committing(o)
                          => /\ lists[ops[o].list].status \in {"active", "completed"}
                             /\ lists'[ops[o].list].status = "active"
  <1>1. ASSUME IInv, SerialInv, [Next]_vars PROVE Reopens
    <2> SUFFICES ASSUME NEW o \in Ops, ops[o].kind = "requestRevision", Committing(o)
                 PROVE  /\ lists[ops[o].list].status \in {"active", "completed"}
                        /\ lists'[ops[o].list].status = "active"
      OBVIOUS
    <2>1. Commit(o) /\ ops[o].pc = "commit" /\ Fresh(ops[o])
      BY <1>1, CommittingCommits DEF IInv, SerialInv, Committing
    <2>2. /\ lists[ops[o].list].status \in {"active", "completed"}
          /\ "list" \notin ops[o].held => lists[ops[o].list].status = "active"
      BY <2>1 DEF Fresh
    <2>3. CASE "list" \in ops[o].held
      <3>1. lists' = [lists EXCEPT ![ops[o].list] = [status |-> "active", stamped |-> FALSE]]
            /\ ops[o].list \in Lists
        BY <1>1, <2>1, <2>3, CommitWrites DEF ListUpdate
      <3> QED BY <1>1, <2>2, <3>1 DEF IInv, TypeOK
    <2>4. CASE "list" \notin ops[o].held
      BY <2>1, <2>2, <2>4 DEF Commit
    <2> QED BY <2>3, <2>4
  <1>2. IInv /\ SerialInv /\ [Next]_vars => [Reopens]_vars
    BY <1>1
  <1> QED BY <1>2, Invariance, AloneNothingGoesStale, PTL DEF Spec, RevisionLeavesListActive

LEMMA OnlyPostsSubmit ==
  ASSUME NEW op \in OpRec, NEW row \in ItemRow, row.status # "submitted",
         row.status \in FromStates(op), ItemUpdate(op, row).status = "submitted"
  PROVE  op.kind = "messagePosted" /\ ItemUpdate(op, row).by = op.msg
  <1>1. op.kind \notin {"markDone", "requestRevision", "scanFailed", "deleteItem", "updateItem"}
    BY DEF ItemUpdate, ItemRow
  <1>2. op.kind = "messagePosted"
    BY <1>1 DEF FromStates
  <1> QED BY <1>2 DEF ItemUpdate, ItemRow

(* "Any infected attachment on the message blocks subsequent re-promotion forever":  *)
(* a message that submits an item has no infected attachment when it does.           *)
THEOREM AloneInfectedNeverSubmits == Spec /\ []OneAtATime => InfectedBlocksPromotion
  <1> DEFINE Blocks == \A i \in Items :
               items'[i].status = "submitted" /\ items[i].status # "submitted" =>
                 LET m == items'[i].by IN InfectedIn(m) = {} \/ WalkBackToCome(m)
  <1>1. ASSUME IInv, SerialInv, [Next]_vars PROVE Blocks
    <2> SUFFICES ASSUME NEW i \in Items, items'[i].status = "submitted",
                        items[i].status # "submitted"
                 PROVE  InfectedIn(items'[i].by) = {}
      OBVIOUS
    <2>0. items \in [Items -> ItemRow]
      BY <1>1 DEF IInv, TypeOK
    <2>1. ASSUME NEW o \in Ops, NEW l \in Lists,
                 NEW seeds \in SUBSET {j \in Items : ListOf[j] = l}, CreateList(o, l, seeds)
          PROVE  FALSE
      <3>1. PICK t \in ResponseTypes :
              items' = [j \in Items |->
                         IF j \in seeds THEN [FreshItem EXCEPT !.status = "pending", !.rtype = t]
                         ELSE items[j]]
        BY <2>1 DEF CreateList
      <3>2. i \in seeds
        BY <3>1
      <3> QED BY <3>1, <3>2, FreshItemTyped DEF ItemRow
    <2>2. ASSUME NEW o \in Ops, NEW j \in Items, NEW t \in ResponseTypes, AddItem(o, j, t)
          PROVE  FALSE
      BY <2>0, <2>2, FreshItemTyped DEF AddItem, ItemRow
    <2>3. ASSUME NEW o \in Ops, Commit(o) PROVE InfectedIn(items'[i].by) = {}
      <3>1. /\ ops[o] \in OpRec /\ OpOK(ops[o]) /\ Fresh(ops[o]) /\ ops[o].pc = "commit"
        BY <1>1, <2>3 DEF IInv, TypeOK, SerialInv, Commit
      <3>2. "item" \in ops[o].held /\ items' = [items EXCEPT ![ops[o].item] = ops[o].row]
        BY <2>3 DEF Commit
      <3>3. ops[o].item = i /\ items'[i] = ops[o].row
        BY <2>0, <3>2
      <3>4. items[i].status \in FromStates(ops[o]) /\ ops[o].row = ItemUpdate(ops[o], items[i])
        BY <3>1, <3>2, <3>3 DEF OpOK
      <3>5. ops[o].kind = "messagePosted" /\ items'[i].by = ops[o].msg
        BY <2>0, <3>1, <3>3, <3>4, OnlyPostsSubmit
      <3> QED BY <3>1, <3>5 DEF Fresh
    <2> QED BY <1>1, <2>1, <2>2, <2>3, ItemsOnlyChange
  <1>2. IInv /\ SerialInv /\ [Next]_vars => [Blocks]_vars
    BY <1>1
  <1> QED BY <1>2, Invariance, AloneNothingGoesStale, PTL DEF Spec, InfectedBlocksPromotion

(* The attachments: what an upload counted is what it inserts beside.                 *)
LEMMA InsertCapped ==
  ASSUME IInv, SerialInv, AttachmentCap, IsFiniteSet(Atts), MaxAtts \in Nat,
         NEW o \in Ops, NEW a \in Atts, InsertAttachment(o, a)
  PROVE  AttachmentCap'
  <1>0. /\ atts \in [Atts -> AttRow] /\ ops[o] \in OpRec /\ Fresh(ops[o]) /\ OpOK(ops[o])
        /\ ops[o].pc = "put" /\ atts[a].status = "none"
    BY DEF IInv, TypeOK, SerialInv, InsertAttachment
  <1>1. ops[o].msg \in Messages
    BY <1>0 DEF OpOK
  <1>2. atts' = [atts EXCEPT ![a] = [msg |-> ops[o].msg, status |-> "pending"]]
    BY DEF InsertAttachment
  <1>3. ASSUME NEW m \in Messages PROVE Cardinality(AttsOf(m)') <= MaxAtts
    <2>1. IsFiniteSet(AttsOf(m)) /\ Cardinality(AttsOf(m)) \in Nat
      BY FS_Subset, FS_CardinalityType DEF AttsOf
    <2>2. a \notin AttsOf(m)
      BY <1>0 DEF AttsOf, AttStatus
    <2>3. CASE m = ops[o].msg
      <3>1. AttsOf(m)' = AttsOf(m) \cup {a}
        BY <1>0, <1>2, <2>3 DEF AttsOf, AttStatus
      <3>2. Cardinality(AttsOf(m)) < MaxAtts
        BY <1>0, <2>3 DEF Fresh
      <3>3. Cardinality(AttsOf(m) \cup {a}) = Cardinality(AttsOf(m)) + 1
        BY <2>1, <2>2, FS_AddElement
      <3> QED BY <2>1, <3>1, <3>2, <3>3
    <2>4. CASE m # ops[o].msg
      <3>1. AttsOf(m)' = AttsOf(m)
        BY <1>0, <1>2, <2>4 DEF AttsOf, AttStatus
      <3> QED BY <3>1 DEF AttachmentCap
    <2> QED BY <2>3, <2>4
  <1> QED BY <1>3 DEF AttachmentCap

LEMMA ScanCapped ==
  ASSUME IInv, SerialInv, AttachmentCap, IsFiniteSet(Atts), MaxAtts \in Nat,
         NEW o \in Ops, ScanInfected(o) \/ ScanError(o) \/ ScanClean(o)
  PROVE  AttachmentCap'
  <1>0. /\ atts \in [Atts -> AttRow] /\ OpOK(ops[o]) /\ ops[o].pc = "scan"
        /\ Fresh(ops[o])
    BY ScanLeaves DEF IInv, TypeOK, SerialInv
  <1>1. ops[o].att \in Atts /\ atts[ops[o].att].status = "pending"
    BY <1>0 DEF OpOK, Fresh
  <1>2. PICK s \in {"infected", "deleted", "pending", "clean"} :
          atts' = [atts EXCEPT ![ops[o].att].status = s]
    BY DEF ScanInfected, ScanError, ScanClean
  <1>3. \A b \in Atts : /\ atts'[b].msg = atts[b].msg
                        /\ b # ops[o].att => atts'[b] = atts[b]
    BY <1>0, <1>1, <1>2 DEF AttRow
  <1>4. ASSUME NEW m \in Messages PROVE Cardinality(AttsOf(m)') <= MaxAtts
    <2>1. AttsOf(m)' \subseteq AttsOf(m)
      BY <1>1, <1>3 DEF AttsOf, AttStatus
    <2>2. IsFiniteSet(AttsOf(m))
      BY FS_Subset DEF AttsOf
    <2>3. IsFiniteSet(AttsOf(m)') /\ Cardinality(AttsOf(m)') <= Cardinality(AttsOf(m))
      BY <2>1, <2>2, FS_Subset
    <2>4. Cardinality(AttsOf(m)') \in Nat /\ Cardinality(AttsOf(m)) \in Nat
      BY <2>2, <2>3, FS_CardinalityType
    <2>5. Cardinality(AttsOf(m)) <= MaxAtts
      BY DEF AttachmentCap
    <2> QED BY <2>3, <2>4, <2>5
  <1> QED BY <1>4 DEF AttachmentCap

(* At most MaxAtts attachments per message, the "up to 10 files per submission", if  *)
(* uploads do not overlap: what one counted is still there when it inserts.          *)
THEOREM AloneAttachmentsCapped ==
  ASSUME IsFiniteSet(Atts), MaxAtts \in Nat
  PROVE  Spec /\ []OneAtATime => []AttachmentCap
  <1>1. Init => AttachmentCap
    <2> SUFFICES ASSUME Init, NEW m \in Messages PROVE Cardinality(AttsOf(m)) <= MaxAtts
      BY DEF AttachmentCap
    <2>1. AttsOf(m) = {}
      BY DEF Init, AttsOf, AttStatus
    <2> QED BY <2>1, FS_EmptySet
  <1>2. IInv /\ SerialInv /\ AttachmentCap /\ [Next]_vars => AttachmentCap'
    <2> SUFFICES ASSUME IInv, SerialInv, AttachmentCap, [Next]_vars PROVE AttachmentCap'
      OBVIOUS
    <2>1. CASE UNCHANGED atts
      BY <2>1 DEF AttachmentCap, AttsOf
    <2>2. ASSUME NEW o \in Ops, Start(o) \/ Abandon(o) PROVE UNCHANGED atts
      BY <2>2 DEF Start, Abandon, StartCreateList, StartAddItem, StartUpdateList,
                  StartUpdateItem, StartDeletePendingItem, StartMarkDone, StartRequestRevision,
                  PostMessage, StartUpload, data
    <2>3. ASSUME NEW o \in Ops, Continue(o) PROVE UNCHANGED atts \/ AttachmentCap'
      BY <2>3, InsertCapped, ScanCapped
         DEF Continue, CreateList, AddItem, CheckInfected, ReadHook, UpdateItemRow, CountItems,
             UpdateListRow, Commit, data
    <2> QED BY <2>1, <2>2, <2>3 DEF Next, LinkMessage, vars
  <1> QED BY <1>1, <1>2, Invariance, AloneNothingGoesStale, PTL DEF Spec

=============================================================================
