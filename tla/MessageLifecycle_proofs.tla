----------------------- MODULE MessageLifecycle_proofs -----------------------
(***************************************************************************)
(* Proofs about MessageLifecycle for every number of messages, keys,       *)
(* handlers, ticks and failures: what happens at most once does.  The      *)
(* inductive invariant says who holds a message: a tick that announces or  *)
(* audits it is the only one, and has not done so yet; and a handler that  *)
(* still has to insert holds the one insertion its claim is good for.      *)
(***************************************************************************)
EXTENDS MessageLifecycle, FiniteSetTheorems, TLAPS

Fresh == \A m \in Messages : ~msgs[m].stored => msgs[m] = FreshMsg

ProcOK(r) ==
  /\ r \in Proc
  /\ r.pc \in {"publish", "arm", "delete"} => r.msg \in Messages
  /\ r.pc = "answer" => r.key \in Keys /\ r.msg \in Messages
  /\ r.pc = "burn" => r.failed = {}
  /\ r.batch \cap r.failed = {}

Stored(r, rows) == r.pc \in {"arm", "delete"} => rows[r.msg].stored

Base ==
  /\ TypeOK /\ Fresh
  /\ \A p \in Procs : ProcOK(procs[p]) /\ Stored(procs[p], msgs)

(* The destruct tick. *)
Burns(p, m) == procs[p].pc = "burn" /\ m \in procs[p].batch
BurnInv ==
  /\ \A p \in Procs, m \in Messages : Burns(p, m) => msgs[m].deleted /\ burned[m] = 0
  /\ \A p, q \in Procs, m \in Messages : Burns(p, m) /\ Burns(q, m) => p = q
  /\ \A m \in Messages : burned[m] <= 1 /\ (burned[m] = 1 => msgs[m].deleted)

(* The scheduled-message tick. *)
Holds(p, m) == procs[p].pc \in {"announce", "unstamp"} /\ m \in procs[p].batch \cup procs[p].failed
TickInv ==
  /\ \A p \in Procs, m \in Messages :
       Holds(p, m) => msgs[m].stamped /\ (~msgs[m].nudge => ticked[m] = 0)
  /\ \A p, q \in Procs, m \in Messages : Holds(p, m) /\ Holds(q, m) => p = q
  /\ \A m \in Messages : ~msgs[m].nudge => ticked[m] <= 1 /\ (ticked[m] = 1 => msgs[m].stamped)

(* The claims on a key: one for every time it was collected, and the present one. *)
Pending(k) == {p \in Procs : procs[p].pc = "send" /\ procs[p].key = k}
Claims(k) == freed[k] + (IF keys[k].claimed THEN 1 ELSE 0)
KeyInv ==
  \A k \in Keys : freed[k] < Cardinality(Messages) =>
                    Cardinality(MadeWith(k)) + Cardinality(Pending(k)) <= Claims(k)

MInv == Base /\ BurnInv /\ TickInv /\ KeyInv

-----------------------------------------------------------------------------
LEMMA IdleFacts ==
  ProcOK(Idle) /\ Idle.pc = "idle"
  BY DEF ProcOK, Idle, Proc

LEMMA FreshFacts ==
  /\ FreshMsg \in MsgRow /\ ~FreshMsg.stored /\ ~FreshMsg.deleted /\ ~FreshMsg.stamped
  /\ ~FreshMsg.nudge /\ FreshMsg.key = NoKey /\ FreshMsg.timer = "off"
  BY DEF FreshMsg, MsgRow

LEMMA InitMInv == Init => MInv
  <1> SUFFICES ASSUME Init PROVE MInv
    OBVIOUS
  <1>1. Base
    BY IdleFacts, FreshFacts, ConstantsAssumption
    DEF Init, Base, TypeOK, Fresh, Stored, ProcOK, FreeKey, KeyRow
  <1>2. BurnInv /\ TickInv
    BY IdleFacts DEF Init, BurnInv, TickInv, Burns, Holds
  <1>3. KeyInv
    <2> SUFFICES ASSUME NEW k \in Keys
                 PROVE  Cardinality(MadeWith(k)) + Cardinality(Pending(k)) <= Claims(k)
      BY DEF KeyInv
    <2>1. MadeWith(k) = {} /\ Pending(k) = {}
      BY IdleFacts, FreshFacts, ConstantsAssumption DEF Init, MadeWith, Pending
    <2>2. Claims(k) = 0
      BY DEF Init, Claims, FreeKey
    <2> QED BY <2>1, <2>2, FS_EmptySet
  <1> QED BY <1>1, <1>2, <1>3 DEF MInv

(* What is left of a loop after one of its rows. *)
LEMMA RowDoneFacts ==
  ASSUME Base, NEW p \in Procs, NEW m \in procs[p].batch, NEW hasFailed \in BOOLEAN,
         RowDone(p, m, hasFailed), hasFailed => procs[p].pc = "announce",
         procs[p].pc \in {"announce", "burn"}
  PROVE  \E new : /\ procs' = [procs EXCEPT ![p] = new] /\ ProcOK(new)
                  /\ new.pc \in {"idle", "announce", "burn", "unstamp"}
                  /\ new.pc = "burn" => procs[p].pc = "burn" /\ new.batch = procs[p].batch \ {m}
                  /\ new.pc \in {"announce", "unstamp"} =>
                       /\ procs[p].pc = "announce" /\ new.batch = procs[p].batch \ {m}
                       /\ new.failed = procs[p].failed \cup (IF hasFailed THEN {m} ELSE {})
  <1> DEFINE batch == procs[p].batch \ {m}
             failed == procs[p].failed \cup (IF hasFailed THEN {m} ELSE {})
             new == [procs[p] EXCEPT !.pc = IF batch = {} THEN "unstamp" ELSE procs[p].pc,
                                     !.batch = batch, !.failed = failed]
  <1>1. ProcOK(procs[p]) /\ procs \in [Procs -> Proc]
    BY DEF Base, TypeOK
  <1>2. CASE batch = {} /\ failed = {}
    <2>1. procs' = [procs EXCEPT ![p] = Idle]
      BY <1>2 DEF RowDone, Finish, Goto
    <2> QED BY <2>1, IdleFacts
  <1>3. CASE ~(batch = {} /\ failed = {})
    <2>1. procs' = [procs EXCEPT ![p] = new]
      BY <1>1, <1>3 DEF RowDone, Goto
    <2>2. /\ new.pc = (IF batch = {} THEN "unstamp" ELSE procs[p].pc)
          /\ new.batch = batch /\ new.failed = failed
          /\ new.msg = procs[p].msg /\ new.key = procs[p].key
      BY <1>1 DEF ProcOK, Proc
    <2>3. procs[p].pc = "burn" => failed = {}
      BY <1>1 DEF ProcOK
    <2>4. new \in Proc
      BY <1>1 DEF ProcOK, Proc
    <2>5. ProcOK(new)
      BY <1>1, <1>3, <2>2, <2>3, <2>4 DEF ProcOK
    <2> HIDE DEF new
    <2>6. new.pc \in {"announce", "burn", "unstamp"}
      BY <2>2
    <2> QED BY <1>3, <2>1, <2>2, <2>3, <2>5, <2>6
  <1> QED BY <1>2, <1>3

-----------------------------------------------------------------------------
(* What each part of the invariant asks of a step that does not concern it. *)

BurnFrame ==
  /\ burned' = burned /\ \A m \in Messages : msgs[m].deleted => msgs'[m].deleted
  /\ \A p \in Procs : procs'[p].pc = "burn" =>
       procs[p].pc = "burn" /\ procs'[p].batch \subseteq procs[p].batch

TickFrame ==
  /\ ticked' = ticked
  /\ \A m \in Messages : /\ msgs[m].stamped => msgs'[m].stamped
                         /\ msgs[m].nudge => msgs'[m].nudge
  /\ \A p \in Procs : procs'[p].pc \in {"announce", "unstamp"} =>
       /\ procs[p].pc \in {"announce", "unstamp"}
       /\ procs'[p].batch \cup procs'[p].failed \subseteq procs[p].batch \cup procs[p].failed

KeyFrame ==
  /\ freed' = freed /\ \A k \in Keys : keys'[k].claimed = keys[k].claimed
  /\ \A m \in Messages : msgs'[m].key \in Keys => msgs'[m].key = msgs[m].key
  /\ \A p \in Procs : procs'[p].pc = "send" => procs[p].pc = "send" /\ procs'[p].key = procs[p].key

LEMMA BurnKept == BurnInv /\ BurnFrame => BurnInv'
  BY DEF BurnInv, BurnFrame, Burns

LEMMA TickKept == TickInv /\ TickFrame => TickInv'
  BY DEF TickInv, TickFrame, Holds

LEMMA KeySetsFinite ==
  ASSUME NEW k
  PROVE  /\ MadeWith(k) \subseteq Messages /\ Pending(k) \subseteq Procs
         /\ IsFiniteSet(MadeWith(k)) /\ IsFiniteSet(Pending(k))
         /\ Cardinality(MadeWith(k)) \in Nat /\ Cardinality(Pending(k)) \in Nat
         /\ Cardinality(MadeWith(k)) <= Cardinality(Messages) /\ Cardinality(Messages) \in Nat
  <1>1. MadeWith(k) \in SUBSET Messages /\ Pending(k) \in SUBSET Procs
    BY DEF MadeWith, Pending
  <1> QED BY <1>1, ConstantsAssumption, FS_Subset, FS_CardinalityType

LEMMA KeyKept ==
  ASSUME Base, KeyInv, KeyFrame
  PROVE  KeyInv'
  <1> SUFFICES ASSUME NEW k \in Keys, freed'[k] < Cardinality(Messages)
               PROVE  Cardinality(MadeWith(k)') + Cardinality(Pending(k)') <= Claims(k)'
    BY DEF KeyInv
  <1>1. MadeWith(k)' \in SUBSET MadeWith(k) /\ Pending(k)' \in SUBSET Pending(k)
    BY DEF MadeWith, Pending, KeyFrame
  <1>2. /\ Cardinality(MadeWith(k)') <= Cardinality(MadeWith(k)) /\ Cardinality(MadeWith(k)') \in Nat
        /\ Cardinality(Pending(k)') <= Cardinality(Pending(k)) /\ Cardinality(Pending(k)') \in Nat
    BY <1>1, KeySetsFinite, FS_Subset, FS_CardinalityType
  <1>3. Claims(k)' = Claims(k) /\ Claims(k) \in Nat
    BY DEF Claims, KeyFrame, Base, TypeOK
  <1>4. Cardinality(MadeWith(k)) + Cardinality(Pending(k)) <= Claims(k)
    BY DEF KeyInv, KeyFrame
  <1> QED BY <1>2, <1>3, <1>4, KeySetsFinite

(* One handler goes on to new. *)
LEMMA OneProc ==
  ASSUME Base, NEW p \in Procs, NEW new, ProcOK(new), procs' = [procs EXCEPT ![p] = new],
         Stored(new, msgs'), \A m \in Messages : msgs[m].stored => msgs'[m].stored
  PROVE  /\ procs' \in [Procs -> Proc]
         /\ \A q \in Procs : /\ ProcOK(procs'[q]) /\ Stored(procs'[q], msgs')
                             /\ procs'[q] = IF q = p THEN new ELSE procs[q]
  <1>1. new \in Proc /\ procs \in [Procs -> Proc]
    BY DEF ProcOK, Base, TypeOK
  <1>2. \A q \in Procs : procs'[q] = IF q = p THEN new ELSE procs[q]
    BY <1>1
  <1>3. \A q \in Procs : ProcOK(procs[q]) /\ (Stored(procs[q], msgs) => Stored(procs[q], msgs'))
    BY DEF Base, ProcOK, Stored
  <1> QED BY <1>1, <1>2, <1>3 DEF Base

(* One message changes and stays stored. *)
LEMMA OneMsg ==
  ASSUME Base, NEW m \in Messages, NEW row \in MsgRow, row.stored, msgs' = [msgs EXCEPT ![m] = row]
  PROVE  /\ msgs' \in [Messages -> MsgRow] /\ Fresh'
         /\ \A n \in Messages : msgs[n].stored => msgs'[n].stored
         /\ \A n \in Messages : msgs'[n] = IF n = m THEN row ELSE msgs[n]
  BY DEF Base, TypeOK, Fresh

(* What a step that only moves one handler out of the way keeps. *)
Leaves(r, p) ==
  \/ r.pc \in {"idle", "arm", "delete", "publish", "answer"}
  \/ /\ r.pc = "burn" /\ procs[p].pc = "burn" /\ r.batch \subseteq procs[p].batch
  \/ /\ r.pc \in {"announce", "unstamp"} /\ procs[p].pc \in {"announce", "unstamp"}
     /\ r.batch \cup r.failed \subseteq procs[p].batch \cup procs[p].failed

LEMMA QuietProc ==
  ASSUME Base, NEW p \in Procs, NEW new, ProcOK(new), procs' = [procs EXCEPT ![p] = new],
         Stored(new, msgs'), Leaves(new, p), UNCHANGED <<msgs, ticked, burned, freed>>,
         \A k \in Keys : keys'[k].claimed = keys[k].claimed,
         keys' \in [Keys -> KeyRow], \A k \in Keys : keys'[k].msg # NoMsg => keys'[k].claimed,
         failures' \in 0 .. MaxFailures, posted' \subseteq Messages, lost' \subseteq Messages
  PROVE  Base' /\ BurnFrame /\ TickFrame /\ KeyFrame
  <1>1. /\ procs' \in [Procs -> Proc]
        /\ \A q \in Procs : /\ ProcOK(procs'[q]) /\ Stored(procs'[q], msgs')
                            /\ procs'[q] = IF q = p THEN new ELSE procs[q]
    BY OneProc
  <1>2. Base'
    BY <1>1 DEF Base, TypeOK, Fresh
  <1>3. BurnFrame /\ TickFrame
    BY <1>1 DEF BurnFrame, TickFrame, Leaves
  <1>4. KeyFrame
    BY <1>1 DEF KeyFrame, Leaves
  <1> QED BY <1>2, <1>3, <1>4

LEMMA FailTyped ==
  ASSUME Base, failures' = failures \/ Fail
  PROVE  failures' \in 0 .. MaxFailures
  BY ConstantsAssumption DEF Base, TypeOK, Fail

LEMMA QuietProcSteps ==
  ASSUME MInv, NEW p \in Procs,
         \/ RefuseSend(p) \/ PublishNew(p) \/ RecordAnswer(p) \/ Abandon(p)
         \/ \E m \in Messages : StartRead(p, m) \/ StartDelete(p, m) \/ AuditBurnFails(p, m)
  PROVE  MInv'
  <1>1. Base /\ BurnInv /\ TickInv /\ KeyInv
    BY DEF MInv
  <1>2. ProcOK(procs[p]) /\ procs[p] \in Proc
    BY <1>1 DEF Base, ProcOK
  <1> SUFFICES Base' /\ BurnFrame /\ TickFrame /\ KeyFrame
    BY <1>1, BurnKept, TickKept, KeyKept DEF MInv
  <1>3. Idle.pc = "idle" /\ ProcOK(Idle) /\ Stored(Idle, msgs') /\ Leaves(Idle, p)
    BY IdleFacts DEF Stored, Leaves
  <1>4. CASE RefuseSend(p)
    <2>1. procs' = [procs EXCEPT ![p] = Idle] /\ UNCHANGED <<msgs, keys, failures, history>>
      BY <1>4 DEF RefuseSend, Finish, Goto
    <2> QED BY <1>1, <1>3, <2>1, QuietProc DEF history, Base, TypeOK
  <1>5. CASE PublishNew(p)
    <2> DEFINE new == [procs[p] EXCEPT !.pc = "answer", !.msg = procs[p].msg]
    <2>1. procs' = [procs EXCEPT ![p] = Idle] \/ (procs[p].key # NoKey /\ procs' = [procs EXCEPT ![p] = new])
      BY <1>5 DEF PublishNew, Respond, Finish, Goto
    <2>2. procs[p].msg \in Messages
      BY <1>2, <1>5 DEF ProcOK, PublishNew
    <2>3. new.pc = "answer" /\ (procs[p].key # NoKey => ProcOK(new))
      BY <1>2, <2>2 DEF ProcOK, Proc
    <2>4. Stored(new, msgs') /\ Leaves(new, p)
      BY <2>3 DEF Stored, Leaves
    <2> HIDE DEF new
    <2>5. posted' \subseteq Messages /\ UNCHANGED <<msgs, keys, failures, ticked, burned, freed, lost>>
      BY <1>1, <1>5, <2>2 DEF PublishNew, Base, TypeOK
    <2> QED BY <1>1, <1>3, <2>1, <2>3, <2>4, <2>5, QuietProc DEF Base, TypeOK
  <1>6. CASE RecordAnswer(p)
    <2>1. procs' = [procs EXCEPT ![p] = Idle] /\ UNCHANGED <<msgs, failures, history>>
      BY <1>6 DEF RecordAnswer, Finish, Goto
    <2>2. procs[p].key \in Keys /\ procs[p].msg \in Messages
      BY <1>2, <1>6 DEF ProcOK, RecordAnswer
    <2>3. /\ keys' \in [Keys -> KeyRow]
          /\ \A k \in Keys : /\ keys'[k].claimed = keys[k].claimed
                             /\ keys'[k].msg # NoMsg => keys'[k].claimed
      BY <1>1, <1>6, <2>2 DEF RecordAnswer, Base, TypeOK, KeyRow
    <2> QED BY <1>1, <1>3, <2>1, <2>3, QuietProc DEF history, Base, TypeOK
  <1>7. CASE Abandon(p)
    <2>1. procs' = [procs EXCEPT ![p] = Idle] /\ UNCHANGED <<msgs, keys, posted, ticked, burned, freed>>
      BY <1>7 DEF Abandon, Finish, Goto
    <2>2. lost' \subseteq Messages
      BY <1>1, <1>2, <1>7 DEF Abandon, Base, TypeOK, ProcOK, Proc
    <2>3. failures' \in 0 .. MaxFailures
      BY <1>1, <1>7, FailTyped DEF Abandon
    <2> QED BY <1>1, <1>3, <2>1, <2>2, <2>3, QuietProc DEF Base, TypeOK
  <1>8. ASSUME NEW m \in Messages, StartRead(p, m) \/ StartDelete(p, m)
        PROVE  Base' /\ BurnFrame /\ TickFrame /\ KeyFrame
    <2>1. PICK pc \in {"arm", "delete"} :
            procs' = [procs EXCEPT ![p] = [Idle EXCEPT !.pc = pc, !.msg = m]]
      BY <1>8 DEF StartRead, StartDelete, Goto
    <2> DEFINE new == [Idle EXCEPT !.pc = pc, !.msg = m]
    <2>2. new.pc = pc /\ new.msg = m /\ ProcOK(new)
      BY DEF ProcOK, Proc, Idle
    <2>3. UNCHANGED <<msgs, keys, failures, history>> /\ msgs[m].stored
      BY <1>8 DEF StartRead, StartDelete
    <2>4. Stored(new, msgs') /\ Leaves(new, p)
      BY <2>2, <2>3 DEF Stored, Leaves
    <2> HIDE DEF new
    <2> QED BY <1>1, <2>1, <2>2, <2>3, <2>4, QuietProc DEF history, Base, TypeOK, new
  <1>9. ASSUME NEW m \in Messages, AuditBurnFails(p, m)
        PROVE  Base' /\ BurnFrame /\ TickFrame /\ KeyFrame
    <2>1. PICK new : /\ procs' = [procs EXCEPT ![p] = new] /\ ProcOK(new)
                     /\ new.pc \in {"idle", "announce", "burn", "unstamp"}
                     /\ new.pc = "burn" => procs[p].pc = "burn" /\ new.batch = procs[p].batch \ {m}
                     /\ new.pc \in {"announce", "unstamp"} => procs[p].pc = "announce"
      BY <1>1, <1>9, RowDoneFacts DEF AuditBurnFails
    <2>2. Stored(new, msgs') /\ Leaves(new, p)
      BY <1>9, <2>1 DEF Stored, Leaves, AuditBurnFails
    <2>3. failures' \in 0 .. MaxFailures
      BY <1>1, <1>9, FailTyped DEF AuditBurnFails
    <2> QED BY <1>1, <1>9, <2>1, <2>2, <2>3, QuietProc DEF AuditBurnFails, history, Base, TypeOK
  <1> QED BY <1>4, <1>5, <1>6, <1>7, <1>8, <1>9

(* One message changes, and at most one handler moves out of the way. *)
LEMMA QuietMsg ==
  ASSUME MInv, NEW m \in Messages, NEW row \in MsgRow, row.stored,
         msgs' = [msgs EXCEPT ![m] = row],
         msgs[m].deleted => row.deleted, msgs[m].stamped => row.stamped,
         msgs[m].nudge => row.nudge, row.key \in Keys => row.key = msgs[m].key,
         \/ procs' = procs
         \/ \E p \in Procs : \E new : /\ procs' = [procs EXCEPT ![p] = new] /\ ProcOK(new)
                                      /\ Stored(new, msgs') /\ Leaves(new, p),
         UNCHANGED <<keys, failures, history>>
  PROVE  MInv'
  <1>1. Base /\ BurnInv /\ TickInv /\ KeyInv
    BY DEF MInv
  <1>2. /\ msgs' \in [Messages -> MsgRow] /\ Fresh'
        /\ \A n \in Messages : msgs[n].stored => msgs'[n].stored
        /\ \A n \in Messages : msgs'[n] = IF n = m THEN row ELSE msgs[n]
    BY <1>1, OneMsg
  <1>3. /\ procs' \in [Procs -> Proc]
        /\ \A q \in Procs : /\ ProcOK(procs'[q]) /\ Stored(procs'[q], msgs')
                            /\ procs'[q] # procs[q] => Leaves(procs'[q], q)
    <2>1. CASE procs' = procs
      <3>1. \A q \in Procs : ProcOK(procs[q]) /\ (Stored(procs[q], msgs) => Stored(procs[q], msgs'))
        BY <1>1, <1>2 DEF Base, ProcOK, Stored
      <3> QED BY <1>1, <2>1, <3>1 DEF Base, TypeOK
    <2>2. CASE \E p \in Procs : \E new : /\ procs' = [procs EXCEPT ![p] = new] /\ ProcOK(new)
                                         /\ Stored(new, msgs') /\ Leaves(new, p)
      <3>1. PICK p \in Procs : \E new : /\ procs' = [procs EXCEPT ![p] = new] /\ ProcOK(new)
                                        /\ Stored(new, msgs') /\ Leaves(new, p)
        BY <2>2
      <3>2. PICK new : /\ procs' = [procs EXCEPT ![p] = new] /\ ProcOK(new)
                       /\ Stored(new, msgs') /\ Leaves(new, p)
        BY <3>1
      <3> QED BY <1>1, <1>2, <3>2, OneProc
    <2> QED BY <2>1, <2>2
  <1>4. Base'
    BY <1>1, <1>2, <1>3 DEF Base, TypeOK, history
  <1>5. BurnFrame /\ TickFrame
    BY <1>2, <1>3 DEF BurnFrame, TickFrame, Leaves, history
  <1>6. KeyFrame
    BY <1>2, <1>3 DEF KeyFrame, Leaves, history
  <1> QED BY <1>1, <1>4, <1>5, <1>6, BurnKept, TickKept, KeyKept DEF MInv

LEMMA ClockSteps ==
  ASSUME MInv, NEW m \in Messages,
         ComesDue(m) \/ TimerElapses(m) \/ \E s \in {"later", "due"} : EnqueueNudge(m, s)
  PROVE  MInv'
  <1>1. Base /\ msgs[m] \in MsgRow /\ msgs \in [Messages -> MsgRow]
        /\ (~msgs[m].stored => msgs[m] = FreshMsg)
    BY DEF MInv, Base, TypeOK, Fresh
  <1>2. CASE ComesDue(m)
    <2> DEFINE row == [msgs[m] EXCEPT !.schedule = "due"]
    <2>1. row \in MsgRow /\ row.stored /\ row.deleted = msgs[m].deleted
          /\ row.stamped = msgs[m].stamped /\ row.nudge = msgs[m].nudge /\ row.key = msgs[m].key
      BY <1>1, <1>2 DEF MsgRow, FreshMsg, ComesDue
    <2>2. msgs' = [msgs EXCEPT ![m] = row]
      BY <1>1, <1>2 DEF ComesDue
    <2> HIDE DEF row
    <2> QED BY <1>2, <2>1, <2>2, QuietMsg DEF ComesDue
  <1>3. CASE TimerElapses(m)
    <2> DEFINE row == [msgs[m] EXCEPT !.timer = "elapsed"]
    <2>1. row \in MsgRow /\ row.stored /\ row.deleted = msgs[m].deleted
          /\ row.stamped = msgs[m].stamped /\ row.nudge = msgs[m].nudge /\ row.key = msgs[m].key
      BY <1>1, <1>3 DEF MsgRow, FreshMsg, TimerElapses
    <2>2. msgs' = [msgs EXCEPT ![m] = row]
      BY <1>1, <1>3 DEF TimerElapses
    <2> HIDE DEF row
    <2> QED BY <1>3, <2>1, <2>2, QuietMsg DEF TimerElapses
  <1>4. ASSUME NEW s \in {"later", "due"}, EnqueueNudge(m, s) PROVE MInv'
    <2> DEFINE row == [FreshMsg EXCEPT !.stored = TRUE, !.nudge = TRUE, !.schedule = s]
    <2>1. row \in MsgRow /\ row.stored /\ row.nudge /\ row.key = NoKey
      BY DEF MsgRow, FreshMsg
    <2>2. msgs' = [msgs EXCEPT ![m] = row]
      BY <1>4 DEF EnqueueNudge
    <2>3. ~msgs[m].deleted /\ ~msgs[m].stamped
      BY <1>1, <1>4, FreshFacts DEF EnqueueNudge
    <2> HIDE DEF row
    <2> QED BY <1>4, <2>1, <2>2, <2>3, QuietMsg, ConstantsAssumption DEF EnqueueNudge
  <1> QED BY <1>2, <1>3, <1>4

LEMMA QuietMsgSteps ==
  ASSUME MInv, NEW p \in Procs,
         StampDestructAt(p) \/ SoftDelete(p) \/ \E m \in Messages : SkipNudge(p, m)
  PROVE  MInv'
  <1>1. Base /\ TickInv /\ msgs \in [Messages -> MsgRow] /\ ProcOK(procs[p]) /\ Stored(procs[p], msgs)
    BY DEF MInv, Base, TypeOK
  <1>2. ProcOK(Idle) /\ \A rows : Stored(Idle, rows)
    BY IdleFacts DEF Stored
  <1>3. Leaves(Idle, p)
    BY IdleFacts DEF Leaves
  <1>4. ASSUME NEW m \in Messages, msgs[m].stored
        PROVE  LET row == [msgs[m] EXCEPT !.deleted = TRUE] IN
                 row \in MsgRow /\ row.stored /\ row.deleted
                 /\ row.stamped = msgs[m].stamped /\ row.nudge = msgs[m].nudge /\ row.key = msgs[m].key
    BY <1>1, <1>4 DEF MsgRow
  <1>5. CASE StampDestructAt(p)
    <2> DEFINE m == procs[p].msg
               row == IF msgs[m].timer = "set" /\ ~msgs[m].deleted
                      THEN [msgs[m] EXCEPT !.timer = "running"] ELSE msgs[m]
    <2>1. m \in Messages /\ msgs[m].stored /\ msgs[m] \in MsgRow
      BY <1>1, <1>5 DEF StampDestructAt, ProcOK, Stored
    <2>2. row \in MsgRow /\ row.stored /\ row.deleted = msgs[m].deleted
          /\ row.stamped = msgs[m].stamped /\ row.nudge = msgs[m].nudge /\ row.key = msgs[m].key
      BY <2>1 DEF MsgRow
    <2>3. msgs' = [msgs EXCEPT ![m] = row] /\ procs' = [procs EXCEPT ![p] = Idle]
      BY <1>1, <1>5, <2>1 DEF StampDestructAt, Finish, Goto
    <2> HIDE DEF row, m
    <2> QED BY <1>2, <1>3, <1>5, <2>1, <2>2, <2>3, QuietMsg DEF StampDestructAt
  <1>6. CASE SoftDelete(p)
    <2> DEFINE m == procs[p].msg
               row == [msgs[m] EXCEPT !.deleted = TRUE]
    <2>1. m \in Messages /\ msgs[m].stored
      BY <1>1, <1>6 DEF SoftDelete, ProcOK, Stored
    <2>2. row \in MsgRow /\ row.stored /\ row.deleted
          /\ row.stamped = msgs[m].stamped /\ row.nudge = msgs[m].nudge /\ row.key = msgs[m].key
      BY <1>4, <2>1
    <2>3. msgs' = [msgs EXCEPT ![m] = row] /\ procs' = [procs EXCEPT ![p] = Idle]
      BY <1>1, <1>6 DEF SoftDelete, Finish, Goto
    <2> HIDE DEF row, m
    <2> QED BY <1>2, <1>3, <1>6, <2>1, <2>2, <2>3, QuietMsg DEF SoftDelete
  <1>7. ASSUME NEW m \in Messages, SkipNudge(p, m) PROVE MInv'
    <2> DEFINE row == [msgs[m] EXCEPT !.deleted = TRUE]
    <2>1. msgs[m].stamped
      BY <1>1, <1>7 DEF SkipNudge, TickInv, Holds
    <2>2. msgs[m].stored
      BY <1>1, <2>1, FreshFacts DEF Base, Fresh
    <2>3. row \in MsgRow /\ row.stored /\ row.deleted
          /\ row.stamped = msgs[m].stamped /\ row.nudge = msgs[m].nudge /\ row.key = msgs[m].key
      BY <1>4, <2>2
    <2>4. msgs' = [msgs EXCEPT ![m] = row] /\ UNCHANGED <<keys, failures, history>>
      BY <1>1, <1>7 DEF SkipNudge
    <2>5. PICK new : /\ procs' = [procs EXCEPT ![p] = new] /\ ProcOK(new)
                     /\ new.pc \in {"idle", "announce", "burn", "unstamp"}
                     /\ new.pc = "burn" => procs[p].pc = "burn"
                     /\ new.pc \in {"announce", "unstamp"} =>
                          /\ new.batch = procs[p].batch \ {m}
                          /\ new.failed = procs[p].failed
      <3> DEFINE none == FALSE
      <3>1. m \in procs[p].batch /\ RowDone(p, m, none) /\ procs[p].pc = "announce"
        BY <1>7 DEF SkipNudge
      <3>2. none \in BOOLEAN /\ ~none
        OBVIOUS
      <3> HIDE DEF none
      <3>3. PICK new : /\ procs' = [procs EXCEPT ![p] = new] /\ ProcOK(new)
                       /\ new.pc \in {"idle", "announce", "burn", "unstamp"}
                       /\ new.pc = "burn" => procs[p].pc = "burn"
                       /\ new.pc \in {"announce", "unstamp"} =>
                            /\ new.batch = procs[p].batch \ {m}
                            /\ new.failed = procs[p].failed \cup (IF none THEN {m} ELSE {})
        BY <1>1, <3>1, <3>2, RowDoneFacts
      <3>4. (IF none THEN {m} ELSE {}) = {} /\ procs[p].failed \cup {} = procs[p].failed
        BY <3>2
      <3> QED BY <3>3, <3>4
    <2>6. Stored(new, msgs') /\ Leaves(new, p)
      BY <1>7, <2>5 DEF Stored, Leaves, SkipNudge
    <2> HIDE DEF row
    <2> QED BY <2>3, <2>4, <2>5, <2>6, QuietMsg
  <1> QED BY <1>5, <1>6, <1>7

-----------------------------------------------------------------------------
(* The destruct tick. *)

LEMMA ClaimElapsedStep ==
  ASSUME MInv, NEW p \in Procs, ClaimElapsed(p)
  PROVE  MInv'
  <1>1. Base /\ BurnInv /\ TickInv /\ KeyInv
    BY DEF MInv
  <1> DEFINE new == [Idle EXCEPT !.pc = "burn", !.batch = ElapsedRows]
             rows == ElapsedRows
  <1>2. new.pc = "burn" /\ new.batch = rows /\ ProcOK(new) /\ Stored(new, msgs')
    BY DEF ProcOK, Proc, Idle, Stored, ElapsedRows
  <1>3. procs' = [procs EXCEPT ![p] = new] /\ procs[p].pc = "idle"
    BY DEF ClaimElapsed, Goto
  <1>4. UNCHANGED <<keys, failures, history>>
    BY DEF ClaimElapsed
  <1>5. \A m \in rows : m \in Messages /\ ~msgs[m].deleted /\ msgs[m].stored
    BY <1>1, FreshFacts DEF ElapsedRows, Base, Fresh
  <1>6. msgs' = [m \in Messages |-> IF m \in rows THEN [msgs[m] EXCEPT !.deleted = TRUE] ELSE msgs[m]]
    BY DEF ClaimElapsed
  <1>7. \A m \in Messages : LET row == [msgs[m] EXCEPT !.deleted = TRUE] IN
          row \in MsgRow /\ row.deleted /\ row.stored = msgs[m].stored
          /\ row.stamped = msgs[m].stamped /\ row.nudge = msgs[m].nudge /\ row.key = msgs[m].key
    BY <1>1 DEF Base, TypeOK, MsgRow
  <1> HIDE DEF new, rows
  <1>8. \A m \in Messages : /\ msgs'[m] \in MsgRow /\ msgs'[m].stored = msgs[m].stored
                            /\ msgs'[m].stamped = msgs[m].stamped /\ msgs'[m].nudge = msgs[m].nudge
                            /\ msgs'[m].key = msgs[m].key
                            /\ msgs'[m].deleted = (m \in rows \/ msgs[m].deleted)
                            /\ ~msgs[m].stored => msgs'[m] = msgs[m]
    <2> TAKE m \in Messages
    <2>1. msgs[m] \in MsgRow /\ msgs[m].deleted \in BOOLEAN
      BY <1>1 DEF Base, TypeOK, MsgRow
    <2> QED BY <1>5, <1>6, <1>7, <2>1
  <1>9. msgs' \in [Messages -> MsgRow] /\ Fresh'
    BY <1>1, <1>6, <1>8 DEF Fresh, Base
  <1>10. /\ procs' \in [Procs -> Proc]
         /\ \A q \in Procs : /\ ProcOK(procs'[q]) /\ Stored(procs'[q], msgs')
                             /\ procs'[q] = IF q = p THEN new ELSE procs[q]
    BY <1>1, <1>2, <1>3, <1>8, OneProc
  <1>11. Base'
    BY <1>1, <1>4, <1>9, <1>10 DEF Base, TypeOK, history
  <1>12. TickFrame
    BY <1>2, <1>4, <1>8, <1>10 DEF TickFrame, history
  <1>13. KeyFrame
    BY <1>2, <1>4, <1>8, <1>10 DEF KeyFrame, history
  <1>14. BurnInv'
    <2>1. \A m \in Messages : burned[m] \in Nat /\ (~msgs[m].deleted => burned[m] = 0)
      BY <1>1 DEF BurnInv, Base, TypeOK
    <2>2. \A q \in Procs, m \in Messages :
            Burns(q, m)' => (q = p /\ m \in rows) \/ (q # p /\ Burns(q, m) /\ m \notin rows)
      BY <1>1, <1>2, <1>5, <1>10 DEF Burns, BurnInv
    <2>3. burned' = burned /\ \A m \in rows : burned[m] = 0
      BY <1>4, <1>5, <2>1 DEF history
    <2>4. \A q \in Procs, m \in Messages : Burns(q, m)' => msgs'[m].deleted /\ burned'[m] = 0
      BY <1>1, <1>8, <2>2, <2>3 DEF BurnInv
    <2>5. \A q, r \in Procs, m \in Messages : Burns(q, m)' /\ Burns(r, m)' => q = r
      BY <1>1, <2>2 DEF BurnInv
    <2>6. \A m \in Messages : burned'[m] <= 1 /\ (burned'[m] = 1 => msgs'[m].deleted)
      BY <1>1, <1>8, <2>3 DEF BurnInv
    <2> QED BY <2>4, <2>5, <2>6 DEF BurnInv
  <1> QED BY <1>1, <1>11, <1>12, <1>13, <1>14, TickKept, KeyKept DEF MInv

LEMMA AuditBurnStep ==
  ASSUME MInv, NEW p \in Procs, NEW m \in Messages, AuditBurn(p, m)
  PROVE  MInv'
  <1>1. Base /\ BurnInv /\ TickInv /\ KeyInv
    BY DEF MInv
  <1>2. PICK new : /\ procs' = [procs EXCEPT ![p] = new] /\ ProcOK(new)
                   /\ new.pc \in {"idle", "announce", "burn", "unstamp"}
                   /\ new.pc = "burn" => new.batch = procs[p].batch \ {m}
                   /\ new.pc \in {"announce", "unstamp"} => procs[p].pc = "announce"
    BY <1>1, RowDoneFacts DEF AuditBurn
  <1>3. UNCHANGED <<msgs, keys, failures, posted, ticked, freed, lost>>
    BY DEF AuditBurn
  <1>4. Burns(p, m)
    BY DEF AuditBurn, Burns
  <1>5. new.pc \in {"idle", "burn"} /\ Stored(new, msgs')
    BY <1>2 DEF AuditBurn, Stored
  <1>6. /\ procs' \in [Procs -> Proc]
        /\ \A q \in Procs : /\ ProcOK(procs'[q]) /\ Stored(procs'[q], msgs')
                            /\ procs'[q] = IF q = p THEN new ELSE procs[q]
    BY <1>1, <1>2, <1>3, <1>5, OneProc
  <1>7. burned \in [Messages -> Nat] /\ burned' = [burned EXCEPT ![m] = burned[m] + 1]
    BY <1>1 DEF AuditBurn, Base, TypeOK
  <1>8. Base'
    BY <1>1, <1>3, <1>6, <1>7 DEF Base, TypeOK, Fresh
  <1>9. TickFrame
    BY <1>3, <1>5, <1>6 DEF TickFrame
  <1>10. KeyFrame
    BY <1>3, <1>5, <1>6 DEF KeyFrame
  <1>11. BurnInv'
    <2>1. \A q \in Procs, n \in Messages : Burns(q, n)' => Burns(q, n) /\ n # m
      <3> SUFFICES ASSUME NEW q \in Procs, NEW n \in Messages, Burns(q, n)'
                   PROVE  Burns(q, n) /\ n # m
        OBVIOUS
      <3>1. CASE q = p
        BY <1>2, <1>4, <1>6, <3>1 DEF Burns
      <3>2. CASE q # p
        <4>1. Burns(q, n)
          BY <1>6, <3>2 DEF Burns
        <4> QED BY <1>1, <1>4, <3>2, <4>1 DEF BurnInv
      <3> QED BY <3>1, <3>2
    <2>2. burned[m] = 0 /\ msgs[m].deleted
      BY <1>1, <1>4 DEF BurnInv
    <2>3. \A n \in Messages : burned'[n] = IF n = m THEN 1 ELSE burned[n]
      BY <1>7, <2>2
    <2> QED BY <1>1, <1>3, <2>1, <2>2, <2>3 DEF BurnInv
  <1> QED BY <1>1, <1>8, <1>9, <1>10, <1>11, TickKept, KeyKept DEF MInv

-----------------------------------------------------------------------------
(* The scheduled-message tick. *)

LEMMA ClaimDueStep ==
  ASSUME MInv, NEW p \in Procs, ClaimDue(p)
  PROVE  MInv'
  <1>1. Base /\ BurnInv /\ TickInv /\ KeyInv
    BY DEF MInv
  <1> DEFINE new == [Idle EXCEPT !.pc = "announce", !.batch = DueRows]
             rows == DueRows
  <1>2. new.pc = "announce" /\ new.batch = rows /\ new.failed = {} /\ ProcOK(new) /\ Stored(new, msgs')
    BY DEF ProcOK, Proc, Idle, Stored, DueRows
  <1>3. procs' = [procs EXCEPT ![p] = new] /\ procs[p].pc = "idle"
    BY DEF ClaimDue, Goto
  <1>4. UNCHANGED <<keys, failures, history>>
    BY DEF ClaimDue
  <1>5. \A m \in rows : m \in Messages /\ ~msgs[m].stamped /\ msgs[m].stored
    <2>1. \A m \in rows : m \in Messages /\ ~msgs[m].stamped /\ msgs[m].schedule = "due"
      BY DEF DueRows
    <2>2. FreshMsg.schedule # "due"
      BY DEF FreshMsg
    <2> QED BY <1>1, <2>1, <2>2 DEF Base, Fresh
  <1>6. msgs' = [m \in Messages |-> IF m \in rows THEN [msgs[m] EXCEPT !.stamped = TRUE] ELSE msgs[m]]
    BY DEF ClaimDue
  <1>7. \A m \in Messages : LET row == [msgs[m] EXCEPT !.stamped = TRUE] IN
          row \in MsgRow /\ row.stamped /\ row.stored = msgs[m].stored
          /\ row.deleted = msgs[m].deleted /\ row.nudge = msgs[m].nudge /\ row.key = msgs[m].key
    <2> TAKE m \in Messages
    <2>1. msgs[m] \in MsgRow
      BY <1>1 DEF Base, TypeOK
    <2> QED BY <2>1 DEF MsgRow
  <1> HIDE DEF new, rows
  <1>8. \A m \in Messages : /\ msgs'[m] \in MsgRow /\ msgs'[m].stored = msgs[m].stored
                            /\ msgs'[m].deleted = msgs[m].deleted /\ msgs'[m].nudge = msgs[m].nudge
                            /\ msgs'[m].key = msgs[m].key
                            /\ msgs'[m].stamped = (m \in rows \/ msgs[m].stamped)
                            /\ ~msgs[m].stored => msgs'[m] = msgs[m]
    <2> TAKE m \in Messages
    <2>1. msgs[m] \in MsgRow /\ msgs[m].stamped \in BOOLEAN
      BY <1>1 DEF Base, TypeOK, MsgRow
    <2> QED BY <1>5, <1>6, <1>7, <2>1
  <1>9. msgs' \in [Messages -> MsgRow] /\ Fresh'
    BY <1>1, <1>6, <1>8 DEF Fresh, Base
  <1>10. /\ procs' \in [Procs -> Proc]
         /\ \A q \in Procs : /\ ProcOK(procs'[q]) /\ Stored(procs'[q], msgs')
                             /\ procs'[q] = IF q = p THEN new ELSE procs[q]
    BY <1>1, <1>2, <1>3, <1>8, OneProc
  <1>11. Base'
    BY <1>1, <1>4, <1>9, <1>10 DEF Base, TypeOK, history
  <1>12. BurnFrame
    BY <1>2, <1>4, <1>8, <1>10 DEF BurnFrame, history
  <1>13. KeyFrame
    BY <1>2, <1>4, <1>8, <1>10 DEF KeyFrame, history
  <1>14. TickInv'
    <2>1. \A m \in Messages : ticked[m] \in Nat
                              /\ (~msgs[m].nudge /\ ~msgs[m].stamped => ticked[m] = 0)
      BY <1>1 DEF TickInv, Base, TypeOK
    <2>2. \A q \in Procs, m \in Messages :
            Holds(q, m)' => (q = p /\ m \in rows) \/ (q # p /\ Holds(q, m) /\ m \notin rows)
      BY <1>1, <1>2, <1>5, <1>10 DEF Holds, TickInv
    <2>3. ticked' = ticked /\ \A m \in rows : ~msgs[m].nudge => ticked[m] = 0
      BY <1>4, <1>5, <2>1 DEF history
    <2>4. \A q \in Procs, m \in Messages :
            Holds(q, m)' => msgs'[m].stamped /\ (~msgs'[m].nudge => ticked'[m] = 0)
      BY <1>1, <1>8, <2>2, <2>3 DEF TickInv
    <2>5. \A q, r \in Procs, m \in Messages : Holds(q, m)' /\ Holds(r, m)' => q = r
      BY <1>1, <2>2 DEF TickInv
    <2>6. \A m \in Messages :
            ~msgs'[m].nudge => ticked'[m] <= 1 /\ (ticked'[m] = 1 => msgs'[m].stamped)
      BY <1>1, <1>8, <2>3 DEF TickInv
    <2> QED BY <2>4, <2>5, <2>6 DEF TickInv
  <1> QED BY <1>1, <1>11, <1>12, <1>13, <1>14, BurnKept, KeyKept DEF MInv

LEMMA AnnounceSteps ==
  ASSUME MInv, NEW p \in Procs, NEW m \in Messages, Announce(p, m) \/ AnnounceFails(p, m)
  PROVE  MInv'
  <1>1. Base /\ BurnInv /\ TickInv /\ KeyInv
    BY DEF MInv
  <1>2. PICK hasFailed \in BOOLEAN :
          /\ RowDone(p, m, hasFailed) /\ m \in procs[p].batch /\ procs[p].pc = "announce"
          /\ ticked' = ticked \/ ticked' = [ticked EXCEPT ![m] = ticked[m] + 1]
          /\ hasFailed => msgs[m].nudge \/ ticked' = ticked
    <2>1. CASE Announce(p, m)
      <3> WITNESS FALSE \in BOOLEAN
      <3> QED BY <2>1 DEF Announce
    <2>2. CASE AnnounceFails(p, m)
      <3> WITNESS TRUE \in BOOLEAN
      <3> QED BY <2>2 DEF AnnounceFails
    <2> QED BY <2>1, <2>2
  <1>3. PICK new : /\ procs' = [procs EXCEPT ![p] = new] /\ ProcOK(new)
                   /\ new.pc \in {"idle", "announce", "burn", "unstamp"}
                   /\ new.pc = "burn" => procs[p].pc = "burn" /\ new.batch = procs[p].batch \ {m}
                   /\ new.pc \in {"announce", "unstamp"} =>
                        /\ procs[p].pc = "announce" /\ new.batch = procs[p].batch \ {m}
                        /\ new.failed = procs[p].failed \cup (IF hasFailed THEN {m} ELSE {})
    BY <1>1, <1>2, RowDoneFacts
  <1>4. UNCHANGED <<msgs, keys, posted, burned, freed, lost>> /\ failures' \in 0 .. MaxFailures
    BY <1>1, FailTyped DEF Announce, AnnounceFails
  <1>5. new.pc \in {"idle", "announce", "unstamp"} /\ Stored(new, msgs')
    BY <1>2, <1>3 DEF Stored
  <1>6. /\ procs' \in [Procs -> Proc]
        /\ \A q \in Procs : /\ ProcOK(procs'[q]) /\ Stored(procs'[q], msgs')
                            /\ procs'[q] = IF q = p THEN new ELSE procs[q]
    BY <1>1, <1>3, <1>4, <1>5, OneProc
  <1>7. /\ ticked \in [Messages -> Nat] /\ ticked' \in [Messages -> Nat]
        /\ \A n \in Messages : n # m => ticked'[n] = ticked[n]
        /\ (ticked'[m] = ticked[m] \/ ticked'[m] = ticked[m] + 1)
    BY <1>1, <1>2 DEF Base, TypeOK
  <1>8. Base'
    BY <1>1, <1>4, <1>6, <1>7 DEF Base, TypeOK, Fresh
  <1>9. BurnFrame
    BY <1>4, <1>5, <1>6 DEF BurnFrame
  <1>10. KeyFrame
    BY <1>4, <1>5, <1>6 DEF KeyFrame
  <1>11. TickInv'
    <2>1. Holds(p, m) /\ m \notin procs[p].failed
      BY <1>1, <1>2 DEF Holds, Base, ProcOK
    <2>2. msgs[m].stamped /\ (~msgs[m].nudge => ticked[m] = 0)
      BY <1>1, <2>1 DEF TickInv
    <2>3. \A q \in Procs, n \in Messages :
            Holds(q, n)' => Holds(q, n) /\ (n = m => q = p /\ hasFailed)
      <3> SUFFICES ASSUME NEW q \in Procs, NEW n \in Messages, Holds(q, n)'
                   PROVE  Holds(q, n) /\ (n = m => q = p /\ hasFailed)
        OBVIOUS
      <3>1. CASE q = p
        <4>1. new.pc \in {"announce", "unstamp"} /\ n \in new.batch \cup new.failed
          BY <1>6, <3>1 DEF Holds
        <4>2. CASE n = m
          BY <1>3, <2>1, <3>1, <4>1, <4>2
        <4>3. CASE n # m
          BY <1>2, <1>3, <3>1, <4>1, <4>3 DEF Holds
        <4> QED BY <4>2, <4>3
      <3>2. CASE q # p
        <4>1. Holds(q, n)
          BY <1>6, <3>2 DEF Holds
        <4> QED BY <1>1, <2>1, <3>2, <4>1 DEF TickInv
      <3> QED BY <3>1, <3>2
    <2>4. \A q \in Procs, n \in Messages :
            Holds(q, n)' => msgs'[n].stamped /\ (~msgs'[n].nudge => ticked'[n] = 0)
      <3> SUFFICES ASSUME NEW q \in Procs, NEW n \in Messages, Holds(q, n)'
                   PROVE  msgs[n].stamped /\ (~msgs[n].nudge => ticked'[n] = 0)
        BY <1>4
      <3>1. Holds(q, n) /\ msgs[n].stamped /\ (~msgs[n].nudge => ticked[n] = 0)
        BY <1>1, <2>3 DEF TickInv
      <3>2. CASE n = m
        BY <1>2, <2>3, <3>1, <3>2
      <3>3. CASE n # m
        BY <1>7, <3>1, <3>3
      <3> QED BY <3>2, <3>3
    <2>5. \A q, r \in Procs, n \in Messages : Holds(q, n)' /\ Holds(r, n)' => q = r
      BY <1>1, <2>3 DEF TickInv
    <2>6. \A n \in Messages :
            ~msgs'[n].nudge => ticked'[n] <= 1 /\ (ticked'[n] = 1 => msgs'[n].stamped)
      <3> SUFFICES ASSUME NEW n \in Messages, ~msgs[n].nudge
                   PROVE  ticked'[n] <= 1 /\ (ticked'[n] = 1 => msgs[n].stamped)
        BY <1>4
      <3>1. CASE n = m
        <4>1. ~msgs[m].nudge
          BY <3>1
        <4>2. ticked[m] = 0 /\ msgs[m].stamped
          BY <2>2, <4>1
        <4>3. ticked'[m] = 0 \/ ticked'[m] = 1
          BY <1>7, <4>2
        <4>4. ticked'[n] <= 1
          BY <3>1, <4>3
        <4> QED BY <3>1, <4>2, <4>4
      <3>2. CASE n # m
        BY <1>1, <1>7, <3>2 DEF TickInv
      <3> QED BY <3>1, <3>2
    <2> QED BY <2>4, <2>5, <2>6 DEF TickInv
  <1> QED BY <1>1, <1>8, <1>9, <1>10, <1>11, BurnKept, KeyKept DEF MInv

LEMMA UnstampStep ==
  ASSUME MInv, NEW p \in Procs, Unstamp(p)
  PROVE  MInv'
  <1>1. Base /\ BurnInv /\ TickInv /\ KeyInv
    BY DEF MInv
  <1> DEFINE rows == procs[p].failed
  <1>2. procs' = [procs EXCEPT ![p] = Idle] /\ UNCHANGED <<keys, failures, history>>
    BY DEF Unstamp, Finish, Goto
  <1>3. msgs' = [m \in Messages |-> IF m \in rows THEN [msgs[m] EXCEPT !.stamped = FALSE] ELSE msgs[m]]
    BY DEF Unstamp
  <1>4. \A m \in rows : m \in Messages /\ Holds(p, m)
    BY <1>1 DEF Base, ProcOK, Proc, Holds, Unstamp
  <1>5. \A m \in rows : msgs[m].stamped /\ (~msgs[m].nudge => ticked[m] = 0) /\ msgs[m].stored
    BY <1>1, <1>4, FreshFacts DEF TickInv, Base, Fresh
  <1>6. \A m \in Messages : LET row == [msgs[m] EXCEPT !.stamped = FALSE] IN
          row \in MsgRow /\ ~row.stamped /\ row.stored = msgs[m].stored
          /\ row.deleted = msgs[m].deleted /\ row.nudge = msgs[m].nudge /\ row.key = msgs[m].key
    <2> TAKE m \in Messages
    <2>1. msgs[m] \in MsgRow
      BY <1>1 DEF Base, TypeOK
    <2> QED BY <2>1 DEF MsgRow
  <1>7. \A m \in Messages : /\ msgs'[m] \in MsgRow /\ msgs'[m].stored = msgs[m].stored
                            /\ msgs'[m].deleted = msgs[m].deleted /\ msgs'[m].nudge = msgs[m].nudge
                            /\ msgs'[m].key = msgs[m].key
                            /\ (m \notin rows => msgs'[m] = msgs[m])
                            /\ (~msgs[m].stored => msgs'[m] = msgs[m])
    <2> TAKE m \in Messages
    <2>1. msgs[m] \in MsgRow
      BY <1>1 DEF Base, TypeOK
    <2> HIDE DEF rows
    <2> QED BY <1>3, <1>5, <1>6, <2>1
  <1>8. msgs' \in [Messages -> MsgRow] /\ Fresh'
    BY <1>1, <1>3, <1>7 DEF Fresh, Base
  <1>9. Idle.pc = "idle" /\ ProcOK(Idle) /\ Stored(Idle, msgs')
    BY IdleFacts DEF Stored
  <1>10. /\ procs' \in [Procs -> Proc]
         /\ \A q \in Procs : /\ ProcOK(procs'[q]) /\ Stored(procs'[q], msgs')
                             /\ procs'[q] = IF q = p THEN Idle ELSE procs[q]
    BY <1>1, <1>2, <1>7, <1>9, OneProc
  <1>11. Base'
    BY <1>1, <1>2, <1>8, <1>10 DEF Base, TypeOK, history
  <1>12. BurnFrame
    BY <1>2, <1>7, <1>9, <1>10 DEF BurnFrame, history
  <1>13. KeyFrame
    BY <1>2, <1>7, <1>9, <1>10 DEF KeyFrame, history
  <1>14. TickInv'
    <2>1. \A q \in Procs, m \in Messages : Holds(q, m)' => q # p /\ Holds(q, m) /\ m \notin rows
      BY <1>1, <1>4, <1>9, <1>10 DEF Holds, TickInv
    <2>2. ticked' = ticked /\ \A m \in Messages : ticked[m] \in Nat
      BY <1>1, <1>2 DEF history, Base, TypeOK
    <2>3. \A q \in Procs, m \in Messages :
            Holds(q, m)' => msgs'[m].stamped /\ (~msgs'[m].nudge => ticked'[m] = 0)
      BY <1>1, <1>7, <2>1, <2>2 DEF TickInv
    <2>4. \A q, r \in Procs, m \in Messages : Holds(q, m)' /\ Holds(r, m)' => q = r
      BY <1>1, <2>1 DEF TickInv
    <2>5. \A m \in Messages :
            ~msgs'[m].nudge => ticked'[m] <= 1 /\ (ticked'[m] = 1 => msgs'[m].stamped)
      BY <1>1, <1>5, <1>7, <2>2 DEF TickInv
    <2> QED BY <2>3, <2>4, <2>5 DEF TickInv
  <1> QED BY <1>1, <1>11, <1>12, <1>13, <1>14, BurnKept, KeyKept DEF MInv

-----------------------------------------------------------------------------
(* The claims on a key. *)

LEMMA StartSendStep ==
  ASSUME MInv, NEW p \in Procs, NEW k \in Keys \cup {NoKey}, StartSend(p, k)
  PROVE  MInv'
  <1>1. Base /\ BurnInv /\ TickInv /\ KeyInv
    BY DEF MInv
  <1> DEFINE new == [Idle EXCEPT !.pc = "send", !.key = k]
  <1>2. new.pc = "send" /\ new.key = k /\ ProcOK(new) /\ Stored(new, msgs')
    BY DEF ProcOK, Proc, Idle, Stored
  <1>3. procs[p].pc = "idle" /\ procs' = [procs EXCEPT ![p] = new]
        /\ UNCHANGED <<msgs, failures, history>>
    BY DEF StartSend, Goto
  <1>4. /\ keys' \in [Keys -> KeyRow]
        /\ \A j \in Keys : keys'[j].msg # NoMsg => keys'[j].claimed
        /\ \A j \in Keys : j # k => keys'[j].claimed = keys[j].claimed
        /\ k \in Keys => ~keys[k].claimed /\ keys'[k].claimed
    <2>1. keys \in [Keys -> KeyRow] /\ \A j \in Keys : keys[j].msg # NoMsg => keys[j].claimed
      BY <1>1 DEF Base, TypeOK
    <2>2. CASE k = NoKey
      BY <2>1, <2>2, ConstantsAssumption DEF StartSend
    <2>3. CASE k \in Keys
      <3>1. ~keys[k].claimed /\ keys' = [keys EXCEPT ![k] = [claimed |-> TRUE, msg |-> NoMsg]]
        BY <2>3, ConstantsAssumption DEF StartSend
      <3> QED BY <2>1, <2>3, <3>1 DEF KeyRow
    <2> QED BY <2>2, <2>3
  <1> HIDE DEF new
  <1>5. /\ procs' \in [Procs -> Proc]
        /\ \A q \in Procs : /\ ProcOK(procs'[q]) /\ Stored(procs'[q], msgs')
                            /\ procs'[q] = IF q = p THEN new ELSE procs[q]
    BY <1>1, <1>2, <1>3, OneProc
  <1>6. Base'
    BY <1>1, <1>3, <1>4, <1>5 DEF Base, TypeOK, Fresh, history
  <1>7. BurnFrame /\ TickFrame
    BY <1>2, <1>3, <1>5 DEF BurnFrame, TickFrame, history
  <1>8. KeyInv'
    <2> SUFFICES ASSUME NEW j \in Keys, freed'[j] < Cardinality(Messages)
                 PROVE  Cardinality(MadeWith(j)') + Cardinality(Pending(j)') <= Claims(j)'
      BY DEF KeyInv
    <2>1. freed' = freed /\ MadeWith(j)' = MadeWith(j) /\ freed[j] \in Nat
      BY <1>1, <1>3 DEF MadeWith, history, Base, TypeOK
    <2>2. Cardinality(MadeWith(j)) + Cardinality(Pending(j)) <= Claims(j)
      BY <1>1, <2>1 DEF KeyInv
    <2>3. CASE j = k
      <3>1. Pending(j)' = Pending(j) \cup {p} /\ p \notin Pending(j)
        BY <1>2, <1>3, <1>5, <2>3 DEF Pending
      <3>2. Cardinality(Pending(j)') = Cardinality(Pending(j)) + 1
        BY <3>1, KeySetsFinite, FS_AddElement
      <3>3. Claims(j) = freed[j] /\ Claims(j)' = freed[j] + 1
        BY <1>4, <2>1, <2>3 DEF Claims
      <3> QED BY <2>1, <2>2, <3>2, <3>3, KeySetsFinite
    <2>4. CASE j # k
      <3>1. Pending(j)' = Pending(j)
        BY <1>2, <1>3, <1>5, <2>4 DEF Pending
      <3>2. Claims(j)' = Claims(j)
        BY <1>4, <2>1, <2>4 DEF Claims
      <3> QED BY <2>1, <2>2, <3>1, <3>2
    <2> QED BY <2>3, <2>4
  <1> QED BY <1>1, <1>6, <1>7, <1>8, BurnKept, TickKept DEF MInv

LEMMA InsertMessageStep ==
  ASSUME MInv, NEW p \in Procs, NEW m \in Messages, NEW send \in Sends, InsertMessage(p, m, send)
  PROVE  MInv'
  <1>1. Base /\ BurnInv /\ TickInv /\ KeyInv
    BY DEF MInv
  <1> DEFINE row == [FreshMsg EXCEPT !.stored = TRUE, !.key = procs[p].key,
                                     !.schedule = send.schedule, !.timer = send.timer]
             own == procs[p].key
  <1>2. ProcOK(procs[p]) /\ procs[p].pc = "send" /\ own \in Keys \cup {NoKey} /\ procs[p] \in Proc
    BY <1>1 DEF Base, ProcOK, Proc, InsertMessage
  <1>3. row \in MsgRow /\ row.stored /\ row.key = own
    BY <1>2, ConstantsAssumption DEF MsgRow, FreshMsg
  <1>4. msgs' = [msgs EXCEPT ![m] = row] /\ ~msgs[m].stored /\ UNCHANGED <<keys, failures, history>>
    BY DEF InsertMessage
  <1>5. msgs[m] = FreshMsg
    BY <1>1, <1>4 DEF Base, Fresh
  <1>6. \E new : /\ procs' = [procs EXCEPT ![p] = new] /\ ProcOK(new)
                 /\ new.pc \in {"publish", "answer", "idle"}
    <2>1. CASE procs' = [procs EXCEPT ![p] = Idle]
      BY <2>1, IdleFacts
    <2>2. ASSUME NEW pc \in {"publish", "answer"}, pc = "answer" => own # NoKey,
                 procs' = [procs EXCEPT ![p] = [procs[p] EXCEPT !.msg = m, !.pc = pc]]
          PROVE  \E new : /\ procs' = [procs EXCEPT ![p] = new] /\ ProcOK(new)
                          /\ new.pc \in {"publish", "answer", "idle"}
      <3> DEFINE new == [procs[p] EXCEPT !.msg = m, !.pc = pc]
      <3>1. new.pc = pc /\ new.msg = m /\ ProcOK(new)
        BY <1>2, <2>2 DEF ProcOK, Proc
      <3>2. new.pc \in {"publish", "answer", "idle"}
        BY <3>1
      <3> HIDE DEF new
      <3>3. procs' = [procs EXCEPT ![p] = new]
        BY <2>2 DEF new
      <3> QED BY <3>1, <3>2, <3>3
    <2>3. \/ procs' = [procs EXCEPT ![p] = Idle]
          \/ procs' = [procs EXCEPT ![p] = [procs[p] EXCEPT !.msg = m, !.pc = "publish"]]
          \/ own # NoKey /\ procs' = [procs EXCEPT ![p] = [procs[p] EXCEPT !.msg = m, !.pc = "answer"]]
      BY DEF InsertMessage, Respond, Finish, Goto
    <2> QED BY <2>1, <2>2, <2>3
  <1>7. PICK new : /\ procs' = [procs EXCEPT ![p] = new] /\ ProcOK(new)
                   /\ new.pc \in {"publish", "answer", "idle"}
    BY <1>6
  <1> HIDE DEF row, own
  <1>8. /\ msgs' \in [Messages -> MsgRow] /\ Fresh'
        /\ \A n \in Messages : msgs[n].stored => msgs'[n].stored
        /\ \A n \in Messages : msgs'[n] = IF n = m THEN row ELSE msgs[n]
    BY <1>1, <1>3, <1>4, OneMsg
  <1>9. Stored(new, msgs')
    BY <1>7 DEF Stored
  <1>10. /\ procs' \in [Procs -> Proc]
         /\ \A q \in Procs : /\ ProcOK(procs'[q]) /\ Stored(procs'[q], msgs')
                             /\ procs'[q] = IF q = p THEN new ELSE procs[q]
    BY <1>1, <1>7, <1>8, <1>9, OneProc
  <1>11. Base'
    BY <1>1, <1>4, <1>8, <1>10 DEF Base, TypeOK, history
  <1>12. ~msgs[m].deleted /\ ~msgs[m].stamped /\ ~msgs[m].nudge /\ msgs[m].key = NoKey
    BY <1>5, FreshFacts
  <1>13. BurnFrame /\ TickFrame
    BY <1>4, <1>7, <1>8, <1>10, <1>12 DEF BurnFrame, TickFrame, history
  <1>14. KeyInv'
    <2> SUFFICES ASSUME NEW j \in Keys, freed'[j] < Cardinality(Messages)
                 PROVE  Cardinality(MadeWith(j)') + Cardinality(Pending(j)') <= Claims(j)'
      BY DEF KeyInv
    <2>1. freed' = freed /\ Claims(j)' = Claims(j) /\ Claims(j) \in Nat
      BY <1>1, <1>4 DEF Claims, history, Base, TypeOK
    <2>2. Cardinality(MadeWith(j)) + Cardinality(Pending(j)) <= Claims(j)
      BY <1>1, <2>1 DEF KeyInv
    <2>3. j # NoKey
      BY ConstantsAssumption
    <2>4. CASE j = own
      <3>1. MadeWith(j)' = MadeWith(j) \cup {m} /\ m \notin MadeWith(j)
        BY <1>3, <1>8, <1>12, <2>3, <2>4 DEF MadeWith
      <3>2. Pending(j)' = Pending(j) \ {p} /\ p \in Pending(j)
        BY <1>2, <1>7, <1>10, <2>4 DEF Pending, own
      <3>3. Cardinality(MadeWith(j)') = Cardinality(MadeWith(j)) + 1
        BY <3>1, KeySetsFinite, FS_AddElement
      <3>4. Cardinality(Pending(j)') = Cardinality(Pending(j)) - 1
        BY <3>2, KeySetsFinite, FS_RemoveElement
      <3> QED BY <2>1, <2>2, <3>3, <3>4, KeySetsFinite
    <2>5. CASE j # own
      <3>1. MadeWith(j)' = MadeWith(j)
        BY <1>3, <1>8, <1>12, <2>3, <2>5 DEF MadeWith
      <3>2. Pending(j)' = Pending(j)
        BY <1>2, <1>7, <1>10, <2>5 DEF Pending, own
      <3> QED BY <2>1, <2>2, <3>1, <3>2
    <2> QED BY <2>4, <2>5
  <1> QED BY <1>1, <1>11, <1>13, <1>14, BurnKept, TickKept DEF MInv

LEMMA CollectStep ==
  ASSUME MInv, NEW k \in Keys, Collect(k)
  PROVE  MInv'
  <1>1. Base /\ BurnInv /\ TickInv /\ KeyInv
    BY DEF MInv
  <1>2. /\ keys[k].claimed /\ keys' = [keys EXCEPT ![k] = FreeKey]
        /\ UNCHANGED <<msgs, procs, failures, posted, ticked, burned, lost>>
    BY DEF Collect
  <1>3. /\ freed' \in [Keys -> Nat] /\ freed \in [Keys -> Nat]
        /\ \A j \in Keys : j # k => freed'[j] = freed[j]
        /\ freed'[k] = IF freed[k] < Cardinality(Messages) THEN freed[k] + 1 ELSE freed[k]
    BY <1>1 DEF Collect, Base, TypeOK
  <1>4. Base'
    BY <1>1, <1>2, <1>3 DEF Base, TypeOK, Fresh, FreeKey, KeyRow
  <1>5. BurnFrame /\ TickFrame
    BY <1>2 DEF BurnFrame, TickFrame
  <1>6. KeyInv'
    <2> SUFFICES ASSUME NEW j \in Keys, freed'[j] < Cardinality(Messages)
                 PROVE  Cardinality(MadeWith(j)') + Cardinality(Pending(j)') <= Claims(j)'
      BY DEF KeyInv
    <2>1. MadeWith(j)' = MadeWith(j) /\ Pending(j)' = Pending(j)
      BY <1>2 DEF MadeWith, Pending
    <2>2. freed[j] < Cardinality(Messages)
      BY <1>3, KeySetsFinite
    <2>3. Cardinality(MadeWith(j)) + Cardinality(Pending(j)) <= Claims(j)
      BY <1>1, <2>2 DEF KeyInv
    <2>4. Claims(j)' = Claims(j)
      <3>1. CASE j = k
        <4>1. freed'[k] = freed[k] + 1 /\ keys[k].claimed /\ ~keys'[k].claimed
          BY <1>1, <1>2, <1>3, <2>2, <3>1 DEF Base, TypeOK, FreeKey
        <4> QED BY <1>3, <3>1, <4>1 DEF Claims
      <3>2. CASE j # k
        BY <1>1, <1>2, <1>3, <3>2 DEF Claims, Base, TypeOK
      <3> QED BY <3>1, <3>2
    <2> QED BY <2>1, <2>3, <2>4
  <1> QED BY <1>1, <1>4, <1>5, <1>6, BurnKept, TickKept DEF MInv

-----------------------------------------------------------------------------
LEMMA NextMInv == MInv /\ [Next]_vars => MInv'
  <1> SUFFICES ASSUME MInv, [Next]_vars PROVE MInv'
    OBVIOUS
  <1>1. CASE UNCHANGED vars
    <2>1. Base /\ BurnInv /\ TickInv /\ KeyInv
      BY DEF MInv
    <2>2. Base' /\ BurnFrame /\ TickFrame /\ KeyFrame
      BY <1>1, <2>1 DEF vars, Base, TypeOK, Fresh, BurnFrame, TickFrame, KeyFrame
    <2> QED BY <2>1, <2>2, BurnKept, TickKept, KeyKept DEF MInv
  <1>2. ASSUME NEW p \in Procs, Request(p) PROVE MInv'
    BY <1>2, StartSendStep, QuietProcSteps DEF Request
  <1>3. ASSUME NEW p \in Procs, ClaimDue(p) PROVE MInv'
    BY <1>3, ClaimDueStep
  <1>4. ASSUME NEW p \in Procs, ClaimElapsed(p) PROVE MInv'
    BY <1>4, ClaimElapsedStep
  <1>5. ASSUME NEW p \in Procs, Step(p) PROVE MInv'
    BY <1>5, QuietProcSteps, InsertMessageStep, QuietMsgSteps, AnnounceSteps, AuditBurnStep, UnstampStep
    DEF Step
  <1>6. ASSUME NEW p \in Procs, Failure(p) PROVE MInv'
    BY <1>6, AnnounceSteps, QuietProcSteps DEF Failure
  <1>7. CASE Clock \/ \E m \in Messages, s \in {"later", "due"} : EnqueueNudge(m, s)
    BY <1>7, ClockSteps, CollectStep DEF Clock
  <1> QED BY <1>1, <1>2, <1>3, <1>4, <1>5, <1>6, <1>7 DEF Next

LEMMA SpecMInv == Spec => []MInv
  BY InitMInv, NextMInv, PTL DEF Spec, Unfair

(* A placeholder, a claimed key and a row that is not claimed are told apart, and a *)
(* late answer does not bring back a collected row (PATCH of the answer is an       *)
(* UPDATE); every handler works on rows that exist.                                 *)
THEOREM MessagesTypeCorrect == Spec => []TypeOK
  <1>1. MInv => TypeOK
    BY DEF MInv, Base
  <1> QED BY <1>1, SpecMInv, PTL

(* destructMessages.ts: the UPDATE hands an elapsed message to one tick, so its     *)
(* message.destructed is audited at most once however many ticks and servers        *)
(* overlap and whoever deletes it meanwhile.                                        *)
THEOREM BurnsAreAuditedOnce == Spec => []BurnedOnce
  <1>1. MInv => BurnedOnce
    BY DEF MInv, BurnInv, BurnedOnce
  <1> QED BY <1>1, SpecMInv, PTL

(* scheduledMessages.ts: a scheduled message of a member is announced at most once  *)
(* by the ticks, with failed broadcasts un-stamped and tried again by any of them.  *)
THEOREM MessagesTickOnce == Spec => []TickedOnce
  <1>1. MInv => TickedOnce
    BY DEF MInv, TickInv, TickedOnce
  <1> QED BY <1>1, SpecMInv, PTL

(* conversations.ts: between two collections of its row an idempotency key makes    *)
(* one message, whatever retries, refusals, crashes and late answers overlap.       *)
THEOREM KeyMakesOneMessage == Spec => []OneMessagePerKey
  <1>1. MInv => OneMessagePerKey
    <2> SUFFICES ASSUME MInv, NEW k \in Keys PROVE Cardinality(MadeWith(k)) <= 1 + freed[k]
      BY DEF OneMessagePerKey
    <2>1. freed[k] \in Nat /\ Claims(k) <= freed[k] + 1 /\ Claims(k) \in Nat
      BY DEF MInv, Base, TypeOK, Claims
    <2>2. CASE freed[k] < Cardinality(Messages)
      <3>1. Cardinality(MadeWith(k)) + Cardinality(Pending(k)) <= Claims(k)
        BY <2>2 DEF MInv, KeyInv
      <3> QED BY <2>1, <3>1, KeySetsFinite
    <2>3. CASE ~(freed[k] < Cardinality(Messages))
      BY <2>1, <2>3, KeySetsFinite
    <2> QED BY <2>2, <2>3
  <1> QED BY <1>1, SpecMInv, PTL

LEMMA ElapsedStays ==
  ASSUME MInv, [Next]_vars, NEW m \in Messages, msgs[m].timer = "elapsed"
  PROVE  msgs'[m].timer = "elapsed"
  <1>1. msgs \in [Messages -> MsgRow] /\ msgs[m] \in MsgRow
        /\ \A n \in Messages : ~msgs[n].stored => n # m
    BY FreshFacts DEF MInv, Base, TypeOK, Fresh
  <1>2. CASE UNCHANGED msgs
    BY <1>2
  <1>3. ASSUME NEW p \in Procs, NEW n \in Messages, NEW send, InsertMessage(p, n, send)
        PROVE  msgs'[m].timer = "elapsed"
    BY <1>1, <1>3 DEF InsertMessage
  <1>4. ASSUME NEW n \in Messages, NEW s, EnqueueNudge(n, s) PROVE msgs'[m].timer = "elapsed"
    BY <1>1, <1>4 DEF EnqueueNudge
  <1>5. ASSUME NEW p \in Procs, ClaimDue(p) \/ ClaimElapsed(p) \/ Unstamp(p)
        PROVE  msgs'[m].timer = "elapsed"
    <2>1. \/ msgs'[m] = msgs[m]
          \/ msgs'[m] = [msgs[m] EXCEPT !.stamped = TRUE]
          \/ msgs'[m] = [msgs[m] EXCEPT !.stamped = FALSE]
          \/ msgs'[m] = [msgs[m] EXCEPT !.deleted = TRUE]
      BY <1>5, Zenon DEF ClaimDue, ClaimElapsed, Unstamp
    <2> QED BY <1>1, <2>1 DEF MsgRow
  <1>6. ASSUME NEW p \in Procs, StampDestructAt(p) PROVE msgs'[m].timer = "elapsed"
    <2> DEFINE n == procs[p].msg
    <2>1. \/ msgs' = msgs
          \/ msgs[n].timer = "set" /\ msgs' = [msgs EXCEPT ![n] = [msgs[n] EXCEPT !.timer = "running"]]
      BY <1>1, <1>6 DEF StampDestructAt
    <2> HIDE DEF n
    <2> QED BY <1>1, <2>1
  <1>7. ASSUME NEW n, NEW row, row.timer = msgs[n].timer \/ row.timer = "elapsed",
               msgs' = [msgs EXCEPT ![n] = row]
        PROVE  msgs'[m].timer = "elapsed"
    BY <1>1, <1>7
  <1>8. ASSUME NEW p \in Procs, SoftDelete(p) \/ \E n \in Messages : SkipNudge(p, n)
        PROVE  msgs'[m].timer = "elapsed"
    <2>1. PICK n : n \in Messages /\ msgs' = [msgs EXCEPT ![n] = [msgs[n] EXCEPT !.deleted = TRUE]]
      BY <1>1, <1>8 DEF SoftDelete, SkipNudge, MInv, Base, ProcOK
    <2>2. msgs[n] \in MsgRow
      BY <1>1, <2>1
    <2>3. [msgs[n] EXCEPT !.deleted = TRUE].timer = msgs[n].timer
      BY <2>2 DEF MsgRow
    <2> QED BY <1>7, <2>1, <2>3
  <1>9. ASSUME NEW n \in Messages, ComesDue(n) \/ TimerElapses(n)
        PROVE  msgs'[m].timer = "elapsed"
    <2>1. msgs[n] \in MsgRow
      BY <1>1
    <2>2. CASE ComesDue(n)
      <3>1. [msgs[n] EXCEPT !.schedule = "due"].timer = msgs[n].timer
        BY <2>1 DEF MsgRow
      <3>2. msgs' = [msgs EXCEPT ![n] = [msgs[n] EXCEPT !.schedule = "due"]]
        BY <2>2 DEF ComesDue
      <3> QED BY <1>7, <3>1, <3>2
    <2>3. CASE TimerElapses(n)
      <3>1. [msgs[n] EXCEPT !.timer = "elapsed"].timer = "elapsed"
        BY <2>1 DEF MsgRow
      <3>2. msgs' = [msgs EXCEPT ![n] = [msgs[n] EXCEPT !.timer = "elapsed"]]
        BY <2>3 DEF TimerElapses
      <3> QED BY <1>7, <3>1, <3>2
    <2> QED BY <1>9, <2>2, <2>3
  <1>10. CASE \E p \in Procs : \/ Request(p) \/ Failure(p)
                               \/ RefuseSend(p) \/ PublishNew(p) \/ RecordAnswer(p)
                               \/ \E n \in Messages : Announce(p, n) \/ AuditBurn(p, n)
    <2>1. UNCHANGED msgs
      BY <1>10 DEF Request, Failure, StartSend, StartRead, StartDelete, AnnounceFails, AuditBurnFails,
                   Abandon, RefuseSend, PublishNew, RecordAnswer, Announce, AuditBurn
    <2> QED BY <2>1
  <1>11. CASE UNCHANGED vars \/ \E k \in Keys : Collect(k)
    <2>1. UNCHANGED msgs
      BY <1>11 DEF vars, Collect
    <2> QED BY <2>1
  <1> QED BY <1>3, <1>4, <1>5, <1>6, <1>8, <1>9, <1>10, <1>11 DEF Next, Step, Clock

(* destructMessages.ts, conversations.ts: destruct_at is stamped only where it is   *)
(* null, so a read that started before another read's stamp does not move it.       *)
THEOREM TimerIsNeverPostponed == Spec => TimerNeverPostponed
  <1>1. MInv /\ [Next]_vars =>
          [\A m \in Messages : msgs[m].timer = "elapsed" => msgs'[m].timer = "elapsed"]_vars
    BY ElapsedStays
  <1> QED BY <1>1, SpecMInv, PTL DEF Spec, Unfair, TimerNeverPostponed

===============================================================================
