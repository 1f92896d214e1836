----------------------------- MODULE Intake_proofs -----------------------------
(***************************************************************************)
(* Proofs about the intake, for any number of sessions, uploads, rows,     *)
(* users and failures.  Of its notifications (IntakeOutbox): a row reaches  *)
(* somebody again only after a send whose answer was lost, and what is      *)
(* recorded as sent was delivered.  Of its sessions (IntakeSessions): what  *)
(* is listed is stored until its purge, and a session's row goes after its  *)
(* blobs.                                                                   *)
(***************************************************************************)
EXTENDS IntakeOutbox, IntakeSessions, TLAPS


(* Rows that are out, as far as the memory of the tickers goes, those they have claimed, *)
(* and those that may still be retried.                                                  *)
Out(r) == r \in client.sent \/ r \in staff.sent
Claimed(r) == r \in client.todo \/ r \in client.sent \/ r \in staff.todo
Open(r) == (rows[r].st \in {"none", "pending", "deferred"} \/ Claimed(r)) /\ ~Out(r)
Waiting(r) ==
  /\ rows[r].st \in {"none", "pending"} \/ r \in client.todo \/ (r \in staff.todo /\ staff.pc = "rows")
  /\ ~Out(r)

Typed ==
  /\ TypeOK
  /\ client \in [todo: SUBSET ClientRows, sent: SUBSET ClientRows]
  /\ staff \in [pc: {"idle", "digests", "claim", "rows"},
                todo: SUBSET StaffRows, sent: SUBSET StaffRows]

(* What the tickers have in memory. *)
Phases ==
  /\ client.todo \cap client.sent = {}
  /\ staff.sent \subseteq staff.todo
  /\ staff.pc \in {"idle", "claim"} => staff.todo = {}

(* A row that is open was delivered only in doubt, so that it may be delivered once more. *)
(* But for a digest, a doubt costs one of its attempts.                                    *)
RowInv(r) ==
  /\ Claimed(r) => rows[r].st \in {"sending", "gone"}
  /\ delivered[r] <= doubts[r] + (IF Open(r) THEN 0 ELSE 1)
  /\ Waiting(r) => rows[r].attempts < MaxAttempts
  /\ r \notin Mails => /\ delivered[r] <= MaxAttempts
                       /\ Waiting(r) => delivered[r] <= rows[r].attempts
                       /\ rows[r].st = "sent" \/ Out(r) => delivered[r] > 0

OInv == Typed /\ Phases /\ \A r \in Rows : RowInv(r)

-----------------------------------------------------------------------------
LEMMA RowsApart == ClientRows \cap StaffRows = {} /\ Mails \subseteq StaffRows
                   /\ ClientRows \subseteq Rows /\ StaffRows \subseteq Rows
  BY DEF ClientRows, StaffRows, Mails

LEMMA InitOInv == Init => OInv
  <1> SUFFICES ASSUME Init PROVE OInv
    OBVIOUS
  <1>1. client = [todo |-> {}, sent |-> {}] /\ staff = [pc |-> "idle", todo |-> {}, sent |-> {}]
        /\ failures = MaxFailures /\ changes = MaxChanges /\ users \in [Users -> UserRow] /\ down = FALSE
    BY DEF Init
  <1>2. /\ rows \in [Rows -> RowState] /\ delivered \in [Rows -> Nat] /\ doubts \in [Rows -> Nat]
        /\ \A r \in Rows : /\ rows[r].st = "none" /\ rows[r].attempts = 0
                           /\ delivered[r] = 0 /\ doubts[r] = 0
    BY OutboxAssumption DEF Init, RowState
  <1>3. Typed
    <2>1. down \in BOOLEAN
      BY <1>1
    <2>2. failures \in 0 .. MaxFailures /\ changes \in 0 .. MaxChanges
      BY <1>1, OutboxAssumption
    <2> QED BY <1>1, <1>2, <2>1, <2>2 DEF Typed, TypeOK
  <1>4. Phases
    BY <1>1 DEF Phases
  <1>5. ASSUME NEW r \in Rows PROVE RowInv(r)
    BY <1>1, <1>2, OutboxAssumption DEF RowInv, Claimed, Waiting, Out, Open
  <1> QED BY <1>3, <1>4, <1>5 DEF OInv

-----------------------------------------------------------------------------
(* An UPDATE by id. *)
LEMMA Updated ==
  ASSUME Typed, NEW rs \in SUBSET Rows,
         NEW st \in {"sending", "sent", "failed"}, Update(rs, st)
  PROVE  /\ rows' \in [Rows -> RowState]
         /\ \A r \in Rows : /\ rows'[r].attempts = rows[r].attempts /\ rows'[r].due = rows[r].due
                            /\ r \in rs /\ rows[r].st # "gone" => rows'[r].st = st
                            /\ r \notin rs \/ rows[r].st = "gone" => rows'[r] = rows[r]
  <1>1. \A r \in Rows : rows[r] \in RowState
    BY DEF Typed, TypeOK
  <1>2. \A r \in Rows : LET row == [rows[r] EXCEPT !.st = st] IN
          row \in RowState /\ row.st = st /\ row.attempts = rows[r].attempts /\ row.due = rows[r].due
    BY <1>1 DEF RowState
  <1> QED BY <1>1, <1>2 DEF Update

(* A send that threw. *)
LEMMA RetriedRow ==
  ASSUME Typed, NEW r \in Rows, rows[r].attempts < MaxAttempts
  PROVE  /\ Retried(r) \in RowState
         /\ rows[r].st = "gone" => Retried(r) = rows[r]
         /\ rows[r].st # "gone" =>
              /\ Retried(r).st \in {"pending", "failed"}
              /\ Retried(r).attempts = rows[r].attempts + 1
              /\ Retried(r).st = "pending" => Retried(r).attempts < MaxAttempts
  <1>1. rows[r] \in RowState
    BY DEF Typed, TypeOK
  <1>2. rows[r].attempts \in Nat /\ MaxAttempts \in Nat
    BY <1>1, OutboxAssumption DEF RowState
  <1> QED BY <1>1, <1>2 DEF Retried, RowState

LEMMA FailFacts ==
  ASSUME TypeOK, Fail \/ UNCHANGED failures
  PROVE  failures' \in 0 .. MaxFailures
  BY OutboxAssumption DEF TypeOK, Fail

LEMMA CountedFacts ==
  ASSUME NEW f \in [Rows -> Nat], NEW rs
  PROVE  /\ Counted(f, rs) \in [Rows -> Nat]
         /\ \A r \in Rows : Counted(f, rs)[r] = IF r \in rs THEN f[r] + 1 ELSE f[r]
  BY DEF Counted

(* A provider that throws has either delivered nothing or raised a doubt. *)
LEMMA ThrowsFacts ==
  ASSUME Typed, NEW rs, Throws(rs)
  PROVE  /\ delivered' \in [Rows -> Nat] /\ doubts' \in [Rows -> Nat] /\ failures' \in 0 .. MaxFailures
         /\ \E n \in {0, 1} : \A r \in Rows :
              /\ delivered'[r] = delivered[r] + (IF r \in rs THEN n ELSE 0)
              /\ doubts'[r] = doubts[r] + (IF r \in rs THEN n ELSE 0)
  <1>1. delivered \in [Rows -> Nat] /\ doubts \in [Rows -> Nat] /\ TypeOK
    BY DEF Typed, TypeOK
  <1>2. CASE UNCHANGED <<delivered, doubts, failures>>
    <2>1. \A r \in Rows : /\ delivered'[r] = delivered[r] + (IF r \in rs THEN 0 ELSE 0)
                          /\ doubts'[r] = doubts[r] + (IF r \in rs THEN 0 ELSE 0)
      BY <1>1, <1>2
    <2> QED BY <1>1, <1>2, <2>1, FailFacts
  <1>3. CASE Fail /\ delivered' = Counted(delivered, rs) /\ doubts' = Counted(doubts, rs)
    <2>1. /\ delivered' \in [Rows -> Nat] /\ doubts' \in [Rows -> Nat]
          /\ \A r \in Rows : /\ delivered'[r] = IF r \in rs THEN delivered[r] + 1 ELSE delivered[r]
                             /\ doubts'[r] = IF r \in rs THEN doubts[r] + 1 ELSE doubts[r]
      BY <1>1, <1>3, CountedFacts
    <2>2. \A r \in Rows : /\ delivered'[r] = delivered[r] + (IF r \in rs THEN 1 ELSE 0)
                          /\ doubts'[r] = doubts[r] + (IF r \in rs THEN 1 ELSE 0)
      BY <1>1, <2>1
    <2>3. failures' \in 0 .. MaxFailures
      BY <1>1, <1>3, FailFacts
    <2> QED BY <2>1, <2>2, <2>3
  <1> QED BY <1>2, <1>3 DEF Throws

-----------------------------------------------------------------------------
(* What every step owes to a row whose place in the memory of the tickers it keeps, or *)
(* gives up.                                                                           *)
LEMMA RowKept ==
  ASSUME Typed, Phases, NEW r \in Rows, RowInv(r),
         rows'[r] = rows[r], delivered'[r] = delivered[r], doubts'[r] = doubts[r],
         r \in client.todo' => r \in client.todo,
         r \in client.sent' => r \in client.sent,
         r \in staff.todo' => r \in staff.todo /\ staff.pc' = staff.pc,
         r \in client.todo \/ r \in client.sent \/ r \in staff.todo \/ ~Out(r)',
         Claimed(r)' => (Out(r)' <=> Out(r)),
         Out(r)' => Claimed(r)'
  PROVE  RowInv(r)'
  <1>1. rows[r] \in RowState /\ delivered[r] \in Nat /\ doubts[r] \in Nat
    BY DEF Typed, TypeOK
  <1>2. Out(r) => Claimed(r)
    BY DEF Phases, Out, Claimed
  <1>3. Claimed(r)' => Claimed(r)
    BY DEF Claimed
  <1>4. Open(r)' => Open(r)
    BY <1>2, <1>3 DEF Open, RowInv
  <1>5. Waiting(r)' => Waiting(r)
    BY <1>2, <1>3 DEF Waiting, RowInv, Claimed
  <1>6. Out(r)' => Out(r)
    OBVIOUS
  <1> QED BY <1>1, <1>3, <1>4, <1>5, <1>6, OutboxAssumption DEF RowInv, RowState

(* The parts of the invariant that are not about a row. *)
LEMMA Assembled ==
  ASSUME rows' \in [Rows -> RowState], users' \in [Users -> UserRow],
         client' \in [todo: SUBSET ClientRows, sent: SUBSET ClientRows],
         staff' \in [pc: {"idle", "digests", "claim", "rows"},
                     todo: SUBSET StaffRows, sent: SUBSET StaffRows],
         staff'.pc = "digests" => staff'.todo \subseteq Mails,
         down' \in BOOLEAN, delivered' \in [Rows -> Nat], doubts' \in [Rows -> Nat],
         failures' \in 0 .. MaxFailures, changes' \in 0 .. MaxChanges,
         Phases', \A r \in Rows : RowInv(r)'
  PROVE  OInv'
  BY DEF OInv, Typed, TypeOK

LEMMA PreferenceSteps ==
  ASSUME OInv, ProviderTurns \/ \E u \in Users : ChangeMode(u) \/ Deactivate(u)
  PROVE  OInv'
  <1>0. Typed /\ TypeOK /\ Phases /\ \A r \in Rows : RowInv(r)
    BY DEF OInv, Typed
  <1>1. UNCHANGED <<rows, client, staff, delivered, doubts, failures>>
    BY DEF ProviderTurns, ChangeMode, Deactivate
  <1>2. \A u \in Users : /\ \A mode \in {"realtime", "digest", "in_app_only"} :
                              [users[u] EXCEPT !.mode = mode] \in UserRow
                         /\ [users[u] EXCEPT !.active = FALSE] \in UserRow
    BY <1>0 DEF TypeOK, UserRow
  <1>3. users' \in [Users -> UserRow] /\ down' \in BOOLEAN
    <2>1. CASE ProviderTurns
      BY <1>0, <2>1 DEF TypeOK, ProviderTurns
    <2>2. CASE \E u \in Users : ChangeMode(u)
      BY <1>0, <1>2, <2>2 DEF TypeOK, ChangeMode
    <2>3. CASE \E u \in Users : Deactivate(u)
      BY <1>0, <1>2, <2>3 DEF TypeOK, Deactivate
    <2> QED BY <2>1, <2>2, <2>3
  <1>4. changes' \in 0 .. MaxChanges
    BY <1>0, OutboxAssumption DEF TypeOK, ProviderTurns, ChangeMode, Deactivate
  <1>5. \A r \in Rows : RowInv(r)'
    BY <1>0, <1>1 DEF RowInv, Claimed, Open, Waiting, Out
  <1>6. Phases'
    BY <1>0, <1>1 DEF Phases
  <1> QED BY <1>0, <1>1, <1>3, <1>4, <1>5, <1>6, Assembled DEF Typed, TypeOK

LEMMA RowSteps ==
  ASSUME OInv, NEW q \in Rows, Enqueue(q) \/ Mature(q) \/ Cascade(q)
  PROVE  OInv'
  <1>0. Typed /\ TypeOK /\ Phases /\ (\A r \in Rows : RowInv(r)) /\ rows[q] \in RowState
        /\ \A r \in Rows : delivered[r] \in Nat /\ doubts[r] \in Nat
    BY DEF OInv, Typed, TypeOK
  <1>1. UNCHANGED <<users, client, staff, down, delivered, doubts, failures>>
        /\ changes' \in 0 .. MaxChanges
    BY <1>0, OutboxAssumption DEF TypeOK, Enqueue, Mature, Cascade
  <1>2. PICK row \in RowState :
          /\ rows' = [rows EXCEPT ![q] = row]
          /\ row.attempts = rows[q].attempts
          /\ \/ row.st = "gone"
             \/ row.st = "pending" /\ rows[q].st = "none"
             \/ row.st = rows[q].st
    <2>1. CASE Enqueue(q)
      <3> DEFINE row == [rows[q] EXCEPT !.st = "pending", !.due = TRUE]
      <3>1. rows' = [rows EXCEPT ![q] = row]
        BY <2>1, Zenon DEF Enqueue
      <3>2. row \in RowState /\ row.attempts = rows[q].attempts /\ row.st = "pending"
        BY <1>0 DEF RowState
      <3> HIDE DEF row
      <3> QED BY <2>1, <3>1, <3>2 DEF Enqueue
    <2>2. CASE Mature(q)
      <3> DEFINE row == [rows[q] EXCEPT !.due = TRUE]
      <3>1. rows' = [rows EXCEPT ![q] = row]
        BY <2>2 DEF Mature
      <3>2. row \in RowState /\ row.attempts = rows[q].attempts /\ row.st = rows[q].st
        BY <1>0 DEF RowState
      <3> HIDE DEF row
      <3> QED BY <3>1, <3>2
    <2>3. CASE Cascade(q)
      <3> DEFINE row == [rows[q] EXCEPT !.st = "gone"]
      <3>1. rows' = [rows EXCEPT ![q] = row]
        BY <2>3 DEF Cascade
      <3>2. row \in RowState /\ row.attempts = rows[q].attempts /\ row.st = "gone"
        BY <1>0 DEF RowState
      <3> HIDE DEF row
      <3> QED BY <3>1, <3>2
    <2> QED BY <2>1, <2>2, <2>3
  <1>4. ASSUME NEW r \in Rows PROVE RowInv(r)'
    <2>1. CASE r # q
      <3>1. rows'[r] = rows[r]
        BY <1>0, <1>2, <2>1 DEF TypeOK
      <3> QED BY <1>0, <1>1, <3>1 DEF RowInv, Claimed, Open, Waiting, Out
    <2>2. CASE r = q
      <3>1. rows'[r] = row /\ RowInv(r)
        BY <1>0, <1>2, <2>2 DEF TypeOK
      <3>2. (Claimed(r)' <=> Claimed(r)) /\ (Out(r)' <=> Out(r)) /\ (Open(r)' => Open(r))
            /\ (Waiting(r)' => Waiting(r))
        BY <1>1, <1>2, <2>2, <3>1 DEF Claimed, Out, Open, Waiting
      <3>3. Claimed(r)' => rows'[r].st \in {"sending", "gone"}
        BY <1>2, <2>2, <3>1, <3>2 DEF RowInv
      <3>4. rows'[r].st = "sent" => rows[r].st = "sent"
        BY <1>2, <2>2, <3>1
      <3> QED BY <1>0, <1>1, <1>2, <2>2, <3>1, <3>2, <3>3, <3>4 DEF RowInv
    <2> QED BY <2>1, <2>2
  <1>5. rows' \in [Rows -> RowState]
    BY <1>0, <1>2 DEF TypeOK
  <1>6. Phases'
    BY <1>0, <1>1 DEF Phases
  <1> QED BY <1>0, <1>1, <1>4, <1>5, <1>6, Assembled DEF Typed, TypeOK

(* What was claimed stays sending, and no tick claims it again. *)
LEMMA CrashStep ==
  ASSUME OInv, Crash PROVE OInv'
  <1>0. Typed /\ TypeOK /\ Phases /\ \A r \in Rows : RowInv(r)
    BY DEF OInv, Typed
  <1>1. /\ UNCHANGED <<rows, users, down, delivered, doubts, changes>>
        /\ client' = [todo |-> {}, sent |-> {}] /\ staff' = [pc |-> "idle", todo |-> {}, sent |-> {}]
        /\ Fail
    BY DEF Crash, StaffIdle
  <1>2. failures' \in 0 .. MaxFailures
    BY <1>0, <1>1, FailFacts
  <1>3. ASSUME NEW r \in Rows PROVE RowInv(r)'
    <2>1. ~Claimed(r)' /\ ~Out(r)'
      BY <1>1 DEF Claimed, Out
    <2> QED BY <1>0, <1>1, <2>1, RowKept
  <1>4. Phases'
    BY <1>1 DEF Phases
  <1> QED BY <1>0, <1>1, <1>2, <1>3, <1>4, Assembled DEF Typed, TypeOK


(* A row that leaves the memory of the tickers. *)
LEMMA RowLeft ==
  ASSUME NEW r \in Rows, ~Claimed(r)', ~Out(r)', rows'[r].st # "none",
         delivered'[r] \in Nat, doubts'[r] \in Nat,
         delivered'[r] <= doubts'[r] + (IF rows'[r].st \in {"pending", "deferred"} THEN 0 ELSE 1),
         rows'[r].st = "pending" => /\ rows'[r].attempts < MaxAttempts
                                    /\ r \notin Mails => delivered'[r] <= rows'[r].attempts,
         r \notin Mails => /\ delivered'[r] <= MaxAttempts
                           /\ rows'[r].st = "sent" => delivered'[r] > 0
  PROVE  RowInv(r)'
  <1>1. Open(r)' <=> rows'[r].st \in {"pending", "deferred"}
    BY DEF Open
  <1>2. Waiting(r)' <=> rows'[r].st = "pending"
    BY DEF Waiting, Claimed
  <1>3. delivered'[r] <= doubts'[r] + (IF Open(r)' THEN 0 ELSE 1)
    <2>1. CASE Open(r)'
      BY <1>1, <2>1
    <2>2. CASE ~Open(r)'
      BY <1>1, <2>2
    <2> QED BY <2>1, <2>2
  <1> QED BY <1>2, <1>3, OutboxAssumption DEF RowInv

(* What a claimed row that is not out promises, and one that is. *)
LEMMA ClaimedRow ==
  ASSUME OInv, NEW r \in Rows, Claimed(r)
  PROVE  /\ rows[r].st \in {"sending", "gone"}
         /\ delivered[r] <= doubts[r] + (IF Out(r) THEN 1 ELSE 0)
         /\ ~Out(r) /\ (r \in client.todo \/ staff.pc = "rows") => rows[r].attempts < MaxAttempts
         /\ r \notin Mails => /\ delivered[r] <= MaxAttempts
                              /\ ~Out(r) => delivered[r] <= rows[r].attempts /\ rows[r].attempts < MaxAttempts
                              /\ Out(r) => delivered[r] > 0
  <1>1. RowInv(r) /\ Phases /\ TypeOK
    BY DEF OInv, Typed
  <1>2. Open(r) <=> ~Out(r)
    BY DEF Open
  <1>3. ~Out(r) /\ (r \in client.todo \/ staff.pc = "rows") => Waiting(r)
    BY DEF Claimed, Waiting, Out
  <1>4. r \notin Mails /\ ~Out(r) => r \in client.todo \/ staff.pc = "rows"
    BY <1>1 DEF Claimed, Out, TypeOK, Phases
  <1> QED BY <1>1, <1>2, <1>3, <1>4 DEF RowInv

-----------------------------------------------------------------------------
(* The client ticker: todo and sent are what it has in memory afterwards. *)
LEMMA ClientFrame ==
  ASSUME OInv, UNCHANGED <<users, staff, down, changes>>,
         NEW todo \in SUBSET ClientRows, NEW sent \in SUBSET ClientRows, todo \cap sent = {},
         client' = [todo |-> todo, sent |-> sent],
         rows' \in [Rows -> RowState], delivered' \in [Rows -> Nat], doubts' \in [Rows -> Nat],
         failures' \in 0 .. MaxFailures,
         \A r \in Rows : RowInv(r)'
  PROVE  OInv'
  <1>0. Typed /\ TypeOK /\ Phases
    BY DEF OInv, Typed
  <1>1. client' \in [todo: SUBSET ClientRows, sent: SUBSET ClientRows]
    OBVIOUS
  <1>2. Phases'
    BY <1>0 DEF Phases
  <1>3. /\ users' \in [Users -> UserRow] /\ changes' \in 0 .. MaxChanges /\ down' \in BOOLEAN
        /\ staff'.pc = "digests" => staff'.todo \subseteq Mails
        /\ staff' \in [pc: {"idle", "digests", "claim", "rows"},
                       todo: SUBSET StaffRows, sent: SUBSET StaffRows]
    BY <1>0 DEF Typed, TypeOK
  <1> QED BY <1>1, <1>2, <1>3, Assembled

LEMMA ClientFacts ==
  ASSUME OInv
  PROVE  /\ Typed /\ TypeOK /\ Phases /\ (\A r \in Rows : RowInv(r))
         /\ client = [todo |-> client.todo, sent |-> client.sent]
         /\ client.todo \in SUBSET ClientRows /\ client.sent \in SUBSET ClientRows
         /\ \A r \in Rows : /\ rows[r] \in RowState /\ delivered[r] \in Nat /\ doubts[r] \in Nat
                            /\ rows[r].attempts \in Nat
         /\ delivered \in [Rows -> Nat] /\ doubts \in [Rows -> Nat] /\ rows \in [Rows -> RowState]
         /\ (Fail \/ UNCHANGED failures => failures' \in 0 .. MaxFailures)
         /\ \A r \in ClientRows : r \in Rows /\ r \notin Mails /\ r \notin staff.todo /\ r \notin staff.sent
  <1>1. Typed /\ TypeOK /\ Phases /\ \A r \in Rows : RowInv(r)
    BY DEF OInv, Typed
  <1>2. staff.todo \in SUBSET StaffRows /\ staff.sent \in SUBSET StaffRows
    BY <1>1 DEF Typed
  <1>3. client = [todo |-> client.todo, sent |-> client.sent]
    BY <1>1 DEF Typed
  <1>4. \A r \in Rows : rows[r] \in RowState /\ rows[r].attempts \in Nat
    BY <1>1, OutboxAssumption DEF TypeOK, RowState
  <1> QED BY <1>1, <1>2, <1>3, <1>4, FailFacts, RowsApart DEF Typed, TypeOK

LEMMA ClaimClientStep ==
  ASSUME OInv, ClaimClient PROVE OInv'
  <1> DEFINE batch == Matured("pending") \cap ClientRows
  <1>1. /\ client.todo \cup client.sent = {} /\ Update(batch, "sending")
        /\ client' = [client EXCEPT !.todo = batch]
        /\ UNCHANGED <<users, staff, down, delivered, doubts, failures, changes>>
    BY DEF ClaimClient
  <1>2. batch \in SUBSET ClientRows /\ batch \in SUBSET Rows /\ \A r \in batch : rows[r].st = "pending"
    BY RowsApart DEF Matured
  <1> HIDE DEF batch
  <1>3. client' = [todo |-> batch, sent |-> {}]
    BY <1>1, ClientFacts
  <1>4. /\ rows' \in [Rows -> RowState]
        /\ \A r \in Rows : /\ rows'[r].attempts = rows[r].attempts
                           /\ r \in batch => rows'[r].st = "sending"
                           /\ r \notin batch => rows'[r] = rows[r]
    BY <1>1, <1>2, ClientFacts, Updated
  <1>5. ASSUME NEW r \in Rows PROVE RowInv(r)'
    <2>1. RowInv(r) /\ delivered[r] \in Nat /\ doubts[r] \in Nat /\ rows[r] \in RowState /\ Typed /\ Phases
      BY ClientFacts
    <2>2. CASE r \in batch
      <3>1. r \notin staff.todo /\ r \notin staff.sent /\ r \notin Mails /\ rows[r].st = "pending"
        BY <1>2, <2>2, ClientFacts
      <3>2. ~Out(r) /\ ~Out(r)' /\ rows'[r].st = "sending"
        BY <1>1, <1>3, <1>4, <2>2, <3>1 DEF Out
      <3>3. Open(r) /\ Waiting(r)
        BY <3>1, <3>2 DEF Open, Waiting
      <3> QED BY <1>1, <1>4, <2>1, <2>2, <3>1, <3>2, <3>3 DEF RowInv, Open
    <2>3. CASE r \notin batch
      <3>1. /\ r \notin client'.todo /\ r \notin client'.sent /\ r \notin client.todo /\ r \notin client.sent
            /\ staff' = staff
        BY <1>1, <1>3, <2>3
      <3>2. (Claimed(r)' <=> Claimed(r)) /\ (Out(r)' <=> Out(r))
        BY <3>1 DEF Claimed, Out
      <3>3. Out(r)' => Claimed(r)'
        BY <2>1, <3>1, <3>2 DEF Out, Claimed, Phases
      <3>4. r \in client.todo \/ r \in client.sent \/ r \in staff.todo \/ ~Out(r)'
        BY <3>1, <3>2, <3>3 DEF Claimed
      <3> QED BY <1>1, <1>4, <2>1, <2>3, <3>1, <3>2, <3>3, <3>4, RowKept
    <2> QED BY <2>2, <2>3
  <1>6. /\ {} \in SUBSET ClientRows /\ batch \cap {} = {} /\ UNCHANGED <<users, staff, down, changes>>
        /\ delivered' \in [Rows -> Nat] /\ doubts' \in [Rows -> Nat] /\ failures' \in 0 .. MaxFailures
    BY <1>1, ClientFacts
  <1> QED BY <1>2, <1>3, <1>4, <1>5, <1>6, ClientFrame

LEMMA RecordClientStep ==
  ASSUME OInv, RecordClient PROVE OInv'
  <1>0. /\ Typed /\ Phases /\ (\A r \in Rows : RowInv(r))
        /\ client.sent \in SUBSET ClientRows /\ client.sent \in SUBSET Rows
    BY ClientFacts, RowsApart
  <1>1. /\ (Update(client.sent, "sent") /\ UNCHANGED failures) \/ (UNCHANGED rows /\ Fail)
        /\ client' = [client EXCEPT !.sent = {}]
        /\ UNCHANGED <<users, staff, down, delivered, doubts, changes>>
    BY DEF RecordClient
  <1>2. client' = [todo |-> client.todo, sent |-> {}] /\ client.todo \in SUBSET ClientRows
    BY <1>0, <1>1, ClientFacts DEF Typed
  <1>4. /\ rows' \in [Rows -> RowState]
        /\ \A r \in Rows : /\ r \notin client.sent => rows'[r] = rows[r]
                           /\ rows'[r] = rows[r] \/ rows'[r].st = "sent"
    <2>1. CASE UNCHANGED rows
      BY <1>0, <2>1 DEF Typed, TypeOK
    <2>2. CASE Update(client.sent, "sent")
      BY <1>0, <2>2, Updated
    <2> QED BY <1>1, <2>1, <2>2
  <1>5. ASSUME NEW r \in Rows PROVE RowInv(r)'
    <2>1. RowInv(r) /\ delivered[r] \in Nat /\ doubts[r] \in Nat
      BY ClientFacts
    <2>2. CASE r \notin client.sent
      <3>1. /\ (r \in client'.todo <=> r \in client.todo) /\ r \notin client'.sent /\ staff' = staff
        BY <1>1, <1>2
      <3>2. (Claimed(r)' <=> Claimed(r)) /\ (Out(r)' <=> Out(r))
        BY <2>2, <3>1 DEF Claimed, Out
      <3>3. Out(r)' => Claimed(r)'
        BY <1>0, <2>2, <3>1, <3>2 DEF Out, Claimed, Phases
      <3>4. r \in client.todo \/ r \in client.sent \/ r \in staff.todo \/ ~Out(r)'
        BY <3>2, <3>3 DEF Claimed
      <3> QED BY <1>0, <1>1, <1>4, <2>1, <2>2, <3>1, <3>2, <3>3, <3>4, RowKept
    <2>3. CASE r \in client.sent
      <3>1. r \notin staff.todo /\ r \notin staff.sent /\ r \notin Mails /\ r \notin client.todo
        BY <1>0, <2>3, ClientFacts DEF Phases
      <3>2. ~Claimed(r)' /\ ~Out(r)' /\ Claimed(r) /\ Out(r)
        BY <1>1, <1>2, <2>3, <3>1 DEF Claimed, Out
      <3>3. rows'[r].st \in {"sending", "gone", "sent"}
        BY <1>4, <2>3, <3>2, ClaimedRow
      <3>4. /\ delivered[r] <= doubts[r] + 1 /\ delivered[r] <= MaxAttempts /\ delivered[r] > 0
        BY <3>1, <3>2, ClaimedRow
      <3> QED BY <1>1, <2>1, <3>2, <3>3, <3>4, RowLeft
    <2> QED BY <2>2, <2>3
  <1>6. delivered' \in [Rows -> Nat] /\ doubts' \in [Rows -> Nat] /\ failures' \in 0 .. MaxFailures
    BY <1>1, ClientFacts
  <1>7. UNCHANGED <<users, staff, down, changes>>
    BY <1>1
  <1>8. {} \in SUBSET ClientRows /\ client.todo \cap {} = {}
    OBVIOUS
  <1> HIDE DEF RowInv, ClientRows
  <1> QED BY <1>2, <1>4, <1>5, <1>6, <1>7, <1>8, ClientFrame

(* One row of the batch is dealt with: it leaves todo, and if it is not on its way out *)
(* its row is written or left as it is.                                                *)
LEMMA ClientRowStep ==
  ASSUME OInv, NEW q \in client.todo, NEW row \in RowState, NEW n \in {0, 1},
         client.sent = {}, client' = [todo |-> client.todo \ {q}, sent |-> {}],
         rows' = [rows EXCEPT ![q] = row],
         delivered' \in [Rows -> Nat], doubts' \in [Rows -> Nat],
         \A r \in Rows : /\ delivered'[r] = delivered[r] + (IF r \in {q} THEN n ELSE 0)
                         /\ doubts'[r] = doubts[r] + (IF r \in {q} THEN n ELSE 0),
         UNCHANGED <<users, staff, down, changes>>, failures' \in 0 .. MaxFailures,
         row.st \in {"deferred", "pending", "failed", "gone", "sending"},
         row.st = "pending" => row.attempts < MaxAttempts /\ row.attempts = rows[q].attempts + 1
  PROVE  OInv'
  <1>0. /\ Typed /\ Phases /\ (\A r \in Rows : RowInv(r))
        /\ q \in Rows /\ q \notin Mails /\ q \notin staff.todo /\ q \notin staff.sent /\ q \in ClientRows
        /\ delivered[q] \in Nat /\ doubts[q] \in Nat /\ rows[q].attempts \in Nat
    BY ClientFacts, RowsApart
  <1>1. rows' \in [Rows -> RowState] /\ rows'[q] = row /\ \A r \in Rows : r # q => rows'[r] = rows[r]
    BY <1>0 DEF Typed, TypeOK
  <1>2. Claimed(q) /\ ~Out(q) /\ ~Claimed(q)' /\ ~Out(q)'
    BY <1>0 DEF Claimed, Out
  <1>3. ASSUME NEW r \in Rows PROVE RowInv(r)'
    <2>1. CASE r # q
      <3>1. delivered'[r] = delivered[r] /\ doubts'[r] = doubts[r] /\ rows'[r] = rows[r]
        BY <1>1, <2>1, ClientFacts
      <3>2. /\ (r \in client'.todo <=> r \in client.todo) /\ r \notin client'.sent /\ r \notin client.sent
            /\ staff' = staff
        BY <2>1
      <3>3. (Claimed(r)' <=> Claimed(r)) /\ (Out(r)' <=> Out(r))
        BY <3>2 DEF Claimed, Out
      <3>4. Out(r)' => Claimed(r)'
        BY <1>0, <3>2, <3>3 DEF Out, Claimed, Phases
      <3>5. r \in client.todo \/ r \in client.sent \/ r \in staff.todo \/ ~Out(r)'
        BY <3>3, <3>4 DEF Claimed
      <3> QED BY <1>0, <3>1, <3>2, <3>3, <3>4, <3>5, RowKept
    <2>2. CASE r = q
      <3>1. /\ delivered[q] <= doubts[q] /\ delivered[q] <= rows[q].attempts /\ rows[q].attempts < MaxAttempts
        BY <1>0, <1>2, ClaimedRow
      <3>2. delivered'[q] = delivered[q] + n /\ doubts'[q] = doubts[q] + n
        BY <1>0
      <3>3. delivered'[q] <= doubts'[q] /\ delivered'[q] <= rows[q].attempts + 1 /\ delivered'[q] <= MaxAttempts
        BY <1>0, <3>1, <3>2, OutboxAssumption
      <3>4. delivered'[q] \in Nat /\ doubts'[q] \in Nat
        BY <1>0
      <3> QED BY <1>1, <1>2, <2>2, <3>3, <3>4, RowLeft
    <2> QED BY <2>1, <2>2
  <1>4. client.todo \ {q} \in SUBSET ClientRows /\ {} \in SUBSET ClientRows
        /\ (client.todo \ {q}) \cap {} = {}
    BY ClientFacts
  <1> QED BY <1>1, <1>3, <1>4, ClientFrame

(* A row on its way out. *)
LEMMA SendClientStep ==
  ASSUME OInv, NEW q \in ClientRows, SendClient(q)
  PROVE  OInv'
  <1>0. /\ Typed /\ Phases /\ (\A r \in Rows : RowInv(r))
        /\ q \in Rows /\ q \notin Mails /\ q \notin staff.todo /\ q \notin staff.sent
        /\ delivered[q] \in Nat /\ doubts[q] \in Nat /\ rows[q].attempts \in Nat
        /\ delivered \in [Rows -> Nat]
    BY ClientFacts, RowsApart
  <1>1. /\ q \in client.todo /\ client.sent = {}
        /\ client' = [todo |-> client.todo \ {q}, sent |-> {q}]
        /\ delivered' = Counted(delivered, {q})
        /\ UNCHANGED <<rows, users, staff, down, doubts, failures, changes>>
    BY DEF SendClient, Takes
  <1>2. delivered' \in [Rows -> Nat]
        /\ \A r \in Rows : delivered'[r] = IF r \in {q} THEN delivered[r] + 1 ELSE delivered[r]
    BY <1>0, <1>1, CountedFacts
  <1>3. Claimed(q) /\ ~Out(q) /\ Claimed(q)' /\ Out(q)'
    BY <1>0, <1>1 DEF Claimed, Out
  <1>4. ASSUME NEW r \in Rows PROVE RowInv(r)'
    <2>1. CASE r # q
      <3>1. delivered'[r] = delivered[r] /\ doubts'[r] = doubts[r] /\ rows'[r] = rows[r]
        BY <1>1, <1>2, <2>1
      <3>2. /\ (r \in client'.todo <=> r \in client.todo) /\ r \notin client'.sent /\ r \notin client.sent
            /\ staff' = staff
        BY <1>1, <2>1
      <3>3. (Claimed(r)' <=> Claimed(r)) /\ (Out(r)' <=> Out(r))
        BY <3>2 DEF Claimed, Out
      <3>4. Out(r)' => Claimed(r)'
        BY <1>0, <3>2, <3>3 DEF Out, Claimed, Phases
      <3>5. r \in client.todo \/ r \in client.sent \/ r \in staff.todo \/ ~Out(r)'
        BY <3>3, <3>4 DEF Claimed
      <3> QED BY <1>0, <3>1, <3>2, <3>3, <3>4, <3>5, RowKept
    <2>2. CASE r = q
      <3>1. /\ delivered[q] <= doubts[q] /\ delivered[q] <= rows[q].attempts /\ rows[q].attempts < MaxAttempts
            /\ rows[q].st \in {"sending", "gone"}
        BY <1>0, <1>3, ClaimedRow
      <3>2. delivered'[q] = delivered[q] + 1 /\ doubts'[q] = doubts[q] /\ rows'[q] = rows[q]
        BY <1>0, <1>1, <1>2
      <3>3. ~Open(q)' /\ ~Waiting(q)'
        BY <1>3 DEF Open, Waiting
      <3> QED BY <1>0, <1>3, <2>2, <3>1, <3>2, <3>3, OutboxAssumption DEF RowInv
    <2> QED BY <2>1, <2>2
  <1>5. /\ client.todo \ {q} \in SUBSET ClientRows /\ {q} \in SUBSET ClientRows
        /\ (client.todo \ {q}) \cap {q} = {} /\ UNCHANGED <<users, staff, down, changes>>
        /\ rows' \in [Rows -> RowState] /\ doubts' \in [Rows -> Nat] /\ failures' \in 0 .. MaxFailures
    BY <1>1, ClientFacts
  <1> QED BY <1>1, <1>2, <1>4, <1>5, ClientFrame

LEMMA ClientRowSteps ==
  ASSUME OInv, NEW q \in ClientRows,
         Defer(q) \/ SendClientThrows(q) \/ ClientThrows(q) \/ RefuseClient(q)
  PROVE  OInv'
  <1>0. /\ Typed /\ RowInv(q) /\ q \in Rows /\ q \notin Mails /\ rows[q] \in RowState
        /\ rows[q].attempts \in Nat /\ delivered \in [Rows -> Nat] /\ doubts \in [Rows -> Nat]
    BY ClientFacts
  <1>1. /\ q \in client.todo /\ client.sent = {} /\ UNCHANGED <<users, staff, down, changes>>
        /\ client' = [client EXCEPT !.todo = @ \ {q}]
    BY DEF Defer, SendClientThrows, ClientThrows, RefuseClient
  <1>2. rows[q].attempts < MaxAttempts /\ rows[q].st \in {"sending", "gone"}
    <2>1. Claimed(q) /\ ~Out(q)
      BY <1>1, ClientFacts DEF Claimed, Out
    <2> QED BY <1>0, <2>1, ClaimedRow
  <1>3. client' = [todo |-> client.todo \ {q}, sent |-> {}]
    BY <1>0, <1>1 DEF Typed
  <1>4. rows = [rows EXCEPT ![q] = rows[q]]
    BY <1>0 DEF Typed, TypeOK
  <1>5. ASSUME NEW row \in RowState, rows' = [rows EXCEPT ![q] = row],
               row.st \in {"deferred", "pending", "failed", "gone", "sending"},
               row.st = "pending" => row.attempts < MaxAttempts /\ row.attempts = rows[q].attempts + 1,
               UNCHANGED <<delivered, doubts>>, Fail \/ UNCHANGED failures
        PROVE  OInv'
    <2>1. /\ delivered' \in [Rows -> Nat] /\ doubts' \in [Rows -> Nat] /\ failures' \in 0 .. MaxFailures
          /\ \A r \in Rows : /\ delivered'[r] = delivered[r] + (IF r \in {q} THEN 0 ELSE 0)
                             /\ doubts'[r] = doubts[r] + (IF r \in {q} THEN 0 ELSE 0)
      BY <1>0, <1>5, ClientFacts
    <2> QED BY <1>1, <1>3, <1>5, <2>1, ClientRowStep
  <1>6. CASE Defer(q)
    <2> DEFINE row == [rows[q] EXCEPT !.st = "deferred", !.due = FALSE]
    <2>1. rows' = [rows EXCEPT ![q] = row] /\ UNCHANGED <<delivered, doubts, failures>>
      BY <1>6, Zenon DEF Defer
    <2>2. row \in RowState /\ row.st = "deferred"
      BY <1>0 DEF RowState
    <2> HIDE DEF row
    <2> QED BY <1>5, <2>1, <2>2
  <1>7. CASE SendClientThrows(q)
    <2>1. rows' = [rows EXCEPT ![q] = Retried(q)] /\ Throws({q}) /\ rows[q].st # "gone"
      BY <1>7 DEF SendClientThrows
    <2>2. /\ delivered' \in [Rows -> Nat] /\ doubts' \in [Rows -> Nat] /\ failures' \in 0 .. MaxFailures
          /\ \E n \in {0, 1} : \A r \in Rows :
               /\ delivered'[r] = delivered[r] + (IF r \in {q} THEN n ELSE 0)
               /\ doubts'[r] = doubts[r] + (IF r \in {q} THEN n ELSE 0)
      BY <1>0, <2>1, ThrowsFacts
    <2>3. PICK n \in {0, 1} : \A r \in Rows :
            /\ delivered'[r] = delivered[r] + (IF r \in {q} THEN n ELSE 0)
            /\ doubts'[r] = doubts[r] + (IF r \in {q} THEN n ELSE 0)
      BY <2>2
    <2> DEFINE row == Retried(q)
    <2>4. /\ row \in RowState /\ row.st \in {"pending", "failed"}
          /\ row.st = "pending" => row.attempts < MaxAttempts /\ row.attempts = rows[q].attempts + 1
      BY <1>0, <1>2, <2>1, RetriedRow
    <2>5. rows' = [rows EXCEPT ![q] = row]
      BY <2>1
    <2> HIDE DEF row
    <2> QED BY <1>1, <1>3, <2>2, <2>3, <2>4, <2>5, ClientRowStep
  <1>8. CASE ClientThrows(q)
    BY <1>0, <1>2, <1>4, <1>5, <1>8 DEF ClientThrows
  <1>9. CASE RefuseClient(q)
    <2>1. /\ Update({q}, "failed") /\ UNCHANGED <<delivered, doubts, failures>> /\ rows[q].st = "gone"
      BY <1>9 DEF RefuseClient
    <2>2. rows' = rows
      <3>1. rows' \in [Rows -> RowState] /\ \A r \in Rows : rows'[r] = rows[r]
        BY <1>0, <2>1, Updated
      <3> QED BY <1>0, <3>1 DEF Typed, TypeOK
    <2> QED BY <1>0, <1>4, <1>5, <2>1, <2>2
  <1> QED BY <1>6, <1>7, <1>8, <1>9

-----------------------------------------------------------------------------
(* The staff ticker. *)
LEMMA StaffFacts ==
  ASSUME OInv
  PROVE  /\ Typed /\ TypeOK /\ Phases /\ (\A r \in Rows : RowInv(r))
         /\ staff.todo \in SUBSET StaffRows /\ staff.sent \in SUBSET staff.todo
         /\ StaffRows \subseteq Rows
         /\ staff = [pc |-> staff.pc, todo |-> staff.todo, sent |-> staff.sent]
         /\ (staff.pc = "digests" => staff.todo \subseteq Mails)
         /\ (\A r \in Rows : /\ rows[r] \in RowState /\ delivered[r] \in Nat /\ doubts[r] \in Nat
                             /\ rows[r].attempts \in Nat)
         /\ delivered \in [Rows -> Nat] /\ doubts \in [Rows -> Nat] /\ rows \in [Rows -> RowState]
         /\ (Fail \/ UNCHANGED failures => failures' \in 0 .. MaxFailures)
         /\ \A r \in StaffRows : r \notin client.todo /\ r \notin client.sent
  <1>1. Typed /\ TypeOK /\ Phases /\ \A r \in Rows : RowInv(r)
    BY DEF OInv, Typed
  <1>2. client.todo \in SUBSET ClientRows /\ client.sent \in SUBSET ClientRows
    BY <1>1 DEF Typed
  <1>3. staff = [pc |-> staff.pc, todo |-> staff.todo, sent |-> staff.sent]
    BY <1>1 DEF Typed
  <1>4. \A r \in Rows : rows[r] \in RowState /\ rows[r].attempts \in Nat
    BY <1>1, OutboxAssumption DEF TypeOK, RowState
  <1> QED BY <1>1, <1>2, <1>3, <1>4, FailFacts, RowsApart DEF Typed, TypeOK, Phases

LEMMA StaffFrame ==
  ASSUME OInv, UNCHANGED <<users, client, down, changes>>,
         staff' \in [pc: {"idle", "digests", "claim", "rows"},
                     todo: SUBSET StaffRows, sent: SUBSET StaffRows],
         staff'.sent \subseteq staff'.todo,
         staff'.pc \in {"idle", "claim"} => staff'.todo = {},
         staff'.pc = "digests" => staff'.todo \subseteq Mails,
         rows' \in [Rows -> RowState], delivered' \in [Rows -> Nat], doubts' \in [Rows -> Nat],
         failures' \in 0 .. MaxFailures,
         \A r \in Rows : RowInv(r)'
  PROVE  OInv'
  <1>0. Typed /\ TypeOK /\ Phases
    BY DEF OInv, Typed
  <1>1. Phases'
    BY <1>0 DEF Phases
  <1>2. /\ users' \in [Users -> UserRow] /\ changes' \in 0 .. MaxChanges /\ down' \in BOOLEAN
        /\ client' \in [todo: SUBSET ClientRows, sent: SUBSET ClientRows]
    BY <1>0 DEF Typed, TypeOK
  <1> QED BY <1>1, <1>2, Assembled

LEMMA DoneFacts ==
  ASSUME OInv, NEW todo \in SUBSET staff.todo, staff.pc \in {"digests", "rows"}
  PROVE  LET s == StaffDone(todo) IN
         /\ s.sent = {} /\ s.todo = todo
         /\ s.todo # {} => s.pc = staff.pc
         /\ s \in [pc: {"idle", "digests", "claim", "rows"},
                   todo: SUBSET StaffRows, sent: SUBSET StaffRows]
         /\ s.pc \in {"idle", "claim"} => s.todo = {}
         /\ s.pc = "digests" => staff.pc = "digests"
  <1>1. staff.todo \in SUBSET StaffRows
    BY StaffFacts
  <1> QED BY <1>1 DEF StaffDone

(* A row the staff ticker keeps or never had. *)
LEMMA StaffRowKept ==
  ASSUME OInv, NEW r \in Rows, UNCHANGED client,
         rows'[r] = rows[r], delivered'[r] = delivered[r], doubts'[r] = doubts[r],
         r \in staff'.todo => r \in staff.todo /\ staff'.pc = staff.pc /\ (r \in staff'.sent <=> r \in staff.sent),
         r \in staff'.sent => r \in staff'.todo
  PROVE  RowInv(r)'
  <1>1. Typed /\ Phases /\ RowInv(r)
    BY StaffFacts
  <1>2. Out(r)' => Claimed(r)'
    BY DEF Out, Claimed
  <1>3. Claimed(r)' => (Out(r)' <=> Out(r))
    <2>1. CASE r \in staff'.todo
      BY <2>1 DEF Out
    <2>2. CASE r \notin staff'.todo
      <3>1. ASSUME Claimed(r)' PROVE r \notin staff.sent
        <4>1. r \in client.todo \/ r \in client.sent
          BY <2>2, <3>1 DEF Claimed
        <4> QED BY <4>1, ClientFacts
      <3> QED BY <2>2, <3>1 DEF Out
    <2> QED BY <2>1, <2>2
  <1>4. r \in client.todo \/ r \in client.sent \/ r \in staff.todo \/ ~Out(r)'
    BY DEF Out
  <1> QED BY <1>1, <1>2, <1>3, <1>4, RowKept

(* Rows leave the batch, with whatever was sent of it. *)
LEMMA StaffDealt ==
  ASSUME OInv, NEW done \in SUBSET staff.todo, staff.sent \subseteq done,
         staff.pc \in {"digests", "rows"}, staff' = StaffDone(staff.todo \ done),
         UNCHANGED <<users, client, down, changes>>, failures' \in 0 .. MaxFailures,
         rows' \in [Rows -> RowState], delivered' \in [Rows -> Nat], doubts' \in [Rows -> Nat],
         \A r \in Rows \ done :
           rows'[r] = rows[r] /\ delivered'[r] = delivered[r] /\ doubts'[r] = doubts[r],
         \A r \in done :
           /\ rows'[r].st # "none"
           /\ delivered'[r] <= doubts'[r] + (IF rows'[r].st \in {"pending", "deferred"} THEN 0 ELSE 1)
           /\ rows'[r].st = "pending" => /\ rows'[r].attempts < MaxAttempts
                                         /\ r \notin Mails => delivered'[r] <= rows'[r].attempts
           /\ r \notin Mails => /\ delivered'[r] <= MaxAttempts
                                /\ rows'[r].st = "sent" => delivered'[r] > 0
  PROVE  OInv'
  <1>0. staff.todo \in SUBSET StaffRows /\ done \subseteq Rows
    BY StaffFacts
  <1>1. /\ staff'.sent = {} /\ staff'.todo = staff.todo \ done
        /\ staff'.todo # {} => staff'.pc = staff.pc
        /\ staff' \in [pc: {"idle", "digests", "claim", "rows"},
                       todo: SUBSET StaffRows, sent: SUBSET StaffRows]
        /\ staff'.pc \in {"idle", "claim"} => staff'.todo = {}
        /\ staff'.pc = "digests" => staff.pc = "digests"
    BY DoneFacts
  <1>2. ASSUME NEW r \in Rows PROVE RowInv(r)'
    <2>1. CASE r \notin done
      <3>1. r \notin staff.sent /\ r \notin staff'.sent
        BY <1>1, <2>1
      <3>2. r \in staff'.todo => r \in staff.todo /\ staff'.pc = staff.pc
        BY <1>1
      <3> QED BY <2>1, <3>1, <3>2, StaffRowKept
    <2>2. CASE r \in done
      <3>1. ~Claimed(r)' /\ ~Out(r)'
        BY <1>0, <1>1, <2>2, StaffFacts DEF Claimed, Out
      <3>2. delivered'[r] \in Nat /\ doubts'[r] \in Nat
        OBVIOUS
      <3> QED BY <2>2, <3>1, <3>2, RowLeft
    <2> QED BY <2>1, <2>2
  <1>4. staff'.pc = "digests" => staff'.todo \subseteq Mails
    BY <1>1, StaffFacts
  <1>5. staff'.sent \subseteq staff'.todo
    BY <1>1
  <1> QED BY <1>1, <1>2, <1>4, <1>5, StaffFrame

(* The claims of the staff ticker. *)
LEMMA StaffClaims ==
  ASSUME OInv, NEW batch \in SUBSET StaffRows, NEW pc \in {"digests", "rows", "claim", "idle"},
         staff.pc \in {"idle", "claim"}, Update(batch, "sending"),
         staff' = [pc |-> pc, todo |-> batch, sent |-> {}],
         pc \in {"claim", "idle"} => batch = {},
         pc = "digests" => batch \subseteq Mails /\ \A r \in batch : rows[r].st = "deferred",
         pc = "rows" => \A r \in batch : rows[r].st = "pending",
         UNCHANGED <<users, client, down, delivered, doubts, failures, changes>>
  PROVE  OInv'
  <1>0. /\ Typed /\ TypeOK /\ Phases /\ (\A r \in Rows : RowInv(r)) /\ batch \in SUBSET Rows
        /\ staff.todo = {} /\ staff.sent = {}
    BY StaffFacts DEF Phases
  <1>1. \A r \in batch : rows[r].st # "gone"
    OBVIOUS
  <1>2. /\ rows' \in [Rows -> RowState]
        /\ \A r \in Rows : /\ rows'[r].attempts = rows[r].attempts
                           /\ r \in batch => rows'[r].st = "sending"
                           /\ r \notin batch => rows'[r] = rows[r]
    BY <1>0, <1>1, Updated
  <1>3. ASSUME NEW r \in Rows PROVE RowInv(r)'
    <2>1. RowInv(r) /\ delivered[r] \in Nat /\ doubts[r] \in Nat
      BY StaffFacts
    <2>2. CASE r \notin batch
      <3>1. r \notin staff'.todo /\ r \notin staff'.sent
        BY <2>2
      <3> QED BY <1>2, <2>2, <3>1, StaffRowKept
    <2>3. CASE r \in batch
      <3>1. /\ r \notin client'.todo /\ r \notin client'.sent /\ r \notin staff'.sent
            /\ r \notin client.sent /\ r \notin staff.sent
            /\ r \in staff'.todo /\ staff'.pc = pc /\ pc \in {"digests", "rows"}
        BY <1>0, <2>3, StaffFacts
      <3>2. ~Out(r) /\ ~Out(r)' /\ rows'[r].st = "sending" /\ rows'[r].attempts = rows[r].attempts
        BY <1>2, <2>3, <3>1 DEF Out
      <3>3. rows[r].st = IF pc = "digests" THEN "deferred" ELSE "pending"
        BY <2>3, <3>1
      <3>4. Open(r) /\ Open(r)' /\ (Waiting(r)' => pc = "rows" /\ Waiting(r))
        BY <3>1, <3>2, <3>3 DEF Open, Waiting, Claimed
      <3>5. pc = "digests" => r \in Mails
        BY <2>3
      <3>6. r \notin Mails => Waiting(r)
        BY <3>1, <3>2, <3>3, <3>5 DEF Waiting
      <3> QED BY <2>1, <3>2, <3>4, <3>5, <3>6 DEF RowInv
    <2> QED BY <2>2, <2>3
  <1>4. delivered' \in [Rows -> Nat] /\ doubts' \in [Rows -> Nat] /\ failures' \in 0 .. MaxFailures
    BY StaffFacts
  <1>5. /\ staff' \in [pc: {"idle", "digests", "claim", "rows"},
                       todo: SUBSET StaffRows, sent: SUBSET StaffRows]
        /\ staff'.sent \subseteq staff'.todo
        /\ staff'.pc \in {"idle", "claim"} => staff'.todo = {}
        /\ staff'.pc = "digests" => staff'.todo \subseteq Mails
    OBVIOUS
  <1> QED BY <1>2, <1>3, <1>4, <1>5, StaffFrame

LEMMA StaffSends ==
  ASSUME OInv, NEW batch \in SUBSET staff.todo, staff.pc \in {"digests", "rows"}, staff.sent = {},
         staff' = [staff EXCEPT !.sent = batch], Takes(batch),
         UNCHANGED <<rows, users, client, down, changes>>
  PROVE  OInv'
  <1>0. staff.todo \in SUBSET StaffRows /\ delivered \in [Rows -> Nat]
    BY StaffFacts
  <1>1. staff' = [pc |-> staff.pc, todo |-> staff.todo, sent |-> batch]
    BY StaffFacts
  <1>2. /\ delivered' \in [Rows -> Nat] /\ UNCHANGED <<doubts, failures>>
        /\ \A r \in Rows : delivered'[r] = IF r \in batch THEN delivered[r] + 1 ELSE delivered[r]
    BY <1>0, CountedFacts DEF Takes
  <1>3. ASSUME NEW r \in Rows PROVE RowInv(r)'
    <2>1. delivered[r] \in Nat /\ doubts[r] \in Nat /\ rows[r].attempts \in Nat /\ Phases
      BY StaffFacts
    <2>2. CASE r \notin batch
      <3>1. r \notin staff'.sent /\ r \notin staff.sent /\ staff'.todo = staff.todo /\ staff'.pc = staff.pc
        BY <1>1, <2>2
      <3> QED BY <1>2, <2>2, <3>1, StaffRowKept
    <2>3. CASE r \in batch
      <3>1. /\ r \notin client.todo /\ r \notin client.sent /\ r \in staff'.sent
            /\ r \in staff.todo /\ r \notin staff.sent
        BY <1>0, <1>1, <2>3, StaffFacts
      <3>2. Claimed(r) /\ ~Out(r) /\ Out(r)'
        BY <3>1 DEF Claimed, Out
      <3>3. /\ delivered[r] <= doubts[r] /\ rows[r].st \in {"sending", "gone"}
            /\ r \notin Mails => delivered[r] <= rows[r].attempts /\ rows[r].attempts < MaxAttempts
        BY <2>1, <3>2, ClaimedRow
      <3>4. ~Open(r)' /\ ~Waiting(r)'
        BY <3>2 DEF Open, Waiting
      <3>5. delivered'[r] = delivered[r] + 1 /\ doubts' = doubts /\ rows' = rows
        BY <1>2, <2>3
      <3> QED BY <2>1, <3>2, <3>3, <3>4, <3>5, OutboxAssumption DEF RowInv
    <2> QED BY <2>2, <2>3
  <1>4. /\ staff' \in [pc: {"idle", "digests", "claim", "rows"},
                       todo: SUBSET StaffRows, sent: SUBSET StaffRows]
        /\ staff'.sent \subseteq staff'.todo
        /\ staff'.pc \in {"idle", "claim"} => staff'.todo = {}
        /\ staff'.pc = "digests" => staff'.todo \subseteq Mails
    BY <1>0, <1>1, StaffFacts DEF Phases
  <1>5. rows' \in [Rows -> RowState] /\ doubts' \in [Rows -> Nat] /\ failures' \in 0 .. MaxFailures
    BY <1>2, StaffFacts
  <1> QED BY <1>2, <1>3, <1>4, <1>5, StaffFrame

LEMMA StaffClaimSteps ==
  ASSUME OInv, FlushDigests \/ ClaimStaff PROVE OInv'
  <1>0. Phases /\ staff = [pc |-> staff.pc, todo |-> staff.todo, sent |-> staff.sent]
    BY StaffFacts
  <1>1. CASE FlushDigests
    <2> DEFINE batch == DueDigests
               pc == IF DueDigests = {} THEN "claim" ELSE "digests"
    <2>1. staff.pc = "idle" /\ Update(batch, "sending")
          /\ staff' = [staff EXCEPT !.pc = pc, !.todo = batch]
          /\ UNCHANGED <<users, client, down, delivered, doubts, failures, changes>>
      BY <1>1 DEF FlushDigests
    <2>2. staff' = [pc |-> pc, todo |-> batch, sent |-> {}]
      BY <1>0, <2>1 DEF Phases
    <2>3. batch \in SUBSET StaffRows /\ batch \subseteq Mails /\ \A r \in batch : rows[r].st = "deferred"
      BY RowsApart DEF DueDigests, Matured
    <2>4. pc \in {"digests", "claim"} /\ (pc = "claim" => batch = {})
      OBVIOUS
    <2> HIDE DEF batch, pc
    <2> QED BY <2>1, <2>2, <2>3, <2>4, StaffClaims
  <1>2. CASE ClaimStaff
    <2> DEFINE batch == Matured("pending") \cap StaffRows
               pc == IF batch = {} THEN "idle" ELSE "rows"
    <2>1. /\ staff.pc = "claim" /\ Update(batch, "sending")
          /\ staff' = IF batch = {} THEN StaffIdle ELSE [staff EXCEPT !.pc = "rows", !.todo = batch]
          /\ UNCHANGED <<users, client, down, delivered, doubts, failures, changes>>
      BY <1>2 DEF ClaimStaff
    <2>2. staff' = [pc |-> pc, todo |-> batch, sent |-> {}]
      <3> HIDE DEF batch
      <3>1. CASE batch = {}
        BY <2>1, <3>1 DEF StaffIdle
      <3>2. CASE batch # {}
        BY <1>0, <2>1, <3>2 DEF Phases
      <3> QED BY <3>1, <3>2
    <2>3. batch \in SUBSET StaffRows /\ \A r \in batch : rows[r].st = "pending"
      BY DEF Matured
    <2>4. pc \in {"rows", "idle"} /\ (pc = "idle" => batch = {})
      OBVIOUS
    <2> HIDE DEF batch, pc
    <2> QED BY <2>1, <2>2, <2>3, <2>4, StaffClaims
  <1> QED BY <1>1, <1>2

LEMMA SendSteps ==
  ASSUME OInv, (\E u \in Users : SendDigest(u)) \/ \E r \in StaffRows : SendStaff(r)
  PROVE  OInv'
  <1>1. ASSUME NEW u \in Users, SendDigest(u) PROVE OInv'
    <2>1. DigestOf(u) \in SUBSET staff.todo
      BY DEF DigestOf
    <2> QED BY <1>1, <2>1, StaffSends DEF SendDigest
  <1>2. ASSUME NEW q \in StaffRows, SendStaff(q) PROVE OInv'
    <2>1. {q} \in SUBSET staff.todo
      BY <1>2 DEF SendStaff
    <2> QED BY <1>2, <2>1, StaffSends DEF SendStaff
  <1> QED BY <1>1, <1>2

(* The rest of a tick is abandoned: what it had claimed stays sending. *)
LEMMA TickThrowsStep ==
  ASSUME OInv, TickThrows PROVE OInv'
  <1>1. /\ staff' = [pc |-> "idle", todo |-> {}, sent |-> {}] /\ Fail
        /\ UNCHANGED <<rows, users, client, down, delivered, doubts, changes>>
    BY DEF TickThrows, StaffIdle
  <1>2. ASSUME NEW r \in Rows PROVE RowInv(r)'
    BY <1>1, StaffRowKept
  <1>3. /\ rows' \in [Rows -> RowState] /\ delivered' \in [Rows -> Nat] /\ doubts' \in [Rows -> Nat]
        /\ failures' \in 0 .. MaxFailures
    BY <1>1, StaffFacts
  <1> QED BY <1>1, <1>2, <1>3, StaffFrame

(* The rows of a digest are given up, recorded or parked. *)
LEMMA DigestSteps ==
  ASSUME OInv, RecordDigest \/ \E u \in Users : DigestFails(u) \/ RefuseDigest(u)
  PROVE  OInv'
  <1>0. /\ Typed /\ staff.todo \in SUBSET Rows /\ staff.sent \in SUBSET staff.todo
        /\ delivered \in [Rows -> Nat] /\ doubts \in [Rows -> Nat] /\ rows \in [Rows -> RowState]
        /\ \A u : DigestOf(u) \in SUBSET staff.todo
    BY StaffFacts DEF DigestOf
  <1>1. /\ staff.pc = "digests" /\ staff.todo \subseteq Mails
        /\ UNCHANGED <<users, client, down, changes>>
    BY StaffFacts DEF RecordDigest, DigestFails, RefuseDigest
  <1>2. \A r \in staff.todo :
          /\ rows[r].st \in {"sending", "gone"} /\ r \in Rows /\ r \in Mails
          /\ delivered[r] \in Nat /\ doubts[r] \in Nat
          /\ delivered[r] <= doubts[r] + (IF r \in staff.sent THEN 1 ELSE 0)
    <2> TAKE r \in staff.todo
    <2>1. r \in Rows /\ Claimed(r) /\ (Out(r) <=> r \in staff.sent)
      BY <1>0, StaffFacts DEF Claimed, Out
    <2> QED BY <1>0, <1>1, <2>1, ClaimedRow
  <1>3. ASSUME NEW done \in SUBSET staff.todo, staff.sent \subseteq done,
               NEW st \in {"sent", "failed"}, Update(done, st),
               staff' = StaffDone(staff.todo \ done), UNCHANGED <<delivered, doubts, failures>>
        PROVE  OInv'
    <2>1. /\ rows' \in [Rows -> RowState]
          /\ \A r \in Rows : /\ r \in done /\ rows[r].st # "gone" => rows'[r].st = st
                             /\ r \notin done \/ rows[r].st = "gone" => rows'[r] = rows[r]
      BY <1>0, <1>3, Updated
    <2>2. ASSUME NEW r \in done
          PROVE  rows'[r].st \in {"sent", "failed", "gone"} /\ r \in Mails /\ delivered[r] <= doubts[r] + 1
      BY <1>2, <2>1
    <2>3. failures' \in 0 .. MaxFailures /\ delivered' \in [Rows -> Nat] /\ doubts' \in [Rows -> Nat]
      BY <1>0, <1>3, StaffFacts
    <2>4. \A r \in done :
           /\ rows'[r].st # "none"
           /\ delivered'[r] <= doubts'[r] + (IF rows'[r].st \in {"pending", "deferred"} THEN 0 ELSE 1)
           /\ rows'[r].st = "pending" => /\ rows'[r].attempts < MaxAttempts
                                         /\ r \notin Mails => delivered'[r] <= rows'[r].attempts
           /\ r \notin Mails => /\ delivered'[r] <= MaxAttempts
                                /\ rows'[r].st = "sent" => delivered'[r] > 0
      BY <1>3, <2>2
    <2>5. \A r \in Rows \ done : rows'[r] = rows[r] /\ delivered'[r] = delivered[r] /\ doubts'[r] = doubts[r]
      BY <1>3, <2>1
    <2> QED BY <1>1, <1>3, <2>1, <2>3, <2>4, <2>5, StaffDealt
  <1>4. CASE RecordDigest
    BY <1>0, <1>3, <1>4 DEF RecordDigest
  <1>5. ASSUME NEW u \in Users, RefuseDigest(u) PROVE OInv'
    <2>1. /\ staff.sent = {} /\ Update(DigestOf(u), "failed")
          /\ staff' = StaffDone(staff.todo \ DigestOf(u)) /\ UNCHANGED <<delivered, doubts, failures>>
      BY <1>5 DEF RefuseDigest
    <2>2. DigestOf(u) \in SUBSET staff.todo /\ staff.sent \subseteq DigestOf(u)
      BY <1>0, <2>1
    <2> QED BY <1>3, <2>1, <2>2
  <1>6. ASSUME NEW u \in Users, DigestFails(u) PROVE OInv'
    <2> DEFINE done == DigestOf(u)
    <2>1. /\ staff' = StaffDone(staff.todo \ done)
          /\ rows' = [r \in Rows |-> IF r \in done /\ rows[r].st # "gone" THEN Parked(r) ELSE rows[r]]
          /\ \/ staff.sent = {} /\ Throws(done)
             \/ staff.sent = done /\ Fail /\ doubts' = Counted(doubts, done) /\ UNCHANGED delivered
      BY <1>6 DEF DigestFails
    <2>2. done \in SUBSET staff.todo /\ staff.sent \subseteq done
      BY <1>0, <2>1
    <2> HIDE DEF done
    <2>3. \A r \in Rows : Parked(r) \in RowState /\ Parked(r).st = "deferred"
      <3>1. \A r \in Rows : rows[r].attempts \in 0 .. MaxAttempts
        BY <1>0 DEF RowState
      <3> QED BY <3>1, OutboxAssumption DEF Parked, RowState
    <2>4. \A r \in Rows : rows'[r] = IF r \in done /\ rows[r].st # "gone" THEN Parked(r) ELSE rows[r]
      BY <2>1
    <2>5. rows' \in [Rows -> RowState]
      BY <1>0, <2>1, <2>3
    <2>6. /\ delivered' \in [Rows -> Nat] /\ doubts' \in [Rows -> Nat] /\ failures' \in 0 .. MaxFailures
          /\ \A r \in Rows \ done : delivered'[r] = delivered[r] /\ doubts'[r] = doubts[r]
          /\ \A r \in done : delivered'[r] <= doubts'[r]
      <3>1. CASE staff.sent = {} /\ Throws(done)
        <4>1. /\ delivered' \in [Rows -> Nat] /\ doubts' \in [Rows -> Nat] /\ failures' \in 0 .. MaxFailures
              /\ \E n \in {0, 1} : \A r \in Rows :
                   /\ delivered'[r] = delivered[r] + (IF r \in done THEN n ELSE 0)
                   /\ doubts'[r] = doubts[r] + (IF r \in done THEN n ELSE 0)
          BY <1>0, <3>1, ThrowsFacts
        <4>2. PICK n \in {0, 1} : \A r \in Rows :
                /\ delivered'[r] = delivered[r] + (IF r \in done THEN n ELSE 0)
                /\ doubts'[r] = doubts[r] + (IF r \in done THEN n ELSE 0)
          BY <4>1
        <4> QED BY <1>0, <1>2, <2>2, <3>1, <4>1, <4>2
      <3>2. CASE staff.sent = done /\ Fail /\ doubts' = Counted(doubts, done) /\ UNCHANGED delivered
        <4>1. /\ doubts' \in [Rows -> Nat]
              /\ \A r \in Rows : doubts'[r] = IF r \in done THEN doubts[r] + 1 ELSE doubts[r]
          BY <1>0, <3>2, CountedFacts
        <4>2. failures' \in 0 .. MaxFailures
          BY <3>2, StaffFacts
        <4> QED BY <1>0, <1>2, <2>2, <3>2, <4>1, <4>2
      <3> QED BY <2>1, <3>1, <3>2
    <2>7. ASSUME NEW r \in done
          PROVE  rows'[r].st \in {"deferred", "gone"} /\ r \in Mails /\ delivered'[r] <= doubts'[r]
      <3>1. r \in Rows /\ r \in Mails
        BY <1>2, <2>2
      <3> QED BY <2>3, <2>4, <2>6, <3>1
    <2>8. \A r \in done :
           /\ rows'[r].st # "none"
           /\ delivered'[r] <= doubts'[r] + (IF rows'[r].st \in {"pending", "deferred"} THEN 0 ELSE 1)
           /\ rows'[r].st = "pending" => /\ rows'[r].attempts < MaxAttempts
                                         /\ r \notin Mails => delivered'[r] <= rows'[r].attempts
           /\ r \notin Mails => /\ delivered'[r] <= MaxAttempts
                                /\ rows'[r].st = "sent" => delivered'[r] > 0
      <3> TAKE r \in done
      <3>1. delivered'[r] \in Nat /\ doubts'[r] \in Nat
        BY <1>2, <2>2, <2>6
      <3> QED BY <2>7, <3>1
    <2>9. \A r \in Rows \ done : rows'[r] = rows[r] /\ delivered'[r] = delivered[r] /\ doubts'[r] = doubts[r]
      BY <2>4, <2>6
    <2> QED BY <1>1, <2>1, <2>2, <2>5, <2>6, <2>8, <2>9, StaffDealt
  <1> QED BY <1>4, <1>5, <1>6

(* One row at a time. *)
LEMMA StaffRowSteps ==
  ASSUME OInv, RecordStaff \/ \E q \in StaffRows : RouteStaff(q) \/ SendStaffThrows(q) \/ StaffThrows(q)
  PROVE  OInv'
  <1>0. /\ Typed /\ staff.todo \in SUBSET Rows /\ staff.sent \in SUBSET staff.todo
        /\ delivered \in [Rows -> Nat] /\ doubts \in [Rows -> Nat] /\ rows \in [Rows -> RowState]
        /\ \A r \in Rows : rows[r] \in RowState /\ rows[r].attempts \in Nat
    BY StaffFacts
  <1>1. staff.pc = "rows" /\ UNCHANGED <<users, client, down, changes>>
    BY DEF RecordStaff, RouteStaff, SendStaffThrows, StaffThrows
  <1>2. \A r \in staff.todo :
          /\ rows[r].st \in {"sending", "gone"} /\ r \in Rows
          /\ delivered[r] \in Nat /\ doubts[r] \in Nat /\ rows[r].attempts \in Nat
          /\ r \in staff.sent => /\ delivered[r] <= doubts[r] + 1
                                 /\ r \notin Mails => delivered[r] <= MaxAttempts /\ delivered[r] > 0
          /\ r \notin staff.sent => /\ delivered[r] <= doubts[r] /\ rows[r].attempts < MaxAttempts
                                    /\ r \notin Mails => delivered[r] <= rows[r].attempts
    <2> TAKE r \in staff.todo
    <2>1. r \in Rows /\ Claimed(r) /\ (Out(r) <=> r \in staff.sent)
      BY <1>0, StaffFacts DEF Claimed, Out
    <2> QED BY <1>0, <1>1, <2>1, ClaimedRow
  <1>3. CASE RecordStaff
    <2>1. /\ staff' = StaffDone(staff.todo \ staff.sent) /\ UNCHANGED <<delivered, doubts>>
          /\ (Update(staff.sent, "sent") /\ UNCHANGED failures) \/ (Fail /\ UNCHANGED rows)
      BY <1>3 DEF RecordStaff
    <2>2. /\ rows' \in [Rows -> RowState]
          /\ \A r \in Rows : rows'[r] = rows[r] \/ (r \in staff.sent /\ rows'[r].st = "sent")
      <3>1. CASE Update(staff.sent, "sent")
        BY <1>0, <3>1, Updated
      <3>2. CASE UNCHANGED rows
        BY <1>0, <3>2
      <3> QED BY <2>1, <3>1, <3>2
    <2>3. delivered' \in [Rows -> Nat] /\ doubts' \in [Rows -> Nat] /\ failures' \in 0 .. MaxFailures
      BY <1>0, <2>1, StaffFacts
    <2>4. \A r \in staff.sent :
           /\ rows'[r].st # "none"
           /\ delivered'[r] <= doubts'[r] + (IF rows'[r].st \in {"pending", "deferred"} THEN 0 ELSE 1)
           /\ rows'[r].st = "pending" => /\ rows'[r].attempts < MaxAttempts
                                         /\ r \notin Mails => delivered'[r] <= rows'[r].attempts
           /\ r \notin Mails => /\ delivered'[r] <= MaxAttempts
                                /\ rows'[r].st = "sent" => delivered'[r] > 0
      <3> TAKE r \in staff.sent
      <3>1. rows'[r].st \in {"sending", "sent", "gone"}
        BY <1>0, <1>2, <2>2
      <3> QED BY <1>0, <1>2, <2>1, <3>1
    <2>5. \A r \in Rows \ staff.sent : rows'[r] = rows[r] /\ delivered'[r] = delivered[r] /\ doubts'[r] = doubts[r]
      BY <2>1, <2>2
    <2> QED BY <1>0, <1>1, <2>1, <2>2, <2>3, <2>4, <2>5, StaffDealt
  <1>4. ASSUME NEW q \in staff.todo, staff.sent = {}, staff' = StaffDone(staff.todo \ {q}),
               NEW n \in {0, 1}, failures' \in 0 .. MaxFailures,
               delivered' \in [Rows -> Nat], doubts' \in [Rows -> Nat],
               \A r \in Rows : /\ delivered'[r] = delivered[r] + (IF r \in {q} THEN n ELSE 0)
                               /\ doubts'[r] = doubts[r] + (IF r \in {q} THEN n ELSE 0),
               NEW row \in RowState, rows' = [rows EXCEPT ![q] = row],
               \/ row.st \in {"failed", "deferred", "pending", "gone", "sending"}
               \/ row.st = "sent" /\ q \in Mails,
               row.st = "pending" => row.attempts < MaxAttempts /\ row.attempts = rows[q].attempts + 1
        PROVE  OInv'
    <2>1. /\ rows' \in [Rows -> RowState] /\ rows'[q] = row
          /\ \A r \in Rows : r # q => rows'[r] = rows[r]
      BY <1>0, <1>4
    <2>2. /\ delivered[q] <= doubts[q] /\ rows[q].attempts < MaxAttempts
          /\ q \notin Mails => delivered[q] <= rows[q].attempts
          /\ delivered[q] \in Nat /\ doubts[q] \in Nat /\ rows[q].attempts \in Nat /\ q \in Rows
      BY <1>2, <1>4
    <2>3. delivered'[q] = delivered[q] + n /\ doubts'[q] = doubts[q] + n
      BY <1>4, <2>2
    <2>4. /\ delivered'[q] <= doubts'[q] /\ delivered'[q] \in Nat /\ doubts'[q] \in Nat
          /\ q \notin Mails => delivered'[q] <= rows[q].attempts + 1 /\ delivered'[q] <= MaxAttempts
      BY <2>2, <2>3, OutboxAssumption
    <2>5. \A r \in {q} :
           /\ rows'[r].st # "none"
           /\ delivered'[r] <= doubts'[r] + (IF rows'[r].st \in {"pending", "deferred"} THEN 0 ELSE 1)
           /\ rows'[r].st = "pending" => /\ rows'[r].attempts < MaxAttempts
                                         /\ r \notin Mails => delivered'[r] <= rows'[r].attempts
           /\ r \notin Mails => /\ delivered'[r] <= MaxAttempts
                                /\ rows'[r].st = "sent" => delivered'[r] > 0
      BY <1>4, <2>1, <2>4
    <2>6. /\ {q} \in SUBSET staff.todo /\ staff.sent \subseteq {q}
          /\ \A r \in Rows \ {q} : rows'[r] = rows[r] /\ delivered'[r] = delivered[r] /\ doubts'[r] = doubts[r]
      BY <1>0, <1>4, <2>1
    <2> QED BY <1>1, <1>4, <2>1, <2>5, <2>6, StaffDealt
  <1>5. ASSUME NEW q \in staff.todo, staff.sent = {}, staff' = StaffDone(staff.todo \ {q}),
               Fail \/ UNCHANGED failures, UNCHANGED <<delivered, doubts>>,
               NEW row \in RowState, rows' = [rows EXCEPT ![q] = row],
               \/ row.st \in {"failed", "deferred", "pending", "gone", "sending"}
               \/ row.st = "sent" /\ q \in Mails,
               row.st = "pending" => row.attempts < MaxAttempts /\ row.attempts = rows[q].attempts + 1
        PROVE  OInv'
    <2>1. /\ delivered' \in [Rows -> Nat] /\ doubts' \in [Rows -> Nat] /\ failures' \in 0 .. MaxFailures
          /\ \A r \in Rows : /\ delivered'[r] = delivered[r] + (IF r \in {q} THEN 0 ELSE 0)
                             /\ doubts'[r] = doubts[r] + (IF r \in {q} THEN 0 ELSE 0)
      BY <1>0, <1>5, StaffFacts
    <2> QED BY <1>4, <1>5, <2>1
  <1>6. ASSUME NEW q \in StaffRows, RouteStaff(q) PROVE OInv'
    <2>1. /\ staff.sent = {} /\ q \in staff.todo /\ Route(q) # "send"
          /\ rows' = [rows EXCEPT ![q] = IF @.st = "gone" THEN @ ELSE [@ EXCEPT !.st = Route(q), !.due = FALSE]]
          /\ staff' = StaffDone(staff.todo \ {q}) /\ UNCHANGED <<delivered, doubts, failures>>
      BY <1>6 DEF RouteStaff
    <2>2. Route(q) \in {"failed", "deferred"} \/ (Route(q) = "sent" /\ q \in Mails)
      <3>1. q \in Rows
        BY <1>0, <2>1
      <3> QED BY <2>1, <3>1 DEF Route, Mails
    <2> DEFINE routed == [rows[q] EXCEPT !.st = Route(q), !.due = FALSE]
               row == IF rows[q].st = "gone" THEN rows[q] ELSE routed
    <2>3. rows' = [rows EXCEPT ![q] = row]
      BY <2>1, Zenon
    <2> HIDE DEF Route
    <2>4. rows[q] \in RowState
      BY <1>0, <2>1
    <2>5. routed \in RowState /\ routed.st = Route(q)
      BY <2>2, <2>4 DEF RowState
    <2> HIDE DEF routed
    <2>6. /\ row \in RowState
          /\ row.st = "gone" \/ row.st = Route(q)
      BY <2>4, <2>5
    <2> HIDE DEF row
    <2> QED BY <1>5, <2>1, <2>2, <2>3, <2>6
  <1>7. ASSUME NEW q \in StaffRows, SendStaffThrows(q) PROVE OInv'
    <2>1. /\ staff.sent = {} /\ q \in staff.todo /\ rows' = [rows EXCEPT ![q] = Retried(q)]
          /\ staff' = StaffDone(staff.todo \ {q})
          /\ Throws({q}) \/ UNCHANGED <<delivered, doubts, failures>>
      BY <1>7 DEF SendStaffThrows
    <2>2. q \in Rows /\ rows[q].attempts < MaxAttempts /\ rows[q].st \in {"sending", "gone"}
      BY <1>0, <1>2, <2>1
    <2> DEFINE row == Retried(q)
    <2>3. /\ row \in RowState /\ row.st \in {"pending", "failed", "gone"}
          /\ row.st = "pending" => row.attempts < MaxAttempts /\ row.attempts = rows[q].attempts + 1
      <3>1. rows[q].st = "gone" => Retried(q) = rows[q]
        BY <1>0, <2>2, RetriedRow
      <3> QED BY <1>0, <2>2, <3>1, RetriedRow
    <2>4. rows' = [rows EXCEPT ![q] = row]
      BY <2>1
    <2> HIDE DEF row
    <2>5. CASE UNCHANGED <<delivered, doubts, failures>>
      BY <1>5, <2>1, <2>3, <2>4, <2>5
    <2>6. CASE Throws({q})
      <3>1. /\ delivered' \in [Rows -> Nat] /\ doubts' \in [Rows -> Nat] /\ failures' \in 0 .. MaxFailures
            /\ \E n \in {0, 1} : \A r \in Rows :
                 /\ delivered'[r] = delivered[r] + (IF r \in {q} THEN n ELSE 0)
                 /\ doubts'[r] = doubts[r] + (IF r \in {q} THEN n ELSE 0)
        BY <1>0, <2>6, ThrowsFacts
      <3>2. PICK n \in {0, 1} : \A r \in Rows :
              /\ delivered'[r] = delivered[r] + (IF r \in {q} THEN n ELSE 0)
              /\ doubts'[r] = doubts[r] + (IF r \in {q} THEN n ELSE 0)
        BY <3>1
      <3> QED BY <1>4, <2>1, <2>3, <2>4, <3>1, <3>2
    <2> QED BY <2>1, <2>5, <2>6
  <1>8. ASSUME NEW q \in StaffRows, StaffThrows(q) PROVE OInv'
    <2>1. /\ staff.sent = {} /\ q \in staff.todo /\ staff' = StaffDone(staff.todo \ {q})
          /\ Fail /\ UNCHANGED <<rows, delivered, doubts>>
      BY <1>8 DEF StaffThrows
    <2>2. rows' = [rows EXCEPT ![q] = rows[q]] /\ rows[q] \in RowState /\ rows[q].st \in {"sending", "gone"}
      BY <1>0, <1>2, <2>1
    <2> QED BY <1>5, <2>1, <2>2
  <1> QED BY <1>3, <1>6, <1>7, <1>8

-----------------------------------------------------------------------------
LEMMA NextOInv == OInv /\ [Next]_vars => OInv'
  <1> SUFFICES ASSUME OInv, [Next]_vars PROVE OInv'
    OBVIOUS
  <1>1. CASE UNCHANGED vars
    <2>1. UNCHANGED <<rows, users, client, staff, down, delivered, doubts, failures, changes>>
      BY <1>1 DEF vars
    <2> QED BY <2>1 DEF OInv, Typed, TypeOK, Phases, RowInv, Claimed, Open, Waiting, Out
  <1>2. CASE ClientStep
    BY <1>2, ClaimClientStep, RecordClientStep, SendClientStep, ClientRowSteps DEF ClientStep
  <1>3. CASE StaffStep
    BY <1>3, StaffClaimSteps, SendSteps, TickThrowsStep, DigestSteps, StaffRowSteps DEF StaffStep
  <1>4. CASE Next /\ ~ClientStep /\ ~StaffStep
    BY <1>4, RowSteps, PreferenceSteps, CrashStep DEF Next
  <1> QED BY <1>1, <1>2, <1>3, <1>4

THEOREM OInvHolds == Spec => []OInv
  BY InitOInv, NextOInv, PTL DEF Spec

(* Whatever fails, dies or is switched off between claim, send and record: nobody gets a  *)
(* receipt or an alert more than once beyond the sends whose answer was lost, and nobody   *)
(* more than MAX_ATTEMPTS times, but for the rows of a digest.                             *)
THEOREM NobodyHearsTwice == Spec => []DeliveredOnce
  <1>1. OInv => DeliveredOnce
    <2> SUFFICES ASSUME OInv, NEW r \in Rows
                 PROVE  /\ delivered[r] <= 1 + doubts[r]
                        /\ r \notin Mails => delivered[r] <= MaxAttempts
      BY DEF DeliveredOnce
    <2>1. RowInv(r) /\ delivered[r] \in Nat /\ doubts[r] \in Nat
      BY StaffFacts
    <2> QED BY <2>1 DEF RowInv
  <1> QED BY OInvHolds, <1>1, PTL

(* A row recorded as sent was taken by the provider. *)
THEOREM RecordsAreTrue == Spec => []SentWasDelivered
  <1>1. OInv => SentWasDelivered
    BY DEF OInv, RowInv, SentWasDelivered
  <1> QED BY OInvHolds, <1>1, PTL

(* The outbox and the memory of the tickers keep their types; attempts stay bounded. *)
THEOREM OutboxTypeCorrect == Spec => []TypeOK
  <1>1. OInv => TypeOK
    BY DEF OInv, Typed
  <1> QED BY OInvHolds, <1>1, PTL

-----------------------------------------------------------------------------
(* The sessions: which blobs the rows count on, and which of them a purge takes. *)

BlobKeys == Uploads \cup {PdfBlob(s) : s \in Sessions}

PurgeRec == [pc: {"idle", "next", "blobs"}, todo: SUBSET Sessions, at: Sessions \cup {NoSession},
             paths: SUBSET BlobKeys, blobs: SUBSET BlobKeys, failed: BOOLEAN]

FormTyped == IntakeTypeOK /\ purge \in PurgeRec

UploadInv(u) ==
  /\ up[u].pc # "none" => up[u].sess \in Sessions
  /\ up[u].pc = "stored" => u \in blobs
  /\ u \in files => up[u].pc = "done" /\ (u \in blobs \/ up[u].sess \in audited)

FinInv(f) == fin[f].pc = "checked" => fin[f].sess \in Sessions

(* A conversion row goes with its session; the ticker may hold one that is gone. *)
PdfInv(s) ==
  /\ pdf[s].st \in {"pending", "orphaned", "done", "failed"} => HasRow(s)
  /\ pdf[s].st # "none" => sess[s].status # "none"
  /\ pdf[s].st = "none" => sess[s].status = "purged" \/ pdf[s].attempts = 0
  /\ pdf[s].st \in {"pending", "processing"} => pdf[s].attempts < MaxConversions
  /\ pdf[s].st = "stored" => PdfBlob(s) \in blobs
  /\ pdf[s].st = "done" => PdfBlob(s) \in blobs \/ s \in audited

(* What nobody stores again: an upload that is through, a PDF that is done. *)
Condemned(b) ==
  \/ b \in Uploads /\ up[b].pc = "done" /\ up[b].sess = purge.at
  \/ b = PdfBlob(purge.at) /\ pdf[purge.at].st = "done"

PurgeInv ==
  purge.pc = "blobs" =>
    /\ purge.at \in audited
    /\ \A b \in purge.paths : Condemned(b)
    /\ ~purge.failed => (purge.paths \ purge.blobs) \cap blobs = {}

SInv ==
  /\ FormTyped
  /\ \A u \in Uploads : UploadInv(u)
  /\ \A f \in Finals : FinInv(f)
  /\ \A s \in Sessions : PdfInv(s)
  /\ PurgeInv

-----------------------------------------------------------------------------
LEMMA BlobsApart ==
  /\ \A s \in Sessions : PdfBlob(s) \notin Uploads
  /\ \A s, t \in Sessions : PdfBlob(s) = PdfBlob(t) => s = t
  BY IntakeAssumption DEF PdfBlob

LEMMA InitSInv == IntakeInit => SInv
  <1> SUFFICES ASSUME IntakeInit PROVE SInv
    OBVIOUS
  <1>1. /\ link = [row |-> "none", uses |-> 0]
        /\ policy = [on |-> FALSE, sweep |-> "none", left |-> MaxPatches]
        /\ files = {} /\ blobs = {} /\ audited = {} /\ incidents = MaxIncidents
        /\ purge = IdlePurge
    BY DEF IntakeInit
  <1>2. sess \in [Sessions -> SessRow] /\ \A s \in Sessions : sess[s].status = "none"
    BY DEF IntakeInit, SessRow
  <1>3. up \in [Uploads -> UpState] /\ \A u \in Uploads : up[u].pc = "none"
    BY DEF IntakeInit, UpState
  <1>4. fin \in [Finals -> FinCall] /\ \A f \in Finals : fin[f].pc = "idle"
    BY DEF IntakeInit, FinCall, IdleFin
  <1>5. pdf \in [Sessions -> PdfRow] /\ \A s \in Sessions : pdf[s].st = "none" /\ pdf[s].attempts = 0
    BY IntakeAssumption DEF IntakeInit, PdfRow, NoPdf
  <1>6. purge \in PurgeRec /\ purge.pc = "idle" /\ purge.todo = {} /\ purge.blobs = {} /\ purge.paths = {}
    BY <1>1 DEF IdlePurge, PurgeRec
  <1>7. FormTyped
    <2>1. link \in [row: {"none", "unsent", "sent", "ended"}, uses: Nat]
      BY <1>1
    <2>2. policy \in [on: BOOLEAN, sweep: {"none", "clear", "backfill"}, left: 0 .. MaxPatches]
      BY <1>1, IntakeAssumption
    <2> QED BY <1>1, <1>2, <1>3, <1>4, <1>5, <1>6, <2>1, <2>2, IntakeAssumption DEF FormTyped, IntakeTypeOK
  <1> QED BY <1>1, <1>2, <1>3, <1>4, <1>5, <1>6, <1>7 DEF SInv, UploadInv, FinInv, PdfInv, PurgeInv

-----------------------------------------------------------------------------
(* What a step that leaves an upload, a conversion or the purge alone owes to it. *)
LEMMA UploadKept ==
  ASSUME NEW u \in Uploads, UploadInv(u), up'[u] = up[u],
         u \in files' => u \in files, u \in blobs => u \in blobs' \/ up[u].pc = "done",
         u \in files' /\ u \in blobs /\ u \notin blobs' => up[u].sess \in audited',
         audited \subseteq audited'
  PROVE  UploadInv(u)'
  BY DEF UploadInv

LEMMA PdfKept ==
  ASSUME NEW s \in Sessions, PdfInv(s), pdf'[s] = pdf[s],
         HasRow(s) => HasRow(s)',
         sess'[s].status = "none" => sess[s].status = "none",
         sess[s].status = "purged" => sess'[s].status = "purged",
         PdfBlob(s) \in blobs => PdfBlob(s) \in blobs' \/ (pdf[s].st # "stored" /\ s \in audited'),
         audited \subseteq audited'
  PROVE  PdfInv(s)'
  BY DEF PdfInv, PdfBlob

LEMMA PurgeKept ==
  ASSUME PurgeInv, FormTyped, purge' = purge, audited \subseteq audited',
         \A u \in Uploads : up[u].pc = "done" => up'[u] = up[u],
         \A s \in Sessions : pdf[s].st = "done" => pdf'[s] = pdf[s],
         \A b \in blobs' \ blobs : \A s \in Sessions : (b \in Uploads => up[b].pc # "done")
                                     /\ (b = PdfBlob(s) => pdf[s].st # "done" /\ b \notin Uploads),
         audited \subseteq Sessions
  PROVE  PurgeInv'
  <1> SUFFICES ASSUME purge.pc = "blobs" PROVE PurgeInv'
    BY DEF PurgeInv
  <1>1. purge.at \in audited /\ purge.at \in Sessions /\ \A b \in purge.paths : Condemned(b)
    BY DEF PurgeInv
  <1>2. \A b \in purge.paths : Condemned(b)'
    BY <1>1 DEF Condemned, PdfBlob
  <1>3. \A b \in purge.paths : b \notin blobs' \ blobs
    BY <1>1 DEF Condemned, PdfBlob
  <1> QED BY <1>1, <1>2, <1>3 DEF PurgeInv

(* Steps that change only sessions, the link and the policy, and end no session. *)
LEMMA ByRows ==
  ASSUME SInv, UNCHANGED <<up, files, blobs, fin, pdf, purge, audited, incidents>>,
         link' \in [row: {"none", "unsent", "sent", "ended"}, uses: Nat],
         policy' \in [on: BOOLEAN, sweep: {"none", "clear", "backfill"}, left: 0 .. MaxPatches],
         sess' \in [Sessions -> SessRow],
         \A s \in Sessions : \/ sess'[s].status = sess[s].status
                             \/ sess[s].status = "none" /\ sess'[s].status = "open"
  PROVE  SInv'
  <1>1. \A s \in Sessions : HasRow(s) => HasRow(s)'
    BY DEF HasRow
  <1>2. FormTyped'
    BY <1>1 DEF SInv, FormTyped, IntakeTypeOK, UploadInv
  <1>3. ASSUME NEW u \in Uploads PROVE UploadInv(u)'
    BY UploadKept DEF SInv
  <1>4. ASSUME NEW s \in Sessions PROVE PdfInv(s)'
    BY <1>1, PdfKept DEF SInv, PdfBlob
  <1>5. PurgeInv'
    BY PurgeKept DEF SInv, FormTyped, IntakeTypeOK
  <1> QED BY <1>2, <1>3, <1>4, <1>5 DEF SInv, FinInv

LEMMA SessionRow ==
  ASSUME SInv, NEW s \in Sessions
  PROVE  /\ sess[s] \in SessRow /\ sess[s].due \in {"null", "ahead", "passed"}
         /\ sess[s].status \in {"none", "open", "finalized", "purged"}
         /\ \A st \in {"open", "finalized"}, v \in BOOLEAN :
              LET row == [sess[s] EXCEPT !.status = st, !.viaLink = v, !.live = TRUE] IN
              row \in SessRow /\ row.status = st
         /\ LET row == [sess[s] EXCEPT !.live = FALSE] IN row \in SessRow /\ row.status = sess[s].status
         /\ \A d \in {"null", "ahead", "passed"} :
              LET row == [sess[s] EXCEPT !.due = d] IN row \in SessRow /\ row.status = sess[s].status
         /\ \A st \in {"finalized", "purged"}, d \in {"null", "ahead", "passed"} :
              LET row == [sess[s] EXCEPT !.status = st, !.due = d] IN row \in SessRow /\ row.status = st
  <1>1. sess[s] \in SessRow
    BY DEF SInv, FormTyped, IntakeTypeOK
  <1> QED BY <1>1 DEF SessRow

LEMMA LinkSteps == SInv /\ (CreateLink \/ ResendLink \/ EndLink \/ PatchPolicy) => SInv'
  <1> SUFFICES ASSUME SInv, CreateLink \/ ResendLink \/ EndLink \/ PatchPolicy PROVE SInv'
    OBVIOUS
  <1> USE DEF SInv, FormTyped, IntakeTypeOK
  <1>1. CASE CreateLink \/ ResendLink \/ EndLink
    <2>1. link' \in [row: {"none", "unsent", "sent", "ended"}, uses: Nat]
      BY <1>1 DEF CreateLink, ResendLink, EndLink
    <2> QED BY <1>1, <2>1, ByRows DEF CreateLink, ResendLink, EndLink
  <1>2. CASE PatchPolicy
    <2>1. policy' \in [on: BOOLEAN, sweep: {"none", "clear", "backfill"}, left: 0 .. MaxPatches]
      BY <1>2, IntakeAssumption DEF PatchPolicy
    <2> QED BY <1>2, <2>1, ByRows DEF PatchPolicy
  <1> QED BY <1>1, <1>2

LEMMA SessionChange ==
  ASSUME SInv, NEW s \in Sessions,
         (\E v \in BOOLEAN : CreateSession(s, v)) \/ TokenExpires(s) \/ Elapse(s) \/ Keep(s) \/ RevertKeep(s)
  PROVE  /\ sess' \in [Sessions -> SessRow] /\ UNCHANGED <<link, policy>>
         /\ UNCHANGED <<up, files, blobs, fin, pdf, purge, audited, incidents>>
         /\ \A t \in Sessions : \/ sess'[t].status = sess[t].status
                                \/ sess[t].status = "none" /\ sess'[t].status = "open"
  <1>0. sess \in [Sessions -> SessRow] /\ link' = link /\ policy' = policy
        /\ link \in [row: {"none", "unsent", "sent", "ended"}, uses: Nat]
        /\ policy \in [on: BOOLEAN, sweep: {"none", "clear", "backfill"}, left: 0 .. MaxPatches]
        /\ UNCHANGED <<up, files, blobs, fin, pdf, purge, audited, incidents>>
    BY DEF SInv, FormTyped, IntakeTypeOK, CreateSession, TokenExpires, Elapse, Keep, RevertKeep
  <1>1. sess' = [sess EXCEPT ![s] = sess'[s]]
    BY <1>0 DEF CreateSession, TokenExpires, Elapse, Keep, RevertKeep
  <1>2. /\ sess'[s] \in SessRow
        /\ \/ sess'[s].status = sess[s].status
           \/ sess[s].status = "none" /\ sess'[s].status = "open"
    <2>1. CASE \E v \in BOOLEAN : CreateSession(s, v)
      <3>1. PICK v \in BOOLEAN : CreateSession(s, v)
        BY <2>1
      <3> DEFINE row == [sess[s] EXCEPT !.status = "open", !.viaLink = v, !.live = TRUE]
      <3>2. sess' = [sess EXCEPT ![s] = row] /\ sess[s].status = "none"
        BY <3>1 DEF CreateSession
      <3>3. row \in SessRow /\ row.status = "open"
        BY SessionRow
      <3> HIDE DEF row
      <3> QED BY <1>0, <3>2, <3>3
    <2>2. CASE TokenExpires(s)
      BY <1>0, <2>2, SessionRow DEF TokenExpires
    <2>3. CASE Elapse(s) \/ Keep(s) \/ RevertKeep(s)
      <3>1. PICK d \in {"null", "ahead", "passed"} : sess' = [sess EXCEPT ![s].due = d]
        BY <2>3 DEF Elapse, Keep, RevertKeep
      <3> QED BY <1>0, <3>1, SessionRow
    <2> QED BY <2>1, <2>2, <2>3
  <1> QED BY <1>0, <1>1, <1>2

LEMMA SessionSteps ==
  ASSUME SInv, NEW s \in Sessions,
         (\E v \in BOOLEAN : CreateSession(s, v)) \/ TokenExpires(s) \/ Elapse(s) \/ Keep(s) \/ RevertKeep(s)
  PROVE  SInv'
  <1>1. /\ link \in [row: {"none", "unsent", "sent", "ended"}, uses: Nat]
        /\ policy \in [on: BOOLEAN, sweep: {"none", "clear", "backfill"}, left: 0 .. MaxPatches]
    BY DEF SInv, FormTyped, IntakeTypeOK
  <1>2. UNCHANGED <<link, policy>> /\ sess' \in [Sessions -> SessRow]
    BY SessionChange
  <1> QED BY <1>1, <1>2, SessionChange, ByRows

LEMMA SweptRows ==
  SInv /\ SweepPolicy => sess' \in [Sessions -> SessRow] /\ \A s \in Sessions : sess'[s].status = sess[s].status
  <1> SUFFICES ASSUME SInv, SweepPolicy
               PROVE  sess' \in [Sessions -> SessRow] /\ \A s \in Sessions : sess'[s].status = sess[s].status
    OBVIOUS
  <1>2. \A s \in Sessions : SweptDue(sess[s]) \in {"null", "ahead", "passed"}
    <2> SUFFICES ASSUME NEW s \in Sessions PROVE SweptDue(sess[s]) \in {"null", "ahead", "passed"}
      OBVIOUS
    <2> QED BY SessionRow DEF SweptDue
  <1>3. \A s \in Sessions : LET row == [sess[s] EXCEPT !.due = SweptDue(sess[s])] IN
                             row \in SessRow /\ row.status = sess[s].status
    <2> SUFFICES ASSUME NEW s \in Sessions
                 PROVE  LET row == [sess[s] EXCEPT !.due = SweptDue(sess[s])] IN
                        row \in SessRow /\ row.status = sess[s].status
      OBVIOUS
    <2>1. ASSUME NEW d \in {"null", "ahead", "passed"}
          PROVE  LET row == [sess[s] EXCEPT !.due = d] IN row \in SessRow /\ row.status = sess[s].status
      BY SessionRow
    <2> QED BY <1>2, <2>1
  <1>4. sess' \in [Sessions -> SessRow] /\ \A s \in Sessions : sess'[s].status = sess[s].status
    BY <1>3 DEF SweepPolicy
  <1> QED BY <1>4

LEMMA SweepPolicyStep == SInv /\ SweepPolicy => SInv'
  <1> SUFFICES ASSUME SInv, SweepPolicy PROVE SInv'
    OBVIOUS
  <1>1. policy' \in [on: BOOLEAN, sweep: {"none", "clear", "backfill"}, left: 0 .. MaxPatches]
    BY DEF SweepPolicy, SInv, FormTyped, IntakeTypeOK
  <1> QED BY <1>1, SweptRows, ByRows DEF SweepPolicy, SInv, FormTyped, IntakeTypeOK

-----------------------------------------------------------------------------
(* A step of one upload that is not through. *)
LEMMA ByUpload ==
  ASSUME SInv, NEW u \in Uploads, UNCHANGED <<link, policy, sess, fin, pdf, purge, audited>>,
         incidents' \in 0 .. MaxIncidents,
         up' \in [Uploads -> UpState], \A v \in Uploads \ {u} : up'[v] = up[v],
         up[u].pc # "done", up'[u].pc # "none" => up'[u].sess \in Sessions,
         blobs \subseteq blobs', blobs' \subseteq blobs \cup {u},
         files \subseteq files', files' \subseteq files \cup {u},
         up'[u].pc = "stored" => u \in blobs',
         u \in files' => up'[u].pc = "done" /\ u \in blobs' /\ HasRow(up'[u].sess)
  PROVE  SInv'
  <1>1. u \notin files
    BY DEF SInv, UploadInv
  <1>2. FormTyped'
    <2>1. \A v \in files' : HasRow(up[v].sess)'
      BY <1>1 DEF SInv, FormTyped, IntakeTypeOK, HasRow
    <2> QED BY <2>1 DEF SInv, FormTyped, IntakeTypeOK
  <1>3. ASSUME NEW v \in Uploads PROVE UploadInv(v)'
    <2>1. CASE v = u
      BY <2>1 DEF UploadInv
    <2>2. CASE v # u
      BY <2>2, UploadKept DEF SInv
    <2> QED BY <2>1, <2>2
  <1>4. ASSUME NEW s \in Sessions PROVE PdfInv(s)'
    BY PdfKept DEF SInv, HasRow, PdfBlob
  <1>5. PurgeInv'
    BY PurgeKept, BlobsApart DEF SInv, FormTyped, IntakeTypeOK
  <1> QED BY <1>2, <1>3, <1>4, <1>5 DEF SInv, FinInv

LEMMA UploadRow ==
  ASSUME SInv, NEW u \in Uploads,
         NEW pc \in {"none", "checked", "open", "whole", "scanned", "stored", "done", "dropped"}
  PROVE  /\ up[u] \in UpState
         /\ Goto(u, pc) => /\ up' \in [Uploads -> UpState] /\ up'[u].pc = pc /\ up'[u].sess = up[u].sess
                           /\ \A v \in Uploads \ {u} : up'[v] = up[v]
  BY DEF SInv, FormTyped, IntakeTypeOK, UpState, Goto

LEMMA IncidentFacts ==
  ASSUME SInv PROVE (Incident \/ UNCHANGED incidents) => incidents' \in 0 .. MaxIncidents
  BY IntakeAssumption DEF SInv, FormTyped, IntakeTypeOK, Incident

LEMMA CheckCapStep ==
  ASSUME SInv, NEW u \in Uploads, NEW s \in Sessions, CheckCap(u, s)
  PROVE  SInv'
  <1>1. /\ up' \in [Uploads -> UpState] /\ up'[u].pc = "checked" /\ up'[u].sess = s
        /\ \A v \in Uploads \ {u} : up'[v] = up[v]
    BY DEF CheckCap, SInv, FormTyped, IntakeTypeOK, UpState
  <1>2. u \notin files /\ up[u].pc = "none"
    BY DEF CheckCap, SInv, UploadInv
  <1>3. UNCHANGED <<link, policy, sess, files, blobs, fin, pdf, purge, audited, incidents>>
    BY DEF CheckCap
  <1> QED BY <1>1, <1>2, <1>3, ByUpload, IncidentFacts

LEMMA UploadSteps ==
  ASSUME SInv, NEW u \in Uploads, LastByte(u) \/ Terminate(u) \/ UploadStep(u)
  PROVE  SInv'
  <1>0. /\ up[u].pc # "none" => up[u].sess \in Sessions
        /\ up[u].pc # "done" => u \notin files
        /\ up[u].pc = "stored" => u \in blobs
    BY DEF SInv, UploadInv
  <1>1. CASE LastByte(u) \/ Terminate(u) \/ Scan(u) \/ InsertUpload(u)
    <2>1. PICK pc \in {"open", "whole", "scanned", "dropped"} : Goto(u, pc)
      BY <1>1 DEF LastByte, Terminate, Scan, InsertUpload
    <2>2. /\ UNCHANGED <<link, policy, sess, files, blobs, fin, pdf, purge, audited, incidents>>
          /\ up[u].pc \in {"open", "whole", "checked"}
      BY <1>1 DEF LastByte, Terminate, Scan, InsertUpload
    <2> QED BY <1>0, <2>1, <2>2, UploadRow, ByUpload, IncidentFacts
  <1>2. CASE StoreBlob(u)
    <2>1. /\ UNCHANGED <<link, policy, sess, files, fin, pdf, purge, audited>>
          /\ up[u].pc = "scanned" /\ (Incident \/ UNCHANGED incidents)
          /\ \/ blobs' = blobs \cup {u} /\ Goto(u, "stored")
             \/ blobs' = blobs /\ Goto(u, "dropped")
      BY <1>2 DEF StoreBlob
    <2> QED BY <1>0, <2>1, UploadRow, ByUpload, IncidentFacts
  <1>3. CASE InsertFile(u)
    <2>1. /\ UNCHANGED <<link, policy, sess, blobs, fin, pdf, purge, audited, incidents>>
          /\ up[u].pc = "stored"
          /\ \/ HasRow(up[u].sess) /\ files' = files \cup {u} /\ Goto(u, "done")
             \/ files' = files /\ Goto(u, "dropped")
      BY <1>3 DEF InsertFile
    <2> QED BY <1>0, <2>1, UploadRow, ByUpload, IncidentFacts
  <1> QED BY <1>1, <1>2, <1>3 DEF UploadStep

-----------------------------------------------------------------------------
(* A step of the conversion of one session, which may store its PDF. *)
LEMMA ByPdf ==
  ASSUME SInv, NEW s \in Sessions, UNCHANGED <<link, policy, sess, up, files, fin, purge, audited, incidents>>,
         pdf' \in [Sessions -> PdfRow], \A t \in Sessions \ {s} : pdf'[t] = pdf[t],
         pdf[s].st # "done",
         blobs \subseteq blobs', blobs' \subseteq blobs \cup {PdfBlob(s)},
         PdfInv(s)'
  PROVE  SInv'
  <1>1. FormTyped'
    BY DEF SInv, FormTyped, IntakeTypeOK, HasRow
  <1>2. ASSUME NEW u \in Uploads PROVE UploadInv(u)'
    BY UploadKept DEF SInv
  <1>3. ASSUME NEW t \in Sessions, t # s PROVE PdfInv(t)'
    BY <1>3, PdfKept DEF SInv, HasRow, PdfBlob
  <1>4. PurgeInv'
    BY PurgeKept, BlobsApart DEF SInv, FormTyped, IntakeTypeOK
  <1> QED BY <1>1, <1>2, <1>3, <1>4 DEF SInv, FinInv

LEMMA ConversionRow ==
  ASSUME SInv, NEW s \in Sessions
  PROVE  /\ pdf[s] \in PdfRow /\ pdf[s].attempts \in Nat /\ pdf[s].attempts \in 0 .. MaxConversions
         /\ \A st \in {"none", "pending", "processing", "stored", "orphaned", "done", "failed"} :
              LET row == [pdf[s] EXCEPT !.st = st] IN
              row \in PdfRow /\ row.st = st /\ row.attempts = pdf[s].attempts
         /\ NoPdf \in PdfRow /\ NoPdf.st = "none" /\ NoPdf.attempts = 0
  <1> DEFINE Tries == 0 .. MaxConversions
  <1>1. pdf[s] \in PdfRow /\ 0 \in Tries
    BY IntakeAssumption DEF SInv, FormTyped, IntakeTypeOK
  <1>2. PdfRow = [st: {"none", "pending", "processing", "stored", "orphaned", "done", "failed"}, attempts: Tries]
    BY DEF PdfRow
  <1>3. pdf[s].attempts \in Tries
    BY <1>1, <1>2
  <1>4. pdf[s].attempts \in Nat /\ pdf[s].attempts \in 0 .. MaxConversions
    BY <1>3
  <1> HIDE DEF Tries
  <1>5. NoPdf \in PdfRow /\ NoPdf.st = "none" /\ NoPdf.attempts = 0
    BY <1>1, <1>2 DEF NoPdf
  <1>6. \A st \in {"none", "pending", "processing", "stored", "orphaned", "done", "failed"} :
          LET row == [pdf[s] EXCEPT !.st = st] IN
          row \in PdfRow /\ row.st = st /\ row.attempts = pdf[s].attempts
    BY <1>1, <1>2
  <1> QED BY <1>1, <1>4, <1>5, <1>6

LEMMA ConversionSteps ==
  ASSUME SInv, NEW s \in Sessions, PdfStep(s)
  PROVE  SInv'
  <1>0. /\ PdfInv(s) /\ pdf \in [Sessions -> PdfRow]
        /\ UNCHANGED <<link, policy, sess, up, files, fin, purge, audited, incidents>>
    BY DEF SInv, FormTyped, IntakeTypeOK, PdfStep, ClaimPdf, StorePdf, FinishPdf, FailPdf
  <1>1. CASE ClaimPdf(s) \/ StorePdf(s) \/ FinishPdf(s)
    <2>1. ASSUME NEW st \in {"none", "pending", "processing", "stored", "orphaned", "done", "failed"},
                 pdf' = [pdf EXCEPT ![s].st = st]
          PROVE  /\ pdf' \in [Sessions -> PdfRow] /\ \A t \in Sessions \ {s} : pdf'[t] = pdf[t]
                 /\ pdf'[s].st = st /\ pdf'[s].attempts = pdf[s].attempts
      <3> DEFINE row == [pdf[s] EXCEPT !.st = st]
      <3>1. row \in PdfRow /\ row.st = st /\ row.attempts = pdf[s].attempts
        BY ConversionRow
      <3>2. pdf' = [pdf EXCEPT ![s] = row]
        BY <2>1
      <3> HIDE DEF row
      <3> QED BY <1>0, <3>1, <3>2
    <2>4. CASE ClaimPdf(s)
      <3>1. /\ pdf[s].st = "pending" /\ HasRow(s) /\ blobs' = blobs
            /\ pdf' = [pdf EXCEPT ![s].st = "processing"]
        BY <2>4 DEF ClaimPdf
      <3>2. PdfInv(s)'
        BY <1>0, <2>1, <3>1 DEF PdfInv, HasRow, PdfBlob
      <3> QED BY <1>0, <2>1, <3>1, <3>2, ByPdf
    <2>5. CASE StorePdf(s)
      <3>1. /\ pdf[s].st = "processing" /\ blobs' = blobs \cup {PdfBlob(s)}
            /\ pdf' = [pdf EXCEPT ![s].st = "stored"]
        BY <2>5 DEF StorePdf
      <3>2. PdfInv(s)'
        BY <1>0, <2>1, <3>1 DEF PdfInv, HasRow, PdfBlob
      <3> QED BY <1>0, <2>1, <3>1, <3>2, ByPdf
    <2>6. CASE FinishPdf(s)
      <3>1. /\ pdf[s].st = "stored" /\ blobs' = blobs
            /\ \/ HasRow(s) /\ pdf' = [pdf EXCEPT ![s].st = "done"]
               \/ ~HasRow(s) /\ pdf' = [pdf EXCEPT ![s].st = "none"]
        BY <2>6 DEF FinishPdf
      <3>2. sess[s].status \in {"none", "open", "finalized", "purged"}
        BY SessionRow
      <3>3. PdfInv(s)'
        BY <1>0, <2>1, <3>1, <3>2 DEF PdfInv, HasRow, PdfBlob
      <3> QED BY <1>0, <2>1, <3>1, <3>3, ByPdf
    <2> QED BY <1>1, <2>4, <2>5, <2>6
  <1>2. CASE FailPdf(s)
    <2>1. pdf[s].st = "processing" /\ blobs' = blobs /\ pdf[s].attempts < MaxConversions
      BY <1>0, <1>2 DEF FailPdf, PdfInv
    <2>2. pdf[s].attempts + 1 \in 0 .. MaxConversions
      <3>1. pdf[s].attempts \in Nat /\ MaxConversions \in Nat
        BY ConversionRow, IntakeAssumption
      <3> QED BY ONLY <2>1, <3>1
    <2>3. /\ pdf'[s] \in PdfRow
          /\ ~HasRow(s) => pdf'[s].st = "none"
          /\ HasRow(s) => \/ pdf'[s].st = "failed"
                          \/ pdf'[s].st = "pending" /\ pdf'[s].attempts < MaxConversions
          /\ \A t \in Sessions \ {s} : pdf'[t] = pdf[t]
      <3>1. CASE ~HasRow(s)
        BY <1>0, <1>2, <3>1, ConversionRow DEF FailPdf
      <3>2. CASE HasRow(s)
        <4> DEFINE row == [st |-> IF pdf[s].attempts + 1 >= MaxConversions THEN "failed" ELSE "pending",
                           attempts |-> pdf[s].attempts + 1]
        <4>1. pdf'[s] = row /\ \A t \in Sessions \ {s} : pdf'[t] = pdf[t]
          BY <1>0, <1>2, <3>2 DEF FailPdf
        <4>2. row \in PdfRow
          BY <2>2 DEF PdfRow
        <4>3. row.st = "failed" \/ (row.st = "pending" /\ row.attempts < MaxConversions)
          BY <2>2, ConversionRow, IntakeAssumption
        <4> QED BY <3>2, <4>1, <4>2, <4>3
      <3> QED BY <3>1, <3>2
    <2>4. pdf' \in [Sessions -> PdfRow]
      BY <1>0, <1>2, <2>3 DEF FailPdf
    <2>5. sess[s].status \in {"none", "open", "finalized", "purged"}
      BY SessionRow
    <2>6. PdfInv(s)'
      BY <1>0, <2>1, <2>3, <2>5 DEF PdfInv, HasRow, PdfBlob
    <2> QED BY <1>0, <2>1, <2>3, <2>4, <2>6, ByPdf
  <1> QED BY <1>1, <1>2 DEF PdfStep

-----------------------------------------------------------------------------
(* Finalizing. *)
LEMMA StartFinalizeStep ==
  ASSUME SInv, NEW f \in Finals, NEW s \in Sessions, StartFinalize(f, s)
  PROVE  SInv'
  <1>1. /\ UNCHANGED <<link, policy, sess, up, files, blobs, pdf, purge, audited, incidents>>
        /\ fin' = [fin EXCEPT ![f] = [pc |-> "checked", sess |-> s, stamp |-> policy.on]]
        /\ policy.on \in BOOLEAN /\ fin \in [Finals -> FinCall]
    BY DEF StartFinalize, SInv, FormTyped, IntakeTypeOK
  <1>2. fin' \in [Finals -> FinCall] /\ fin'[f].sess = s /\ \A g \in Finals \ {f} : fin'[g] = fin[g]
    BY <1>1 DEF FinCall
  <1>3. FormTyped'
    BY <1>1, <1>2 DEF SInv, FormTyped, IntakeTypeOK, HasRow
  <1>4. ASSUME NEW u \in Uploads PROVE UploadInv(u)'
    BY <1>1, UploadKept DEF SInv
  <1>5. ASSUME NEW t \in Sessions PROVE PdfInv(t)'
    BY <1>1, PdfKept DEF SInv, HasRow, PdfBlob
  <1>6. PurgeInv'
    BY <1>1, PurgeKept DEF SInv, FormTyped, IntakeTypeOK
  <1>7. ASSUME NEW g \in Finals PROVE FinInv(g)'
    BY <1>2 DEF SInv, FinInv
  <1> QED BY <1>3, <1>4, <1>5, <1>6, <1>7 DEF SInv

LEMMA FinalizedOnly ==
  ASSUME SInv, NEW f \in Finals, CommitFinalize(f), NEW t \in Sessions
  PROVE  sess'[t].status \in {sess[t].status, "finalized"}
  <1>1. \/ sess' = sess
        \/ /\ fin[f].sess \in Sessions
           /\ \E row : sess' = [sess EXCEPT ![fin[f].sess] = row] /\ row.status = "finalized"
    <2> DEFINE row == [sess[fin[f].sess] EXCEPT !.status = "finalized",
                                                !.due = IF fin[f].stamp THEN "ahead" ELSE sess[fin[f].sess].due]
    <2>1. sess' = sess \/ sess' = [sess EXCEPT ![fin[f].sess] = row]
      BY DEF CommitFinalize
    <2>2. fin[f].sess \in Sessions /\ (\A s \in Sessions : sess[s] \in SessRow)
      BY DEF CommitFinalize, SInv, FinInv, FormTyped, IntakeTypeOK
    <2>3. row.status = "finalized"
      BY <2>2 DEF SessRow
    <2> QED BY <2>1, <2>2, <2>3
  <1> QED BY <1>1 DEF SInv, FormTyped, IntakeTypeOK

LEMMA CommitFinalizeStep ==
  ASSUME SInv, NEW f \in Finals, CommitFinalize(f)
  PROVE  SInv'
  <1> PICK s \in Sessions : s = fin[f].sess
    BY DEF CommitFinalize, SInv, FinInv
  <1>0. /\ s = fin[f].sess /\ fin \in [Finals -> FinCall] /\ fin' = [fin EXCEPT ![f] = IdleFin]
        /\ UNCHANGED <<policy, up, files, blobs, purge, audited, incidents>>
        /\ sess \in [Sessions -> SessRow] /\ pdf \in [Sessions -> PdfRow]
        /\ link \in [row: {"none", "unsent", "sent", "ended"}, uses: Nat]
    BY DEF CommitFinalize, SInv, FormTyped, IntakeTypeOK, FinInv
  <1>1. fin' \in [Finals -> FinCall] /\ \A g \in Finals : fin'[g].pc = "checked" => fin'[g] = fin[g]
    BY <1>0 DEF FinCall, IdleFin
  <1>2. /\ sess' \in [Sessions -> SessRow] /\ pdf' \in [Sessions -> PdfRow]
        /\ link' \in [row: {"none", "unsent", "sent", "ended"}, uses: Nat]
        /\ \A t \in Sessions \ {s} : sess'[t] = sess[t] /\ pdf'[t] = pdf[t]
        /\ \/ sess' = sess /\ pdf' = pdf
           \/ /\ HasRow(s) /\ sess'[s].status = "finalized"
              /\ pdf'[s].attempts = pdf[s].attempts
              /\ pdf'[s].st = IF pdf[s].st = "none" THEN "pending" ELSE pdf[s].st
    <2>1. CASE ~HasRow(s)
      BY <1>0, <2>1 DEF CommitFinalize
    <2>2. CASE HasRow(s)
      <3> DEFINE d == IF fin[f].stamp THEN "ahead" ELSE sess[s].due
                 row == [sess[s] EXCEPT !.status = "finalized", !.due = d]
      <3>1. sess' = [sess EXCEPT ![s] = row]
        BY <1>0, <2>2 DEF CommitFinalize
      <3>2. sess' \in [Sessions -> SessRow] /\ sess'[s].status = "finalized"
            /\ \A t \in Sessions \ {s} : sess'[t] = sess[t]
        <4>1. d \in {"null", "ahead", "passed"}
          BY <1>0, SessionRow
        <4> HIDE DEF d
        <4>2. row \in SessRow /\ row.status = "finalized"
          BY <1>0, <4>1, SessionRow
        <4> HIDE DEF row
        <4> QED BY <1>0, <3>1, <4>2
      <3>3. link' \in [row: {"none", "unsent", "sent", "ended"}, uses: Nat]
        <4>1. PICK n \in {0, 1} : link' = [link EXCEPT !.uses = @ + n]
          BY <1>0, <2>2 DEF CommitFinalize
        <4>2. link.uses \in Nat /\ link.uses + n \in Nat
          BY <1>0
        <4> QED BY <1>0, <4>1, <4>2
      <3>4. PICK st \in {"none", "pending", "processing", "stored", "orphaned", "done", "failed"} :
              /\ st = IF pdf[s].st = "none" THEN "pending" ELSE pdf[s].st
              /\ pdf' = [pdf EXCEPT ![s].st = st]
        BY <1>0, <2>2 DEF CommitFinalize, PdfRow
      <3>5. pdf' \in [Sessions -> PdfRow] /\ pdf'[s].attempts = pdf[s].attempts /\ pdf'[s].st = st
            /\ \A t \in Sessions \ {s} : pdf'[t] = pdf[t]
        <4> DEFINE entry == [pdf[s] EXCEPT !.st = st]
        <4>1. entry \in PdfRow /\ entry.st = st /\ entry.attempts = pdf[s].attempts
          BY ConversionRow
        <4>2. pdf' = [pdf EXCEPT ![s] = entry]
          BY <3>4
        <4> HIDE DEF entry
        <4> QED BY <1>0, <4>1, <4>2
      <3> QED BY <2>2, <3>2, <3>3, <3>4, <3>5
    <2> QED BY <2>1, <2>2
  <1>3. \A t \in Sessions : HasRow(t) => HasRow(t)'
    BY <1>0, <1>2 DEF HasRow
  <1>4. FormTyped'
    BY <1>0, <1>1, <1>2, <1>3 DEF SInv, FormTyped, IntakeTypeOK, UploadInv
  <1>5. ASSUME NEW u \in Uploads PROVE UploadInv(u)'
    BY <1>0, UploadKept DEF SInv
  <1>6. ASSUME NEW t \in Sessions PROVE PdfInv(t)'
    <2>1. CASE pdf'[t] = pdf[t] /\ sess'[t] = sess[t]
      BY <1>0, <1>3, <2>1, PdfKept DEF SInv, PdfBlob
    <2>2. CASE ~(pdf'[t] = pdf[t] /\ sess'[t] = sess[t])
      <3>1. t = s /\ HasRow(s) /\ HasRow(s)' /\ PdfInv(s)
        <4>1. t = s
          BY <1>2, <2>2
        <4>2. HasRow(s)
          BY <1>2, <2>2, <4>1
        <4> QED BY <1>0, <1>3, <4>1, <4>2 DEF SInv
      <3>2. sess[s].status # "purged" /\ sess'[s].status = "finalized"
        BY <1>2, <2>2, <3>1 DEF HasRow
      <3>3. pdf[s].st = "none" => pdf'[s].attempts < MaxConversions /\ pdf'[s].st = "pending"
        BY <1>2, <2>2, <3>1, <3>2, IntakeAssumption DEF PdfInv
      <3>4. pdf[s].st # "none" => pdf'[s].attempts = pdf[s].attempts /\ pdf'[s].st = pdf[s].st
        BY <1>2, <2>2, <3>1
      <3> QED BY <1>0, <3>1, <3>2, <3>3, <3>4 DEF PdfInv, PdfBlob
    <2> QED BY <2>1, <2>2
  <1>7. PurgeInv'
    <2>1. \A t \in Sessions : pdf[t].st = "done" => pdf'[t] = pdf[t]
      <3> SUFFICES ASSUME NEW t \in Sessions, pdf[t].st = "done" PROVE pdf'[t] = pdf[t]
        OBVIOUS
      <3>1. CASE t # s
        BY <1>2, <3>1
      <3>2. CASE t = s
        BY <1>0, <3>2 DEF CommitFinalize, PdfRow
      <3> QED BY <3>1, <3>2
    <2> QED BY <1>0, <2>1, PurgeKept DEF SInv, FormTyped, IntakeTypeOK
  <1>8. ASSUME NEW g \in Finals PROVE FinInv(g)'
    BY <1>1 DEF SInv, FinInv
  <1> QED BY <1>4, <1>5, <1>6, <1>7, <1>8 DEF SInv

-----------------------------------------------------------------------------
(* The purge. *)
LEMMA ByPurge ==
  ASSUME SInv, UNCHANGED <<link, policy, sess, up, files, fin, pdf>>,
         incidents' \in 0 .. MaxIncidents, purge' \in PurgeRec, purge'.blobs \subseteq purge'.paths,
         audited \subseteq audited', audited' \subseteq Sessions, blobs' \subseteq blobs,
         \A b \in blobs \ blobs' : purge.pc = "blobs" /\ b \in purge.paths,
         PurgeInv'
  PROVE  SInv'
  <1>1. FormTyped'
    BY DEF SInv, FormTyped, IntakeTypeOK, HasRow, PurgeRec
  <1>2. \A b \in blobs \ blobs' : Condemned(b) /\ purge.at \in audited /\ purge.at \in Sessions
    BY DEF SInv, PurgeInv, FormTyped, IntakeTypeOK
  <1>3. ASSUME NEW u \in Uploads PROVE UploadInv(u)'
    <2>1. u \in blobs \ blobs' => up[u].pc = "done" /\ up[u].sess \in audited
      BY <1>2, BlobsApart DEF Condemned
    <2> QED BY <2>1, UploadKept DEF SInv
  <1>4. ASSUME NEW s \in Sessions PROVE PdfInv(s)'
    <2>1. PdfBlob(s) \in blobs \ blobs' => pdf[s].st = "done" /\ s \in audited
      BY <1>2, BlobsApart DEF Condemned
    <2> QED BY <2>1, PdfKept DEF SInv, HasRow, PdfBlob
  <1> QED BY <1>1, <1>3, <1>4 DEF SInv, FinInv

LEMMA AuditPurgeStep ==
  ASSUME SInv, NEW s \in Sessions, AuditPurge(s)
  PROVE  SInv'
  <1> DEFINE P == FilesOf(s) \cup PdfOnRecord(s)
  <1>1. /\ purge' = [purge EXCEPT !.pc = "blobs", !.todo = purge.todo \ {s}, !.at = s, !.failed = FALSE,
                                  !.paths = P, !.blobs = P]
        /\ audited' = audited \cup {s} /\ purge \in PurgeRec
        /\ UNCHANGED <<link, policy, sess, up, files, blobs, fin, pdf, incidents>>
    BY DEF AuditPurge, SInv, FormTyped
  <1>2. P \subseteq BlobKeys /\ FilesOf(s) \subseteq files /\ files \subseteq Uploads
    BY DEF FilesOf, PdfOnRecord, BlobKeys, SInv, FormTyped, IntakeTypeOK
  <1>3. \A b \in P : \/ b \in Uploads /\ up[b].pc = "done" /\ up[b].sess = s
                     \/ b = PdfBlob(s) /\ pdf[s].st = "done"
    BY <1>2 DEF FilesOf, PdfOnRecord, SInv, UploadInv
  <1> HIDE DEF P
  <1>4. /\ purge' \in PurgeRec /\ purge'.pc = "blobs" /\ purge'.at = s
        /\ purge'.paths = P /\ purge'.blobs = P
    BY <1>1, <1>2 DEF PurgeRec
  <1>5. PurgeInv'
    <2>1. \A b \in purge'.paths : Condemned(b)'
      BY <1>1, <1>3, <1>4 DEF Condemned, PdfBlob
    <2> QED BY <1>1, <1>4, <2>1 DEF PurgeInv
  <1>6. incidents' \in 0 .. MaxIncidents /\ audited' \subseteq Sessions
    BY <1>1 DEF SInv, FormTyped, IntakeTypeOK
  <1> QED BY <1>1, <1>4, <1>5, <1>6, ByPurge

LEMMA DeleteBlobStep ==
  ASSUME SInv, NEW b \in purge.blobs, DeleteBlob(b)
  PROVE  SInv'
  <1>1. /\ purge.pc = "blobs" /\ purge \in PurgeRec /\ purge.blobs \subseteq purge.paths
        /\ purge.at \in audited /\ audited' = audited /\ audited \subseteq Sessions
        /\ \A c \in purge.paths : Condemned(c)
        /\ ~purge.failed => (purge.paths \ purge.blobs) \cap blobs = {}
        /\ UNCHANGED <<link, policy, sess, up, files, fin, pdf, audited>>
    BY DEF DeleteBlob, SInv, FormTyped, IntakeTypeOK, PurgeInv
  <1>2. incidents' \in 0 .. MaxIncidents
    BY IncidentFacts DEF DeleteBlob
  <1>3. PICK f \in BOOLEAN :
          /\ purge' = [purge EXCEPT !.blobs = purge.blobs \ {b}, !.failed = f]
          /\ blobs' \subseteq blobs /\ blobs \ blobs' \subseteq {b}
          /\ ~f => ~purge.failed /\ b \notin blobs'
    <2>1. CASE blobs' = blobs \ {b} /\ purge' = [purge EXCEPT !.blobs = @ \ {b}]
      <3>1. purge' = [purge EXCEPT !.blobs = purge.blobs \ {b}, !.failed = purge.failed]
            /\ purge.failed \in BOOLEAN
        BY <1>1, <2>1 DEF PurgeRec
      <3> QED BY <2>1, <3>1
    <2>2. CASE blobs' = blobs /\ purge' = [purge EXCEPT !.blobs = @ \ {b}, !.failed = TRUE]
      BY <2>2
    <2> QED BY <2>1, <2>2 DEF DeleteBlob
  <1>4. /\ purge' \in PurgeRec /\ purge'.blobs = purge.blobs \ {b} /\ purge'.paths = purge.paths
        /\ purge'.failed = f /\ purge'.at = purge.at /\ purge'.pc = "blobs"
    BY <1>1, <1>3 DEF PurgeRec
  <1>5. PurgeInv'
    <2>1. \A c \in purge'.paths : Condemned(c)'
      BY <1>1, <1>4 DEF Condemned, PdfBlob
    <2>2. ~f => (purge'.paths \ purge'.blobs) \cap blobs' = {}
      BY <1>1, <1>3, <1>4
    <2> QED BY <1>1, <1>4, <2>1, <2>2 DEF PurgeInv
  <1> QED BY <1>1, <1>2, <1>3, <1>4, <1>5, ByPurge

LEMMA StartPurgeStep == SInv /\ StartPurge => SInv'
  <1> SUFFICES ASSUME SInv, StartPurge PROVE SInv'
    OBVIOUS
  <1>1. /\ purge' = [IdlePurge EXCEPT !.pc = "next", !.todo = Overdue]
        /\ UNCHANGED <<link, policy, sess, up, files, blobs, fin, pdf, audited, incidents>>
    BY DEF StartPurge
  <1>2. purge' \in PurgeRec /\ purge'.pc = "next" /\ purge'.blobs = {}
    BY <1>1 DEF IdlePurge, PurgeRec, Overdue
  <1>3. incidents' \in 0 .. MaxIncidents /\ audited' \subseteq Sessions
    BY <1>1 DEF SInv, FormTyped, IntakeTypeOK
  <1> QED BY <1>1, <1>2, <1>3, ByPurge DEF PurgeInv

LEMMA ContinueFacts ==
  ASSUME FormTyped, purge.pc = "blobs", purge.blobs = {}
  PROVE  Continue \in PurgeRec /\ Continue.pc # "blobs" /\ Continue.blobs = {}
  BY DEF FormTyped, Continue, IdlePurge, PurgeRec

(* The end of a session takes its rows along. *)
LEMMA DeleteSessionStep == SInv /\ DeleteSession => SInv'
  <1> SUFFICES ASSUME SInv, DeleteSession PROVE SInv'
    OBVIOUS
  <1> PICK s \in Sessions : s = purge.at /\ s \in audited
    BY DEF DeleteSession, SInv, PurgeInv, FormTyped, IntakeTypeOK
  <1>0. /\ purge.pc = "blobs" /\ purge.blobs = {} /\ purge' = Continue
        /\ UNCHANGED <<link, policy, blobs, fin, audited, incidents>>
        /\ sess \in [Sessions -> SessRow] /\ up \in [Uploads -> UpState] /\ pdf \in [Sessions -> PdfRow]
    BY DEF DeleteSession, SInv, FormTyped, IntakeTypeOK
  <1>1. /\ purge' \in PurgeRec /\ purge'.pc # "blobs" /\ purge'.blobs = {}
        /\ purge'.todo \subseteq Sessions
    BY <1>0, ContinueFacts DEF SInv, PurgeRec
  <1>2. PurgeInv'
    BY <1>1 DEF PurgeInv
  <1>3. CASE purge.failed
    <2>1. UNCHANGED <<sess, up, files, pdf>>
      BY <1>3 DEF DeleteSession
    <2>2. incidents' \in 0 .. MaxIncidents /\ audited' \subseteq Sessions
      BY <1>0 DEF SInv, FormTyped, IntakeTypeOK
    <2> QED BY <1>0, <1>1, <1>2, <2>1, <2>2, ByPurge
  <1>4. CASE ~purge.failed
    <2>1. /\ sess' = [sess EXCEPT ![s] = [sess[s] EXCEPT !.status = "purged", !.due = "null"]]
          /\ files' = files \ FilesOf(s)
          /\ up' = [u \in Uploads |-> IF up[u].sess = s /\ up[u].pc = "open"
                                      THEN [up[u] EXCEPT !.pc = "dropped"] ELSE up[u]]
          /\ pdf' = [pdf EXCEPT ![s] = IF pdf[s].st \in {"processing", "stored"} THEN pdf[s] ELSE NoPdf]
      BY <1>0, <1>4 DEF DeleteSession
    <2>2. /\ sess' \in [Sessions -> SessRow] /\ sess'[s].status = "purged"
          /\ \A t \in Sessions \ {s} : sess'[t] = sess[t]
      <3> DEFINE row == [sess[s] EXCEPT !.status = "purged", !.due = "null"]
      <3>1. row \in SessRow /\ row.status = "purged"
        BY SessionRow
      <3>2. sess' = [sess EXCEPT ![s] = row]
        BY <2>1
      <3> HIDE DEF row
      <3> QED BY <1>0, <3>1, <3>2
    <2>3. /\ pdf' \in [Sessions -> PdfRow] /\ \A t \in Sessions \ {s} : pdf'[t] = pdf[t]
          /\ \/ pdf[s].st \in {"processing", "stored"} /\ pdf'[s] = pdf[s]
             \/ pdf'[s].st = "none" /\ pdf'[s].attempts = 0
      BY <1>0, <2>1, ConversionRow
    <2>4. /\ up' \in [Uploads -> UpState]
          /\ \A u \in Uploads : \/ up'[u] = up[u]
                                \/ up[u].pc = "open" /\ up'[u].pc = "dropped" /\ up'[u].sess = up[u].sess
      <3>1. \A u \in Uploads : LET row == [up[u] EXCEPT !.pc = "dropped"] IN
              row \in UpState /\ row.pc = "dropped" /\ row.sess = up[u].sess
        BY <1>0 DEF UpState
      <3> QED BY <1>0, <2>1, <3>1
    <2>5. ASSUME NEW u \in files' PROVE u \in files /\ u \in Uploads /\ up'[u] = up[u] /\ up[u].sess # s
                                       /\ HasRow(up[u].sess) /\ up[u].sess \in Sessions
      <3>1. u \in files /\ u \in Uploads /\ up[u].pc = "done" /\ up[u].sess # s
        BY <2>1, <2>5 DEF FilesOf, SInv, FormTyped, IntakeTypeOK, UploadInv
      <3> QED BY <2>4, <3>1 DEF SInv, FormTyped, IntakeTypeOK, UploadInv
    <2>6. FormTyped'
      <3>1. files' \subseteq Uploads /\ \A u \in files' : HasRow(up[u].sess)'
        BY <2>2, <2>5 DEF HasRow
      <3> QED BY <1>0, <1>1, <2>2, <2>3, <2>4, <3>1 DEF SInv, FormTyped, IntakeTypeOK
    <2>7. ASSUME NEW u \in Uploads PROVE UploadInv(u)'
      <3>1. UploadInv(u) /\ (u \in files' => u \in files /\ up'[u] = up[u])
        BY <2>5 DEF SInv
      <3>2. CASE up'[u] = up[u]
        BY <1>0, <3>1, <3>2 DEF UploadInv
      <3>3. CASE up[u].pc = "open" /\ up'[u].pc = "dropped" /\ up'[u].sess = up[u].sess
        BY <1>0, <3>1, <3>3 DEF UploadInv
      <3> QED BY <2>4, <3>2, <3>3
    <2>8. ASSUME NEW t \in Sessions PROVE PdfInv(t)'
      <3>1. PdfInv(t) /\ PdfInv(s)
        BY DEF SInv
      <3>2. CASE t # s
        BY <1>0, <2>2, <2>3, <3>1, <3>2 DEF PdfInv, HasRow, PdfBlob
      <3>3. CASE t = s
        BY <1>0, <2>2, <2>3, <3>1, <3>3 DEF PdfInv, HasRow, PdfBlob
      <3> QED BY <3>2, <3>3
    <2> QED BY <1>0, <1>2, <2>6, <2>7, <2>8 DEF SInv, FinInv
  <1> QED BY <1>3, <1>4

LEMMA CrashKeepsSInv == SInv /\ IntakeCrash => SInv'
  <1> SUFFICES ASSUME SInv, IntakeCrash PROVE SInv'
    OBVIOUS
  <1>0. /\ incidents' \in 0 .. MaxIncidents /\ purge' = IdlePurge /\ fin' = [f \in Finals |-> IdleFin]
        /\ policy' = [policy EXCEPT !.sweep = "none"]
        /\ UNCHANGED <<link, sess, files, blobs, audited>>
        /\ sess \in [Sessions -> SessRow] /\ up \in [Uploads -> UpState] /\ pdf \in [Sessions -> PdfRow]
    BY IncidentFacts DEF IntakeCrash, SInv, FormTyped, IntakeTypeOK
  <1>1. purge' \in PurgeRec /\ purge'.pc = "idle" /\ purge'.todo = {} /\ purge'.blobs = {}
    BY <1>0 DEF IdlePurge, PurgeRec
  <1>2. policy' \in [on: BOOLEAN, sweep: {"none", "clear", "backfill"}, left: 0 .. MaxPatches]
    <2> DEFINE Budget == 0 .. MaxPatches
    <2>1. policy \in [on: BOOLEAN, sweep: {"none", "clear", "backfill"}, left: Budget]
      BY DEF SInv, FormTyped, IntakeTypeOK
    <2> HIDE DEF Budget
    <2>2. policy' \in [on: BOOLEAN, sweep: {"none", "clear", "backfill"}, left: Budget]
      BY <1>0, <2>1
    <2> QED BY <2>2 DEF Budget
  <1>3. fin' \in [Finals -> FinCall] /\ \A f \in Finals : fin'[f].pc = "idle"
    BY <1>0 DEF FinCall, IdleFin
  <1>4. /\ up' \in [Uploads -> UpState]
        /\ \A u \in Uploads : /\ up'[u].sess = up[u].sess
                              /\ \/ up'[u] = up[u] /\ up[u].pc # "stored"
                                 \/ up'[u].pc \in {"open", "dropped"} /\ up[u].pc \notin {"none", "done"}
    <2>1. \A u \in Uploads, pc \in {"open", "dropped"} : LET row == [up[u] EXCEPT !.pc = pc] IN
            row \in UpState /\ row.pc = pc /\ row.sess = up[u].sess
      BY <1>0 DEF UpState
    <2>2. ASSUME NEW u \in Uploads
          PROVE  \/ up'[u] = up[u] /\ up[u].pc # "stored"
                 \/ /\ up[u].pc \notin {"none", "done"}
                    /\ \E pc \in {"open", "dropped"} : up'[u] = [up[u] EXCEPT !.pc = pc]
      BY DEF IntakeCrash
    <2>3. up' = [u \in Uploads |-> up'[u]]
      BY DEF IntakeCrash
    <2>4. ASSUME NEW u \in Uploads
          PROVE  /\ up'[u] \in UpState /\ up'[u].sess = up[u].sess
                 /\ \/ up'[u] = up[u] /\ up[u].pc # "stored"
                    \/ up'[u].pc \in {"open", "dropped"} /\ up[u].pc \notin {"none", "done"}
      <3>1. CASE up'[u] = up[u] /\ up[u].pc # "stored"
        BY <1>0, <3>1
      <3>2. CASE /\ up[u].pc \notin {"none", "done"}
                 /\ \E pc \in {"open", "dropped"} : up'[u] = [up[u] EXCEPT !.pc = pc]
        <4>1. PICK pc \in {"open", "dropped"} : up'[u] = [up[u] EXCEPT !.pc = pc]
          BY <3>2
        <4>2. LET row == [up[u] EXCEPT !.pc = pc] IN row \in UpState /\ row.pc = pc /\ row.sess = up[u].sess
          BY <2>1
        <4> QED BY <3>2, <4>1, <4>2
      <3> QED BY <2>2, <3>1, <3>2
    <2> QED BY <2>3, <2>4
  <1>5. /\ pdf' \in [Sessions -> PdfRow]
        /\ \A s \in Sessions :
             \/ pdf[s].st \notin {"processing", "stored"} /\ pdf'[s] = pdf[s]
             \/ pdf[s].st \in {"processing", "stored"} /\ HasRow(s) /\ pdf'[s].st = "orphaned"
             \/ pdf[s].st \in {"processing", "stored"} /\ ~HasRow(s) /\ pdf'[s].st = "none"
                                                       /\ pdf'[s].attempts = 0
    <2>1. ASSUME NEW s \in Sessions
          PROVE  /\ pdf'[s] \in PdfRow
                 /\ \/ pdf[s].st \notin {"processing", "stored"} /\ pdf'[s] = pdf[s]
                    \/ pdf[s].st \in {"processing", "stored"} /\ HasRow(s) /\ pdf'[s].st = "orphaned"
                    \/ pdf[s].st \in {"processing", "stored"} /\ ~HasRow(s) /\ pdf'[s].st = "none"
                                                              /\ pdf'[s].attempts = 0
      <3>1. pdf'[s] = IF pdf[s].st \notin {"processing", "stored"} THEN pdf[s]
                      ELSE IF HasRow(s) THEN [pdf[s] EXCEPT !.st = "orphaned"] ELSE NoPdf
        BY DEF IntakeCrash
      <3>2. CASE pdf[s].st \notin {"processing", "stored"}
        BY <3>1, <3>2, ConversionRow
      <3>3. CASE pdf[s].st \in {"processing", "stored"} /\ HasRow(s)
        <4>1. LET row == [pdf[s] EXCEPT !.st = "orphaned"] IN row \in PdfRow /\ row.st = "orphaned"
          BY ConversionRow
        <4> QED BY <3>1, <3>3, <4>1
      <3>4. CASE pdf[s].st \in {"processing", "stored"} /\ ~HasRow(s)
        BY <3>1, <3>4, ConversionRow
      <3> QED BY <3>2, <3>3, <3>4
    <2>2. pdf' = [s \in Sessions |-> pdf'[s]]
      BY DEF IntakeCrash
    <2> QED BY <2>1, <2>2
  <1>6. FormTyped'
    <2>1. \A u \in files' : HasRow(up[u].sess)'
      BY <1>0, <1>4 DEF HasRow, SInv, FormTyped, IntakeTypeOK
    <2> QED BY <1>0, <1>1, <1>2, <1>3, <1>4, <1>5, <2>1 DEF SInv, FormTyped, IntakeTypeOK
  <1>7. ASSUME NEW u \in Uploads PROVE UploadInv(u)'
    <2>1. UploadInv(u)
      BY DEF SInv
    <2> QED BY <1>0, <1>4, <2>1 DEF UploadInv
  <1>8. ASSUME NEW s \in Sessions PROVE PdfInv(s)'
    <2>1. PdfInv(s) /\ sess[s].status \in {"none", "open", "finalized", "purged"}
      BY SessionRow DEF SInv
    <2> QED BY <1>0, <1>5, <2>1 DEF PdfInv, HasRow, PdfBlob
  <1> QED BY <1>1, <1>3, <1>6, <1>7, <1>8 DEF SInv, FinInv, PurgeInv

-----------------------------------------------------------------------------
LEMMA NextSInv == SInv /\ [IntakeNext]_intakeVars => SInv'
  <1> SUFFICES ASSUME SInv, [IntakeNext]_intakeVars PROVE SInv'
    OBVIOUS
  <1>1. ASSUME NEW s \in Sessions,
               \/ \E v \in BOOLEAN : CreateSession(s, v)
               \/ TokenExpires(s) \/ PdfStep(s) \/ Elapse(s) \/ Keep(s) \/ RevertKeep(s)
               \/ \E u \in Uploads : CheckCap(u, s)
               \/ \E f \in Finals : StartFinalize(f, s)
        PROVE  SInv'
    BY <1>1, SessionSteps, ConversionSteps, CheckCapStep, StartFinalizeStep
  <1>2. ASSUME NEW u \in Uploads, LastByte(u) \/ Terminate(u) \/ UploadStep(u) PROVE SInv'
    BY <1>2, UploadSteps
  <1>3. ASSUME NEW f \in Finals, CommitFinalize(f) PROVE SInv'
    BY <1>3, CommitFinalizeStep
  <1>4. CASE CreateLink \/ ResendLink \/ EndLink \/ PatchPolicy \/ SweepPolicy
    BY <1>4, LinkSteps, SweepPolicyStep
  <1>5. CASE StartPurge \/ PurgeStep
    BY <1>5, StartPurgeStep, AuditPurgeStep, DeleteBlobStep, DeleteSessionStep DEF PurgeStep
  <1>6. CASE IntakeCrash
    BY <1>6, CrashKeepsSInv
  <1>7. CASE UNCHANGED intakeVars
    <2>1. UNCHANGED <<link, policy, sess, up, files, blobs, fin, pdf, purge, audited, incidents>>
      BY <1>7 DEF intakeVars
    <2> QED BY <2>1, ByRows DEF SInv, FormTyped, IntakeTypeOK
  <1> QED BY <1>1, <1>2, <1>3, <1>4, <1>5, <1>6, <1>7 DEF IntakeNext

LEMMA SInvHolds == IntakeSpec => []SInv
  <1> QED BY InitSInv, NextSInv, PTL DEF IntakeSpec, IntakeSteps

(* Every reachable state of the intake form is well typed, and no file is listed of a  *)
(* session whose row is gone, for any number of sessions, uploads and failures.        *)
THEOREM IntakeTypes == IntakeSpec => []IntakeTypeOK
  <1>1. SInv => IntakeTypeOK
    BY DEF SInv, FormTyped
  <1> QED BY <1>1, SInvHolds, PTL

(* A file that is listed, and a PDF recorded as done, has its blob until the purge of  *)
(* its session has been audited.                                                       *)
THEOREM FilesStayUntilPurged == IntakeSpec => []StoredUntilPurged
  <1>1. SInv => StoredUntilPurged
    <2> SUFFICES ASSUME SInv PROVE StoredUntilPurged
      OBVIOUS
    <2>1. files \subseteq Uploads
      BY DEF SInv, FormTyped, IntakeTypeOK
    <2> QED BY <2>1 DEF SInv, UploadInv, PdfInv, StoredUntilPurged
  <1> QED BY <1>1, SInvHolds, PTL

(* A session row goes only after an audit row and after every blob that the record of  *)
(* the purge names, whatever deletes failed and whatever is uploaded meanwhile.        *)
THEOREM RowsGoLast == IntakeSpec => ErasedWithItsRow
  <1> DEFINE Erased == \A s \in Sessions : sess[s].status # "purged" /\ sess'[s].status = "purged"
                                             => s \in audited /\ purge.paths \cap blobs = {}
  <1>1. SInv /\ [IntakeNext]_intakeVars => [Erased]_intakeVars
    <2> SUFFICES ASSUME SInv, IntakeNext, NEW s \in Sessions,
                        sess[s].status # "purged", sess'[s].status = "purged"
                 PROVE  s \in audited /\ purge.paths \cap blobs = {}
      OBVIOUS
    <2>1. DeleteSession
      <3>1. ~ \E t \in Sessions : \/ \E v \in BOOLEAN : CreateSession(t, v)
                                 \/ TokenExpires(t) \/ Elapse(t) \/ Keep(t) \/ RevertKeep(t)
        BY SessionChange
      <3>2. ~ SweepPolicy
        BY SweptRows
      <3>3. ~ \E f \in Finals : CommitFinalize(f)
        BY FinalizedOnly
      <3>4. sess' # sess
        OBVIOUS
      <3>5. ~ \/ CreateLink \/ ResendLink \/ EndLink \/ PatchPolicy \/ StartPurge \/ IntakeCrash
              \/ (\E t \in Sessions : AuditPurge(t)) \/ (\E b \in purge.blobs : DeleteBlob(b))
        BY <3>4 DEF CreateLink, ResendLink, EndLink, PatchPolicy, StartPurge, IntakeCrash, AuditPurge, DeleteBlob
      <3>6. ~ \E t \in Sessions : PdfStep(t) \/ (\E u \in Uploads : CheckCap(u, t))
                                              \/ (\E f \in Finals : StartFinalize(f, t))
        BY <3>4 DEF PdfStep, ClaimPdf, StorePdf, FinishPdf, FailPdf, CheckCap, StartFinalize
      <3>7. ~ \E u \in Uploads : LastByte(u) \/ Terminate(u) \/ UploadStep(u)
        BY <3>4 DEF LastByte, Terminate, UploadStep, InsertUpload, Scan, StoreBlob, InsertFile
      <3> QED BY <3>1, <3>2, <3>3, <3>5, <3>6, <3>7 DEF IntakeNext, PurgeStep
    <2>2. purge.pc = "blobs" /\ purge.blobs = {} /\ ~purge.failed
      BY <2>1 DEF DeleteSession
    <2>3. s = purge.at
      BY <2>1, <2>2 DEF DeleteSession, SInv, FormTyped, IntakeTypeOK
    <2> QED BY <2>2, <2>3 DEF SInv, PurgeInv
  <1> QED BY <1>1, SInvHolds, PTL DEF IntakeSpec, IntakeSteps, ErasedWithItsRow

=============================================================================
