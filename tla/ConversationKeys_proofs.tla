------------------------ MODULE ConversationKeys_proofs ------------------------
(***************************************************************************)
(* Proofs about ConversationKeys for every number of users, devices,       *)
(* sessions, invites, rotations and incidents: the rows stay well typed    *)
(* with one wrap for a recipient, and a stored wrap is never lost.         *)
(***************************************************************************)
EXTENDS ConversationKeys, TLAPS

Unique(ws) == \A w, x \in ws : w.to = x.to => w = x

(* One key pair of each device. *)
OnePair(ps) == \A p, q \in ps : p[1] = q[1] => p = q

(* Nothing is stored for a version that does not exist, and a row is written once: the  *)
(* draft of a conversation is only pending while there is none, and that of a rotation   *)
(* is for the row after the latest.                                                      *)
Rows ==
  /\ \A v \in Versions : v > version => wraps[v] = {}
  /\ kind = "none" => version = 0
  /\ version = 0 => members = {}
  /\ draft.by # None => \/ draft.kind = "rotated" /\ version \in 1 .. (MaxVersion - 1)
                        \/ draft.kind \in {"internal", "external"} /\ kind = "none"
  /\ Unique(draft.wraps)

(* What a sweep carries from one request to the next. *)
SweepOK(p) ==
  /\ Unique(p.add) /\ OnePair(p.devs)
  /\ p.pc = "detail" => p.key \in Versions
  /\ p.pc = "merging" => p.row \in 1 .. version

KInv == TypeOK /\ Rows /\ \A d \in Devices : SweepOK(sweep[d])

-----------------------------------------------------------------------------
(* Facts about the wraps a client makes: they have their type, and recipients of     *)
(* different kinds never collide.                                                    *)

LEMMA WrapsTyped ==
  ASSUME TypeOK, NEW ds \in SUBSET DevicePubs, NEW ss \in SUBSET Sessions, NEW k \in Versions
  PROVE  /\ WrapDevices(ds, k) \subseteq Wrap
         /\ WrapSessions(ss, k) \subseteq Wrap
         /\ WrapInvite(k) \subseteq Wrap
         /\ WrapFirm(k) \subseteq Wrap
  <1>1. WrapDevices(ds, k) \subseteq Wrap
    <2>1. \A p \in ds : p \in Pubs /\ p[1] \in Devices
      BY DEF DevicePubs, Pubs
    <2> QED BY <2>1 DEF WrapDevices, Wrap, Recipients
  <1>2. WrapSessions(ss, k) \subseteq Wrap
    <2>1. \A s \in ss : sess[s].pub \in Pubs
      BY DEF SessRec, TypeOK
    <2> QED BY <2>1 DEF WrapSessions, Wrap, Recipients
  <1>3. WrapInvite(k) \subseteq Wrap
    <2>1. <<Invite, client.invite>> \in Pubs
      BY DEF ClientRec, TypeOK, Pubs
    <2> QED BY <2>1 DEF WrapInvite, Wrap, Recipients
  <1>4. WrapFirm(k) \subseteq Wrap
    <2>1. <<Firm, 1>> \in Pubs
      BY DEF Pubs
    <2> QED BY <2>1 DEF WrapFirm, Wrap, Recipients
  <1> QED BY <1>1, <1>2, <1>3, <1>4

LEMMA WrapsUnique ==
  ASSUME NEW ds \in SUBSET DevicePubs, OnePair(ds), NEW ss \in SUBSET Sessions, NEW k
  PROVE  Unique(WrapDevices(ds, k) \cup WrapSessions(ss, k) \cup WrapInvite(k) \cup WrapFirm(k))
  <1> SUFFICES ASSUME NEW w \in WrapDevices(ds, k) \cup WrapSessions(ss, k) \cup WrapInvite(k)
                                  \cup WrapFirm(k),
                      NEW x \in WrapDevices(ds, k) \cup WrapSessions(ss, k) \cup WrapInvite(k)
                                  \cup WrapFirm(k),
                      w.to = x.to
               PROVE  w = x
    BY DEF Unique
  <1>1. /\ \A y \in WrapDevices(ds, k) : y.to \in Devices
        /\ \A y, z \in WrapDevices(ds, k) : y.to = z.to => y = z
    <2>1. \A y \in WrapDevices(ds, k) :
            \E p \in ds : p[1] \in Devices /\ y = [to |-> p[1], pub |-> p, key |-> k]
      BY DEF WrapDevices, DevicePubs
    <2> QED BY <2>1 DEF OnePair
  <1>2. \A y \in WrapSessions(ss, k) :
          y.to \in Sessions /\ y = [to |-> y.to, pub |-> sess[y.to].pub, key |-> k]
    BY DEF WrapSessions
  <1>3. \A y \in WrapInvite(k) :
          y.to = Invite /\ y = [to |-> Invite, pub |-> <<Invite, client.invite>>, key |-> k]
    BY DEF WrapInvite
  <1>4. \A y \in WrapFirm(k) : y.to = Firm /\ y = [to |-> Firm, pub |-> <<Firm, 1>>, key |-> k]
    BY DEF WrapFirm
  <1>5. /\ Invite # Firm /\ Devices \cap Sessions = {}
        /\ Invite \notin Devices /\ Invite \notin Sessions
        /\ Firm \notin Devices /\ Firm \notin Sessions
    BY KeysAssumption
  <1>6. CASE w \in WrapDevices(ds, k)
    BY <1>1, <1>2, <1>3, <1>4, <1>5, <1>6
  <1>7. CASE w \in WrapSessions(ss, k)
    BY <1>1, <1>2, <1>3, <1>4, <1>5, <1>7
  <1>8. CASE w \in WrapInvite(k)
    BY <1>1, <1>2, <1>3, <1>4, <1>5, <1>8
  <1>9. CASE w \in WrapFirm(k)
    BY <1>1, <1>2, <1>3, <1>4, <1>5, <1>9
  <1> QED BY <1>6, <1>7, <1>8, <1>9

LEMMA ActivePairs ==
  ASSUME TypeOK, NEW us
  PROVE  Active(us) \in SUBSET DevicePubs /\ OnePair(Active(us))
  BY DEF TypeOK, Active, PubOf, DevicePubs, OnePair

LEMMA UniqueSubset ==
  ASSUME NEW ws, NEW xs \in SUBSET ws, Unique(ws)
  PROVE  Unique(xs)
  BY DEF Unique

(* The merge keeps every wrap that is there and adds none for a recipient that has one. *)
LEMMA MergedFacts ==
  ASSUME NEW ws \in SUBSET Wrap, NEW add \in SUBSET Wrap, Unique(ws), Unique(add)
  PROVE  /\ Merged(ws, add) \in SUBSET Wrap
         /\ ws \subseteq Merged(ws, add)
         /\ Unique(Merged(ws, add))
  <1>1. Merged(ws, add) \in SUBSET Wrap /\ ws \subseteq Merged(ws, add)
    BY DEF Merged
  <1>2. \A w \in Merged(ws, add) : w \in ws \/ (w \in add /\ \A x \in ws : w.to # x.to)
    BY DEF Merged
  <1>3. Unique(Merged(ws, add))
    BY <1>2 DEF Unique
  <1> QED BY <1>1, <1>3

LEMMA InitialTyped ==
  /\ NoDraft \in DraftRec
  /\ Idle \in SweepRec
  /\ SweepOK(Idle)
  BY KeysAssumption DEF DraftRec, SweepRec, NoDraft, Idle, SweepOK, Unique, OnePair

LEMMA InitKInv == Init => KInv
  <1> SUFFICES ASSUME Init PROVE KInv
    OBVIOUS
  <1>1. TypeOK
    <2>1. wraps \in [Versions -> SUBSET Wrap] /\ \A v \in Versions : wraps[v] = {}
      BY DEF Init
    <2>2. client \in ClientRec
      BY KeysAssumption DEF ClientRec, Init
    <2>3. sess \in [Sessions -> SessRec]
      <3>1. \A s \in Sessions : <<s, 1>> \in Pubs
        BY DEF Pubs
      <3> QED BY <3>1 DEF SessRec, Init
    <2>4. /\ device \in [Devices -> {"none", "active", "revoked"}] /\ signedIn \subseteq Devices
          /\ pair \in [Devices -> 1 .. MaxPairs]
      BY KeysAssumption DEF Init
    <2>5. version \in 0 .. MaxVersion /\ incidents \in 0 .. MaxIncidents
      BY KeysAssumption DEF Init
    <2>6. draft \in DraftRec /\ sweep \in [Devices -> SweepRec]
      BY InitialTyped DEF Init
    <2>7. kind = "none" /\ members = {} /\ thread = {} /\ revoking = {} /\ raced \in BOOLEAN
      BY DEF Init
    <2> QED BY <2>1, <2>2, <2>3, <2>4, <2>5, <2>6, <2>7 DEF TypeOK
  <1>2. Rows
    BY DEF Init, Rows, NoDraft, Unique
  <1>3. \A d \in Devices : SweepOK(sweep[d])
    BY InitialTyped DEF Init
  <1> QED BY <1>1, <1>2, <1>3 DEF KInv

-----------------------------------------------------------------------------
(* Steps that leave the conversation and its sweeps alone. *)

LEMMA QuietStep ==
  ASSUME KInv, UNCHANGED <<convVars, wraps, draft, sweep>>,
         device' \in [Devices -> {"none", "active", "revoked"}],
         pair' \in [Devices -> 1 .. MaxPairs],
         signedIn' \subseteq Devices, revoking' \subseteq Devices,
         client' \in ClientRec,
         sess' \in [Sessions -> SessRec],
         incidents' \in 0 .. MaxIncidents
  PROVE  KInv'
  <1>1. TypeOK'
    BY DEF KInv, TypeOK, convVars
  <1>2. Rows'
    BY DEF KInv, Rows, convVars
  <1>3. (\A d \in Devices : SweepOK(sweep[d]))'
    BY DEF KInv, SweepOK, convVars
  <1> QED BY <1>1, <1>2, <1>3 DEF KInv

LEMMA IncidentTyped ==
  ASSUME TypeOK, Incident \/ UNCHANGED incidents
  PROVE  incidents' \in 0 .. MaxIncidents
  BY KeysAssumption DEF TypeOK, Incident

LEMMA StaffSteps ==
  ASSUME KInv, NEW d \in Devices, SignIn(d) \/ SignOut(d) \/ Enrol(d) \/ Revoke(d)
  PROVE  KInv'
  <1> USE DEF staffVars, clientVars
  <1>0. TypeOK
    BY DEF KInv
  <1>1. /\ UNCHANGED <<convVars, wraps, draft, sweep, client, sess>>
        /\ Incident \/ UNCHANGED incidents
    BY DEF SignIn, SignOut, Enrol, Revoke
  <1>2. device' \in [Devices -> {"none", "active", "revoked"}]
    BY <1>0 DEF TypeOK, SignIn, SignOut, Enrol, Revoke
  <1>3. signedIn' \subseteq Devices /\ revoking' \subseteq Devices
    BY <1>0 DEF TypeOK, SignIn, SignOut, Enrol, Revoke
  <1>4. pair' \in [Devices -> 1 .. MaxPairs]
    <2>1. pair \in [Devices -> 1 .. MaxPairs]
      BY <1>0 DEF TypeOK
    <2>2. CASE Enrol(d) /\ device[d] # "none"
      <3>1. pair[d] + 1 \in 1 .. MaxPairs
        BY <2>1, <2>2, KeysAssumption DEF Enrol
      <3> QED BY <2>1, <2>2, <3>1 DEF Enrol
    <2>3. CASE ~(Enrol(d) /\ device[d] # "none")
      <3>1. UNCHANGED pair
        BY <2>3 DEF SignIn, SignOut, Enrol, Revoke
      <3> QED BY <2>1, <3>1
    <2> QED BY <2>2, <2>3
  <1> QED BY <1>0, <1>1, <1>2, <1>3, <1>4, QuietStep, IncidentTyped DEF TypeOK

LEMMA ClientSteps ==
  ASSUME KInv,
         \/ \E s \in Sessions : \/ AcceptInvite(s) \/ Verify(s) \/ EndSession(s)
                                \/ \E t \in Sessions : StepUp(s, t)
         \/ Identify \/ Reinvite \/ Reactivate \/ \E forget \in BOOLEAN : Deactivate(forget)
  PROVE  KInv'
  <1> USE DEF staffVars, clientVars
  <1>0. TypeOK
    BY DEF KInv
  <1>1. /\ UNCHANGED <<convVars, wraps, draft, sweep, device, pair, signedIn, revoking>>
        /\ Incident \/ UNCHANGED incidents
    BY DEF AcceptInvite, Verify, EndSession, StepUp, Identify, Reinvite, Reactivate, Deactivate
  <1>2. client' \in ClientRec
    <2>0. client \in ClientRec
      BY <1>0 DEF TypeOK, ClientRec
    <2>1. CASE Reinvite
      <3>1. client.invite + 1 \in 1 .. MaxInvites
        BY <2>0, <2>1, KeysAssumption DEF ClientRec, Reinvite
      <3> QED BY <2>0, <2>1, <3>1 DEF ClientRec, Reinvite
    <2>2. CASE \E s \in Sessions : AcceptInvite(s) \/ Verify(s)
      BY <2>0, <2>2 DEF ClientRec, AcceptInvite, Verify
    <2>3. CASE Identify \/ Reactivate
      BY <2>0, <2>3 DEF ClientRec, Identify, Reactivate
    <2>4. CASE \E forget \in BOOLEAN : Deactivate(forget)
      BY <2>0, <2>4 DEF ClientRec, Deactivate
    <2>5. CASE \E s \in Sessions : EndSession(s) \/ \E t \in Sessions : StepUp(s, t)
      BY <2>0, <2>5 DEF EndSession, StepUp
    <2> QED BY <2>1, <2>2, <2>3, <2>4, <2>5
  <1>3. sess' \in [Sessions -> SessRec]
    <2>1. ASSUME NEW s \in Sessions, NEW pub \in Pubs, LetIn(s, pub)
          PROVE  sess' \in [Sessions -> SessRec]
      BY <1>0, <2>1 DEF SessRec, TypeOK, LetIn
    <2>2. \A ss : Ended(ss) \in [Sessions -> SessRec]
      BY <1>0 DEF SessRec, TypeOK, Ended
    <2>3. <<Invite, client.invite>> \in Pubs /\ \A s \in Sessions : <<s, 1>> \in Pubs
      BY <1>0 DEF ClientRec, TypeOK, Pubs
    <2>4. CASE \E s \in Sessions : AcceptInvite(s) \/ Verify(s)
      BY <2>1, <2>3, <2>4 DEF AcceptInvite, Verify
    <2>5. CASE \E s, t \in Sessions : StepUp(s, t)
      BY <1>0, <2>5 DEF SessRec, TypeOK, StepUp
    <2>6. CASE \/ \E s \in Sessions : EndSession(s)
               \/ \E forget \in BOOLEAN : Deactivate(forget)
      BY <2>2, <2>6 DEF EndSession, Deactivate
    <2>7. CASE Identify \/ Reinvite \/ Reactivate
      BY <1>0, <2>7 DEF TypeOK, Identify, Reinvite, Reactivate
    <2> QED BY <2>4, <2>5, <2>6, <2>7
  <1> QED BY <1>0, <1>1, <1>2, <1>3, QuietStep, IncidentTyped DEF TypeOK

-----------------------------------------------------------------------------
(* Steps of a sweep. *)

LEMMA SweepToStep ==
  ASSUME KInv, NEW d \in Devices, NEW r, SweepTo(d, r), SweepOK(r),
         r \in SweepRec,
         Incident \/ UNCHANGED incidents
  PROVE  KInv'
  <1> USE DEF staffVars, clientVars, convVars
  <1>0. TypeOK
    BY DEF KInv
  <1>1. /\ sweep' = [sweep EXCEPT ![d] = r]
        /\ UNCHANGED <<kind, members, thread, version, raced, wraps, device, pair, signedIn,
                       revoking, client, sess, draft>>
    BY DEF SweepTo
  <1>2. TypeOK'
    BY <1>0, <1>1, IncidentTyped DEF TypeOK
  <1>3. Rows'
    BY <1>1 DEF KInv, Rows
  <1>4. (\A e \in Devices : SweepOK(sweep[e]))'
    <2> SUFFICES ASSUME NEW e \in Devices PROVE SweepOK(sweep[e])'
      OBVIOUS
    <2>1. sweep'[e] = IF e = d THEN r ELSE sweep[e]
      BY <1>0, <1>1 DEF TypeOK
    <2> QED BY <1>1, <2>1 DEF KInv, SweepOK
  <1> QED BY <1>2, <1>3, <1>4 DEF KInv

(* A device that calls as a member does so in a conversation that exists. *)
LEMMA MembersHaveARow ==
  ASSUME KInv, NEW d \in Devices, CallsAsMember(d)
  PROVE  version \in Versions
  BY DEF KInv, TypeOK, Rows, CallsAsMember, Versions

LEMMA HeldTyped ==
  ASSUME TypeOK, NEW v \in Versions
  PROVE  Held(v) \subseteq Recipients /\ \A w \in wraps[v] : w \in Wrap /\ w.key \in Versions
  BY DEF TypeOK, Held, Wrap

LEMMA ListStep ==
  ASSUME KInv, NEW d \in Devices, List(d) PROVE KInv'
  <1> DEFINE devs == Active(members \cap Users)
             has == Client \in members
             r == [Idle EXCEPT !.pc = "listed", !.mine = pair[d], !.devs = devs, !.client = has]
  <1>0. devs \in SUBSET DevicePubs /\ OnePair(devs) /\ has \in BOOLEAN
    BY ActivePairs DEF KInv
  <1>1. r.pc = "listed" /\ r.add = {} /\ r.devs = devs
    BY DEF Idle
  <1>2. SweepOK(r)
    <2> HIDE DEF devs, has, r
    <2> QED BY <1>0, <1>1 DEF SweepOK, Unique
  <1>3. r \in SweepRec
    <2>1. pair[d] \in 0 .. MaxPairs
      BY DEF KInv, TypeOK
    <2> HIDE DEF devs, has
    <2> QED BY <1>0, <2>1, InitialTyped DEF SweepRec, Idle
  <1>4. SweepTo(d, r) /\ UNCHANGED incidents
    BY DEF List, Sweep
  <1> QED BY <1>2, <1>3, <1>4, SweepToStep

LEMMA IdleStep ==
  ASSUME KInv, NEW d \in Devices, Sweep(d, Idle) PROVE KInv'
  BY InitialTyped, SweepToStep DEF Sweep

LEMMA DetailStep ==
  ASSUME KInv, NEW d \in Devices, Detail(d) PROVE KInv'
  <1> DEFINE own == {w \in wraps[version] : w.to = d /\ w.pub = <<d, sweep[d].mine>>}
  <1>1. CASE CallsAsMember(d) /\ own # {}
    <2>1. version \in Versions
      BY <1>1, MembersHaveARow
    <2>2. PICK w \in own :
            Sweep(d, [sweep[d] EXCEPT !.pc = "detail", !.have = Held(version), !.key = w.key])
      BY <1>1 DEF Detail
    <2>3. w.key \in Versions /\ Held(version) \subseteq Recipients
      BY <2>1, HeldTyped DEF KInv
    <2> DEFINE r == [sweep[d] EXCEPT !.pc = "detail", !.have = Held(version), !.key = w.key]
    <2>4. sweep[d] \in SweepRec
      BY DEF KInv, TypeOK
    <2>5. r \in SweepRec
      <3>1. w.key \in 0 .. MaxVersion
        BY <2>3, KeysAssumption DEF Versions
      <3> QED BY <2>3, <2>4, <3>1 DEF SweepRec
    <2>6. SweepOK(r)
      BY <2>3, <2>4 DEF KInv, SweepOK
    <2>7. SweepTo(d, r) /\ UNCHANGED incidents
      BY <2>2 DEF Sweep
    <2> QED BY <2>5, <2>6, <2>7, SweepToStep
  <1>2. CASE ~(CallsAsMember(d) /\ own # {})
    BY <1>2, IdleStep DEF Detail
  <1> QED BY <1>1, <1>2

LEMMA SealStep ==
  ASSUME KInv, NEW d \in Devices, Seal(d) PROVE KInv'
  <1> DEFINE p == sweep[d]
  <1>1. p.key \in Versions /\ p.devs \in SUBSET DevicePubs /\ OnePair(p.devs)
    BY DEF SweepRec, KInv, TypeOK, SweepOK, Seal
  <1>2. PICK fw \in {{}, WrapFirm(p.key)} :
          LET missing == {w \in WrapDevices(p.devs, p.key) \cup ClientWraps(p) \cup fw :
                            w.to \notin p.have} IN
          /\ ReadFirm(p.key, fw)
          /\ SweepTo(d, IF missing = {} THEN Idle
                        ELSE [Idle EXCEPT !.pc = "sealed", !.add = missing])
    BY DEF Seal
  <1> DEFINE missing == {w \in WrapDevices(p.devs, p.key) \cup ClientWraps(p) \cup fw :
                           w.to \notin p.have}
             all == WrapDevices(p.devs, p.key) \cup WrapSessions(Live, p.key)
                      \cup WrapInvite(p.key) \cup WrapFirm(p.key)
             r == [Idle EXCEPT !.pc = "sealed", !.add = missing]
  <1>3. Live \in SUBSET Sessions
    BY DEF Live
  <1>4. missing \in SUBSET all
    BY DEF ClientWraps
  <1>5. all \in SUBSET Wrap
    BY <1>1, <1>3, WrapsTyped DEF KInv
  <1>6. Unique(missing)
    <2>1. Unique(all)
      BY <1>1, <1>3, WrapsUnique
    <2> HIDE DEF all, missing
    <2> QED BY <1>4, <2>1, UniqueSubset
  <1>7. r.pc = "sealed" /\ r.add = missing /\ r.devs = {}
    BY DEF SweepRec, Idle
  <1>8. SweepOK(r)
    BY <1>6, <1>7 DEF SweepOK, OnePair
  <1>9. missing \in SUBSET Wrap
    BY <1>4, <1>5
  <1>10. r \in SweepRec
    <2> HIDE DEF missing
    <2> QED BY <1>9, InitialTyped DEF SweepRec, Idle
  <1>11. Incident \/ UNCHANGED incidents
    BY <1>2 DEF ReadFirm
  <1>12. SweepTo(d, IF missing = {} THEN Idle ELSE r)
    BY <1>2
  <1> HIDE DEF missing, r
  <1> QED BY <1>8, <1>10, <1>11, <1>12, InitialTyped, SweepToStep

LEMMA RecoverStep ==
  ASSUME KInv, NEW d \in Devices, Recover(d) PROVE KInv'
  <1>1. version \in Versions
    BY MembersHaveARow DEF Recover
  <1>2. PICK w \in wraps[version] :
          Sweep(d, [Idle EXCEPT !.pc = "sealed", !.add = WrapDevices({PubOf(d)}, w.key)])
    BY DEF Recover
  <1>3. w.key \in Versions
    BY <1>1, HeldTyped DEF KInv
  <1> DEFINE new == WrapDevices({PubOf(d)}, w.key)
             r == [Idle EXCEPT !.pc = "sealed", !.add = new]
  <1>4. new \in SUBSET Wrap
    <2>1. {PubOf(d)} \in SUBSET DevicePubs /\ {} \in SUBSET Sessions
      BY DEF PubOf, DevicePubs, KInv, TypeOK
    <2> QED BY <1>3, <2>1, WrapsTyped DEF KInv
  <1>5. Unique(new)
    BY DEF Unique, WrapDevices
  <1> HIDE DEF new
  <1>6. r.pc = "sealed" /\ r.add = new /\ r.devs = {}
    BY DEF Idle
  <1>7. SweepOK(r)
    BY <1>5, <1>6 DEF SweepOK, OnePair
  <1>8. r \in SweepRec
    BY <1>4, InitialTyped DEF SweepRec, Idle
  <1>9. SweepTo(d, r) /\ UNCHANGED incidents
    BY <1>2 DEF Sweep, new
  <1> QED BY <1>7, <1>8, <1>9, SweepToStep

LEMMA PatchStep ==
  ASSUME KInv, NEW d \in Devices, Patch(d) PROVE KInv'
  <1> DEFINE new == {w \in sweep[d].add : w.to \notin Held(version)}
             r == [Idle EXCEPT !.pc = "merging", !.row = version, !.add = new]
  <1>1. sweep[d].add \in SUBSET Wrap /\ Unique(sweep[d].add)
    BY DEF SweepRec, KInv, TypeOK, SweepOK
  <1>2. new \in SUBSET Wrap /\ Unique(new)
    BY <1>1, UniqueSubset
  <1>3. Sweep(d, r) \/ Sweep(d, Idle)
    BY DEF Patch
  <1>4. Sweep(d, r) => CallsAsMember(d) \/ Sweep(d, Idle)
    BY DEF Patch
  <1>5. CASE Sweep(d, r) /\ CallsAsMember(d)
    <2>1. version \in Versions
      BY <1>5, MembersHaveARow
    <2> HIDE DEF new
    <2>2. r.pc = "merging" /\ r.row = version /\ r.add = new /\ r.devs = {}
      BY DEF Idle
    <2>3. SweepOK(r)
      BY <1>2, <2>1, <2>2 DEF SweepOK, Versions, OnePair
    <2>4. r \in SweepRec
      <3>1. version \in 0 .. MaxVersion
        BY <2>1, KeysAssumption DEF Versions
      <3> QED BY <1>2, <3>1, InitialTyped DEF SweepRec, Idle
    <2> QED BY <1>5, <2>3, <2>4, SweepToStep DEF Sweep
  <1>6. CASE Sweep(d, Idle)
    BY <1>6, IdleStep
  <1> QED BY <1>3, <1>4, <1>5, <1>6

-----------------------------------------------------------------------------
(* Steps that write wraps, or prepare to. *)

LEMMA MergeStep ==
  ASSUME KInv, NEW d \in Devices, Merge(d)
  PROVE  KInv' /\ \A v \in Versions : wraps[v] \subseteq wraps'[v]
  <1> USE DEF staffVars, clientVars, convVars
  <1> DEFINE row == sweep[d].row  add == sweep[d].add
  <1>0. TypeOK /\ sweep[d] \in SweepRec
    BY DEF KInv, TypeOK
  <1>1. row \in Versions /\ row <= version /\ add \in SUBSET Wrap /\ Unique(add)
    BY <1>0 DEF KInv, TypeOK, SweepRec, SweepOK, Merge, Versions
  <1>2. wraps[row] \in SUBSET Wrap /\ Unique(wraps[row])
    BY <1>0, <1>1 DEF TypeOK, Unique
  <1> DEFINE new == Merged(wraps[row], add)
  <1>3. new \in SUBSET Wrap /\ wraps[row] \subseteq new /\ Unique(new)
    BY <1>1, <1>2, MergedFacts
  <1>4. /\ wraps' = [wraps EXCEPT ![row] = new]
        /\ sweep' = [sweep EXCEPT ![d] = Idle]
        /\ UNCHANGED <<kind, members, thread, version, raced, device, pair, signedIn, revoking,
                       client, sess, draft, incidents>>
    BY DEF Merge
  <1> HIDE DEF row, add, new
  <1>5. /\ wraps' \in [Versions -> SUBSET Wrap]
        /\ wraps'[row] = new
        /\ \A v \in Versions \ {row} : wraps'[v] = wraps[v]
    BY <1>0, <1>1, <1>3, <1>4 DEF TypeOK
  <1>6. sweep' \in [Devices -> SweepRec]
    BY <1>0, <1>4, InitialTyped DEF TypeOK
  <1>7. TypeOK'
    <2>1. \A v \in Versions : Unique(wraps'[v])
      BY <1>0, <1>3, <1>5 DEF TypeOK, Unique
    <2> QED BY <1>0, <1>4, <1>5, <1>6, <2>1 DEF TypeOK, Unique
  <1>8. Rows'
    <2>1. \A v \in Versions : v > version => v # row
      BY <1>0, <1>1 DEF TypeOK, Versions
    <2> QED BY <1>4, <1>5, <2>1 DEF KInv, Rows
  <1>9. (\A e \in Devices : SweepOK(sweep[e]))'
    <2> SUFFICES ASSUME NEW e \in Devices PROVE SweepOK(sweep[e])'
      OBVIOUS
    <2>1. sweep'[e] = IF e = d THEN Idle ELSE sweep[e]
      BY <1>0, <1>4 DEF TypeOK
    <2> QED BY <1>4, <2>1, InitialTyped DEF KInv, SweepOK, Idle
  <1>10. \A v \in Versions : wraps[v] \subseteq wraps'[v]
    BY <1>3, <1>5
  <1> QED BY <1>7, <1>8, <1>9, <1>10 DEF KInv

LEMMA StripStep ==
  ASSUME KInv, NEW d \in Devices, Strip(d)
  PROVE  /\ KInv'
         /\ \A v \in Versions : \A w \in wraps[v] : w \in wraps'[v] \/ w.to \in revoking
  <1> USE DEF staffVars, clientVars, convVars
  <1>0. TypeOK
    BY DEF KInv
  <1>1. /\ \A v \in Versions : wraps'[v] = {w \in wraps[v] : w.to # d}
        /\ wraps' \in [Versions -> SUBSET Wrap]
        /\ revoking' \subseteq Devices /\ d \in revoking
        /\ UNCHANGED <<kind, members, thread, version, raced, device, pair, signedIn, client,
                       sess, draft, sweep, incidents>>
    BY <1>0 DEF TypeOK, Strip
  <1>2. TypeOK'
    BY <1>0, <1>1 DEF TypeOK
  <1>3. Rows'
    BY <1>1 DEF KInv, Rows
  <1>4. (\A e \in Devices : SweepOK(sweep[e]))'
    BY <1>1 DEF KInv, SweepOK
  <1> QED BY <1>1, <1>2, <1>3, <1>4 DEF KInv

LEMMA DraftStep ==
  ASSUME KInv, NEW d \in Devices, NEW k \in {"internal", "external", "rotated"},
         IF k = "rotated" THEN version \in 1 .. (MaxVersion - 1) ELSE kind = "none",
         NEW ms \in SUBSET (Users \cup {Client}), NEW ws \in SUBSET Wrap, Unique(ws),
         Draft(d, k, ms, ws), Incident \/ UNCHANGED incidents
  PROVE  KInv'
  <1> USE DEF staffVars, clientVars, convVars
  <1>0. TypeOK
    BY DEF KInv
  <1>1. /\ draft' = [by |-> d, kind |-> k, members |-> ms, wraps |-> ws]
        /\ UNCHANGED <<kind, members, thread, version, raced, wraps, device, pair, signedIn,
                       revoking, client, sess, sweep>>
    BY DEF Draft
  <1>2. TypeOK'
    <2>1. draft' \in DraftRec
      BY <1>1 DEF DraftRec
    <2> QED BY <1>0, <1>1, <2>1, IncidentTyped DEF TypeOK
  <1>3. Rows'
    BY <1>1 DEF KInv, Rows
  <1>4. (\A e \in Devices : SweepOK(sweep[e]))'
    BY <1>1 DEF KInv, SweepOK
  <1> QED BY <1>2, <1>3, <1>4 DEF KInv

LEMMA StartSteps ==
  ASSUME KInv, NEW d \in Devices,
         StartExternal(d) \/ \E us \in SUBSET Users : StartInternal(d, us)
  PROVE  KInv' /\ wraps' = wraps
  <1>0. OwnerOf[d] \in Users /\ 1 \in Versions /\ TypeOK /\ kind = "none"
    <2>1. Begins(d)
      BY DEF StartExternal, StartInternal
    <2> QED BY <2>1, KeysAssumption DEF KInv, Versions, Begins
  <1>1. \A us : Active(us) \in SUBSET DevicePubs /\ OnePair(Active(us))
    BY <1>0, ActivePairs
  <1>2. Live \in SUBSET Sessions
    BY DEF Live
  <1>3. CASE StartExternal(d)
    <2>1. PICK fw \in {{}, WrapFirm(1)} :
            /\ ReadFirm(1, fw)
            /\ Draft(d, "external", {OwnerOf[d], Client},
                     WrapDevices(Active({OwnerOf[d]}), 1) \cup fw
                       \cup IF Live # {} THEN WrapSessions(Live, 1) ELSE WrapInvite(1))
      BY <1>3 DEF StartExternal
    <2> DEFINE devs == Active({OwnerOf[d]})
               ws == WrapDevices(devs, 1) \cup fw
                       \cup IF Live # {} THEN WrapSessions(Live, 1) ELSE WrapInvite(1)
               all == WrapDevices(devs, 1) \cup WrapSessions(Live, 1) \cup WrapInvite(1)
                        \cup WrapFirm(1)
    <2>2. ws \in SUBSET all
      OBVIOUS
    <2>3. devs \in SUBSET DevicePubs /\ OnePair(devs)
      BY <1>1
    <2>4. all \in SUBSET Wrap /\ Unique(all)
      <3> HIDE DEF devs
      <3> QED BY <1>0, <1>2, <2>3, WrapsTyped, WrapsUnique
    <2>5. Draft(d, "external", {OwnerOf[d], Client}, ws) /\ wraps' = wraps
      BY <2>1 DEF Draft
    <2>6. Incident \/ UNCHANGED incidents
      BY <2>1 DEF ReadFirm
    <2> HIDE DEF all, ws
    <2>7. ws \in SUBSET Wrap /\ Unique(ws)
      BY <2>2, <2>4, UniqueSubset
    <2> QED BY <1>0, <2>5, <2>6, <2>7, DraftStep
  <1>4. ASSUME NEW others \in SUBSET Users, StartInternal(d, others)
        PROVE  KInv' /\ wraps' = wraps
    <2> DEFINE us == others \cup {OwnerOf[d]}
               devs == Active(us)
    <2>1. PICK fw \in {{}, WrapFirm(1)} :
            /\ ReadFirm(1, fw)
            /\ Draft(d, "internal", us, WrapDevices(devs, 1) \cup fw)
      BY <1>4 DEF StartInternal
    <2> DEFINE ws == WrapDevices(devs, 1) \cup fw
               all == WrapDevices(devs, 1) \cup WrapSessions({}, 1) \cup WrapInvite(1)
                        \cup WrapFirm(1)
    <2>2. ws \in SUBSET all
      OBVIOUS
    <2>3. devs \in SUBSET DevicePubs /\ OnePair(devs) /\ us \in SUBSET (Users \cup {Client})
      BY <1>0, <1>1
    <2>4. all \in SUBSET Wrap /\ Unique(all)
      <3> HIDE DEF devs
      <3>1. {} \in SUBSET Sessions
        OBVIOUS
      <3> QED BY <1>0, <2>3, <3>1, WrapsTyped, WrapsUnique
    <2>5. Draft(d, "internal", us, ws) /\ wraps' = wraps
      BY <2>1 DEF Draft
    <2>6. Incident \/ UNCHANGED incidents
      BY <2>1 DEF ReadFirm
    <2> HIDE DEF all, ws, us
    <2>7. ws \in SUBSET Wrap /\ Unique(ws)
      BY <2>2, <2>4, UniqueSubset
    <2> QED BY <1>0, <2>3, <2>5, <2>6, <2>7, DraftStep
  <1> QED BY <1>3, <1>4

LEMMA CreateStep ==
  ASSUME KInv, NEW d \in Devices, CreateConversation(d)
  PROVE  KInv' /\ \A v \in Versions : wraps[v] \subseteq wraps'[v]
  <1> USE DEF staffVars, clientVars, convVars
  <1>0. /\ TypeOK /\ 1 \in Versions /\ draft \in DraftRec
        /\ draft.by = d /\ d # None
        /\ version = 0 /\ draft.kind # "none" /\ draft.kind \in {"internal", "external"}
        /\ Unique(draft.wraps) /\ draft' = NoDraft /\ NoDraft \in DraftRec
        /\ UNCHANGED <<device, pair, signedIn, revoking, client, sess, sweep, incidents>>
    BY KeysAssumption, InitialTyped
    DEF KInv, TypeOK, Rows, Versions, CreateConversation, DraftRec
  <1>1. \A v \in Versions : wraps[v] = {}
    BY <1>0 DEF KInv, Rows, Versions
  <1>2. NoDraft.by = None /\ Unique(NoDraft.wraps)
    BY DEF NoDraft, Unique
  <1>3. CASE d \in signedIn
    <2>1. /\ kind' = draft.kind /\ members' = draft.members /\ version' = 1
          /\ wraps' = [wraps EXCEPT ![1] = draft.wraps]
          /\ thread' \subseteq Users /\ raced' = raced
      BY <1>0, <1>3 DEF CreateConversation, DraftRec
    <2>2. /\ wraps' \in [Versions -> SUBSET Wrap]
          /\ wraps'[1] = draft.wraps
          /\ \A v \in Versions \ {1} : wraps'[v] = {}
      BY <1>0, <1>1, <2>1 DEF TypeOK, DraftRec
    <2>3. TypeOK'
      <3>1. \A v \in Versions : Unique(wraps'[v])
        BY <1>0, <2>2 DEF Unique
      <3>2. draft.members \subseteq Users \cup {Client}
        BY <1>0 DEF DraftRec
      <3>3. version' \in 0 .. MaxVersion
        BY <2>1, KeysAssumption
      <3> QED BY <1>0, <2>1, <2>2, <3>1, <3>2, <3>3 DEF TypeOK, Unique
    <2>4. Rows'
      BY <1>0, <1>2, <2>1, <2>2 DEF Rows, Versions
    <2>5. (\A e \in Devices : SweepOK(sweep[e]))'
      BY <1>0, <2>1 DEF KInv, SweepOK
    <2> QED BY <1>1, <2>2, <2>3, <2>4, <2>5 DEF KInv
  <1>4. CASE d \notin signedIn
    <2>1. UNCHANGED <<kind, members, thread, version, raced, wraps>>
      BY <1>4 DEF CreateConversation
    <2>2. TypeOK'
      BY <1>0, <2>1 DEF TypeOK
    <2>3. Rows'
      BY <1>0, <1>2, <2>1 DEF KInv, Rows
    <2>4. (\A e \in Devices : SweepOK(sweep[e]))'
      BY <1>0, <2>1 DEF KInv, SweepOK
    <2> QED BY <2>1, <2>2, <2>3, <2>4 DEF KInv
  <1> QED BY <1>3, <1>4

(* The next key is sealed for the row after the latest. *)
LEMMA MemberSteps ==
  ASSUME KInv, NEW d \in Devices, NEW m \in Users \cup {Client},
         AddMember(d, m) \/ RemoveMember(d, m)
  PROVE  KInv' /\ wraps' = wraps
  <1>1. PICK ms \in SUBSET (Users \cup {Client}) : NextKey(d, ms)
    BY DEF KInv, TypeOK, AddMember, RemoveMember
  <1> DEFINE n == version + 1
             devs == Active(ms)
             new == WrapDevices(devs, n) \cup WrapFirm(n)
                      \cup IF Client \in ms THEN WrapSessions(Live, n) ELSE {}
             all == WrapDevices(devs, n) \cup WrapSessions(Live, n) \cup WrapInvite(n)
                      \cup WrapFirm(n)
  <1>2. TypeOK /\ version \in 1 .. (MaxVersion - 1) /\ version \in Nat /\ Incident
    BY <1>1 DEF KInv, TypeOK, NextKey
  <1>3. n \in Versions
    BY <1>2, KeysAssumption DEF Versions
  <1>4. devs \in SUBSET DevicePubs /\ OnePair(devs) /\ Live \in SUBSET Sessions
    BY <1>2, ActivePairs DEF Live
  <1>5. new \in SUBSET all
    OBVIOUS
  <1>6. all \in SUBSET Wrap /\ Unique(all)
    <2> HIDE DEF devs, n
    <2> QED BY <1>2, <1>3, <1>4, WrapsTyped, WrapsUnique
  <1>7. Draft(d, "rotated", ms, new)
    BY <1>1 DEF NextKey
  <1> HIDE DEF all, new
  <1>8. new \in SUBSET Wrap /\ Unique(new)
    BY <1>5, <1>6, UniqueSubset
  <1>9. wraps' = wraps
    BY <1>7 DEF Draft
  <1> QED BY <1>2, <1>7, <1>8, <1>9, DraftStep

(* A rotation writes the row after the latest, which is still empty. *)
LEMMA RotatedStep ==
  ASSUME KInv, NEW d \in Devices, Rotated(d)
  PROVE  KInv' /\ \A v \in Versions : wraps[v] \subseteq wraps'[v]
  <1> USE DEF staffVars, clientVars, convVars
  <1> DEFINE n == version + 1
  <1>0. /\ TypeOK /\ draft \in DraftRec /\ draft.by # None /\ draft.kind = "rotated"
        /\ draft' = NoDraft /\ NoDraft \in DraftRec /\ NoDraft.by = None /\ Unique(NoDraft.wraps)
        /\ UNCHANGED <<device, pair, signedIn, revoking, client, sess, sweep, incidents>>
    BY KeysAssumption, InitialTyped DEF KInv, TypeOK, Rotated, NoDraft, Unique
  <1>1. version \in 1 .. (MaxVersion - 1) /\ version \in Nat /\ Unique(draft.wraps)
    BY <1>0 DEF KInv, TypeOK, Rows
  <1>2. n \in Versions /\ n > version /\ n \in 0 .. MaxVersion
    BY <1>1, KeysAssumption DEF Versions
  <1>3. CASE ~CallsAsMember(d)
    <2>1. UNCHANGED <<kind, members, thread, version, raced, wraps>>
      BY <1>3 DEF Rotated
    <2>2. TypeOK'
      BY <1>0, <2>1 DEF TypeOK
    <2>3. Rows'
      BY <1>0, <2>1 DEF KInv, Rows
    <2>4. (\A e \in Devices : SweepOK(sweep[e]))'
      BY <1>0, <2>1 DEF KInv, SweepOK
    <2> QED BY <2>1, <2>2, <2>3, <2>4 DEF KInv
  <1>4. CASE CallsAsMember(d)
    <2>1. /\ members' = draft.members /\ version' = n /\ kind' = kind
          /\ wraps' = [wraps EXCEPT ![n] = draft.wraps]
          /\ thread' = IF kind = "external" THEN draft.members \ {Client} ELSE thread
      BY <1>4 DEF Rotated
    <2>2. raced' \in BOOLEAN
      BY <1>4 DEF Rotated
    <2>3. draft.wraps \in SUBSET Wrap /\ draft.members \subseteq Users \cup {Client}
      BY <1>0 DEF DraftRec
    <2>4. /\ wraps' \in [Versions -> SUBSET Wrap]
          /\ wraps'[n] = draft.wraps
          /\ \A v \in Versions \ {n} : wraps'[v] = wraps[v]
      <3> HIDE DEF n
      <3> QED BY <1>0, <1>2, <2>1, <2>3 DEF TypeOK
    <2>5. TypeOK'
      <3>1. \A v \in Versions : Unique(wraps'[v])
        <4> HIDE DEF n
        <4> QED BY <1>0, <1>1, <2>4 DEF TypeOK, Unique
      <3>2. thread' \subseteq Users
        BY <1>0, <2>1, <2>3 DEF TypeOK
      <3> HIDE DEF n
      <3> QED BY <1>0, <1>2, <2>1, <2>2, <2>3, <2>4, <3>1, <3>2 DEF TypeOK, Unique
    <2>6. Rows'
      <3>1. \A v \in Versions : v > n => v > version /\ v # n
        BY <1>1, <1>2 DEF Versions
      <3>2. \A v \in Versions : v > version' => wraps'[v] = {}
        BY <2>1, <2>4, <3>1 DEF KInv, Rows
      <3>3. kind # "none" /\ n # 0
        BY <1>1 DEF KInv, Rows
      <3> QED BY <1>0, <2>1, <3>2, <3>3 DEF Rows
    <2>7. (\A e \in Devices : SweepOK(sweep[e]))'
      <3>1. \A r : r \in 1 .. version => r \in 1 .. n
        BY <1>1
      <3> QED BY <1>0, <2>1, <3>1 DEF KInv, SweepOK
    <2>8. wraps[n] = {}
      BY <1>2 DEF KInv, Rows
    <2> QED BY <2>4, <2>5, <2>6, <2>7, <2>8 DEF KInv
  <1> QED BY <1>3, <1>4

-----------------------------------------------------------------------------
(* The theorems. *)

Kept == \A v \in Versions : \A w \in wraps[v] : w \in wraps'[v] \/ w.to \in revoking

LEMMA NextKInv == KInv /\ [Next]_vars => KInv' /\ Kept
  <1> SUFFICES ASSUME KInv, [Next]_vars PROVE KInv' /\ Kept
    OBVIOUS
  <1> USE DEF staffVars, clientVars, convVars
  <1>1. wraps' = wraps => Kept
    BY DEF Kept
  <1>2. (\A v \in Versions : wraps[v] \subseteq wraps'[v]) => Kept
    BY DEF Kept
  <1>3. CASE UNCHANGED vars
    <2>1. KInv'
      BY <1>3, QuietStep DEF vars, KInv, TypeOK
    <2> QED BY <1>1, <1>3, <2>1 DEF vars
  <1>4. ASSUME NEW d \in Devices, SignIn(d) \/ SignOut(d) \/ Enrol(d) \/ Revoke(d)
        PROVE  KInv' /\ Kept
    <2>1. wraps' = wraps
      BY <1>4 DEF SignIn, SignOut, Enrol, Revoke
    <2> QED BY <1>1, <1>4, <2>1, StaffSteps
  <1>5. ASSUME NEW d \in Devices, Strip(d) PROVE KInv' /\ Kept
    BY <1>5, StripStep DEF Kept
  <1>6. ASSUME NEW d \in Devices, StartExternal(d) \/ \E us \in SUBSET Users : StartInternal(d, us)
        PROVE  KInv' /\ Kept
    BY <1>1, <1>6, StartSteps
  <1>7. ASSUME NEW d \in Devices, CreateConversation(d) \/ Rotated(d) PROVE KInv' /\ Kept
    BY <1>2, <1>7, CreateStep, RotatedStep
  <1>8. ASSUME NEW d \in Devices, NEW m \in Users \cup {Client},
               AddMember(d, m) \/ RemoveMember(d, m)
        PROVE  KInv' /\ Kept
    BY <1>1, <1>8, MemberSteps
  <1>9. ASSUME NEW d \in Devices, List(d) \/ Detail(d) \/ Seal(d) \/ Recover(d) \/ Patch(d)
        PROVE  KInv' /\ Kept
    <2>1. wraps' = wraps
      BY <1>9 DEF List, Detail, Seal, Recover, Patch, Sweep, SweepTo
    <2> QED BY <1>1, <1>9, <2>1, ListStep, DetailStep, SealStep, RecoverStep, PatchStep
  <1>10. ASSUME NEW d \in Devices, Merge(d) PROVE KInv' /\ Kept
    BY <1>2, <1>10, MergeStep
  <1>11. ASSUME \/ \E s \in Sessions : \/ AcceptInvite(s) \/ Verify(s) \/ EndSession(s)
                                       \/ \E t \in Sessions : StepUp(s, t)
                \/ Identify \/ Reinvite \/ Reactivate \/ \E forget \in BOOLEAN : Deactivate(forget)
         PROVE  KInv' /\ Kept
    <2>1. wraps' = wraps
      BY <1>11
      DEF AcceptInvite, Verify, EndSession, StepUp, Identify, Reinvite, Reactivate, Deactivate
    <2> QED BY <1>1, <1>11, <2>1, ClientSteps
  <1>12. Awake \subseteq Devices
    BY KeysAssumption
  <1> QED BY <1>3, <1>4, <1>5, <1>6, <1>7, <1>8, <1>9, <1>10, <1>11, <1>12 DEF Next

THEOREM KInvHolds == Spec => []KInv
  <1>1. KInv /\ [Next]_vars => KInv'
    BY NextKInv
  <1> QED BY InitKInv, <1>1, PTL DEF Spec

(* The rows, drafts and sweeps keep their types, and no row of conversation_keys ever   *)
(* holds two wraps for one recipient, however many devices sweep and rotate at once.    *)
THEOREM KeysTypeCorrect == Spec => []TypeOK
  <1>1. KInv => TypeOK
    BY DEF KInv
  <1> QED BY KInvHolds, <1>1, PTL

(* No merge, recovery or rotation overwrites or loses a stored wrap; only the           *)
(* revocation of a device strips its own.                                               *)
THEOREM WrapsAreNeverLost == Spec => NobodyLosesTheirKey
  <1>1. KInv /\ [Next]_vars => [Kept]_vars
    BY NextKInv
  <1> QED BY KInvHolds, <1>1, PTL DEF Spec, NobodyLosesTheirKey, Kept
================================================================================
