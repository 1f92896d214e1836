--------------------------- MODULE ConversationKeys ---------------------------
(***************************************************************************)
(* Who can open one conversation (services/conversationService.ts,         *)
(* repositories/conversations.ts, routes/conversations.ts).  Its key is    *)
(* made by the client that creates it and sealed to every device and       *)
(* portal session that may read it; the server keeps those wraps and       *)
(* cannot add one.  Devices enrol (routes/users.ts) and portal sessions    *)
(* come and go (routes/portal.ts) all the time, so every device that is    *)
(* unlocked sweeps: it looks for recipients without a wrap and sends the   *)
(* ones it made (web/src/state/rewrap.ts), to be merged additively.        *)
(***************************************************************************)
EXTENDS Naturals, FiniteSets

CONSTANTS
  Users, Devices,
  OwnerOf,       \* the user of each device
  Enrolled,      \* the devices that are enrolled and signed in to begin with
  Awake,         \* the devices whose tab is open and unlocked
  Sessions,      \* portal sessions of the client
  Client, Invite, Firm, None,
  MaxPairs,      \* the key pairs of a device, one for each time it is enrolled
  MaxInvites,    \* the invites sent to the client, each with a key pair
  MaxVersion,    \* rotations of the conversation's key
  MaxIncidents,  \* sign-outs, revocations, enrolments of a device that is enrolled,
                 \* changes of members and of the client
  FirmReadFails  \* whether reading the firm's public key can fail, which is an incident

Versions == 1 .. MaxVersion
Recipients == Devices \cup Sessions \cup {Invite, Firm}

(* Key pairs: a device, the invite, a session or the firm, and which of its pairs it is. *)
DevicePubs == Devices \X (1 .. MaxPairs)
Pubs == DevicePubs \cup ({Invite} \X (1 .. MaxInvites)) \cup ((Sessions \cup {Firm}) \X {1})
Wrap == [to: Recipients, pub: Pubs, key: Versions]

ASSUME KeysAssumption ==
  /\ OwnerOf \in [Devices -> Users] /\ Awake \subseteq Devices /\ Enrolled \subseteq Devices
  /\ Client \notin Users /\ Invite # Firm /\ None \notin Devices
  /\ ({Invite, Firm} \cap (Devices \cup Sessions)) = {} /\ Devices \cap Sessions = {}
  /\ MaxPairs \in Nat \ {0} /\ MaxInvites \in Nat \ {0} /\ MaxVersion \in Nat \ {0}
  /\ MaxIncidents \in Nat /\ FirmReadFails \in BOOLEAN

VARIABLES
  kind,       \* conversations.type
  members,    \* conversation_members not removed
  thread,     \* the members of the side thread of an external conversation
  version,    \* the latest conversation_keys row; 0 before the conversation exists
  wraps,      \* conversation_keys.wrapped_keys
  device,     \* user_keys
  pair,       \* the key pair of each device: user_keys.key_version
  signedIn,   \* the devices whose browser holds a live session
  revoking,   \* devices being revoked whose wraps are not stripped yet
  client,     \* external_identities, and whether an access code is out
  sess,       \* client_sessions
  draft,      \* a conversation, or the next key of one, that a device is about to post
  sweep,      \* the sweep of each device
  raced,      \* the latest rotation overtook a sweep or recovery that held the key before it
  incidents

staffVars == <<device, pair, signedIn, revoking>>
clientVars == <<client, sess>>
convVars == <<kind, members, thread, version, raced>>
vars == <<convVars, wraps, staffVars, clientVars, draft, sweep, incidents>>

Idle == [pc |-> "idle", mine |-> 0, devs |-> {}, client |-> FALSE, have |-> {}, key |-> 0,
         row |-> 0, add |-> {}]
NoDraft == [by |-> None, kind |-> "none", members |-> {}, wraps |-> {}]

Init ==
  /\ kind = "none" /\ members = {} /\ thread = {} /\ version = 0 /\ raced = FALSE
  /\ wraps = [v \in Versions |-> {}]
  /\ device = [d \in Devices |-> IF d \in Enrolled THEN "active" ELSE "none"]
  /\ pair = [d \in Devices |-> 1] /\ signedIn = Enrolled /\ revoking = {}
  /\ client = [invite |-> 1, open |-> TRUE, off |-> FALSE, code |-> FALSE]
  /\ sess = [s \in Sessions |-> [st |-> "none", pub |-> <<s, 1>>]]
  /\ draft = NoDraft /\ sweep = [d \in Devices |-> Idle] /\ incidents = MaxIncidents

Incident == incidents > 0 /\ incidents' = incidents - 1

Held(v) == {w.to : w \in wraps[v]}
Latest == IF version = 0 THEN {} ELSE wraps[version]
CallsAsMember(d) == d \in signedIn /\ OwnerOf[d] \in members
PubOf(d) == <<d, pair[d]>>
Active(us) == {PubOf(d) : d \in {e \in Devices : device[e] = "active" /\ OwnerOf[e] \in us}}
Live == {s \in Sessions : sess[s].st = "live"}

WrapDevices(ps, k) == {[to |-> p[1], pub |-> p, key |-> k] : p \in ps}
WrapSessions(ss, k) == {[to |-> s, pub |-> sess[s].pub, key |-> k] : s \in ss}
WrapInvite(k) == {[to |-> Invite, pub |-> <<Invite, client.invite>>, key |-> k]}
WrapFirm(k) == {[to |-> Firm, pub |-> <<Firm, 1>>, key |-> k]}
(* getFirmPublicKey answers null when its request fails. *)
ReadFirm(k, fw) ==
  \/ fw = WrapFirm(k) /\ UNCHANGED incidents
  \/ fw = {} /\ FirmReadFails /\ Incident

-----------------------------------------------------------------------------
(* Staff and their devices. *)

SignIn(d) ==
  /\ d \notin signedIn
  /\ signedIn' = signedIn \cup {d}
  /\ UNCHANGED <<convVars, wraps, device, pair, revoking, clientVars, draft, sweep, incidents>>

SignOut(d) ==
  /\ d \in signedIn /\ Incident
  /\ signedIn' = signedIn \ {d}
  /\ UNCHANGED <<convVars, wraps, device, pair, revoking, clientVars, draft, sweep>>

(* POST /users/me/devices: a device id that is known gets the new public key and is not    *)
(* revoked any more; its wraps stay as they are.                                           *)
Enrol(d) ==
  /\ d \in signedIn
  /\ IF device[d] = "none" THEN UNCHANGED pair
     ELSE pair[d] < MaxPairs /\ pair' = [pair EXCEPT ![d] = @ + 1]
  /\ IF device[d] = "active" THEN Incident ELSE UNCHANGED incidents
  /\ device' = [device EXCEPT ![d] = "active"]
  /\ UNCHANGED <<convVars, wraps, signedIn, revoking, clientVars, draft, sweep>>

(* An admin revokes a device: its row first, then the sessions of its owner ... *)
Revoke(d) ==
  /\ device[d] = "active" /\ Incident
  /\ device' = [device EXCEPT ![d] = "revoked"]
  /\ signedIn' = {e \in signedIn : OwnerOf[e] # OwnerOf[d]}
  /\ revoking' = revoking \cup {d}
  /\ UNCHANGED <<convVars, wraps, pair, clientVars, draft, sweep>>

(* ... and last its wraps in every conversation. *)
Strip(d) ==
  /\ d \in revoking
  /\ revoking' = revoking \ {d}
  /\ wraps' = [v \in Versions |-> {w \in wraps[v] : w.to # d}]
  /\ UNCHANGED <<convVars, device, pair, signedIn, clientVars, draft, sweep, incidents>>

-----------------------------------------------------------------------------
(* The client and the portal. *)

Unused == {s \in Sessions : sess[s].st = "none"}

(* A new session row; which of the unused ids it gets makes no difference. *)
LetIn(s, pub) ==
  /\ Unused # {} /\ s = (CHOOSE t \in Unused : TRUE)
  /\ sess' = [sess EXCEPT ![s] = [st |-> "live", pub |-> pub]]
Ended(ss) == [s \in Sessions |-> IF s \in ss /\ sess[s].st = "live"
                                 THEN [sess[s] EXCEPT !.st = "ended"] ELSE sess[s]]

(* A new invite token, with a new key pair; the admin's route also reactivates. *)
Reinvite ==
  /\ client.invite < MaxInvites /\ Incident
  /\ client' = [client EXCEPT !.invite = @ + 1, !.open = TRUE, !.off = FALSE]
  /\ UNCHANGED <<convVars, wraps, staffVars, sess, draft, sweep>>

(* The session carries the key pair derived from the token, which is spent. *)
AcceptInvite(s) ==
  /\ client.open /\ ~client.off
  /\ LetIn(s, <<Invite, client.invite>>)
  /\ client' = [client EXCEPT !.open = FALSE]
  /\ UNCHANGED <<convVars, wraps, staffVars, draft, sweep, incidents>>

Identify ==
  /\ ~client.off /\ ~client.code
  /\ client' = [client EXCEPT !.code = TRUE]
  /\ UNCHANGED <<convVars, wraps, staffVars, sess, draft, sweep, incidents>>

(* The code is used up, and a session with a key pair of its own begins. *)
Verify(s) ==
  /\ client.code
  /\ LetIn(s, <<s, 1>>)
  /\ client' = [client EXCEPT !.code = FALSE]
  /\ UNCHANGED <<convVars, wraps, staffVars, draft, sweep, incidents>>

(* The token is rotated: another row, for the same key pair. *)
StepUp(s, t) ==
  /\ sess[s].st = "live" /\ Unused # {} /\ t = (CHOOSE x \in Unused : TRUE)
  /\ sess' = [sess EXCEPT ![s].st = "ended", ![t] = sess[s]]
  /\ UNCHANGED <<convVars, wraps, staffVars, client, draft, sweep, incidents>>

(* Logged out, expired, or revoked for one of several reasons. *)
EndSession(s) ==
  /\ sess[s].st = "live" /\ Incident
  /\ sess' = Ended({s})
  /\ UNCHANGED <<convVars, wraps, staffVars, client, draft, sweep>>

(* Forgetting the client deletes its access codes as well. *)
Deactivate(forget) ==
  /\ Incident
  /\ sess' = Ended(Sessions)
  /\ client' = [client EXCEPT !.off = TRUE, !.code = @ /\ ~forget]
  /\ UNCHANGED <<convVars, wraps, staffVars, draft, sweep>>

Reactivate ==
  /\ client.off
  /\ client' = [client EXCEPT !.off = FALSE]
  /\ UNCHANGED <<convVars, wraps, staffVars, sess, draft, sweep, incidents>>

-----------------------------------------------------------------------------
(* Creating the conversation, and changing its members. *)

Draft(d, k, ms, ws) ==
  /\ draft = NoDraft
  /\ draft' = [by |-> d, kind |-> k, members |-> ms, wraps |-> ws]
  /\ UNCHANGED <<convVars, wraps, staffVars, clientVars, sweep>>
Begins(d) == kind = "none" /\ d \in signedIn /\ device[d] = "active"

(* With the client: its live sessions, or else its invite. *)
StartExternal(d) ==
  /\ Begins(d) /\ ~client.off
  /\ \E fw \in {{}, WrapFirm(1)} :
       /\ ReadFirm(1, fw)
       /\ Draft(d, "external", {OwnerOf[d], Client},
                WrapDevices(Active({OwnerOf[d]}), 1) \cup fw
                  \cup IF Live # {} THEN WrapSessions(Live, 1) ELSE WrapInvite(1))

(* Among staff, none of whom may be without a device. *)
StartInternal(d, others) ==
  LET us == others \cup {OwnerOf[d]} IN
  /\ Begins(d)
  /\ \A u \in us : Active({u}) # {}
  /\ \E fw \in {{}, WrapFirm(1)} :
       /\ ReadFirm(1, fw)
       /\ Draft(d, "internal", us, WrapDevices(Active(us), 1) \cup fw)

(* POST /conversations: it, its members and its key; an external one gets a side thread. *)
CreateConversation(d) ==
  /\ draft.by = d /\ draft.kind # "rotated"
  /\ draft' = NoDraft
  /\ IF d \in signedIn
     THEN /\ kind' = draft.kind /\ members' = draft.members /\ version' = 1 /\ UNCHANGED raced
          /\ wraps' = [wraps EXCEPT ![1] = draft.wraps]
          /\ thread' = IF draft.kind = "external" THEN draft.members \ {Client} ELSE {}
     ELSE UNCHANGED <<convVars, wraps>>
  /\ UNCHANGED <<staffVars, clientVars, sweep, incidents>>

(* The next key, sealed to everyone who is to be a member from now on. *)
NextKey(d, ms) ==
  /\ CallsAsMember(d) /\ version \in 1 .. (MaxVersion - 1) /\ Incident
  /\ Draft(d, "rotated", ms,
           WrapDevices(Active(ms), version + 1) \cup WrapFirm(version + 1)
             \cup IF Client \in ms THEN WrapSessions(Live, version + 1) ELSE {})
AddMember(d, m) == NextKey(d, members \cup {m})
RemoveMember(d, m) == m \in members /\ NextKey(d, members \ {m})

(* POST or DELETE /conversations/:id/members: the row of that key, and the members. *)
Rotated(d) ==
  /\ draft.by = d /\ draft.kind = "rotated"
  /\ draft' = NoDraft
  /\ IF CallsAsMember(d)
     THEN /\ members' = draft.members /\ version' = version + 1
          /\ wraps' = [wraps EXCEPT ![version + 1] = draft.wraps]
          /\ thread' = IF kind = "external" THEN draft.members \ {Client} ELSE thread
          /\ raced' = \E e \in Devices : sweep[e].pc \in {"detail", "sealed"}
          /\ UNCHANGED kind
     ELSE UNCHANGED <<convVars, wraps>>
  /\ UNCHANGED <<staffVars, clientVars, sweep, incidents>>

-----------------------------------------------------------------------------
(* runDeviceRewrapSweep: five requests, one after the other. *)

SweepTo(d, r) ==
  /\ sweep' = [sweep EXCEPT ![d] = r]
  /\ UNCHANGED <<convVars, wraps, staffVars, clientVars, draft>>
Sweep(d, r) == SweepTo(d, r) /\ UNCHANGED incidents

List_ownDevices(d) ==
  /\ sweep[d] = Idle /\ device[d] # "none" /\ CallsAsMember(d)
  /\ Sweep(d, [Idle EXCEPT !.pc = "listed", !.mine = pair[d], !.devs = Active({OwnerOf[d]}),
                           !.client = Client \in members])

(* The members of the conversation, and their active devices. *)
List(d) ==
  /\ sweep[d] = Idle /\ device[d] # "none" /\ CallsAsMember(d)
  /\ Sweep(d, [Idle EXCEPT !.pc = "listed", !.mine = pair[d], !.devs = Active(members \cap Users),
                           !.client = Client \in members])

(* The latest wraps: without one of its own, that its key pair opens, it cannot help. *)
Detail(d) ==
  /\ sweep[d].pc = "listed"
  /\ LET own == {w \in wraps[version] : w.to = d /\ w.pub = <<d, sweep[d].mine>>} IN
     IF CallsAsMember(d) /\ own # {}
     THEN \E w \in own :
            Sweep(d, [sweep[d] EXCEPT !.pc = "detail", !.have = Held(version), !.key = w.key])
     ELSE Sweep(d, Idle)

(* Clients that still have an invite key are left to it. *)
ClientWraps_inviteOnly(p) ==
  IF ~p.client \/ client.off THEN {} ELSE WrapInvite(p.key)

(* Of a client that is not deactivated: live sessions, and the invite. *)
ClientWraps(p) ==
  IF ~p.client \/ client.off THEN {} ELSE WrapSessions(Live, p.key) \cup WrapInvite(p.key)

(* What was missing from the wraps is sealed. *)
Seal(d) ==
  LET p == sweep[d] IN
  /\ p.pc = "detail"
  /\ \E fw \in {{}, WrapFirm(p.key)} :
       LET missing == {w \in WrapDevices(p.devs, p.key) \cup ClientWraps(p) \cup fw :
                         w.to \notin p.have} IN
       /\ ReadFirm(p.key, fw)
       /\ SweepTo(d, IF missing = {} THEN Idle
                     ELSE [Idle EXCEPT !.pc = "sealed", !.add = missing])

(* runRecoveryRewrap: with the recovery phrase, from the wrap of the firm. *)
Recover(d) ==
  /\ sweep[d] = Idle /\ CallsAsMember(d) /\ device[d] = "active" /\ d \notin Held(version)
  /\ \E w \in wraps[version] :
       /\ w.to = Firm
       /\ Sweep(d, [Idle EXCEPT !.pc = "sealed", !.add = WrapDevices({PubOf(d)}, w.key)])

(* PATCH /wrapped-keys of a member: every recipient must be a device, a session or an    *)
(* invite.  What the latest row has already is dropped.                                  *)
Patch(d) ==
  LET new == {w \in sweep[d].add : w.to \notin Held(version)} IN
  /\ sweep[d].pc = "sealed"
  /\ Sweep(d, IF CallsAsMember(d) /\ (\A w \in sweep[d].add : w.to # Firm) /\ new # {}
              THEN [Idle EXCEPT !.pc = "merging", !.row = version, !.add = new]
              ELSE Idle)

Merged_theirs(ws, add) == add \cup {w \in ws : w.to \notin {a.to : a \in add}}
Merged_both(ws, add) == ws \cup add

(* The wraps that are there win. *)
Merged(ws, add) == ws \cup {w \in add : w.to \notin {x.to : x \in ws}}

(* The UPDATE of that row. *)
Merge(d) ==
  /\ sweep[d].pc = "merging"
  /\ wraps' = [wraps EXCEPT ![sweep[d].row] = Merged(@, sweep[d].add)]
  /\ sweep' = [sweep EXCEPT ![d] = Idle]
  /\ UNCHANGED <<convVars, staffVars, clientVars, draft, incidents>>

-----------------------------------------------------------------------------
Next ==
  \/ \E d \in Devices :
       \/ SignIn(d) \/ SignOut(d) \/ Enrol(d) \/ Revoke(d) \/ Strip(d)
       \/ StartExternal(d) \/ CreateConversation(d) \/ Rotated(d) \/ Recover(d)
       \/ \E us \in SUBSET Users : StartInternal(d, us)
       \/ \E m \in Users \cup {Client} : AddMember(d, m) \/ RemoveMember(d, m)
       \/ Detail(d) \/ Seal(d) \/ Patch(d) \/ Merge(d)
  \/ \E d \in Awake : List(d)
  \/ \E s \in Sessions :
       \/ AcceptInvite(s) \/ Verify(s) \/ EndSession(s)
       \/ \E t \in Sessions : StepUp(s, t)
  \/ Identify \/ Reinvite \/ Reactivate \/ \E forget \in BOOLEAN : Deactivate(forget)

(* An open tab sweeps once a minute, and its requests are answered. *)
SweepStep(d) == List(d) \/ Detail(d) \/ Seal(d) \/ Patch(d) \/ Merge(d)
Fairness == \A d \in Awake : WF_vars(SweepStep(d))

Spec == Init /\ [][Next]_vars /\ Fairness

-----------------------------------------------------------------------------
ClientRec == [invite: 1 .. MaxInvites, open: BOOLEAN, off: BOOLEAN, code: BOOLEAN]
SessRec == [st: {"none", "live", "ended"}, pub: Pubs]
DraftRec == [by: Devices \cup {None}, kind: {"none", "internal", "external", "rotated"},
             members: SUBSET (Users \cup {Client}), wraps: SUBSET Wrap]
SweepRec == [pc: {"idle", "listed", "detail", "sealed", "merging"},
             mine: 0 .. MaxPairs, devs: SUBSET DevicePubs, client: BOOLEAN,
             have: SUBSET Recipients, key: 0 .. MaxVersion, row: 0 .. MaxVersion, add: SUBSET Wrap]

(* Every variable has its type, and no row holds two wraps for one recipient. *)
TypeOK ==
  /\ kind \in {"none", "internal", "external"} /\ version \in 0 .. MaxVersion
  /\ members \subseteq Users \cup {Client} /\ thread \subseteq Users
  /\ wraps \in [Versions -> SUBSET Wrap]
  /\ \A v \in Versions : \A w, x \in wraps[v] : w.to = x.to => w = x
  /\ device \in [Devices -> {"none", "active", "revoked"}] /\ pair \in [Devices -> 1 .. MaxPairs]
  /\ signedIn \subseteq Devices /\ revoking \subseteq Devices
  /\ client \in ClientRec /\ sess \in [Sessions -> SessRec]
  /\ draft \in DraftRec /\ sweep \in [Devices -> SweepRec] /\ raced \in BOOLEAN
  /\ incidents \in 0 .. MaxIncidents

(* Whatever sweeps, recoveries and rotations race, a wrap that is stored is never          *)
(* overwritten or lost, except when its own device is revoked.                             *)
NobodyLosesTheirKey ==
  [][\A v \in Versions : \A w \in wraps[v] : w \in wraps'[v] \/ w.to \in revoking]_vars

(* A wrap of the latest key that its device can open. *)
Reads(d) == \E w \in Latest : w.to = d /\ w.pub = PubOf(d) /\ w.key = version
(* One that was sealed to a key pair its device has replaced. *)
Outdated(d) == \E w \in Latest : w.to = d /\ w.pub # PubOf(d)

(* An unlocked tab of a member reads the conversation. *)
Holder == \E d \in Awake : CallsAsMember(d) /\ device[d] = "active" /\ Reads(d)
DeviceMayRead(d) == device[d] = "active" /\ OwnerOf[d] \in members
SessionMayRead(s) == sess[s].st = "live" /\ Client \in members /\ ~client.off

(* A device enrolled at whatever moment, before or after a rotation, gets a wrap of the    *)
(* latest key that it can open, as long as some unlocked tab reads the conversation;       *)
(* unless the rotation overtook a sweep, whose wraps of the old key then stand in the new  *)
(* row, or the device was enrolled again and the wrap of its old key pair is in the way.   *)
NewDeviceReads ==
  \A d \in Devices :
    DeviceMayRead(d) ~> (Reads(d) \/ ~DeviceMayRead(d) \/ ~Holder \/ raced \/ Outdated(d))

(* So does a portal session, whether it began by invite, by code or by stepping up: there  *)
(* is a wrap of the latest key for its key pair, unless the rotation overtook a sweep.     *)
ClientReads ==
  \A s \in Sessions :
    SessionMayRead(s) ~>
      ((\E w \in Latest : w.pub = sess[s].pub /\ w.key = version)
         \/ ~SessionMayRead(s) \/ ~Holder \/ raced)

(* What the comment on the sweep promises.  A rotation that overtakes a sweep breaks it,   *)
(* and so does a device that enrols again: no configuration lists it.                      *)
EveryDeviceReads ==
  \A d \in Devices : DeviceMayRead(d) ~> (Reads(d) \/ ~DeviceMayRead(d) \/ ~Holder)

(* A conversation created while the firm's key could not be read gets its wrap later.  The *)
(* server refuses that wrap, so no configuration lists this promise.                        *)
FirmIsBackfilled ==
  (version = 1 /\ Holder) ~> (Firm \in Held(1) \/ version # 1 \/ ~Holder)
=============================================================================
