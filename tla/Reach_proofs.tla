----------------------------- MODULE Reach_proofs -----------------------------
(***************************************************************************)
(* Proofs about Realtime, for every number of servers, users, tabs,        *)
(* sockets and faults: the count of a user covers the sockets that were    *)
(* counted, and so nobody with a socket that works is taken for offline.   *)
(* And about ClientReach, for every number of clients, messages, items and *)
(* mishaps: what a client sends is stored once, its file is in the store   *)
(* when it is listed, and nobody is nudged twice or of what they had read. *)
(***************************************************************************)
EXTENDS Realtime, ClientReach, FiniteSetTheorems, TLAPS

-----------------------------------------------------------------------------
(* Presence. *)
OnCount == {"publishing", "ready", "leaving", "stuck"}

SockOK(r) ==
  /\ r \in SockRec
  /\ IF r.pc = "none" THEN r = NoSock ELSE r.tab # None /\ r.srv # None

TabOK(r) ==
  /\ r \in TabRec
  /\ r.conn = "up" <=> r.sid # None
  /\ r.join = "sent" => r.conn = "up"

(* TypeOK, with the sockets and the tabs each in one conjunct. *)
Typed ==
  /\ server \in [Servers -> {"up", "draining", "closing", "down"}] /\ fan \in [Servers -> FanRec]
  /\ DOMAIN sock = Sockets /\ sock = [x \in Sockets |-> sock[x]] /\ \A x \in Sockets : SockOK(sock[x])
  /\ count \in [Users -> Nat]
  /\ DOMAIN tab = Tabs /\ tab = [t \in Tabs |-> tab[t]] /\ \A t \in Tabs : TabOK(tab[t])
  /\ post \in [Messages -> PostRec] /\ faults \in 0 .. MaxFaults

RInv == TypeOK /\ CountCoversSockets

-----------------------------------------------------------------------------
LEMMA TypedIsTypeOK == Typed <=> TypeOK
  BY DEF Typed, TypeOK, SockOK, TabOK

LEMMA NoSockOK == SockOK(NoSock) /\ NoSock.pc = "none"
  BY DEF SockOK, NoSock, SockRec

LEMMA NoPageOK == TabOK(NoPage)
  BY DEF TabOK, NoPage, TabRec

LEMMA FetchingOK ==
  ASSUME NEW r, TabOK(r)
  PROVE  TabOK(Fetching(r)) /\ TabOK(Invalidated(r)) /\ TabOK(Mounted(r))
  <1>1. ASSUME NEW p, TabOK(p)
        PROVE  /\ TabOK([p EXCEPT !.stale = TRUE])
               /\ TabOK([p EXCEPT !.open = TRUE, !.join = IF p.conn = "up" THEN "sent" ELSE "buffered"])
    BY <1>1 DEF TabOK, TabRec
  <1>2. TabOK(Fetching(r)) /\ Fetching(r).conn = r.conn
    BY DEF TabOK, TabRec, Fetching
  <1>3. TabOK(Invalidated(r))
    BY <1>1, <1>2 DEF Invalidated
  <1>4. TabOK(Mounted(r))
    BY <1>1, <1>2 DEF Mounted
  <1> QED BY <1>2, <1>3, <1>4

LEMMA WiredTyped == Wired \in FanRec /\ Unwired \in FanRec
  BY DEF Wired, Unwired, FanRec

LEMMA FaultTyped ==
  ASSUME Fault, faults \in 0 .. MaxFaults
  PROVE  faults' \in 0 .. MaxFaults
  BY RealtimeAssumption DEF Fault

LEMMA DrainTyped ==
  ASSUME NEW s, Drain(s), server \in [Servers -> {"up", "draining", "closing", "down"}]
  PROVE  server' \in [Servers -> {"up", "draining", "closing", "down"}]
  BY DEF Drain

(* A socket that is closed stays the socket of its tab, and on the count if it was on it. *)
LEMMA ClosedFacts ==
  ASSUME NEW x \in Sockets, SockOK(sock[x])
  PROVE  /\ sock[x].pc # "none" => SockOK(Closed(x))
         /\ Closed(x).tab = sock[x].tab
         /\ Closed(x).pc \in OnCount => sock[x].pc \in OnCount
  BY DEF SockOK, SockRec, Closed, OnCount

LEMMA CountedFinite ==
  ASSUME NEW u
  PROVE  /\ Counted(u) \subseteq Sockets
         /\ IsFiniteSet(Counted(u)) /\ Cardinality(Counted(u)) \in Nat
  <1>1. Counted(u) \in SUBSET Sockets
    BY DEF Counted, OfUser
  <1> QED BY <1>1, RealtimeAssumption, FS_Subset, FS_CardinalityType

(* What only takes sockets off the count keeps it covered. *)
LEMMA CoverKept ==
  ASSUME TypeOK, CountCoversSockets, count' = count,
         \A x \in Sockets : sock'[x].pc \in OnCount =>
                              sock[x].pc \in OnCount /\ sock'[x].tab = sock[x].tab
  PROVE  CountCoversSockets'
  <1> SUFFICES ASSUME NEW u \in Users
               PROVE  count'[u] >= Cardinality(Counted(u)')
    BY DEF CountCoversSockets
  <1>1. Counted(u)' \in SUBSET Counted(u)
    BY DEF Counted, OfUser, OnCount
  <1>2. Cardinality(Counted(u)') <= Cardinality(Counted(u)) /\ Cardinality(Counted(u)') \in Nat
    BY <1>1, CountedFinite, FS_Subset, FS_CardinalityType
  <1>3. count[u] >= Cardinality(Counted(u)) /\ count[u] \in Nat
    BY DEF CountCoversSockets, TypeOK
  <1> QED BY <1>2, <1>3, CountedFinite

LEMMA InitRInv == Init => RInv
  <1> SUFFICES ASSUME Init PROVE RInv
    OBVIOUS
  <1>1. Typed
    BY NoSockOK, NoPageOK, WiredTyped, RealtimeAssumption DEF Init, Typed, PostRec
  <1>2. ASSUME NEW u \in Users PROVE count[u] >= Cardinality(Counted(u))
    <2>1. Counted(u) = {}
      BY NoSockOK DEF Init, Counted, OfUser
    <2> QED BY <2>1, FS_EmptySet DEF Init
  <1> QED BY <1>1, <1>2, TypedIsTypeOK DEF RInv, CountCoversSockets

-----------------------------------------------------------------------------
(* The fan-out and the process. *)

LEMMA FanSteps ==
  ASSUME RInv, NEW s \in Servers,
         \/ Reconnect(s) \/ Wire(s) \/ \E ended \in Drops : FanDrops(s, ended)
  PROVE  RInv'
  <1>1. TypeOK /\ CountCoversSockets
    BY DEF RInv
  <1>2. fan' \in [Servers -> FanRec]
    <2>1. fan \in [Servers -> FanRec] /\ \A r \in FanRec : r.timer \in BOOLEAN
      BY <1>1 DEF TypeOK, FanRec
    <2>2. CASE Reconnect(s)
      <3> DEFINE b == "up" \in {fan[s].pub, fan[s].sub}
                 new == [Unwired EXCEPT !.wiring = TRUE, !.timer = b]
      <3>1. b \in BOOLEAN
        OBVIOUS
      <3> HIDE DEF b
      <3>2. new \in FanRec
        BY <3>1 DEF Unwired, FanRec
      <3>3. fan' = [fan EXCEPT ![s] = new]
        BY <2>2 DEF Reconnect, b
      <3> HIDE DEF new
      <3> QED BY <2>1, <3>2, <3>3
    <2>3. CASE Wire(s)
      <3>1. ASSUME NEW b \in BOOLEAN
            PROVE  [Wired EXCEPT !.timer = b] \in FanRec /\ [Unwired EXCEPT !.timer = b] \in FanRec
        BY DEF Wired, Unwired, FanRec
      <3> QED BY <2>1, <2>3, <3>1 DEF Wire
    <2>4. CASE \E ended \in Drops : FanDrops(s, ended)
      <3>1. PICK ended \in Drops : FanDrops(s, ended)
        BY <2>4
      <3> DEFINE p == IF "pub" \in ended THEN "down" ELSE fan[s].pub
                 q == IF "sub" \in ended THEN "down" ELSE fan[s].sub
                 new == [fan[s] EXCEPT !.pub = p, !.sub = q, !.timer = TRUE]
      <3>2. fan[s] \in FanRec /\ p \in {"none", "up", "down"} /\ q \in {"none", "up", "down"}
        BY <2>1 DEF FanRec
      <3>3. fan' = [fan EXCEPT ![s] = new]
        BY <2>1, <3>1 DEF FanDrops
      <3> HIDE DEF p, q
      <3>4. new \in FanRec
        BY <3>2 DEF FanRec
      <3> HIDE DEF new
      <3> QED BY <2>1, <3>3, <3>4
    <2> QED BY <2>2, <2>3, <2>4
  <1>3. faults' \in 0 .. MaxFaults
    BY <1>1, FaultTyped DEF TypeOK, Reconnect, Wire, FanDrops
  <1>4. UNCHANGED <<server, sock, count, tab, post>>
    BY DEF Reconnect, Wire, FanDrops
  <1>5. TypeOK'
    BY <1>1, <1>2, <1>3, <1>4 DEF TypeOK
  <1>6. CountCoversSockets'
    BY <1>1, <1>4, CoverKept
  <1> QED BY <1>5, <1>6 DEF RInv

LEMMA ProcessSteps ==
  ASSUME RInv, NEW s \in Servers, Stop(s) \/ CloseSockets(s) \/ Start(s)
  PROVE  RInv'
  <1>1. Typed /\ TypeOK /\ CountCoversSockets
    BY TypedIsTypeOK DEF RInv
  <1>2. server' \in [Servers -> {"up", "draining", "closing", "down"}] /\ fan' \in [Servers -> FanRec]
    BY <1>1, DrainTyped, WiredTyped DEF Typed, Stop, CloseSockets, Start
  <1>3. /\ DOMAIN sock' = Sockets /\ sock' = [x \in Sockets |-> sock'[x]]
        /\ \A x \in Sockets : SockOK(sock'[x]) /\ (sock'[x].pc \in OnCount =>
                                sock[x].pc \in OnCount /\ sock'[x].tab = sock[x].tab)
    <2>1. CASE UNCHANGED sock
      BY <1>1, <2>1 DEF Typed
    <2>2. CASE sock' = [x \in Sockets |-> IF x \in At(s) THEN Closed(x) ELSE sock[x]]
      <3>1. \A x \in At(s) : sock[x].pc # "none"
        BY <1>1, RealtimeAssumption DEF At, Typed, SockOK, NoSock
      <3> QED BY <1>1, <2>2, <3>1, ClosedFacts DEF Typed
    <2> QED BY <2>1, <2>2 DEF Stop, CloseSockets, Start
  <1>4. faults' \in 0 .. MaxFaults
    BY <1>1, FaultTyped DEF Typed, Stop, CloseSockets, Start
  <1>5. UNCHANGED <<count, tab, post>>
    BY DEF Stop, CloseSockets, Start
  <1>6. Typed'
    BY <1>1, <1>2, <1>3, <1>4, <1>5 DEF Typed
  <1>7. CountCoversSockets'
    BY <1>1, <1>3, <1>5, CoverKept
  <1> QED BY <1>6, <1>7, TypedIsTypeOK DEF RInv, Typed, TypeOK, SockOK, TabOK

LEMMA GoneSteps ==
  ASSUME RInv, NEW s \in Servers, Crashes(s) \/ Exits(s)
  PROVE  RInv'
  <1>1. Typed /\ TypeOK /\ CountCoversSockets /\ Gone(s)
    BY TypedIsTypeOK DEF RInv, Crashes, Exits
  <1>2. server' \in [Servers -> {"up", "draining", "closing", "down"}] /\ fan' \in [Servers -> FanRec]
    BY <1>1, WiredTyped DEF Typed, Gone
  <1>3. /\ DOMAIN sock' = Sockets /\ sock' = [x \in Sockets |-> sock'[x]]
        /\ \A x \in Sockets : SockOK(sock'[x]) /\ (sock'[x].pc \in OnCount =>
                                sock[x].pc \in OnCount /\ sock'[x].tab = sock[x].tab)
    BY <1>1, NoSockOK DEF Typed, Gone, OnCount
  <1>4. post' \in [Messages -> PostRec]
    BY <1>1 DEF Typed, Gone, PostRec
  <1>5. faults' \in 0 .. MaxFaults
    BY <1>1, FaultTyped DEF Typed, Crashes, Exits
  <1>6. UNCHANGED <<count, tab>>
    BY <1>1 DEF Gone
  <1>7. Typed'
    BY <1>1, <1>2, <1>3, <1>4, <1>5, <1>6 DEF Typed
  <1>8. CountCoversSockets'
    BY <1>1, <1>3, <1>6, CoverKept
  <1> QED BY <1>7, <1>8, TypedIsTypeOK DEF RInv, Typed, TypeOK, SockOK, TabOK

-----------------------------------------------------------------------------
(* The sockets. *)

(* One socket changes and stays well formed; the process may begin to drain. *)
LEMMA OneSocketTyped ==
  ASSUME Typed, NEW x \in Sockets, NEW new, SockOK(new), sock' = [sock EXCEPT ![x] = new],
         count' \in [Users -> Nat], UNCHANGED <<fan, tab, post, faults>>,
         server' = server \/ \E s : Drain(s)
  PROVE  Typed'
  <1>1. server' \in [Servers -> {"up", "draining", "closing", "down"}]
    BY DrainTyped DEF Typed
  <1>2. /\ DOMAIN sock' = Sockets /\ sock' = [y \in Sockets |-> sock'[y]]
        /\ \A y \in Sockets : SockOK(sock'[y])
    BY DEF Typed
  <1> QED BY <1>1, <1>2 DEF Typed

LEMMA CountStep ==
  ASSUME RInv, NEW x \in Sockets, Count(x)
  PROVE  RInv'
  <1> DEFINE v == UserOf[sock[x].tab]
             new == [sock[x] EXCEPT !.pc = "publishing"]
  <1>1. Typed /\ TypeOK /\ CountCoversSockets
    BY TypedIsTypeOK DEF RInv
  <1>2. SockOK(sock[x]) /\ sock[x].tab \in Tabs /\ v \in Users
    BY <1>1, RealtimeAssumption DEF Typed, SockOK, SockRec, Count
  <1>3. SockOK(new)
    BY <1>2 DEF SockOK, SockRec, Count
  <1>4. sock' = [sock EXCEPT ![x] = new]
    BY <1>1 DEF Count, Typed
  <1>5. count' = [count EXCEPT ![v] = count[v] + 1] /\ count' \in [Users -> Nat]
    BY <1>1, <1>2 DEF Count, Typed
  <1>6. Typed'
    BY <1>1, <1>3, <1>4, <1>5, OneSocketTyped DEF Count
  <1>7. ASSUME NEW u \in Users PROVE count'[u] >= Cardinality(Counted(u)')
    <2>1. count[u] >= Cardinality(Counted(u)) /\ count[u] \in Nat
      BY <1>1 DEF CountCoversSockets, Typed
    <2>2. Counted(u)' \in SUBSET (Counted(u) \cup {x})
      BY <1>1, <1>4 DEF Counted, OfUser, Typed
    <2>3. u # v => Counted(u)' \in SUBSET Counted(u)
      BY <1>1, <1>2, <1>4 DEF Counted, OfUser, Typed
    <2>4. /\ IsFiniteSet(Counted(u)) /\ Cardinality(Counted(u)) \in Nat
          /\ IsFiniteSet(Counted(u) \cup {x})
          /\ Cardinality(Counted(u) \cup {x}) \in {Cardinality(Counted(u)), Cardinality(Counted(u)) + 1}
      BY CountedFinite, FS_AddElement
    <2>5. Cardinality(Counted(u)') \in Nat /\ Cardinality(Counted(u)') <= Cardinality(Counted(u) \cup {x})
      BY <2>2, <2>4, FS_Subset, FS_CardinalityType
    <2>6. u # v => Cardinality(Counted(u)') <= Cardinality(Counted(u))
      BY <2>3, <2>4, FS_Subset
    <2>7. CASE u = v
      <3>1. count'[u] = count[u] + 1
        BY <1>1, <1>5, <2>7 DEF Typed
      <3> QED BY <2>1, <2>4, <2>5, <3>1
    <2>8. CASE u # v
      <3>1. count'[u] = count[u]
        BY <1>1, <1>5, <2>8 DEF Typed
      <3> QED BY <2>1, <2>4, <2>5, <2>6, <2>8, <3>1
    <2> QED BY <2>7, <2>8
  <1> QED BY <1>6, <1>7, TypedIsTypeOK DEF RInv, CountCoversSockets, Typed, TypeOK, SockOK, TabOK

LEMMA AttachStep ==
  ASSUME RInv, NEW x \in Sockets, Attach(x)
  PROVE  RInv'
  <1>1. Typed /\ TypeOK /\ CountCoversSockets
    BY TypedIsTypeOK DEF RInv
  <1>2. SockOK(sock[x]) /\ sock[x].pc = "publishing"
    BY <1>1 DEF Typed, Attach
  <1>3. PICK p \in {"ready", "stuck"} :
          sock' = [sock EXCEPT ![x] = IF sock[x].alive THEN [sock[x] EXCEPT !.pc = p] ELSE NoSock]
    BY <1>1 DEF Attach, Typed
  <1> DEFINE new == IF sock[x].alive THEN [sock[x] EXCEPT !.pc = p] ELSE NoSock
  <1>4. SockOK(new) /\ (new.pc \in OnCount => new.tab = sock[x].tab)
    BY <1>2, NoSockOK DEF SockOK, SockRec, OnCount
  <1>5. sock' = [sock EXCEPT ![x] = new]
    BY <1>3
  <1> HIDE DEF new
  <1>6. Typed'
    BY <1>1, <1>4, <1>5, OneSocketTyped DEF Attach, Typed
  <1>7. CountCoversSockets'
    BY <1>1, <1>2, <1>4, <1>5, CoverKept DEF Typed, OnCount, Attach
  <1> QED BY <1>6, <1>7, TypedIsTypeOK DEF RInv, Typed, TypeOK, SockOK, TabOK

LEMMA NoticeStep ==
  ASSUME RInv, NEW x \in Sockets, Notice(x)
  PROVE  RInv'
  <1> DEFINE new == IF sock[x].pc = "stuck" THEN NoSock ELSE Closed(x)
  <1>1. Typed /\ TypeOK /\ CountCoversSockets
    BY TypedIsTypeOK DEF RInv
  <1>2. SockOK(sock[x]) /\ sock[x].pc # "none"
    BY <1>1 DEF Typed, SockOK, NoSock, Notice
  <1>3. SockOK(new) /\ (new.pc \in OnCount => sock[x].pc \in OnCount /\ new.tab = sock[x].tab)
    BY <1>2, NoSockOK, ClosedFacts DEF OnCount
  <1>4. sock' = [sock EXCEPT ![x] = new]
    BY <1>1 DEF Notice, Typed
  <1> HIDE DEF new
  <1>5. Typed'
    BY <1>1, <1>3, <1>4, OneSocketTyped DEF Notice, Typed
  <1>6. CountCoversSockets'
    BY <1>1, <1>3, <1>4, CoverKept DEF Typed, Notice
  <1> QED BY <1>5, <1>6, TypedIsTypeOK DEF RInv, Typed, TypeOK, SockOK, TabOK

(* Whoever leaves was counted, so that the others still are. *)
LEMMA LeaveStep ==
  ASSUME RInv, NEW x \in Sockets, Leave(x)
  PROVE  RInv'
  <1> DEFINE v == UserOf[sock[x].tab]
  <1>1. Typed /\ TypeOK /\ CountCoversSockets
    BY TypedIsTypeOK DEF RInv
  <1>2. SockOK(sock[x]) /\ sock[x].tab \in Tabs /\ v \in Users /\ sock[x].pc = "leaving" /\ sock[x].tab # None
    BY <1>1, RealtimeAssumption DEF Typed, SockOK, SockRec, Leave
  <1>3. sock' = [sock EXCEPT ![x] = NoSock]
    BY DEF Leave
  <1>4. count' = [count EXCEPT ![v] = IF count[v] = 0 THEN 0 ELSE count[v] - 1]
    BY <1>1 DEF Leave, Typed
  <1>5. count' \in [Users -> Nat]
    BY <1>1, <1>2, <1>4 DEF Typed
  <1>6. Typed'
    BY <1>1, <1>3, <1>5, NoSockOK, OneSocketTyped DEF Leave
  <1>7. ASSUME NEW u \in Users PROVE count'[u] >= Cardinality(Counted(u)')
    <2>1. count[u] >= Cardinality(Counted(u)) /\ count[u] \in Nat
      BY <1>1 DEF CountCoversSockets, Typed
    <2>2. Counted(u)' = Counted(u) \ {x}
      BY <1>1, <1>3, NoSockOK DEF Counted, OfUser, Typed
    <2>3. x \in Counted(u) <=> u = v
      BY <1>2 DEF Counted, OfUser
    <2>4. /\ Cardinality(Counted(u)) \in Nat /\ Cardinality(Counted(u)') \in Nat
          /\ Cardinality(Counted(u)') = IF u = v THEN Cardinality(Counted(u)) - 1
                                        ELSE Cardinality(Counted(u))
      BY <2>2, <2>3, CountedFinite, FS_RemoveElement, FS_CardinalityType
    <2>5. count'[u] = IF u = v THEN (IF count[u] = 0 THEN 0 ELSE count[u] - 1) ELSE count[u]
      BY <1>1, <1>4 DEF Typed
    <2> QED BY <2>1, <2>4, <2>5
  <1> QED BY <1>6, <1>7, TypedIsTypeOK DEF RInv, CountCoversSockets, Typed, TypeOK, SockOK, TabOK

-----------------------------------------------------------------------------
(* The tabs. *)

(* Only a tab changes, or its socket enters or leaves the room. *)
LEMMA TabStep ==
  ASSUME RInv, NEW t \in Tabs, NEW new, TabOK(new), tab' = [tab EXCEPT ![t] = new],
         UNCHANGED <<server, fan, count, post>>, faults' = faults \/ Fault,
         \/ sock' = sock
         \/ \E room \in [Sockets -> BOOLEAN] : sock' = [x \in Sockets |->
              IF Has(t, x) /\ sock[x].pc # "none" THEN [sock[x] EXCEPT !.conv = room[x]] ELSE sock[x]]
  PROVE  RInv'
  <1>1. Typed /\ TypeOK /\ CountCoversSockets
    BY TypedIsTypeOK DEF RInv
  <1>2. /\ DOMAIN sock' = Sockets /\ sock' = [x \in Sockets |-> sock'[x]]
        /\ \A x \in Sockets : /\ SockOK(sock'[x])
                              /\ sock'[x].pc = sock[x].pc /\ sock'[x].tab = sock[x].tab
    <2>1. CASE sock' = sock
      BY <1>1, <2>1 DEF Typed
    <2>2. CASE \E room \in [Sockets -> BOOLEAN] : sock' = [x \in Sockets |->
              IF Has(t, x) /\ sock[x].pc # "none" THEN [sock[x] EXCEPT !.conv = room[x]] ELSE sock[x]]
      <3>1. PICK room \in [Sockets -> BOOLEAN] : sock' = [x \in Sockets |->
              IF Has(t, x) /\ sock[x].pc # "none" THEN [sock[x] EXCEPT !.conv = room[x]] ELSE sock[x]]
        BY <2>2
      <3>2. ASSUME NEW r, SockOK(r), r.pc # "none", NEW b \in BOOLEAN
            PROVE  LET c == [r EXCEPT !.conv = b] IN SockOK(c) /\ c.pc = r.pc /\ c.tab = r.tab
        BY <3>2 DEF SockOK, SockRec
      <3>3. \A x \in Sockets : SockOK(sock[x]) /\ room[x] \in BOOLEAN
        BY <1>1 DEF Typed
      <3>4. \A x \in Sockets : /\ SockOK(sock'[x])
                               /\ sock'[x].pc = sock[x].pc /\ sock'[x].tab = sock[x].tab
        BY <3>1, <3>2, <3>3
      <3> QED BY <3>1, <3>4
    <2> QED BY <2>1, <2>2
  <1>3. DOMAIN tab' = Tabs /\ tab' = [r \in Tabs |-> tab'[r]] /\ \A r \in Tabs : TabOK(tab'[r])
    BY <1>1 DEF Typed
  <1>4. faults' \in 0 .. MaxFaults
    BY <1>1, FaultTyped DEF Typed
  <1>5. Typed'
    BY <1>1, <1>2, <1>3, <1>4 DEF Typed
  <1>6. CountCoversSockets'
    BY <1>1, <1>2, CoverKept
  <1> QED BY <1>5, <1>6, TypedIsTypeOK DEF RInv, Typed, TypeOK, SockOK, TabOK

LEMMA PageSteps ==
  ASSUME RInv, NEW t \in Tabs,
         ClosePage(t) \/ CutOff(t) \/ NoticeLoss(t) \/ \E open \in BOOLEAN : OpenPage(t, open)
  PROVE  RInv'
  <1>1. Typed /\ TabOK(tab[t])
    BY TypedIsTypeOK DEF RInv, Typed
  <1>2. CASE ClosePage(t)
    BY <1>2, NoPageOK, TabStep DEF ClosePage
  <1>3. CASE CutOff(t) \/ NoticeLoss(t)
    <2> DEFINE new == [tab[t] EXCEPT !.conn = "connecting", !.sid = None,
                                     !.join = IF @ = "sent" THEN "no" ELSE @]
    <2>1. TabOK(new)
      BY <1>1 DEF TabOK, TabRec
    <2>2. tab' = [tab EXCEPT ![t] = new]
      BY <1>1, <1>3 DEF CutOff, NoticeLoss, Disconnected, Typed
    <2> HIDE DEF new
    <2> QED BY <1>3, <2>1, <2>2, TabStep DEF CutOff, NoticeLoss
  <1>4. CASE \E open \in BOOLEAN : OpenPage(t, open)
    <2>1. PICK open \in BOOLEAN : OpenPage(t, open)
      BY <1>4
    <2> DEFINE page == [NoPage EXCEPT !.conn = "connecting"]
               new == IF open THEN Mounted(page) ELSE page
    <2>2. TabOK(page)
      BY RealtimeAssumption DEF TabOK, TabRec, NoPage
    <2>3. tab' = [tab EXCEPT ![t] = new]
      BY <2>1 DEF OpenPage
    <2> HIDE DEF page
    <2>4. TabOK(new)
      BY <2>2, FetchingOK
    <2> HIDE DEF new
    <2> QED BY <2>1, <2>3, <2>4, TabStep DEF OpenPage
  <1> QED BY <1>2, <1>3, <1>4

LEMMA ViewSteps ==
  ASSUME RInv, NEW t \in Tabs,
         OpenConversation(t) \/ CloseConversation(t) \/ Join(t) \/ Fetch(t)
  PROVE  RInv'
  <1>1. Typed /\ TabOK(tab[t])
    BY TypedIsTypeOK DEF RInv, Typed
  <1>2. CASE OpenConversation(t)
    <2>1. PICK stale \in {tab[t].stale, TRUE} :
            tab' = [tab EXCEPT ![t] = Mounted([@ EXCEPT !.stale = stale])]
      BY <1>2 DEF OpenConversation
    <2> DEFINE seen == [tab[t] EXCEPT !.stale = stale]
               new == Mounted(seen)
    <2>2. TabOK(seen)
      BY <1>1 DEF TabOK, TabRec
    <2>3. tab' = [tab EXCEPT ![t] = new]
      BY <1>1, <2>1 DEF Typed
    <2> HIDE DEF seen
    <2>4. TabOK(new)
      BY <2>2, FetchingOK
    <2> HIDE DEF new
    <2> QED BY <1>2, <2>3, <2>4, TabStep DEF OpenConversation
  <1>3. CASE CloseConversation(t)
    <2> DEFINE new == [tab[t] EXCEPT !.open = FALSE, !.join = "no"]
               room == [x \in Sockets |-> FALSE]
    <2>1. TabOK(new)
      BY <1>1 DEF TabOK, TabRec
    <2>2. tab' = [tab EXCEPT ![t] = new]
      BY <1>1, <1>3 DEF CloseConversation, Typed
    <2>3. room \in [Sockets -> BOOLEAN]
      OBVIOUS
    <2>4. \A x \in Sockets : sock[x].pc = "none" => [sock[x] EXCEPT !.conv = FALSE] = sock[x]
      BY <1>1 DEF Typed, SockOK, NoSock
    <2>5. sock' = [x \in Sockets |-> IF Has(t, x) /\ sock[x].pc # "none"
                                     THEN [sock[x] EXCEPT !.conv = room[x]] ELSE sock[x]]
      BY <1>1, <1>3, <2>4 DEF CloseConversation
    <2> HIDE DEF new, room
    <2> QED BY <1>3, <2>1, <2>2, <2>3, <2>5, TabStep DEF CloseConversation
  <1>4. CASE Join(t)
    <2> DEFINE new == [tab[t] EXCEPT !.join = "no"]
               room == [x \in Sockets |-> IF sock[x].pc = "ready" THEN TRUE ELSE sock[x].conv]
    <2>1. TabOK(new) /\ tab' = [tab EXCEPT ![t] = new]
      BY <1>1, <1>4 DEF TabOK, TabRec, Join, Typed
    <2>2. room \in [Sockets -> BOOLEAN]
      BY <1>1 DEF Typed, SockOK, SockRec
    <2>3. \A x \in Sockets : sock[x] = [sock[x] EXCEPT !.conv = sock[x].conv]
      BY <1>1 DEF Typed, SockOK, SockRec
    <2>4. sock' = [x \in Sockets |-> IF Has(t, x) /\ sock[x].pc # "none"
                                     THEN [sock[x] EXCEPT !.conv = room[x]] ELSE sock[x]]
      BY <1>1, <1>4, <2>3 DEF Join
    <2> HIDE DEF new, room
    <2> QED BY <1>4, <2>1, <2>2, <2>4, TabStep DEF Join
  <1>5. CASE FetchReads(t)
    <2> DEFINE new == [tab[t] EXCEPT !.got = Stored]
    <2>1. TabOK(new)
      BY <1>1 DEF TabOK, TabRec, Stored
    <2>2. tab' = [tab EXCEPT ![t] = new]
      BY <1>1, <1>5 DEF FetchReads, Typed
    <2> HIDE DEF new
    <2> QED BY <1>5, <2>1, <2>2, TabStep DEF FetchReads
  <1>6. CASE FetchArrives(t)
    <2> DEFINE new == [tab[t] EXCEPT !.view = tab[t].got, !.loaded = TRUE, !.stale = FALSE,
                                     !.fetch = "no", !.got = None]
    <2>1. tab[t].got \in SUBSET Messages
      BY <1>1, <1>6 DEF FetchArrives, TabOK, TabRec
    <2>2. TabOK(new)
      BY <1>1, <2>1 DEF TabOK, TabRec
    <2>3. tab' = [tab EXCEPT ![t] = new]
      BY <1>1, <1>6 DEF FetchArrives, Typed
    <2> HIDE DEF new
    <2> QED BY <1>6, <2>2, <2>3, TabStep DEF FetchArrives
  <1>7. CASE FetchFails(t)
    <2> DEFINE try == IF tab[t].fetch = "first" /\ tab[t].open THEN "second" ELSE "no"
               new == [tab[t] EXCEPT !.fetch = try, !.got = None]
    <2>1. TabOK(new)
      BY <1>1 DEF TabOK, TabRec
    <2>2. tab' = [tab EXCEPT ![t] = new]
      BY <1>1, <1>7 DEF FetchFails, Typed
    <2>3. Fault \/ UNCHANGED faults
      BY <1>7 DEF FetchFails
    <2> HIDE DEF new
    <2> QED BY <1>7, <2>1, <2>2, <2>3, TabStep DEF FetchFails
  <1> QED BY <1>2, <1>3, <1>4, <1>5, <1>6, <1>7 DEF Fetch

LEMMA ConnectStep ==
  ASSUME RInv, NEW t \in Tabs, NEW s \in Servers, Connect(t, s)
  PROVE  RInv'
  <1>1. Typed /\ TypeOK /\ CountCoversSockets
    BY TypedIsTypeOK DEF RInv
  <1> DEFINE x == CHOOSE x \in Free : TRUE
             new == [pc |-> "counting", tab |-> t, srv |-> s, conv |-> FALSE, alive |-> TRUE]
             old == Invalidated(tab[t])
             join == IF old.join = "buffered" THEN "sent" ELSE old.join
             page == [old EXCEPT !.conn = "up", !.sid = x, !.join = join]
  <1>2. x \in Free /\ sock' = [sock EXCEPT ![x] = new]
    BY DEF Connect
  <1>3. tab' = [tab EXCEPT ![t] = page]
    BY DEF Connect
  <1> HIDE DEF x
  <1>4. x \in Sockets
    BY <1>2 DEF Free
  <1>5. SockOK(new) /\ new.pc \notin OnCount
    BY RealtimeAssumption DEF SockOK, SockRec, OnCount
  <1>6. TabOK(page)
    <2>1. TabOK(old) /\ x # None
      BY <1>1, <1>4, FetchingOK, RealtimeAssumption DEF Typed
    <2> HIDE DEF old
    <2> QED BY <1>4, <2>1 DEF TabOK, TabRec
  <1> HIDE DEF new, page
  <1>7. Typed'
    <2>1. /\ DOMAIN sock' = Sockets /\ sock' = [y \in Sockets |-> sock'[y]]
          /\ \A y \in Sockets : SockOK(sock'[y])
      BY <1>1, <1>2, <1>4, <1>5 DEF Typed
    <2>2. DOMAIN tab' = Tabs /\ tab' = [r \in Tabs |-> tab'[r]] /\ \A r \in Tabs : TabOK(tab'[r])
      BY <1>1, <1>3, <1>6 DEF Typed
    <2> QED BY <1>1, <2>1, <2>2 DEF Typed, Connect
  <1>8. CountCoversSockets'
    BY <1>1, <1>2, <1>4, <1>5, CoverKept DEF Typed, Connect
  <1> QED BY <1>7, <1>8, TypedIsTypeOK DEF RInv, Typed, TypeOK, SockOK, TabOK

-----------------------------------------------------------------------------
(* The messages. *)

LEMMA PostSteps ==
  ASSUME RInv, NEW m \in Messages,
         Announce(m) \/ Notify(m) \/ \E s \in Servers : Insert(m, s)
  PROVE  RInv'
  <1>1. Typed /\ TypeOK /\ CountCoversSockets
    BY TypedIsTypeOK DEF RInv
  <1>2. post' \in [Messages -> PostRec]
    BY <1>1 DEF Typed, PostRec, Announce, Notify, Insert
  <1>3. UNCHANGED <<server, fan, sock, count, faults>>
    BY DEF Announce, Notify, Insert
  <1>4. DOMAIN tab' = Tabs /\ tab' = [t \in Tabs |-> tab'[t]] /\ \A t \in Tabs : TabOK(tab'[t])
    <2>1. CASE tab' = tab
      BY <1>1, <2>1 DEF Typed
    <2>2. CASE Announce(m) /\ tab' # tab
      <3>1. tab' = [t \in Tabs |-> IF Hears(t, Audience(post[m].srv)) THEN Invalidated(tab[t])
                                   ELSE tab[t]]
        BY <2>2 DEF Announce
      <3> QED BY <1>1, <3>1, FetchingOK DEF Typed
    <2> QED BY <2>1, <2>2 DEF Notify, Insert
  <1>5. Typed'
    BY <1>1, <1>2, <1>3, <1>4 DEF Typed
  <1>6. CountCoversSockets'
    BY <1>1, <1>3, CoverKept
  <1> QED BY <1>5, <1>6, TypedIsTypeOK DEF RInv, Typed, TypeOK, SockOK, TabOK

-----------------------------------------------------------------------------
LEMMA NextRInv == RInv /\ [Next]_vars => RInv'
  <1> SUFFICES ASSUME RInv, [Next]_vars PROVE RInv'
    OBVIOUS
  <1>1. CASE UNCHANGED vars
    BY <1>1 DEF RInv, TypeOK, CountCoversSockets, Counted, OfUser, vars
  <1>2. CASE Next
    BY <1>2, FanSteps, ProcessSteps, GoneSteps, CountStep, AttachStep, NoticeStep, LeaveStep,
       PageSteps, ViewSteps, ConnectStep, PostSteps DEF Next
  <1> QED BY <1>1, <1>2

(* Every reachable state is well typed, and a user's count is never below the number of *)
(* sockets that were put on it and will be taken off.                                   *)
THEOREM CountIsCovered == Spec => [](TypeOK /\ CountCoversSockets)
  <1>1. Init => RInv
    BY InitRInv
  <1>2. RInv /\ [Next]_vars => RInv'
    BY NextRInv
  <1>3. RInv => TypeOK /\ CountCoversSockets
    BY DEF RInv
  <1> QED BY <1>1, <1>2, <1>3, PTL DEF Spec

(* Nobody with a socket that works is taken for offline when the recipients of a mail are *)
(* read, whatever connects, crashes or is cut.                                            *)
THEOREM OnlineNeverMailed == Spec => OnlineIsNeverMailed
  <1> DEFINE A == \A m \in Messages : Notify(m) => \A u \in Offline : ~Online(u)
  <1>1. RInv => A
    <2> SUFFICES ASSUME RInv, NEW u \in Offline, Online(u) PROVE FALSE
      OBVIOUS
    <2>1. u \in Users /\ count[u] = 0 /\ count[u] >= Cardinality(Counted(u))
      BY DEF Offline, RInv, CountCoversSockets
    <2>2. Counted(u) # {}
      BY DEF Online, Counted
    <2>3. Cardinality(Counted(u)) # 0 /\ Cardinality(Counted(u)) \in Nat
      BY <2>2, CountedFinite, FS_EmptySet
    <2> QED BY <2>1, <2>3
  <1>2. Spec => []RInv
    BY InitRInv, NextRInv, PTL DEF Spec
  <1>3. RInv => [A]_vars
    BY <1>1
  <1> QED BY <1>2, <1>3, PTL DEF OnlineIsNeverMailed

-----------------------------------------------------------------------------
(* Reaching clients: the calls of the webhooks, one after the other or at once. *)

Writing(p) == procs[p].pc \in {"scan", "put", "insert", "unput", "publish"}

CallInv(p) ==
  /\ procs[p].pc \in {"idle", "flag"} <=> procs[p].item = Nobody
  /\ procs[p].pc # "flag" => procs[p].claimed = {}
  /\ procs[p].heard => procs[p].item \in Items /\ item[procs[p].item] = "out"
  /\ Writing(p) => procs[p].n \in 1 .. Len(rows[procs[p].item])
  /\ procs[p].pc \in {"scan", "put", "insert", "unput"} => rows[procs[p].item][procs[p].n].file = "none"
  /\ procs[p].pc \in {"insert", "unput"} => Blob(p) \in blobs

(* No two calls work on the same file. *)
CallsApart == \A p, q \in Procs : Writing(p) /\ Writing(q) /\ Blob(p) = Blob(q) => p = q

(* The provider listens to one call about an item at a time; while it has not given up  *)
(* on one, there is no other, and none that is past the lookup when a row is there.      *)
ItemInv(i) ==
  /\ \A p, q \in Procs : procs[p].item = i /\ procs[q].item = i /\ procs[p].heard /\ procs[q].heard => p = q
  /\ i \notin overlapped =>
       /\ Len(rows[i]) <= 1
       /\ \A p \in Procs : procs[p].item = i =>
            procs[p].heard /\ (procs[p].pc \in {"route", "store"} => Len(rows[i]) = 0)

Unsent(m) == \A c \in Clients : <<m, c, "email">> \notin sent

(* A message is claimed once: by then nobody has had a mail, and whoever is still on the *)
(* list of its dispatch has not either, and had not read it when it was claimed.         *)
NudgeInv(m) ==
  /\ msgs[m].early \subseteq msgs[m].read
  /\ ~msgs[m].stamped => msgs[m].early = {} /\ jobs[m].pc = "none" /\ Unsent(m)
  /\ \A p \in Procs : m \in procs[p].claimed => msgs[m].stamped /\ jobs[m].pc = "none" /\ Unsent(m)
  /\ \A p, q \in Procs : m \in procs[p].claimed /\ m \in procs[q].claimed => p = q
  /\ jobs[m].pc \in {"load", "readers"} => Unsent(m)
  /\ jobs[m].pc = "send" => \A r \in jobs[m].to : <<m, r.c, "email">> \notin sent /\ r.c \notin msgs[m].early
  /\ \A r, t \in jobs[m].to : r.c = t.c => r = t
  /\ jobs[m].cur # Nobody => jobs[m].pc = "send"

(* What is in the store belongs to a row. *)
BlobsHaveRows == \A i \in Items : \A n \in Nat : <<i, n>> \in blobs => n \in 1 .. Len(rows[i])

InboundInv ==
  /\ \A p \in Procs : CallInv(p)
  /\ CallsApart
  /\ \A i \in Items : ItemInv(i)
  /\ FilesMatchRows
  /\ BlobsHaveRows

RchInv == ReachTypeOK /\ InboundInv /\ \A m \in StaffMessages : NudgeInv(m)

-----------------------------------------------------------------------------
LEMMA InitRchInv == ReachInit => RchInv
  <1> SUFFICES ASSUME ReachInit PROVE RchInv
    OBVIOUS
  <1>1. /\ procs \in [Procs -> Proc]
        /\ \A p \in Procs : /\ procs[p].pc = "idle" /\ procs[p].item = Nobody /\ procs[p].n = 0
                            /\ procs[p].claimed = {} /\ procs[p].heard = FALSE
    BY DEF ReachInit, Idle, Proc
  <1>2. jobs \in [StaffMessages -> Job] /\ \A m \in StaffMessages : jobs[m].pc = "none" /\ jobs[m].to = {}
                                                                    /\ jobs[m].cur = Nobody
    BY DEF ReachInit, NoJob, Job
  <1>3. msgs \in [StaffMessages -> MsgRow] /\ \A m \in StaffMessages : msgs[m].early = {}
    BY DEF ReachInit, NoMsg, MsgRow
  <1>4. /\ client \in [Clients -> Client] /\ opt \in [Clients -> {"none", "in", "out"}] /\ messaging \in BOOLEAN
        /\ item \in [Items -> {"unsent", "due", "out", "done"}] /\ kind \in [Items -> Kinds]
        /\ refused \in [Items -> {"no", "unknown", "off"}]
        /\ blobs = {} /\ sent = {} /\ excused = {} /\ taken = {} /\ overlapped = {} /\ mishaps = 0
    <2>1. \A e, s \in BOOLEAN : [email |-> e, sms |-> s, gone |-> FALSE] \in Client
      BY DEF Client
    <2>2. {[email |-> e, sms |-> s, gone |-> FALSE] : e, s \in BOOLEAN} \subseteq Client
      BY <2>1
    <2>3. client \in [Clients -> {[email |-> e, sms |-> s, gone |-> FALSE] : e, s \in BOOLEAN}]
      BY DEF ReachInit
    <2>4. client \in [Clients -> Client]
      BY <2>2, <2>3
    <2> QED BY <2>4 DEF ReachInit
  <1>5. rows = [i \in Items |-> <<>>]
    BY DEF ReachInit
  <1>6. rows \in [Items -> Seq(Row)] /\ \A i \in Items : Len(rows[i]) = 0
    BY <1>5
  <1>7. \A p \in Procs : procs[p].n \in 0 .. (IF procs[p].item = Nobody THEN 0 ELSE Len(rows[procs[p].item]))
    BY <1>1
  <1>8. ReachTypeOK
    BY <1>1, <1>2, <1>3, <1>4, <1>6, <1>7, ReachAssumption DEF ReachTypeOK
  <1>9. InboundInv
    <2>1. \A p \in Procs : CallInv(p) /\ ~Writing(p)
      BY <1>1 DEF CallInv, Writing
    <2>2. \A i \in Items : ItemInv(i)
      BY <1>1, <1>6, ReachAssumption DEF ItemInv
    <2>3. FilesMatchRows
      BY <1>4, <1>6 DEF FilesMatchRows
    <2>4. BlobsHaveRows
      BY <1>4 DEF BlobsHaveRows
    <2> QED BY <2>1, <2>2, <2>3, <2>4 DEF InboundInv, CallsApart
  <1>10. \A m \in StaffMessages : NudgeInv(m)
    BY <1>1, <1>2, <1>3, <1>4 DEF NudgeInv, Unsent
  <1> QED BY <1>8, <1>9, <1>10 DEF RchInv

-----------------------------------------------------------------------------
(* What steps elsewhere leave alone. *)
LEMMA InboundKept ==
  ASSUME InboundInv, UNCHANGED <<item, rows, blobs, overlapped, procs>>,
         mishaps \in Nat, mishaps' \in Nat, mishaps <= mishaps'
  PROVE  InboundInv'
  <1>1. FilesMatchRows'
    BY DEF InboundInv, FilesMatchRows, Blob
  <1>2. BlobsHaveRows'
    BY DEF InboundInv, BlobsHaveRows
  <1> QED BY <1>1, <1>2 DEF InboundInv, CallInv, CallsApart, Writing, ItemInv, Blob

LEMMA NudgeKept ==
  ASSUME NEW m \in StaffMessages, NudgeInv(m),
         msgs'[m].stamped = msgs[m].stamped, msgs'[m].early = msgs[m].early,
         msgs[m].read \subseteq msgs'[m].read,
         jobs'[m] = jobs[m], \A c \in Clients : <<m, c, "email">> \in sent' => <<m, c, "email">> \in sent,
         jobs[m] \in Job,
         \A p \in Procs : m \in procs'[p].claimed => m \in procs[p].claimed
  PROVE  NudgeInv(m)'
  <1>1. \A r \in jobs[m].to : r.c \in Clients
    BY DEF Job, Recipient
  <1> QED BY <1>1 DEF NudgeInv, Unsent

LEMMA MishapFacts ==
  ASSUME ReachTypeOK
  PROVE  /\ mishaps \in Nat
         /\ Mishap => mishaps' \in 0 .. MaxMishaps /\ mishaps' \in Nat /\ mishaps <= mishaps' /\ mishaps' > 0
         /\ UNCHANGED mishaps => mishaps' \in 0 .. MaxMishaps /\ mishaps' \in Nat /\ mishaps <= mishaps'
  BY ReachAssumption DEF ReachTypeOK, Mishap

-----------------------------------------------------------------------------
(* Staff, clients and administrators. *)
LEMMA ByRead ==
  ASSUME RchInv, UNCHANGED <<item, kind, rows, blobs, taken, refused, overlapped, jobs, sent, excused, procs>>,
         Mishap \/ UNCHANGED mishaps,
         msgs' \in [StaffMessages -> MsgRow], client' \in [Clients -> Client],
         opt' = opt, messaging' \in BOOLEAN,
         \A m \in StaffMessages : /\ msgs'[m].stamped = msgs[m].stamped /\ msgs'[m].early = msgs[m].early
                                  /\ msgs[m].read \subseteq msgs'[m].read
  PROVE  RchInv'
  <1>1. ReachTypeOK'
    BY MishapFacts DEF RchInv, ReachTypeOK
  <1>2. InboundInv'
    BY MishapFacts, InboundKept DEF RchInv
  <1>3. ASSUME NEW m \in StaffMessages PROVE NudgeInv(m)'
    BY NudgeKept DEF RchInv, ReachTypeOK
  <1> QED BY <1>1, <1>2, <1>3 DEF RchInv

LEMMA MsgSteps ==
  ASSUME RchInv, NEW m \in StaffMessages,
         Post(m) \/ Broadcast(m) \/ Delete(m) \/ Age(m) \/ (\E c \in Clients : Read(c, m))
  PROVE  RchInv'
  <1>0. /\ msgs \in [StaffMessages -> MsgRow] /\ client \in [Clients -> Client] /\ messaging \in BOOLEAN
        /\ UNCHANGED <<client, opt, messaging, item, kind, rows, blobs, taken, refused, overlapped>>
        /\ UNCHANGED <<jobs, sent, excused, procs, mishaps>>
    BY DEF RchInv, ReachTypeOK, Post, Broadcast, Delete, Age, Read, inbound, nudges
  <1>1. \E row \in MsgRow : /\ msgs' = [msgs EXCEPT ![m] = row]
                            /\ row.stamped = msgs[m].stamped /\ row.early = msgs[m].early
                            /\ msgs[m].read \subseteq row.read
    <2>1. msgs[m] \in MsgRow
      BY <1>0
    <2>2. \A st \in {"scheduled", "shown", "deleted"} :
            LET row == [msgs[m] EXCEPT !.st = st] IN
            /\ row \in MsgRow /\ row.stamped = msgs[m].stamped /\ row.early = msgs[m].early
            /\ row.read = msgs[m].read
      BY <2>1 DEF MsgRow
    <2>3. LET row == [msgs[m] EXCEPT !.old = TRUE] IN
          /\ row \in MsgRow /\ row.stamped = msgs[m].stamped /\ row.early = msgs[m].early
          /\ row.read = msgs[m].read
      BY <2>1 DEF MsgRow
    <2>4. \A c \in Clients :
            LET row == [msgs[m] EXCEPT !.read = msgs[m].read \cup {c}] IN
            /\ row \in MsgRow /\ row.stamped = msgs[m].stamped /\ row.early = msgs[m].early
            /\ row.read = msgs[m].read \cup {c}
      BY <2>1 DEF MsgRow
    <2>5. CASE \E st \in {"scheduled", "shown", "deleted"} : msgs' = [msgs EXCEPT ![m].st = st]
      <3>1. PICK st \in {"scheduled", "shown", "deleted"} : msgs' = [msgs EXCEPT ![m].st = st]
        BY <2>5
      <3> DEFINE row == [msgs[m] EXCEPT !.st = st]
      <3>2. msgs' = [msgs EXCEPT ![m] = row]
        BY <3>1
      <3>3. row \in MsgRow /\ row.stamped = msgs[m].stamped /\ row.early = msgs[m].early /\ row.read = msgs[m].read
        BY <2>2
      <3> HIDE DEF row
      <3> QED BY <3>2, <3>3
    <2>6. CASE Age(m)
      <3> DEFINE row == [msgs[m] EXCEPT !.old = TRUE]
      <3>1. msgs' = [msgs EXCEPT ![m] = row]
        BY <2>6 DEF Age
      <3>2. row \in MsgRow /\ row.stamped = msgs[m].stamped /\ row.early = msgs[m].early /\ row.read = msgs[m].read
        BY <2>3
      <3> HIDE DEF row
      <3> QED BY <3>1, <3>2
    <2>7. CASE \E c \in Clients : Read(c, m)
      <3>1. PICK c \in Clients : Read(c, m)
        BY <2>7
      <3> DEFINE row == [msgs[m] EXCEPT !.read = msgs[m].read \cup {c}]
      <3>2. msgs' = [msgs EXCEPT ![m] = row]
        BY <3>1 DEF Read
      <3>3. /\ row \in MsgRow /\ row.stamped = msgs[m].stamped /\ row.early = msgs[m].early
            /\ row.read = msgs[m].read \cup {c}
        BY <2>4
      <3> HIDE DEF row
      <3> QED BY <3>2, <3>3
    <2> QED BY <2>5, <2>6, <2>7 DEF Post, Broadcast, Delete
  <1>2. PICK row \in MsgRow : /\ msgs' = [msgs EXCEPT ![m] = row]
                              /\ row.stamped = msgs[m].stamped /\ row.early = msgs[m].early
                              /\ msgs[m].read \subseteq row.read
    BY <1>1
  <1>3. msgs' \in [StaffMessages -> MsgRow]
        /\ \A k \in StaffMessages : /\ msgs'[k].stamped = msgs[k].stamped /\ msgs'[k].early = msgs[k].early
                                    /\ msgs[k].read \subseteq msgs'[k].read
    BY <1>0, <1>2
  <1> QED BY <1>0, <1>3, ByRead

LEMMA ClientSteps ==
  ASSUME RchInv, (\E c \in Clients : Reinvite(c) \/ Forget(c)) \/ Switch
  PROVE  RchInv'
  <1>0. /\ msgs \in [StaffMessages -> MsgRow] /\ client \in [Clients -> Client] /\ messaging \in BOOLEAN
        /\ UNCHANGED <<msgs, opt, item, kind, rows, blobs, taken, refused, overlapped>>
        /\ UNCHANGED <<jobs, sent, excused, procs>> /\ (Mishap \/ UNCHANGED mishaps)
    BY DEF RchInv, ReachTypeOK, Reinvite, Forget, Switch, inbound, nudges
  <1>1. client' \in [Clients -> Client] /\ messaging' \in BOOLEAN
    <2>1. CASE \E c \in Clients : Reinvite(c)
      <3>1. PICK c \in Clients, email \in BOOLEAN, sms \in BOOLEAN :
              client' = [client EXCEPT ![c].email = email, ![c].sms = sms]
        BY <2>1 DEF Reinvite
      <3>2. client[c] \in Client
        BY <1>0
      <3> QED BY <1>0, <2>1, <3>1, <3>2 DEF Client, Reinvite
    <2>2. CASE \E c \in Clients : Forget(c)
      BY <1>0, <2>2 DEF Forget, Client
    <2>3. CASE Switch
      BY <1>0, <2>3 DEF Switch
    <2> QED BY <2>1, <2>2, <2>3
  <1> QED BY <1>0, <1>1, ByRead

-----------------------------------------------------------------------------
(* The dispatch of a nudge. *)
LEMMA ByJob ==
  ASSUME RchInv, NEW m \in StaffMessages,
         UNCHANGED <<msgs, client, opt, messaging, item, kind, rows, blobs, taken, refused, overlapped, procs>>,
         Mishap \/ UNCHANGED mishaps,
         jobs[m].pc # "none",
         jobs' \in [StaffMessages -> Job], \A k \in StaffMessages \ {m} : jobs'[k] = jobs[k],
         excused' \subseteq StaffMessages \X Clients,
         sent \subseteq sent', sent' \subseteq StaffMessages \X Clients \X {"email", "sms"},
         \A k \in StaffMessages \ {m} : \A c \in Clients : <<k, c, "email">> \in sent' => <<k, c, "email">> \in sent,
         jobs'[m].pc \in {"load", "readers"} => Unsent(m)',
         jobs'[m].pc = "send" => \A r \in jobs'[m].to : <<m, r.c, "email">> \notin sent' /\ r.c \notin msgs[m].early,
         \A r, t \in jobs'[m].to : r.c = t.c => r = t,
         jobs'[m].cur # Nobody => jobs'[m].pc = "send"
  PROVE  RchInv'
  <1>1. ReachTypeOK'
    BY MishapFacts DEF RchInv, ReachTypeOK
  <1>2. InboundInv'
    BY MishapFacts, InboundKept DEF RchInv
  <1>3. ASSUME NEW k \in StaffMessages PROVE NudgeInv(k)'
    <2>1. CASE k = m
      <3>1. NudgeInv(m)
        BY DEF RchInv
      <3>2. msgs[m].stamped /\ \A p \in Procs : m \notin procs[p].claimed
        BY <3>1 DEF NudgeInv, RchInv, ReachTypeOK, MsgRow
      <3> QED BY <2>1, <3>1, <3>2 DEF NudgeInv
    <2>2. CASE k # m
      BY <2>2, NudgeKept DEF RchInv, ReachTypeOK
    <2> QED BY <2>1, <2>2
  <1> QED BY <1>1, <1>2, <1>3 DEF RchInv

LEMMA JobTyped ==
  ASSUME RchInv, NEW m \in StaffMessages
  PROVE  /\ jobs \in [StaffMessages -> Job] /\ jobs[m] \in Job
         /\ jobs[m].to \subseteq Recipient /\ (jobs[m].cur # Nobody => jobs[m].cur \in Recipient)
  <1>1. jobs \in [StaffMessages -> Job]
    BY DEF RchInv, ReachTypeOK
  <1>2. jobs[m] \in Job
    BY <1>1
  <1>3. jobs[m].to \subseteq Recipient /\ (jobs[m].cur # Nobody => jobs[m].cur \in Recipient)
    BY <1>2 DEF Job
  <1> QED BY <1>1, <1>2, <1>3

LEMMA RecipientFields ==
  \A r \in Recipient : r.c \in Clients /\ r.email \in BOOLEAN /\ r.sms \in BOOLEAN
  BY DEF Recipient

LEMMA NudgeTyped ==
  ASSUME RchInv
  PROVE  sent \subseteq StaffMessages \X Clients \X {"email", "sms"} /\ excused \subseteq StaffMessages \X Clients
  BY DEF RchInv, ReachTypeOK

LEMMA JobSet ==
  ASSUME RchInv, NEW m \in StaffMessages, NEW job \in Job, jobs' = [jobs EXCEPT ![m] = job]
  PROVE  jobs' \in [StaffMessages -> Job] /\ jobs'[m] = job /\ \A k \in StaffMessages \ {m} : jobs'[k] = jobs[k]
  BY DEF RchInv, ReachTypeOK

LEMMA NoJobRow == NoJob \in Job /\ NoJob.pc = "none" /\ NoJob.to = {} /\ NoJob.cur = Nobody
  BY DEF NoJob, Job

(* A dispatch that has nobody left. *)
LEMMA JobEnds ==
  ASSUME RchInv, NEW m \in StaffMessages,
         UNCHANGED <<msgs, client, opt, messaging, item, kind, rows, blobs, taken, refused, overlapped, procs>>,
         Mishap \/ UNCHANGED mishaps,
         jobs[m].pc # "none", jobs' = [jobs EXCEPT ![m] = NoJob],
         excused' \subseteq StaffMessages \X Clients,
         sent \subseteq sent', sent' \subseteq StaffMessages \X Clients \X {"email", "sms"},
         \A k \in StaffMessages \ {m} : \A c \in Clients : <<k, c, "email">> \in sent' => <<k, c, "email">> \in sent
  PROVE  RchInv'
  <1>1. jobs' \in [StaffMessages -> Job] /\ jobs'[m] = NoJob /\ \A k \in StaffMessages \ {m} : jobs'[k] = jobs[k]
    BY JobSet, NoJobRow
  <1>2. jobs'[m].pc = "none" /\ jobs'[m].to = {} /\ jobs'[m].cur = Nobody
    BY <1>1, NoJobRow
  <1> QED BY <1>1, <1>2, ByJob

LEMMA LoadRecipientsStep ==
  ASSUME RchInv, NEW m \in StaffMessages, LoadRecipients(m)
  PROVE  RchInv'
  <1> DEFINE to == {[c |-> c, email |-> client[c].email, sms |-> client[c].sms] : c \in Present}
  <1>1. /\ jobs[m].pc = "load" /\ UNCHANGED <<msgs, client, opt, messaging, procs, sent, mishaps>>
        /\ UNCHANGED <<item, kind, rows, blobs, taken, refused, overlapped>>
    BY DEF LoadRecipients, data, inbound
  <1>2. excused' \subseteq StaffMessages \X Clients
    BY NudgeTyped DEF LoadRecipients
  <1>3. to \in SUBSET Recipient /\ \A r, t \in to : r.c = t.c => r = t
    BY DEF Present, Recipient, Client, RchInv, ReachTypeOK
  <1>4. NudgeInv(m)
    BY DEF RchInv
  <1>5. sent' = sent /\ sent' \subseteq StaffMessages \X Clients \X {"email", "sms"}
    BY <1>1, NudgeTyped
  <1>6. CASE to = {}
    <2>1. jobs' = [jobs EXCEPT ![m] = NoJob]
      BY <1>6 DEF LoadRecipients
    <2> QED BY <1>1, <1>2, <1>5, <2>1, JobEnds
  <1>7. CASE to # {}
    <2>1. jobs' = [jobs EXCEPT ![m] = [jobs[m] EXCEPT !.pc = "readers", !.to = to]]
      BY <1>7 DEF LoadRecipients
    <2> HIDE DEF to
    <2> DEFINE job == [jobs[m] EXCEPT !.pc = "readers", !.to = to]
    <2>2. jobs' = [jobs EXCEPT ![m] = job]
      BY <2>1
    <2>3. job \in Job /\ job.pc = "readers" /\ job.to = to /\ job.cur = jobs[m].cur
      <3>1. jobs[m] \in Job
        BY JobTyped
      <3> QED BY <1>3, <3>1 DEF Job
    <2> HIDE DEF job
    <2>4. jobs' \in [StaffMessages -> Job] /\ jobs'[m] = job /\ \A k \in StaffMessages \ {m} : jobs'[k] = jobs[k]
      BY <2>2, <2>3, JobSet
    <2>5. Unsent(m)' /\ jobs[m].cur = Nobody
      BY <1>1, <1>4 DEF NudgeInv, Unsent
    <2>6. \A r, t \in jobs'[m].to : r.c = t.c => r = t
      BY <1>3, <2>3, <2>4
    <2> QED BY <1>1, <1>2, <1>5, <2>3, <2>4, <2>5, <2>6, ByJob
  <1> QED BY <1>6, <1>7

LEMMA DropReadersStep ==
  ASSUME RchInv, NEW m \in StaffMessages, DropReaders(m)
  PROVE  RchInv'
  <1>1. /\ jobs[m].pc = "readers" /\ UNCHANGED <<msgs, client, opt, messaging, procs, sent, excused, mishaps>>
        /\ UNCHANGED <<item, kind, rows, blobs, taken, refused, overlapped>>
    BY DEF DropReaders, data, inbound
  <1> DEFINE to == Unread(m)
  <1>2. to \in SUBSET Recipient /\ to \subseteq jobs[m].to /\ \A r \in to : r.c \notin msgs[m].read
    BY JobTyped DEF Unread
  <1>3. NudgeInv(m)
    BY DEF RchInv
  <1>4. sent' = sent /\ excused' \subseteq StaffMessages \X Clients
        /\ sent' \subseteq StaffMessages \X Clients \X {"email", "sms"}
    BY <1>1, NudgeTyped
  <1>5. CASE to = {}
    <2>1. jobs' = [jobs EXCEPT ![m] = NoJob]
      BY <1>5 DEF DropReaders
    <2> QED BY <1>1, <1>4, <2>1, JobEnds
  <1>6. CASE to # {}
    <2>1. jobs' = [jobs EXCEPT ![m] = [jobs[m] EXCEPT !.pc = "send", !.to = to]]
      BY <1>6 DEF DropReaders
    <2> HIDE DEF to
    <2> DEFINE job == [jobs[m] EXCEPT !.pc = "send", !.to = to]
    <2>2. jobs' = [jobs EXCEPT ![m] = job]
      BY <2>1
    <2>3. job \in Job /\ job.pc = "send" /\ job.to = to /\ job.cur = jobs[m].cur
      <3>1. jobs[m] \in Job
        BY JobTyped
      <3> QED BY <1>2, <3>1 DEF Job
    <2> HIDE DEF job
    <2>4. jobs' \in [StaffMessages -> Job] /\ jobs'[m] = job /\ \A k \in StaffMessages \ {m} : jobs'[k] = jobs[k]
      BY <2>2, <2>3, JobSet
    <2>5. \A r \in to : r.c \in Clients
      BY <1>2, RecipientFields
    <2>6. \A r \in jobs'[m].to : <<m, r.c, "email">> \notin sent' /\ r.c \notin msgs[m].early
      BY <1>1, <1>2, <1>3, <2>3, <2>4, <2>5 DEF NudgeInv, Unsent
    <2>7. \A r, t \in jobs'[m].to : r.c = t.c => r = t
      BY <1>2, <1>3, <2>3, <2>4 DEF NudgeInv
    <2> QED BY <1>1, <1>4, <2>3, <2>4, <2>6, <2>7, ByJob
  <1> QED BY <1>5, <1>6

LEMMA MailStep ==
  ASSUME RchInv, NEW m \in StaffMessages, NEW r \in jobs[m].to, Mail(m, r)
  PROVE  RchInv'
  <1>1. /\ jobs[m].pc = "send" /\ UNCHANGED <<msgs, client, opt, messaging, procs>>
        /\ UNCHANGED <<item, kind, rows, blobs, taken, refused, overlapped>>
        /\ (Mishap \/ UNCHANGED mishaps)
    BY DEF Mail, data, inbound
  <1>2. r \in Recipient
    BY JobTyped
  <1>3. r.c \in Clients
    BY <1>2, RecipientFields
  <1>4. /\ sent \subseteq sent' /\ sent' \subseteq sent \cup {<<m, r.c, "email">>}
        /\ excused' \subseteq excused \cup {<<m, r.c>>}
    BY DEF Mail
  <1>5. sent' \subseteq StaffMessages \X Clients \X {"email", "sms"}
    <2>1. <<m, r.c, "email">> \in StaffMessages \X Clients \X {"email", "sms"}
      BY <1>3
    <2> QED BY <1>4, <2>1, NudgeTyped
  <1>6. excused' \subseteq StaffMessages \X Clients
    BY <1>3, <1>4, NudgeTyped
  <1>7. NudgeInv(m)
    BY DEF RchInv
  <1> DEFINE to == jobs[m].to \ {r}
  <1>8. to \in SUBSET Recipient
    BY JobTyped
  <1>9. jobs' = [jobs EXCEPT ![m] = [jobs[m] EXCEPT !.to = to, !.cur = r]]
    BY JobTyped DEF Mail
  <1>10. \A t \in to : t \in jobs[m].to /\ t # r
    OBVIOUS
  <1> HIDE DEF to
  <1> DEFINE job == [jobs[m] EXCEPT !.to = to, !.cur = r]
  <1>11. jobs' = [jobs EXCEPT ![m] = job]
    BY <1>9
  <1>12. job \in Job /\ job.pc = "send" /\ job.to = to
    <2>1. jobs[m] \in Job
      BY JobTyped
    <2> QED BY <1>1, <1>2, <1>8, <2>1 DEF Job
  <1> HIDE DEF job
  <1>13. jobs' \in [StaffMessages -> Job] /\ jobs'[m] = job /\ \A k \in StaffMessages \ {m} : jobs'[k] = jobs[k]
    BY <1>11, <1>12, JobSet
  <1>14. \A t \in jobs'[m].to : <<m, t.c, "email">> \notin sent' /\ t.c \notin msgs[m].early
    <2> SUFFICES ASSUME NEW t \in to PROVE <<m, t.c, "email">> \notin sent' /\ t.c \notin msgs[m].early
      BY <1>12, <1>13
    <2>1. <<m, t.c, "email">> \notin sent /\ t.c \notin msgs[m].early /\ t.c # r.c
      BY <1>1, <1>7, <1>10 DEF NudgeInv
    <2> QED BY <1>4, <2>1
  <1>15. \A s, t \in jobs'[m].to : s.c = t.c => s = t
    BY <1>7, <1>10, <1>12, <1>13 DEF NudgeInv
  <1>16. \A k \in StaffMessages \ {m} : \A c \in Clients : <<k, c, "email">> \in sent' => <<k, c, "email">> \in sent
    BY <1>4
  <1> QED BY <1>1, <1>4, <1>5, <1>6, <1>12, <1>13, <1>14, <1>15, <1>16, ByJob

LEMMA TextStep ==
  ASSUME RchInv, NEW m \in StaffMessages, Text(m)
  PROVE  RchInv'
  <1> DEFINE r == jobs[m].cur
  <1>1. NudgeInv(m)
    BY DEF RchInv
  <1>2. /\ r # Nobody /\ UNCHANGED <<msgs, client, opt, messaging, procs, excused>>
        /\ UNCHANGED <<item, kind, rows, blobs, taken, refused, overlapped>>
        /\ (Mishap \/ UNCHANGED mishaps)
    BY DEF Text, data, inbound
  <1>3. jobs[m].pc = "send"
    BY <1>1, <1>2 DEF NudgeInv
  <1>4. r \in Recipient
    BY <1>2, JobTyped
  <1>5. r.c \in Clients
    BY <1>4, RecipientFields
  <1>6. sent \subseteq sent' /\ sent' \subseteq sent \cup {<<m, r.c, "sms">>}
    BY DEF Text
  <1>7. sent' \subseteq StaffMessages \X Clients \X {"email", "sms"}
    <2>1. <<m, r.c, "sms">> \in StaffMessages \X Clients \X {"email", "sms"}
      BY <1>5
    <2> QED BY <1>6, <2>1, NudgeTyped
  <1>8. excused' \subseteq StaffMessages \X Clients
    BY <1>2, NudgeTyped
  <1>9. \A k \in StaffMessages, c \in Clients : <<k, c, "email">> \in sent' => <<k, c, "email">> \in sent
    BY <1>6
  <1>10. CASE jobs[m].to = {}
    <2>1. jobs' = [jobs EXCEPT ![m] = NoJob]
      BY <1>10, JobTyped DEF Text
    <2> QED BY <1>2, <1>3, <1>6, <1>7, <1>8, <1>9, <2>1, JobEnds
  <1>11. CASE jobs[m].to # {}
    <2>1. jobs' = [jobs EXCEPT ![m] = [jobs[m] EXCEPT !.cur = Nobody]]
      BY <1>11, JobTyped DEF Text
    <2> DEFINE job == [jobs[m] EXCEPT !.cur = Nobody]
    <2>2. jobs' = [jobs EXCEPT ![m] = job]
      BY <2>1
    <2>3. job \in Job /\ job.pc = "send" /\ job.to = jobs[m].to /\ job.cur = Nobody
      <3>1. jobs[m] \in Job
        BY JobTyped
      <3> QED BY <1>3, <3>1 DEF Job
    <2> HIDE DEF job
    <2>4. jobs' \in [StaffMessages -> Job] /\ jobs'[m] = job /\ \A k \in StaffMessages \ {m} : jobs'[k] = jobs[k]
      BY <2>2, <2>3, JobSet
    <2>5. \A t \in jobs[m].to : t.c \in Clients
      BY JobTyped, RecipientFields
    <2>6. \A t \in jobs'[m].to : <<m, t.c, "email">> \notin sent' /\ t.c \notin msgs[m].early
      BY <1>1, <1>3, <1>9, <2>3, <2>4, <2>5 DEF NudgeInv
    <2>7. \A s, t \in jobs'[m].to : s.c = t.c => s = t
      BY <1>1, <2>3, <2>4 DEF NudgeInv
    <2> QED BY <1>2, <1>3, <1>6, <1>7, <1>8, <1>9, <2>3, <2>4, <2>6, <2>7, ByJob
  <1> QED BY <1>10, <1>11

-----------------------------------------------------------------------------
(* A call of the webhooks moves on; the others stay where they are. *)
CallTypes ==
  /\ procs \in [Procs -> Proc] /\ item \in [Items -> {"unsent", "due", "out", "done"}]
  /\ rows \in [Items -> Seq(Row)] /\ blobs \subseteq Items \X Nat
  /\ \A p \in Procs : procs[p].n \in 0 .. (IF procs[p].item = Nobody THEN 0 ELSE Len(rows[procs[p].item]))

LEMMA CallTyped ==
  ASSUME RchInv
  PROVE  /\ CallTypes
         /\ \A i \in Items : rows[i] \in Seq(Row) /\ Len(rows[i]) \in Nat
         /\ \A p \in Procs : /\ procs[p] \in Proc
                             /\ procs[p].item \in Items \cup {Nobody} /\ procs[p].n \in Nat /\ procs[p].heard \in BOOLEAN
                             /\ procs[p].pc \in {"idle", "flag", "dedup", "route", "keyword", "confirm", "store", "scan",
                                                 "put", "insert", "unput", "publish"}
                             /\ (procs[p].pc \notin {"idle", "flag"} => procs[p].item \in Items)
  <1>1. CallTypes
    BY DEF RchInv, ReachTypeOK, CallTypes
  <1>2. \A i \in Items : rows[i] \in Seq(Row) /\ Len(rows[i]) \in Nat
    BY <1>1 DEF CallTypes
  <1>3. \A p \in Procs : procs[p] \in Proc /\ CallInv(p)
    BY <1>1 DEF CallTypes, RchInv, InboundInv
  <1> QED BY <1>1, <1>2, <1>3 DEF Proc, CallInv

(* Files and lengths of the rows, as far as the other calls can tell. *)
OtherFiles(p) ==
  \A i \in Items :
    /\ Len(rows'[i]) \in Nat /\ Len(rows[i]) <= Len(rows'[i])
    /\ \A n \in 1 .. Len(rows[i]) : /\ rows'[i][n].file = rows[i][n].file \/ (Writing(p) /\ <<i, n>> = Blob(p))
                                    /\ <<i, n>> \in blobs => <<i, n>> \in blobs' \/ (Writing(p) /\ <<i, n>> = Blob(p))

LEMMA OthersKept ==
  ASSUME RchInv, NEW p \in Procs, \A q \in Procs \ {p} : procs'[q] = procs[q], OtherFiles(p),
         \A i \in Items : item[i] = "out" => item'[i] = "out" \/ (procs[p].heard /\ procs[p].item = i),
         NEW q \in Procs \ {p}
  PROVE  CallInv(q)'
  <1>1. CallInv(q) /\ CallInv(p) /\ procs'[q] = procs[q]
    BY DEF RchInv, InboundInv
  <1>2. procs[q].heard => procs'[q].item \in Items /\ item'[procs'[q].item] = "out"
    <2> SUFFICES ASSUME procs[q].heard PROVE procs[q].item \in Items /\ item'[procs[q].item] = "out"
      BY <1>1
    <2>1. procs[q].item \in Items /\ item[procs[q].item] = "out"
      BY <1>1 DEF CallInv
    <2>2. ItemInv(procs[q].item)
      BY <2>1 DEF RchInv, InboundInv
    <2>3. ~(procs[p].heard /\ procs[p].item = procs[q].item)
      BY <2>2 DEF ItemInv
    <2> QED BY <2>1, <2>3
  <1>3. ASSUME Writing(q)
        PROVE  /\ procs[q].item \in Items /\ procs[q].n \in 1 .. Len(rows[procs[q].item])
               /\ procs[q].n \in 1 .. Len(rows'[procs[q].item])
               /\ rows'[procs[q].item][procs[q].n].file = rows[procs[q].item][procs[q].n].file
               /\ Blob(q) \in blobs => Blob(q) \in blobs'
    <2>1. procs[q].item \in Items /\ Len(rows[procs[q].item]) \in Nat
      BY <1>3, CallTyped DEF Writing
    <2>2. procs[q].n \in 1 .. Len(rows[procs[q].item])
      BY <1>1, <1>3 DEF CallInv
    <2>3. ~(Writing(p) /\ Blob(q) = Blob(p))
      BY <1>3 DEF RchInv, InboundInv, CallsApart
    <2>4. Len(rows'[procs[q].item]) \in Nat /\ Len(rows[procs[q].item]) <= Len(rows'[procs[q].item])
      BY <2>1 DEF OtherFiles
    <2>5. procs[q].n \in 1 .. Len(rows'[procs[q].item])
      BY <2>1, <2>2, <2>4
    <2>6. /\ rows'[procs[q].item][procs[q].n].file = rows[procs[q].item][procs[q].n].file
          /\ Blob(q) \in blobs => Blob(q) \in blobs'
      BY <2>1, <2>2, <2>3 DEF OtherFiles, Blob
    <2> QED BY <2>1, <2>2, <2>5, <2>6
  <1> QED BY <1>1, <1>2, <1>3 DEF CallInv, Writing, Blob

LEMMA ApartKept ==
  ASSUME RchInv, NEW p \in Procs, \A q \in Procs \ {p} : procs'[q] = procs[q],
         Writing(p)' => Writing(p) /\ Blob(p)' = Blob(p)
  PROVE  CallsApart'
  <1>1. \A q \in Procs \ {p} : (Writing(q)' <=> Writing(q)) /\ Blob(q)' = Blob(q)
    BY DEF Writing, Blob
  <1> QED BY <1>1 DEF RchInv, InboundInv, CallsApart

(* A message's file is in the store when it should be, if the step saw to the one of its call. *)
LEMMA FilesKept ==
  ASSUME RchInv, NEW p \in Procs, \A q \in Procs \ {p} : procs'[q] = procs[q],
         mishaps \in Nat, mishaps' \in Nat, mishaps <= mishaps',
         \A i \in Items :
           /\ Len(rows'[i]) = Len(rows[i])
           /\ \A n \in 1 .. Len(rows[i]) :
                \/ /\ rows'[i][n].file = rows[i][n].file /\ (<<i, n>> \in blobs' <=> <<i, n>> \in blobs)
                   /\ procs[p].pc \in {"insert", "unput"} => <<i, n>> # Blob(p)
                \/ /\ rows'[i][n].file = "clean" => <<i, n>> \in blobs'
                   /\ <<i, n>> \in blobs' /\ rows'[i][n].file # "clean" =>
                        mishaps' > 0 \/ (procs'[p].pc \in {"insert", "unput"} /\ Blob(p)' = <<i, n>>)
  PROVE  FilesMatchRows'
  <1> SUFFICES ASSUME NEW i \in Items, NEW n \in 1 .. Len(rows[i])
               PROVE  /\ rows'[i][n].file = "clean" => <<i, n>> \in blobs'
                      /\ <<i, n>> \in blobs' /\ rows'[i][n].file # "clean" =>
                           mishaps' > 0 \/ \E q \in Procs : procs'[q].pc \in {"insert", "unput"} /\ Blob(q)' = <<i, n>>
    BY DEF FilesMatchRows
  <1>1. CASE /\ rows'[i][n].file = rows[i][n].file /\ (<<i, n>> \in blobs' <=> <<i, n>> \in blobs)
             /\ procs[p].pc \in {"insert", "unput"} => <<i, n>> # Blob(p)
    <2>1. rows[i][n].file = "clean" => <<i, n>> \in blobs
      BY DEF RchInv, InboundInv, FilesMatchRows
    <2>2. ASSUME <<i, n>> \in blobs, rows[i][n].file # "clean", ~(mishaps > 0)
          PROVE  \E q \in Procs : procs'[q].pc \in {"insert", "unput"} /\ Blob(q)' = <<i, n>>
      <3>1. PICK q \in Procs : procs[q].pc \in {"insert", "unput"} /\ Blob(q) = <<i, n>>
        BY <2>2 DEF RchInv, InboundInv, FilesMatchRows
      <3>2. q # p
        BY <1>1, <3>1
      <3>3. procs'[q].pc = procs[q].pc /\ Blob(q)' = Blob(q)
        BY <3>2 DEF Blob
      <3> QED BY <3>1, <3>3
    <2>3. mishaps > 0 => mishaps' > 0
      OBVIOUS
    <2> QED BY <1>1, <2>1, <2>2, <2>3
  <1>2. CASE /\ rows'[i][n].file = "clean" => <<i, n>> \in blobs'
             /\ <<i, n>> \in blobs' /\ rows'[i][n].file # "clean" =>
                  mishaps' > 0 \/ (procs'[p].pc \in {"insert", "unput"} /\ Blob(p)' = <<i, n>>)
    BY <1>2
  <1> QED BY <1>1, <1>2

LEMMA BlobsKept ==
  ASSUME RchInv, NEW p \in Procs, \A i \in Items : Len(rows'[i]) \in Nat /\ Len(rows[i]) <= Len(rows'[i]),
         \A b \in blobs' : b \in blobs \/ (Writing(p) /\ b = Blob(p))
  PROVE  BlobsHaveRows'
  <1> SUFFICES ASSUME NEW i \in Items, NEW n \in Nat, <<i, n>> \in blobs'
               PROVE  n \in 1 .. Len(rows'[i])
    BY DEF BlobsHaveRows
  <1>1. Len(rows[i]) \in Nat
    BY CallTyped
  <1>2. n \in 1 .. Len(rows[i])
    <2>1. CASE <<i, n>> \in blobs
      BY <2>1 DEF RchInv, InboundInv, BlobsHaveRows
    <2>2. CASE Writing(p) /\ <<i, n>> = Blob(p)
      BY <2>2 DEF RchInv, InboundInv, CallInv, Blob
    <2> QED BY <2>1, <2>2
  <1> QED BY <1>1, <1>2

(* What the step of a call leaves alone: the messages of staff, and the nudges. *)
LEMMA ByCall ==
  ASSUME RchInv, NEW p \in Procs, NEW row \in Proc, procs' = [procs EXCEPT ![p] = row],
         row.claimed \subseteq procs[p].claimed,
         UNCHANGED <<msgs, client, messaging, kind, nudges>>, opt' \in [Clients -> {"none", "in", "out"}],
         taken' \subseteq Items, overlapped' \subseteq Items, refused' \in [Items -> {"no", "unknown", "off"}],
         item' \in [Items -> {"unsent", "due", "out", "done"}], rows' \in [Items -> Seq(Row)],
         blobs' \subseteq Items \X Nat, Mishap \/ UNCHANGED mishaps,
         \A i \in Items : Len(rows[i]) <= Len(rows'[i]),
         row.n \in 0 .. (IF row.item = Nobody THEN 0 ELSE Len(rows'[row.item])),
         InboundInv'
  PROVE  RchInv'
  <1>1. procs' \in [Procs -> Proc] /\ procs'[p] = row /\ \A q \in Procs \ {p} : procs'[q] = procs[q]
    BY DEF RchInv, ReachTypeOK
  <1>2. ASSUME NEW q \in Procs
        PROVE  procs'[q].n \in 0 .. (IF procs'[q].item = Nobody THEN 0 ELSE Len(rows'[procs'[q].item]))
    <2>1. CASE q = p
      BY <1>1, <2>1
    <2>2. CASE q # p
      <3>1. /\ procs'[q] = procs[q] /\ procs[q].item \in Items \cup {Nobody}
            /\ procs[q].n \in 0 .. (IF procs[q].item = Nobody THEN 0 ELSE Len(rows[procs[q].item]))
        BY <1>1, <2>2, CallTyped DEF CallTypes
      <3>2. \A i \in Items : Len(rows'[i]) \in Nat /\ Len(rows[i]) \in Nat
        BY CallTyped
      <3>3. CASE procs[q].item = Nobody
        BY <3>1, <3>3
      <3>4. CASE procs[q].item # Nobody
        BY <3>1, <3>2, <3>4
      <3> QED BY <3>3, <3>4
    <2> QED BY <2>1, <2>2
  <1>3. ReachTypeOK'
    BY <1>1, <1>2, MishapFacts DEF RchInv, ReachTypeOK, nudges
  <1>4. ASSUME NEW m \in StaffMessages PROVE NudgeInv(m)'
    <2>1. \A q \in Procs : m \in procs'[q].claimed => m \in procs[q].claimed
      BY <1>1
    <2> QED BY <2>1, NudgeKept DEF RchInv, ReachTypeOK, nudges
  <1> QED BY <1>3, <1>4 DEF RchInv

(* A row of the call's message is replaced. *)
LEMMA RowSet ==
  ASSUME RchInv, NEW p \in Procs, Writing(p), NEW row \in Row,
         rows' = [rows EXCEPT ![procs[p].item] = [rows[procs[p].item] EXCEPT ![procs[p].n] = row]]
  PROVE  /\ rows' \in [Items -> Seq(Row)] /\ \A i \in Items : Len(rows'[i]) = Len(rows[i])
         /\ rows'[procs[p].item][procs[p].n] = row
         /\ \A i \in Items : \A n \in 1 .. Len(rows[i]) : <<i, n>> # Blob(p) => rows'[i][n] = rows[i][n]
  <1> DEFINE i == procs[p].item
             n == procs[p].n
  <1>1. i \in Items /\ rows \in [Items -> Seq(Row)] /\ rows[i] \in Seq(Row) /\ n \in 1 .. Len(rows[i])
    BY CallTyped DEF Writing, CallTypes, RchInv, InboundInv, CallInv
  <1>2. Blob(p) = <<i, n>>
    BY DEF Blob
  <1> HIDE DEF i, n
  <1> DEFINE s == [rows[i] EXCEPT ![n] = row]
  <1>3. s \in Seq(Row) /\ Len(s) = Len(rows[i]) /\ s[n] = row
    BY <1>1
  <1>4. \A k \in 1 .. Len(rows[i]) : k # n => s[k] = rows[i][k]
    BY <1>1
  <1>5. rows' = [rows EXCEPT ![i] = s]
    BY DEF i, n
  <1> HIDE DEF s
  <1>6. rows' \in [Items -> Seq(Row)] /\ \A k \in Items : Len(rows'[k]) = Len(rows[k])
    BY <1>1, <1>3, <1>5
  <1>7. rows'[i] = s /\ \A k \in Items \ {i} : rows'[k] = rows[k]
    BY <1>1, <1>5
  <1>8. \A j \in Items : \A k \in 1 .. Len(rows[j]) : <<j, k>> # Blob(p) => rows'[j][k] = rows[j][k]
    BY <1>2, <1>4, <1>7
  <1> QED BY <1>3, <1>6, <1>7, <1>8 DEF i, n

LEMMA FileSet ==
  ASSUME RchInv, NEW p \in Procs, Writing(p), NEW file \in {"infected", "clean"}, SetFile(p, file)
  PROVE  /\ rows' \in [Items -> Seq(Row)] /\ \A i \in Items : Len(rows'[i]) = Len(rows[i])
         /\ rows'[procs[p].item][procs[p].n].file = file
         /\ \A i \in Items : \A n \in 1 .. Len(rows[i]) : <<i, n>> # Blob(p) => rows'[i][n] = rows[i][n]
  <1>1. /\ procs[p].item \in Items /\ rows \in [Items -> Seq(Row)] /\ rows[procs[p].item] \in Seq(Row)
        /\ procs[p].n \in 1 .. Len(rows[procs[p].item])
    BY CallTyped DEF Writing, CallTypes, RchInv, InboundInv, CallInv
  <1> DEFINE old == rows[procs[p].item][procs[p].n]
             row == [old EXCEPT !.file = file]
  <1>2. old \in Row
    BY <1>1
  <1>3. row \in Row /\ row.file = file
    BY <1>2 DEF Row
  <1>4. rows' = [rows EXCEPT ![procs[p].item] = [rows[procs[p].item] EXCEPT ![procs[p].n] = row]]
    BY <1>1 DEF SetFile
  <1> HIDE DEF row, old
  <1> QED BY <1>3, <1>4, RowSet

LEMMA ToldSet ==
  ASSUME RchInv, NEW p \in Procs, Writing(p), rows' = [rows EXCEPT ![procs[p].item][procs[p].n].told = TRUE]
  PROVE  /\ rows' \in [Items -> Seq(Row)]
         /\ \A i \in Items : /\ Len(rows'[i]) = Len(rows[i])
                             /\ \A n \in 1 .. Len(rows[i]) : rows'[i][n].file = rows[i][n].file
  <1>1. /\ procs[p].item \in Items /\ rows \in [Items -> Seq(Row)] /\ rows[procs[p].item] \in Seq(Row)
        /\ procs[p].n \in 1 .. Len(rows[procs[p].item])
    BY CallTyped DEF Writing, CallTypes, RchInv, InboundInv, CallInv
  <1> DEFINE old == rows[procs[p].item][procs[p].n]
             row == [old EXCEPT !.told = TRUE]
  <1>2. old \in Row
    BY <1>1
  <1>3. row \in Row /\ row.file = old.file
    BY <1>2 DEF Row
  <1>4. rows' = [rows EXCEPT ![procs[p].item] = [rows[procs[p].item] EXCEPT ![procs[p].n] = row]]
    BY <1>1
  <1> HIDE DEF row
  <1>5. /\ rows' \in [Items -> Seq(Row)] /\ \A i \in Items : Len(rows'[i]) = Len(rows[i])
        /\ rows'[procs[p].item][procs[p].n] = row
        /\ \A i \in Items : \A n \in 1 .. Len(rows[i]) : <<i, n>> # Blob(p) => rows'[i][n] = rows[i][n]
    BY <1>3, <1>4, RowSet
  <1>6. \A i \in Items : \A n \in 1 .. Len(rows[i]) : rows'[i][n].file = rows[i][n].file
    BY <1>3, <1>5 DEF Blob
  <1> QED BY <1>5, <1>6

(* The answer of a call: whatever it is, the call is over. *)
LEMMA CallEnds ==
  ASSUME RchInv, NEW p \in Procs, procs[p].pc \notin {"idle", "flag", "insert", "unput"}, NEW st \in {"due", "done"},
         item' = IF procs[p].heard THEN [item EXCEPT ![procs[p].item] = st] ELSE item,
         procs' = [procs EXCEPT ![p] = Idle],
         rows' \in [Items -> Seq(Row)],
         \A i \in Items : /\ Len(rows'[i]) = Len(rows[i])
                          /\ \A n \in 1 .. Len(rows[i]) : rows'[i][n].file = rows[i][n].file,
         UNCHANGED <<data, kind, blobs, taken, overlapped, nudges>>, refused' \in [Items -> {"no", "unknown", "off"}],
         Mishap \/ UNCHANGED mishaps
  PROVE  RchInv'
  <1>1. /\ procs'[p] = Idle /\ \A q \in Procs \ {p} : procs'[q] = procs[q]
        /\ Idle \in Proc /\ Idle.pc = "idle" /\ Idle.item = Nobody /\ Idle.claimed = {} /\ Idle.heard = FALSE /\ Idle.n = 0
    BY CallTyped DEF CallTypes, Idle, Proc
  <1>2. procs[p].item \in Items /\ CallTypes /\ \A i \in Items : Len(rows[i]) \in Nat
    BY CallTyped
  <1>3. /\ item' \in [Items -> {"unsent", "due", "out", "done"}]
        /\ \A i \in Items : item[i] = "out" => item'[i] = "out" \/ (procs[p].heard /\ procs[p].item = i)
    BY <1>2 DEF CallTypes
  <1>4. OtherFiles(p)
    BY <1>2 DEF OtherFiles
  <1>5. \A q \in Procs : CallInv(q)'
    <2>1. CallInv(p)'
      BY <1>1 DEF CallInv, Writing
    <2>2. ASSUME NEW q \in Procs \ {p} PROVE CallInv(q)'
      BY <1>1, <1>3, <1>4, OthersKept
    <2> QED BY <2>1, <2>2
  <1>6. CallsApart'
    BY <1>1, ApartKept DEF Writing
  <1>7. ASSUME NEW i \in Items PROVE ItemInv(i)'
    <2>1. \A q \in Procs : procs'[q].item = i => q # p /\ procs'[q] = procs[q]
      BY <1>1, ReachAssumption
    <2> QED BY <2>1 DEF ItemInv, RchInv, InboundInv
  <1>8. FilesMatchRows'
    <2>1. \A i \in Items : \A n \in 1 .. Len(rows[i]) :
            /\ rows'[i][n].file = rows[i][n].file /\ (<<i, n>> \in blobs' <=> <<i, n>> \in blobs)
            /\ procs[p].pc \in {"insert", "unput"} => <<i, n>> # Blob(p)
      OBVIOUS
    <2>2. mishaps \in Nat /\ mishaps' \in Nat /\ mishaps <= mishaps'
      BY MishapFacts DEF RchInv
    <2> QED BY <1>1, <2>1, <2>2, FilesKept
  <1>9. InboundInv'
    <2>1. BlobsHaveRows'
      BY <1>2, BlobsKept
    <2> QED BY <1>5, <1>6, <1>7, <1>8, <2>1 DEF InboundInv
  <1>10. \A i \in Items : Len(rows[i]) <= Len(rows'[i])
    BY <1>2
  <1>11. UNCHANGED <<msgs, client, messaging>> /\ opt' \in [Clients -> {"none", "in", "out"}]
         /\ taken' \subseteq Items /\ overlapped' \subseteq Items /\ blobs' \subseteq Items \X Nat
    BY DEF data, RchInv, ReachTypeOK
  <1>12. Idle.claimed \subseteq procs[p].claimed
         /\ Idle.n \in 0 .. (IF Idle.item = Nobody THEN 0 ELSE Len(rows'[Idle.item]))
    BY <1>1
  <1> QED BY <1>1, <1>3, <1>9, <1>10, <1>11, <1>12, ByCall

(* A call takes its next step, about the same message and file. *)
LEMMA CallGoes ==
  ASSUME RchInv, NEW p \in Procs, procs[p].pc \notin {"idle", "flag"},
         NEW pc \in {"route", "keyword", "confirm", "store", "put", "insert", "unput", "publish"}, Goto(p, pc),
         pc \in {"put", "insert", "unput", "publish"} => Writing(p),
         pc \in {"route", "store"} => procs[p].pc = "route" \/ Len(rows[procs[p].item]) = 0,
         rows' \in [Items -> Seq(Row)],
         \A i \in Items : /\ Len(rows'[i]) = Len(rows[i])
                          /\ \A n \in 1 .. Len(rows[i]) :
                               \/ rows'[i][n].file = rows[i][n].file /\ (<<i, n>> \in blobs' <=> <<i, n>> \in blobs)
                               \/ Writing(p) /\ <<i, n>> = Blob(p),
         Writing(p) =>
           /\ pc \in {"put", "insert", "unput"} => rows'[procs[p].item][procs[p].n].file = "none"
           /\ pc \in {"insert", "unput"} => Blob(p) \in blobs'
           /\ rows'[procs[p].item][procs[p].n].file = "clean" => Blob(p) \in blobs'
           /\ Blob(p) \in blobs' /\ rows'[procs[p].item][procs[p].n].file # "clean" =>
                mishaps' > 0 \/ pc \in {"insert", "unput"},
         blobs' \subseteq Items \X Nat, \A b \in blobs' : b \in blobs \/ (Writing(p) /\ b = Blob(p)),
         UNCHANGED <<msgs, client, messaging, item, kind, refused, overlapped, nudges>>, taken' \subseteq Items,
         opt' \in [Clients -> {"none", "in", "out"}], Mishap \/ UNCHANGED mishaps
  PROVE  RchInv'
  <1> DEFINE row == [procs[p] EXCEPT !.pc = pc]
  <1>1. CallTypes /\ procs[p] \in Proc /\ procs[p].item \in Items /\ \A i \in Items : Len(rows[i]) \in Nat
    BY CallTyped
  <1>2. /\ row \in Proc /\ row.pc = pc /\ row.item = procs[p].item /\ row.claimed = procs[p].claimed
        /\ row.heard = procs[p].heard /\ row.n = procs[p].n
    BY <1>1 DEF Proc
  <1>3. procs' = [procs EXCEPT ![p] = row]
    BY DEF Goto
  <1> HIDE DEF row
  <1>4. procs'[p] = row /\ \A q \in Procs \ {p} : procs'[q] = procs[q]
    BY <1>1, <1>3 DEF CallTypes
  <1>5. Blob(p)' = Blob(p)
    BY <1>2, <1>4 DEF Blob
  <1>6. OtherFiles(p)
    BY <1>1 DEF OtherFiles
  <1>7. \A q \in Procs : CallInv(q)'
    <2>1. CallInv(p)'
      <3>1. CallInv(p)
        BY DEF RchInv, InboundInv
      <3>2. procs'[p].pc = pc /\ procs'[p].item = procs[p].item /\ procs'[p].claimed = procs[p].claimed
            /\ procs'[p].heard = procs[p].heard /\ procs'[p].n = procs[p].n
        BY <1>2, <1>4
      <3>3. Writing(p)' => Writing(p) /\ procs'[p].n \in 1 .. Len(rows'[procs'[p].item])
        BY <1>1, <3>1, <3>2 DEF Writing, CallInv
      <3>4. procs[p].item # Nobody
        BY <1>1, ReachAssumption
      <3> QED BY <1>1, <1>5, <3>1, <3>2, <3>3, <3>4 DEF CallInv
    <2>2. ASSUME NEW q \in Procs \ {p} PROVE CallInv(q)'
      BY <1>4, <1>6, OthersKept
    <2> QED BY <2>1, <2>2
  <1>8. CallsApart'
    <2>1. Writing(p)' => Writing(p)
      BY <1>2, <1>4 DEF Writing
    <2> QED BY <1>4, <1>5, <2>1, ApartKept
  <1>9. ASSUME NEW i \in Items PROVE ItemInv(i)'
    <2>1. \A q \in Procs : procs'[q].item = procs[q].item /\ procs'[q].heard = procs[q].heard
      BY <1>2, <1>4
    <2>2. ItemInv(i)
      BY DEF RchInv, InboundInv
    <2>3. i \notin overlapped =>
            \A q \in Procs : procs[q].item = i /\ procs'[q].pc \in {"route", "store"} => Len(rows'[i]) = 0
      BY <1>2, <1>4, <2>2 DEF ItemInv
    <2>4. overlapped' = overlapped /\ Len(rows'[i]) = Len(rows[i])
      OBVIOUS
    <2>5. /\ \A q, s \in Procs : procs[q].item = i /\ procs[s].item = i /\ procs[q].heard /\ procs[s].heard => q = s
          /\ i \notin overlapped => Len(rows[i]) <= 1 /\ \A q \in Procs : procs[q].item = i => procs[q].heard
      BY <2>2 DEF ItemInv
    <2> QED BY ONLY <2>1, <2>3, <2>4, <2>5 DEF ItemInv
  <1>10. FilesMatchRows'
    <2>1. mishaps \in Nat /\ mishaps' \in Nat /\ mishaps <= mishaps'
      BY MishapFacts DEF RchInv
    <2>2. ASSUME NEW i \in Items, NEW n \in 1 .. Len(rows[i])
          PROVE  \/ /\ rows'[i][n].file = rows[i][n].file /\ (<<i, n>> \in blobs' <=> <<i, n>> \in blobs)
                    /\ procs[p].pc \in {"insert", "unput"} => <<i, n>> # Blob(p)
                 \/ /\ rows'[i][n].file = "clean" => <<i, n>> \in blobs'
                    /\ <<i, n>> \in blobs' /\ rows'[i][n].file # "clean" =>
                         mishaps' > 0 \/ (procs'[p].pc \in {"insert", "unput"} /\ Blob(p)' = <<i, n>>)
      <3>1. CASE Writing(p) /\ <<i, n>> = Blob(p)
        BY <1>2, <1>4, <1>5, <3>1 DEF Blob
      <3>2. CASE ~(Writing(p) /\ <<i, n>> = Blob(p))
        BY <3>2 DEF Writing
      <3> QED BY <3>1, <3>2
    <2> QED BY <1>4, <2>1, <2>2, FilesKept
  <1>11. InboundInv'
    <2>1. BlobsHaveRows'
      BY <1>1, BlobsKept
    <2> QED BY <1>7, <1>8, <1>9, <1>10, <2>1 DEF InboundInv
  <1>12. row.n \in 0 .. (IF row.item = Nobody THEN 0 ELSE Len(rows'[row.item]))
    BY <1>1, <1>2, ReachAssumption DEF CallTypes
  <1>13. overlapped' \subseteq Items /\ refused' \in [Items -> {"no", "unknown", "off"}]
         /\ item' \in [Items -> {"unsent", "due", "out", "done"}]
    BY DEF RchInv, ReachTypeOK
  <1>14. \A i \in Items : Len(rows[i]) <= Len(rows'[i])
    BY <1>1
  <1> QED BY <1>2, <1>3, <1>11, <1>12, <1>13, <1>14, ByCall

-----------------------------------------------------------------------------
(* The steps of a call. *)
LEMMA AnswerSteps ==
  ASSUME RchInv, NEW p \in Procs, procs[p].pc \notin {"idle", "flag", "insert", "unput"},
         Answer(p), rows' = rows, refused' \in [Items -> {"no", "unknown", "off"}],
         UNCHANGED <<data, kind, blobs, taken, overlapped, nudges, mishaps>>
  PROVE  RchInv'
  <1>1. rows' \in [Items -> Seq(Row)]
    BY CallTyped DEF CallTypes
  <1> QED BY <1>1, CallEnds DEF Answer

LEMMA MoveSteps ==
  ASSUME RchInv, NEW p \in Procs, procs[p].pc \notin {"idle", "flag"}, ~Writing(p),
         NEW pc \in {"route", "keyword", "confirm", "store"}, Goto(p, pc),
         pc \in {"route", "store"} => procs[p].pc = "route" \/ Len(rows[procs[p].item]) = 0,
         UNCHANGED <<msgs, client, messaging, item, kind, rows, blobs, refused, overlapped, nudges, mishaps>>,
         taken' \subseteq Items, opt' \in [Clients -> {"none", "in", "out"}]
  PROVE  RchInv'
  <1>1. rows' \in [Items -> Seq(Row)] /\ blobs' \subseteq Items \X Nat
    BY CallTyped DEF CallTypes
  <1>2. pc \in {"put", "insert", "unput", "publish"} => Writing(p)
    OBVIOUS
  <1> QED BY <1>1, <1>2, CallGoes

LEMMA FailStep ==
  ASSUME RchInv, NEW p \in Procs, Fail(p)
  PROVE  RchInv'
  <1>1. rows' = rows /\ rows' \in [Items -> Seq(Row)] /\ refused' \in [Items -> {"no", "unknown", "off"}]
    BY DEF Fail, RchInv, ReachTypeOK
  <1> QED BY <1>1, CallEnds DEF Fail, Refuse

LEMMA TurnDownStep ==
  ASSUME RchInv, NEW p \in Procs, TurnDown(p)
  PROVE  RchInv'
  <1>1. rows' = rows /\ rows' \in [Items -> Seq(Row)] /\ refused' \in [Items -> {"no", "unknown", "off"}]
    BY DEF TurnDown, RchInv, ReachTypeOK
  <1> QED BY <1>1, CallEnds DEF TurnDown, Refuse

LEMMA LookUpStep ==
  ASSUME RchInv, NEW p \in Procs, LookUp(p)
  PROVE  RchInv'
  <1>1. UNCHANGED <<rows, refused>> /\ refused' \in [Items -> {"no", "unknown", "off"}]
        /\ UNCHANGED <<data, kind, blobs, taken, overlapped, nudges, mishaps>>
        /\ UNCHANGED <<msgs, client, messaging>> /\ taken' \subseteq Items /\ opt' \in [Clients -> {"none", "in", "out"}]
    BY DEF LookUp, RchInv, ReachTypeOK, data
  <1>2. procs[p].pc = "dedup" /\ ~Writing(p)
    BY DEF LookUp, Writing
  <1>3. CASE Known(procs[p].item)
    BY <1>1, <1>2, <1>3, AnswerSteps DEF LookUp
  <1>4. CASE ~Known(procs[p].item)
    <2>1. Len(rows[procs[p].item]) = 0
      BY <1>4, CallTyped DEF Known
    <2>2. Goto(p, "route") /\ item' = item
      BY <1>4 DEF LookUp
    <2> QED BY <1>1, <1>2, <2>1, <2>2, MoveSteps
  <1> QED BY <1>3, <1>4

LEMMA RouteStep ==
  ASSUME RchInv, NEW p \in Procs, Route(p)
  PROVE  RchInv'
  <1>1. rows' = rows /\ UNCHANGED <<data, kind, blobs, taken, overlapped, nudges, mishaps>>
        /\ UNCHANGED <<msgs, client, messaging>> /\ taken' \subseteq Items /\ opt' \in [Clients -> {"none", "in", "out"}]
    BY DEF Route, RchInv, ReachTypeOK, data
  <1>2. procs[p].pc = "route" /\ ~Writing(p)
    BY DEF Route, Writing
  <1>3. CASE Barred(procs[p].item)
    <2>1. refused' \in [Items -> {"no", "unknown", "off"}]
      BY <1>3 DEF Route, RchInv, ReachTypeOK
    <2>2. Answer(p)
      BY <1>3 DEF Route
    <2> QED BY <1>1, <1>2, <2>1, <2>2, AnswerSteps
  <1>4. CASE ~Barred(procs[p].item)
    <2>1. PICK pc \in {"keyword", "store"} : Goto(p, pc)
      BY <1>4 DEF Route
    <2>2. UNCHANGED <<item, refused>>
      BY <1>4 DEF Route
    <2> QED BY <1>1, <1>2, <2>1, <2>2, MoveSteps
  <1> QED BY <1>3, <1>4

LEMMA KeywordStep ==
  ASSUME RchInv, NEW p \in Procs, Keyword(p)
  PROVE  RchInv'
  <1>1. /\ procs[p].pc = "keyword" /\ ~Writing(p) /\ Goto(p, "confirm")
        /\ UNCHANGED <<msgs, client, messaging, item, kind, rows, blobs, refused, overlapped, nudges, mishaps>>
    BY DEF Keyword, Writing
  <1>2. taken' \subseteq Items
    BY <1>1, CallTyped DEF Keyword, RchInv, ReachTypeOK
  <1>3. opt' \in [Clients -> {"none", "in", "out"}]
    BY DEF Keyword, RchInv, ReachTypeOK
  <1> QED BY <1>1, <1>2, <1>3, MoveSteps

LEMMA ConfirmStep ==
  ASSUME RchInv, NEW p \in Procs, Confirm(p)
  PROVE  RchInv'
  <1>1. refused' \in [Items -> {"no", "unknown", "off"}]
    BY DEF Confirm, RchInv, ReachTypeOK
  <1> QED BY <1>1, AnswerSteps DEF Confirm

LEMMA PublishStep ==
  ASSUME RchInv, NEW p \in Procs, Publish(p)
  PROVE  RchInv'
  <1>1. refused' \in [Items -> {"no", "unknown", "off"}]
    BY DEF Publish, RchInv, ReachTypeOK
  <1>2. /\ rows' \in [Items -> Seq(Row)]
        /\ \A i \in Items : /\ Len(rows'[i]) = Len(rows[i])
                            /\ \A n \in 1 .. Len(rows[i]) : rows'[i][n].file = rows[i][n].file
    BY ToldSet DEF Publish, Writing
  <1> QED BY <1>1, <1>2, CallEnds DEF Publish, Answer

(* The scan, the store and the row of the file. *)
LEMMA ByFile ==
  ASSUME RchInv, NEW p \in Procs, Writing(p), NEW pc \in {"put", "insert", "unput", "publish"}, Goto(p, pc),
         rows' = rows \/ (\E file \in {"infected", "clean"} : SetFile(p, file)),
         \A b \in Items \X Nat : b # Blob(p) => (b \in blobs' <=> b \in blobs), blobs' \subseteq Items \X Nat,
         pc \in {"put", "insert", "unput"} => rows'[procs[p].item][procs[p].n].file = "none",
         pc \in {"insert", "unput"} => Blob(p) \in blobs',
         rows'[procs[p].item][procs[p].n].file = "clean" => Blob(p) \in blobs',
         Blob(p) \in blobs' /\ rows'[procs[p].item][procs[p].n].file # "clean" => mishaps' > 0 \/ pc \in {"insert", "unput"},
         UNCHANGED <<data, item, kind, taken, refused, overlapped, nudges>>, Mishap \/ UNCHANGED mishaps
  PROVE  RchInv'
  <1>1. /\ rows' \in [Items -> Seq(Row)]
        /\ \A i \in Items : /\ Len(rows'[i]) = Len(rows[i])
                            /\ \A n \in 1 .. Len(rows[i]) : <<i, n>> # Blob(p) => rows'[i][n] = rows[i][n]
    <2>1. CASE rows' = rows
      BY <2>1, CallTyped DEF CallTypes
    <2>2. CASE \E file \in {"infected", "clean"} : SetFile(p, file)
      BY <2>2, FileSet
    <2> QED BY <2>1, <2>2
  <1>2. \A i \in Items : /\ Len(rows'[i]) = Len(rows[i])
                         /\ \A n \in 1 .. Len(rows[i]) :
                              \/ rows'[i][n].file = rows[i][n].file /\ (<<i, n>> \in blobs' <=> <<i, n>> \in blobs)
                              \/ Writing(p) /\ <<i, n>> = Blob(p)
    <2>1. \A i \in Items : \A n \in 1 .. Len(rows[i]) : <<i, n>> \in Items \X Nat
      BY CallTyped
    <2> QED BY <1>1, <2>1
  <1>3. UNCHANGED <<msgs, client, messaging>> /\ taken' \subseteq Items /\ opt' \in [Clients -> {"none", "in", "out"}]
    BY DEF data, RchInv, ReachTypeOK
  <1>4. procs[p].pc \notin {"idle", "flag"}
    BY DEF Writing
  <1>5. \A b \in blobs' : b \in blobs \/ (Writing(p) /\ b = Blob(p))
    OBVIOUS
  <1> QED BY <1>1, <1>2, <1>3, <1>4, <1>5, CallGoes

(* What a call knows of the file that it is about. *)
LEMMA FileFacts ==
  ASSUME RchInv, NEW p \in Procs, Writing(p)
  PROVE  /\ procs[p].item \in Items /\ procs[p].n \in 1 .. Len(rows[procs[p].item]) /\ Blob(p) \in Items \X Nat
         /\ blobs \subseteq Items \X Nat /\ Blob(p) = <<procs[p].item, procs[p].n>>
         /\ procs[p].pc \in {"scan", "put", "insert", "unput"} => rows[procs[p].item][procs[p].n].file = "none"
         /\ procs[p].pc \in {"insert", "unput"} => Blob(p) \in blobs
         /\ procs[p].pc \in {"scan", "put"} /\ Blob(p) \in blobs => mishaps > 0
  <1>1. procs[p].item \in Items /\ procs[p].n \in Nat /\ blobs \subseteq Items \X Nat
    BY CallTyped DEF CallTypes, Writing
  <1>2. CallInv(p) /\ CallsApart /\ FilesMatchRows
    BY DEF RchInv, InboundInv
  <1>3. /\ procs[p].n \in 1 .. Len(rows[procs[p].item])
        /\ procs[p].pc \in {"scan", "put", "insert", "unput"} => rows[procs[p].item][procs[p].n].file = "none"
        /\ procs[p].pc \in {"insert", "unput"} => Blob(p) \in blobs
    BY <1>2 DEF CallInv
  <1>4. ASSUME procs[p].pc \in {"scan", "put"}, Blob(p) \in blobs PROVE mishaps > 0
    <2>1. SUFFICES ASSUME NEW q \in Procs, procs[q].pc \in {"insert", "unput"}, Blob(q) = Blob(p) PROVE FALSE
      BY <1>1, <1>2, <1>3, <1>4 DEF FilesMatchRows, Blob
    <2>2. q = p
      BY <1>2, <2>1 DEF CallsApart, Writing
    <2> QED BY <1>4, <2>1, <2>2
  <1> QED BY <1>1, <1>3, <1>4 DEF Blob

LEMMA ScanStep ==
  ASSUME RchInv, NEW p \in Procs, Scan(p)
  PROVE  RchInv'
  <1>1. /\ procs[p].pc = "scan" /\ Writing(p) /\ blobs' = blobs /\ (Mishap \/ UNCHANGED mishaps)
        /\ UNCHANGED <<data, item, kind, taken, refused, overlapped, nudges>>
    BY DEF Scan, Writing
  <1>2. mishaps \in Nat /\ mishaps' \in Nat /\ mishaps <= mishaps' /\ blobs' \subseteq Items \X Nat
    BY <1>1, MishapFacts, FileFacts DEF RchInv
  <1>3. CASE \E pc \in {"put", "publish"} : Goto(p, pc) /\ rows' = rows
    <2>1. PICK pc \in {"put", "publish"} : Goto(p, pc)
      BY <1>3
    <2> QED BY <1>1, <1>2, <1>3, <2>1, FileFacts, ByFile
  <1>4. CASE SetFile(p, "infected") /\ Goto(p, "publish")
    <2>1. rows'[procs[p].item][procs[p].n].file = "infected"
      BY <1>1, <1>4, FileSet
    <2> QED BY <1>1, <1>2, <1>4, <2>1, FileFacts, ByFile
  <1> QED BY <1>3, <1>4 DEF Scan

LEMMA PutStep ==
  ASSUME RchInv, NEW p \in Procs, Put(p)
  PROVE  RchInv'
  <1>1. /\ procs[p].pc = "put" /\ Writing(p) /\ rows' = rows /\ (Mishap \/ UNCHANGED mishaps)
        /\ UNCHANGED <<data, item, kind, taken, refused, overlapped, nudges>>
    BY DEF Put, Writing
  <1>2. mishaps \in Nat /\ mishaps' \in Nat /\ mishaps <= mishaps'
    BY <1>1, MishapFacts DEF RchInv
  <1>3. CASE blobs' = blobs \cup {Blob(p)} /\ Goto(p, "insert")
    BY <1>1, <1>2, <1>3, FileFacts, ByFile
  <1>4. CASE blobs' = blobs /\ Goto(p, "publish")
    BY <1>1, <1>2, <1>4, FileFacts, ByFile
  <1> QED BY <1>3, <1>4 DEF Put

LEMMA InsertFileStep ==
  ASSUME RchInv, NEW p \in Procs, InsertFile(p)
  PROVE  RchInv'
  <1>1. /\ procs[p].pc = "insert" /\ Writing(p) /\ blobs' = blobs /\ (Mishap \/ UNCHANGED mishaps)
        /\ UNCHANGED <<data, item, kind, taken, refused, overlapped, nudges>>
    BY DEF InsertFile, Writing
  <1>2. mishaps \in Nat /\ mishaps' \in Nat /\ mishaps <= mishaps'
    BY <1>1, MishapFacts DEF RchInv
  <1>3. CASE SetFile(p, "clean") /\ Goto(p, "publish")
    <2>1. rows'[procs[p].item][procs[p].n].file = "clean"
      BY <1>1, <1>3, FileSet
    <2> QED BY <1>1, <1>3, <2>1, FileFacts, ByFile
  <1>4. CASE rows' = rows /\ Goto(p, "unput")
    BY <1>1, <1>4, FileFacts, ByFile
  <1> QED BY <1>3, <1>4 DEF InsertFile

LEMMA UnputStep ==
  ASSUME RchInv, NEW p \in Procs, Unput(p)
  PROVE  RchInv'
  <1>1. /\ procs[p].pc = "unput" /\ Writing(p) /\ rows' = rows /\ (Mishap \/ UNCHANGED mishaps) /\ Goto(p, "publish")
        /\ UNCHANGED <<data, item, kind, taken, refused, overlapped, nudges>>
    BY DEF Unput, Writing
  <1>2. CASE blobs' = blobs \ {Blob(p)}
    BY <1>1, <1>2, FileFacts, ByFile
  <1>3. CASE blobs' = blobs /\ Mishap
    <2>1. mishaps' > 0
      BY <1>3, MishapFacts DEF RchInv
    <2> QED BY <1>1, <1>3, <2>1, FileFacts, ByFile
  <1> QED BY <1>2, <1>3 DEF Unput

-----------------------------------------------------------------------------
(* The provider sends an item, calls, and gives up on a call. *)
LEMMA SendStep ==
  ASSUME RchInv, NEW i \in Items, Send(i)
  PROVE  RchInv'
  <1>1. /\ UNCHANGED <<data, kind, rows, blobs, taken, refused, overlapped, nudges, procs, mishaps>>
        /\ item' = [item EXCEPT ![i] = "due"] /\ item[i] # "out" /\ mishaps \in Nat
    BY MishapFacts DEF Send, RchInv
  <1>2. ReachTypeOK'
    BY <1>1 DEF RchInv, ReachTypeOK, data, nudges
  <1>3. \A p \in Procs : CallInv(p)'
    <2> SUFFICES ASSUME NEW p \in Procs PROVE CallInv(p)'
      OBVIOUS
    <2>1. CallInv(p) /\ procs' = procs
      BY <1>1 DEF RchInv, InboundInv
    <2>2. item \in [Items -> {"unsent", "due", "out", "done"}]
      BY DEF RchInv, ReachTypeOK
    <2>3. procs[p].heard => procs[p].item \in Items /\ item'[procs[p].item] = "out"
      BY <1>1, <2>1, <2>2 DEF CallInv
    <2> QED BY <1>1, <2>1, <2>3 DEF CallInv, Writing, Blob
  <1>4. CallsApart' /\ \A k \in Items : ItemInv(k)'
    BY <1>1 DEF RchInv, InboundInv, CallsApart, Writing, Blob, ItemInv
  <1>5. FilesMatchRows' /\ BlobsHaveRows'
    BY <1>1 DEF RchInv, InboundInv, FilesMatchRows, BlobsHaveRows, Blob
  <1>6. ASSUME NEW m \in StaffMessages PROVE NudgeInv(m)'
    BY <1>1, NudgeKept DEF RchInv, ReachTypeOK, data, nudges
  <1> QED BY <1>2, <1>3, <1>4, <1>5, <1>6 DEF RchInv, InboundInv

(* What holds of the others when a call starts or is given up. *)
LEMMA ByProvider ==
  ASSUME RchInv, NEW p \in Procs, NEW row \in Proc, procs' = [procs EXCEPT ![p] = row],
         row.claimed = {}, row.item \in Items, row.n = procs[p].n, row.pc \notin {"idle", "flag"},
         Writing(p)' => Writing(p) /\ row.pc = procs[p].pc /\ row.item = procs[p].item,
         procs[p].pc \in {"insert", "unput"} => Writing(p)',
         row.heard => item'[row.item] = "out",
         item' \in [Items -> {"unsent", "due", "out", "done"}],
         \A i \in Items : item[i] = "out" => item'[i] = "out" \/ (procs[p].heard /\ procs[p].item = i),
         overlapped' \subseteq Items, \A i \in Items : ItemInv(i)',
         UNCHANGED <<data, kind, rows, blobs, taken, refused, nudges>>, Mishap \/ UNCHANGED mishaps,
         procs[p].n = 0 \/ row.item = procs[p].item
  PROVE  RchInv'
  <1>1. CallTypes /\ procs[p] \in Proc /\ \A i \in Items : Len(rows[i]) \in Nat /\ rows'[i] = rows[i]
    BY CallTyped
  <1>2. procs'[p] = row /\ \A q \in Procs \ {p} : procs'[q] = procs[q]
    BY <1>1 DEF CallTypes
  <1>3. Writing(p)' => Writing(p) /\ Blob(p)' = Blob(p)
    BY <1>2 DEF Blob
  <1>4. OtherFiles(p)
    BY <1>1 DEF OtherFiles
  <1>5. \A q \in Procs : CallInv(q)'
    <2>1. CallInv(p)'
      <3>1. CallInv(p) /\ row.item # Nobody
        BY ReachAssumption DEF RchInv, InboundInv
      <3>2. ASSUME Writing(p)'
            PROVE  /\ procs'[p].n \in 1 .. Len(rows'[procs'[p].item])
                   /\ procs'[p].pc \in {"scan", "put", "insert", "unput"} => rows'[procs'[p].item][procs'[p].n].file = "none"
                   /\ procs'[p].pc \in {"insert", "unput"} => Blob(p)' \in blobs'
        BY <1>2, <1>3, <3>1, <3>2 DEF CallInv
      <3> QED BY <1>2, <3>1, <3>2 DEF CallInv, Writing
    <2>2. ASSUME NEW q \in Procs \ {p} PROVE CallInv(q)'
      BY <1>2, <1>4, OthersKept
    <2> QED BY <2>1, <2>2
  <1>6. CallsApart'
    BY <1>2, <1>3, ApartKept
  <1>7. FilesMatchRows'
    <2>1. mishaps \in Nat /\ mishaps' \in Nat /\ mishaps <= mishaps'
      BY MishapFacts DEF RchInv
    <2>2. ASSUME NEW i \in Items, NEW n \in 1 .. Len(rows[i])
          PROVE  \/ /\ rows'[i][n].file = rows[i][n].file /\ (<<i, n>> \in blobs' <=> <<i, n>> \in blobs)
                    /\ procs[p].pc \in {"insert", "unput"} => <<i, n>> # Blob(p)
                 \/ /\ rows'[i][n].file = "clean" => <<i, n>> \in blobs'
                    /\ <<i, n>> \in blobs' /\ rows'[i][n].file # "clean" =>
                         mishaps' > 0 \/ (procs'[p].pc \in {"insert", "unput"} /\ Blob(p)' = <<i, n>>)
      <3>1. CASE procs[p].pc \in {"insert", "unput"} /\ <<i, n>> = Blob(p)
        <4>1. procs'[p].pc = procs[p].pc /\ Blob(p)' = <<i, n>>
          BY <1>2, <1>3, <3>1
        <4>2. <<i, n>> \in blobs'
          BY <3>1 DEF RchInv, InboundInv, CallInv
        <4> QED BY <3>1, <4>1, <4>2
      <3>2. CASE ~(procs[p].pc \in {"insert", "unput"} /\ <<i, n>> = Blob(p))
        BY <3>2
      <3> QED BY <3>1, <3>2
    <2> QED BY <1>2, <2>1, <2>2, FilesKept
  <1>8. BlobsHaveRows'
    BY <1>1, BlobsKept
  <1>9. row.n \in 0 .. (IF row.item = Nobody THEN 0 ELSE Len(rows'[row.item]))
    BY <1>1, ReachAssumption DEF CallTypes
  <1>10. /\ UNCHANGED <<msgs, client, messaging>> /\ opt' \in [Clients -> {"none", "in", "out"}]
         /\ taken' \subseteq Items /\ refused' \in [Items -> {"no", "unknown", "off"}]
         /\ rows' \in [Items -> Seq(Row)] /\ blobs' \subseteq Items \X Nat
    BY DEF data, RchInv, ReachTypeOK
  <1>11. InboundInv' /\ row.claimed \subseteq procs[p].claimed /\ \A i \in Items : Len(rows[i]) <= Len(rows'[i])
    BY <1>1, <1>5, <1>6, <1>7, <1>8 DEF InboundInv
  <1> QED BY <1>9, <1>10, <1>11, ByCall

LEMMA DeliverStep ==
  ASSUME RchInv, NEW p \in Procs, NEW i \in Items, Deliver(p, i)
  PROVE  RchInv'
  <1> DEFINE row == [Idle EXCEPT !.pc = "dedup", !.item = i, !.heard = TRUE]
  <1>1. /\ row \in Proc /\ row.pc = "dedup" /\ row.item = i /\ row.heard /\ row.n = 0 /\ row.claimed = {}
        /\ Idle.pc = "idle" /\ Idle.item = Nobody /\ Idle.n = 0 /\ Idle.heard = FALSE
    BY DEF Idle, Proc
  <1>2. /\ procs' = [procs EXCEPT ![p] = row] /\ procs[p] = Idle /\ item[i] = "due" /\ item' = [item EXCEPT ![i] = "out"]
        /\ UNCHANGED <<data, kind, rows, blobs, taken, refused, overlapped, nudges, mishaps>>
    BY DEF Deliver
  <1> HIDE DEF row
  <1>3. CallTypes /\ \A k \in Items : Len(rows[k]) \in Nat
    BY CallTyped
  <1>4. procs'[p] = row /\ \A q \in Procs \ {p} : procs'[q] = procs[q]
    BY <1>2, <1>3 DEF CallTypes
  <1>5. item' \in [Items -> {"unsent", "due", "out", "done"}] /\ item'[i] = "out"
        /\ \A k \in Items : item[k] = "out" => item'[k] = "out"
    BY <1>2, <1>3 DEF CallTypes
  <1>6. \A q \in Procs : procs[q].item = i => ~procs[q].heard
    BY <1>2 DEF RchInv, InboundInv, CallInv
  <1>7. ASSUME NEW k \in Items PROVE ItemInv(k)'
    <2>1. ItemInv(k) /\ overlapped' = overlapped /\ rows' = rows
      BY <1>2 DEF RchInv, InboundInv
    <2>2. CASE k = i
      BY <1>1, <1>4, <1>6, <2>1, <2>2 DEF ItemInv
    <2>3. CASE k # i
      BY <1>1, <1>4, <2>1, <2>3 DEF ItemInv
    <2> QED BY <2>2, <2>3
  <1>8. ~Writing(p)' /\ overlapped' \subseteq Items /\ procs[p].pc \notin {"insert", "unput"}
    BY <1>1, <1>2, <1>4 DEF Writing, RchInv, ReachTypeOK
  <1> QED BY <1>1, <1>2, <1>5, <1>7, <1>8, ByProvider

LEMMA TimeOutStep ==
  ASSUME RchInv, NEW p \in Procs, TimeOut(p)
  PROVE  RchInv'
  <1> DEFINE i == procs[p].item
             row == [procs[p] EXCEPT !.heard = FALSE]
  <1>1. CallTypes /\ procs[p] \in Proc /\ (\A k \in Items : Len(rows[k]) \in Nat) /\ i \in Items
    BY CallTyped DEF TimeOut, RchInv, InboundInv, CallInv
  <1>2. row \in Proc /\ row.pc = procs[p].pc /\ row.item = i /\ row.heard = FALSE /\ row.n = procs[p].n
        /\ row.claimed = procs[p].claimed
    BY <1>1 DEF Proc
  <1>3. /\ procs' = [procs EXCEPT ![p] = row] /\ procs[p].heard /\ item' = [item EXCEPT ![i] = "due"]
        /\ overlapped' = overlapped \cup {i} /\ Mishap
        /\ UNCHANGED <<data, kind, rows, blobs, taken, refused, nudges>>
    BY DEF TimeOut
  <1> HIDE DEF row, i
  <1>4. procs'[p] = row /\ \A q \in Procs \ {p} : procs'[q] = procs[q]
    BY <1>1, <1>3 DEF CallTypes
  <1>5. item' \in [Items -> {"unsent", "due", "out", "done"}]
        /\ \A k \in Items : item[k] = "out" => item'[k] = "out" \/ (procs[p].heard /\ procs[p].item = k)
    BY <1>1, <1>3 DEF CallTypes, i
  <1>6. CallInv(p) /\ i # Nobody
    BY <1>1, ReachAssumption DEF RchInv, InboundInv
  <1>7. procs[p].pc \notin {"idle", "flag"} /\ procs[p].claimed = {}
    BY <1>6 DEF CallInv, i
  <1>8. ASSUME NEW k \in Items PROVE ItemInv(k)'
    <2>1. ItemInv(k) /\ rows' = rows /\ overlapped \subseteq overlapped' /\ i \in overlapped'
      BY <1>3 DEF RchInv, InboundInv
    <2>2. \A q \in Procs : procs'[q].item = procs[q].item /\ (procs'[q].heard => procs[q].heard)
      BY <1>2, <1>4 DEF i
    <2>3. \A q \in Procs : procs[q].item = k /\ k \notin overlapped' => procs'[q] = procs[q]
      BY <1>4, <2>1 DEF i
    <2> QED BY <2>1, <2>2, <2>3 DEF ItemInv
  <1>9. overlapped' \subseteq Items
    BY <1>1, <1>3 DEF RchInv, ReachTypeOK
  <1>10. /\ Writing(p)' => Writing(p) /\ row.pc = procs[p].pc /\ row.item = procs[p].item
         /\ procs[p].pc \in {"insert", "unput"} => Writing(p)'
    BY <1>2, <1>4 DEF Writing, i
  <1>11. row.item \in Items /\ row.claimed = {} /\ row.n = procs[p].n /\ row.pc \notin {"idle", "flag"}
         /\ ~row.heard /\ row.item = procs[p].item
    BY <1>1, <1>2, <1>7 DEF i
  <1> QED BY <1>2, <1>3, <1>5, <1>8, <1>9, <1>10, <1>11, ByProvider

(* The message is stored: its row is new, and so is the place of its file. *)
LEMMA StoreStep ==
  ASSUME RchInv, NEW p \in Procs, Store(p)
  PROVE  RchInv'
  <1> DEFINE i == procs[p].item
             new == [told |-> FALSE, file |-> "none"]
  <1>1. CallTypes /\ procs[p] \in Proc /\ procs[p].pc = "store" /\ i \in Items /\ rows[i] \in Seq(Row)
        /\ \A k \in Items : Len(rows[k]) \in Nat
    BY CallTyped DEF Store
  <1>2. new \in Row /\ new.file = "none"
    BY DEF Row
  <1>3. /\ rows' = [rows EXCEPT ![i] = Append(rows[i], new)] /\ taken' = taken \cup {i}
        /\ UNCHANGED <<data, item, kind, blobs, refused, overlapped, nudges, mishaps>>
    BY DEF Store
  <1>4. PICK pc \in {"scan", "publish"} : procs' = [procs EXCEPT ![p].pc = pc, ![p].n = Len(rows[i]) + 1]
    BY DEF Store
  <1> DEFINE row == [procs[p] EXCEPT !.pc = pc, !.n = Len(rows[i]) + 1]
  <1>5. /\ row \in Proc /\ row.pc = pc /\ row.item = i /\ row.heard = procs[p].heard /\ row.n = Len(rows[i]) + 1
        /\ row.claimed = procs[p].claimed
    <2>1. PICK n \in Nat : n = Len(rows[i]) + 1
      BY <1>1
    <2>2. row = [procs[p] EXCEPT !.pc = pc, !.n = n]
      BY <2>1
    <2>3. LET stored == [procs[p] EXCEPT !.pc = pc, !.n = n] IN
          /\ stored \in Proc /\ stored.pc = pc /\ stored.item = procs[p].item /\ stored.heard = procs[p].heard /\ stored.n = n
          /\ stored.claimed = procs[p].claimed
      BY <1>1 DEF Proc
    <2> HIDE DEF row
    <2> QED BY <2>1, <2>2, <2>3
  <1>6. procs' = [procs EXCEPT ![p] = row]
    BY <1>1, <1>4 DEF CallTypes
  <1> HIDE DEF row, i, new
  <1>7. procs'[p] = row /\ \A q \in Procs \ {p} : procs'[q] = procs[q]
    BY <1>1, <1>6 DEF CallTypes
  <1>8. /\ Append(rows[i], new) \in Seq(Row) /\ Len(Append(rows[i], new)) = Len(rows[i]) + 1
        /\ Append(rows[i], new)[Len(rows[i]) + 1] = new
        /\ \A n \in 1 .. Len(rows[i]) : Append(rows[i], new)[n] = rows[i][n]
    BY <1>1, <1>2
  <1>9. /\ rows' \in [Items -> Seq(Row)] /\ rows'[i] = Append(rows[i], new)
        /\ \A k \in Items \ {i} : rows'[k] = rows[k]
    BY <1>1, <1>3, <1>8 DEF CallTypes
  <1>10. \A k \in Items : /\ Len(rows'[k]) \in Nat /\ Len(rows[k]) <= Len(rows'[k])
                          /\ \A n \in 1 .. Len(rows[k]) : rows'[k][n] = rows[k][n]
    <2>1. ASSUME NEW k \in Items \ {i}
          PROVE  /\ Len(rows'[k]) \in Nat /\ Len(rows[k]) <= Len(rows'[k])
                 /\ \A n \in 1 .. Len(rows[k]) : rows'[k][n] = rows[k][n]
      BY <1>1, <1>9
    <2>2. /\ Len(rows'[i]) \in Nat /\ Len(rows[i]) <= Len(rows'[i])
          /\ \A n \in 1 .. Len(rows[i]) : rows'[i][n] = rows[i][n]
      BY <1>1, <1>8, <1>9
    <2> QED BY <2>1, <2>2
  <1>11. OtherFiles(p)
    BY <1>3, <1>10 DEF OtherFiles
  <1>12. rows'[i][Len(rows[i]) + 1].file = "none" /\ Len(rows'[i]) = Len(rows[i]) + 1
    BY <1>2, <1>8, <1>9
  <1>13. \A q \in Procs : CallInv(q)'
    <2>1. CallInv(p)'
      <3>1. CallInv(p) /\ i # Nobody
        BY <1>1, ReachAssumption DEF RchInv, InboundInv
      <3>2. item' = item /\ (procs[p].heard => item[i] = "out") /\ procs[p].claimed = {}
        BY <1>1, <1>3, <3>1 DEF CallInv, i
      <3>3. Len(rows[i]) + 1 \in 1 .. Len(rows'[i])
        BY <1>1, <1>12
      <3> QED BY <1>1, <1>5, <1>7, <1>12, <3>1, <3>2, <3>3 DEF CallInv
    <2>2. ASSUME NEW q \in Procs \ {p} PROVE CallInv(q)'
      BY <1>3, <1>7, <1>11, OthersKept
    <2> QED BY <2>1, <2>2
  <1>14. CallsApart'
    <2>1. Blob(p)' = <<i, Len(rows[i]) + 1>>
      BY <1>5, <1>7 DEF Blob
    <2>2. ASSUME NEW q \in Procs \ {p}, Writing(q) PROVE Blob(q) # <<i, Len(rows[i]) + 1>>
      <3>1. procs[q].n \in 1 .. Len(rows[procs[q].item]) /\ procs[q].n \in Nat
        BY <2>2, CallTyped DEF RchInv, InboundInv, CallInv
      <3>2. procs[q].item = i => procs[q].n <= Len(rows[i])
        BY <1>1, <3>1
      <3>3. procs[q].item = i => procs[q].n # Len(rows[i]) + 1
        BY <1>1, <3>1, <3>2
      <3> QED BY <3>3 DEF Blob
    <2>3. \A q \in Procs \ {p} : (Writing(q)' <=> Writing(q)) /\ Blob(q)' = Blob(q)
      BY <1>7 DEF Writing, Blob
    <2> QED BY <2>1, <2>2, <2>3 DEF RchInv, InboundInv, CallsApart
  <1>15. ASSUME NEW k \in Items PROVE ItemInv(k)'
    <2>1. /\ ItemInv(k) /\ overlapped' = overlapped
          /\ \A q \in Procs : procs'[q].item = procs[q].item /\ procs'[q].heard = procs[q].heard
      BY <1>3, <1>5, <1>7 DEF RchInv, InboundInv, i
    <2>2. CASE k = i
      <3>1. ASSUME k \notin overlapped PROVE Len(rows[k]) = 0
        BY <1>1, <2>1, <2>2, <3>1 DEF ItemInv, i
      <3>2. ASSUME k \notin overlapped, NEW q \in Procs, procs[q].item = k PROVE q = p
        BY <1>1, <2>1, <2>2, <3>2 DEF ItemInv, i
      <3>3. procs'[p].pc \notin {"route", "store"}
        BY <1>5, <1>7
      <3> QED BY <1>1, <1>12, <2>1, <2>2, <3>1, <3>2, <3>3 DEF ItemInv
    <2>3. CASE k # i
      <3>1. rows'[k] = rows[k] /\ \A q \in Procs : procs[q].item = k => procs'[q] = procs[q]
        BY <1>7, <1>9, <2>3 DEF i
      <3> QED BY <2>1, <3>1 DEF ItemInv
    <2> QED BY <2>2, <2>3
  <1>16. BlobsHaveRows'
    BY <1>3, <1>10, BlobsKept
  <1>17. FilesMatchRows'
    <2> SUFFICES ASSUME NEW k \in Items, NEW n \in 1 .. Len(rows'[k])
                 PROVE  /\ rows'[k][n].file = "clean" => <<k, n>> \in blobs
                        /\ <<k, n>> \in blobs /\ rows'[k][n].file # "clean" =>
                             mishaps > 0 \/ \E q \in Procs : procs'[q].pc \in {"insert", "unput"} /\ Blob(q)' = <<k, n>>
      BY <1>3 DEF FilesMatchRows
    <2>1. CASE n \in 1 .. Len(rows[k])
      <3>1. rows'[k][n] = rows[k][n]
        BY <1>10, <2>1
      <3>2. \A q \in Procs : procs[q].pc \in {"insert", "unput"} => procs'[q] = procs[q]
        BY <1>1, <1>7
      <3> QED BY <2>1, <3>1, <3>2 DEF RchInv, InboundInv, FilesMatchRows, Blob
    <2>2. CASE n \notin 1 .. Len(rows[k])
      <3>1. k = i /\ n = Len(rows[i]) + 1
        BY <1>1, <1>9, <1>12, <2>2
      <3>2. <<k, n>> \notin blobs
        BY <1>1, <2>2 DEF RchInv, InboundInv, BlobsHaveRows
      <3> QED BY <1>12, <3>1, <3>2
    <2> QED BY <2>1, <2>2
  <1>18. InboundInv'
    BY <1>13, <1>14, <1>15, <1>16, <1>17 DEF InboundInv
  <1>19. row.n \in 0 .. (IF row.item = Nobody THEN 0 ELSE Len(rows'[row.item]))
    BY <1>1, <1>5, <1>12, ReachAssumption
  <1>20. /\ UNCHANGED <<msgs, client, messaging>> /\ opt' \in [Clients -> {"none", "in", "out"}]
         /\ taken' \subseteq Items /\ overlapped' \subseteq Items /\ refused' \in [Items -> {"no", "unknown", "off"}]
         /\ item' \in [Items -> {"unsent", "due", "out", "done"}] /\ blobs' \subseteq Items \X Nat
    BY <1>1, <1>3 DEF data, RchInv, ReachTypeOK
  <1> QED BY <1>3, <1>5, <1>6, <1>9, <1>10, <1>18, <1>19, <1>20, ByCall

-----------------------------------------------------------------------------
(* The tick, which claims what is due, and the switch it reads. *)
LEMMA NoCall ==
  ASSUME RchInv, NEW p \in Procs, NEW row \in Proc, procs' = [procs EXCEPT ![p] = row],
         procs[p].item = Nobody, row.item = Nobody, row.n = 0, ~row.heard,
         (row.pc = "idle" /\ row.claimed = {}) \/ row.pc = "flag",
         UNCHANGED <<item, rows, blobs, overlapped, mishaps>>
  PROVE  /\ InboundInv' /\ procs' \in [Procs -> Proc]
         /\ \A q \in Procs :
              procs'[q].n \in 0 .. (IF procs'[q].item = Nobody THEN 0 ELSE Len(rows'[procs'[q].item]))
  <1>1. CallTypes /\ procs'[p] = row /\ \A q \in Procs \ {p} : procs'[q] = procs[q]
    BY CallTyped DEF CallTypes
  <1>2. \A q \in Procs : CallInv(q)
    BY DEF RchInv, InboundInv
  <1>3. \A q \in Procs : CallInv(q)'
    <2>1. CallInv(p)'
      BY <1>1, ReachAssumption DEF CallInv, Writing
    <2>2. ASSUME NEW q \in Procs \ {p} PROVE CallInv(q)'
      BY <1>1, <1>2 DEF CallInv, Writing, Blob
    <2> QED BY <2>1, <2>2
  <1>4. ~Writing(p) /\ ~Writing(p)'
    BY <1>1, <1>2 DEF CallInv, Writing
  <1>5. CallsApart'
    BY <1>1, <1>4, ApartKept
  <1>6. ASSUME NEW i \in Items PROVE ItemInv(i)'
    <2>1. \A q \in Procs : procs'[q].item = i => procs'[q] = procs[q]
      BY <1>1, ReachAssumption
    <2> QED BY <2>1 DEF RchInv, InboundInv, ItemInv
  <1>7. FilesMatchRows'
    <2>1. mishaps \in Nat /\ mishaps' \in Nat /\ mishaps <= mishaps'
      BY MishapFacts DEF RchInv
    <2>2. procs[p].pc \notin {"insert", "unput"}
      BY <1>4 DEF Writing
    <2>3. \A i \in Items : Len(rows'[i]) = Len(rows[i]) /\ rows'[i] = rows[i]
      OBVIOUS
    <2> QED BY <1>1, <2>1, <2>2, <2>3, FilesKept
  <1>8. BlobsHaveRows'
    BY DEF RchInv, InboundInv, BlobsHaveRows
  <1>9. \A q \in Procs :
          procs'[q].n \in 0 .. (IF procs'[q].item = Nobody THEN 0 ELSE Len(rows'[procs'[q].item]))
    BY <1>1 DEF CallTypes
  <1>10. procs' \in [Procs -> Proc]
    BY <1>1 DEF CallTypes
  <1> QED BY <1>3, <1>5, <1>6, <1>7, <1>8, <1>9, <1>10 DEF InboundInv

LEMMA ClaimStep ==
  ASSUME RchInv, NEW p \in Procs, Claim(p)
  PROVE  RchInv'
  <1> DEFINE row == [Idle EXCEPT !.pc = "flag", !.claimed = Due]
  <1>1. /\ procs[p] = Idle /\ procs' = [procs EXCEPT ![p] = row]
        /\ UNCHANGED <<client, opt, messaging, inbound, nudges, mishaps>>
    BY DEF Claim
  <1>2. /\ row \in Proc /\ row.pc = "flag" /\ row.item = Nobody /\ row.n = 0 /\ ~row.heard /\ row.claimed = Due
        /\ Idle.item = Nobody /\ Idle.claimed = {} /\ Due \subseteq StaffMessages
    BY DEF Idle, Proc, Due
  <1> HIDE DEF row
  <1>3. /\ InboundInv' /\ procs' \in [Procs -> Proc]
        /\ \A q \in Procs :
             procs'[q].n \in 0 .. (IF procs'[q].item = Nobody THEN 0 ELSE Len(rows'[procs'[q].item]))
    BY <1>1, <1>2, NoCall DEF inbound
  <1>4. procs'[p] = row /\ \A q \in Procs \ {p} : procs'[q] = procs[q]
    BY <1>1 DEF RchInv, ReachTypeOK
  <1>5. msgs \in [StaffMessages -> MsgRow]
    BY DEF RchInv, ReachTypeOK
  <1>6. \A m \in StaffMessages : LET new == [msgs[m] EXCEPT !.stamped = TRUE, !.early = msgs[m].early \cup msgs[m].read] IN
          /\ new \in MsgRow /\ new.stamped /\ new.read = msgs[m].read /\ new.early = msgs[m].early \cup msgs[m].read
    BY <1>5 DEF MsgRow
  <1>7. msgs' = [m \in StaffMessages |->
                   IF m \in Due THEN [msgs[m] EXCEPT !.stamped = TRUE, !.early = msgs[m].early \cup msgs[m].read]
                   ELSE msgs[m]]
    BY DEF Claim
  <1>8. msgs' \in [StaffMessages -> MsgRow]
    BY <1>5, <1>6, <1>7
  <1>9. \A m \in StaffMessages :
          /\ m \notin Due => msgs'[m] = msgs[m]
          /\ m \in Due => msgs'[m].stamped /\ msgs'[m].read = msgs[m].read /\ msgs'[m].early = msgs[m].early \cup msgs[m].read
    BY <1>6, <1>7
  <1>10. ReachTypeOK'
    BY <1>1, <1>3, <1>8 DEF RchInv, ReachTypeOK, inbound, nudges
  <1>11. ASSUME NEW m \in StaffMessages PROVE NudgeInv(m)'
    <2>1. NudgeInv(m) /\ jobs' = jobs /\ sent' = sent /\ jobs[m] \in Job
      BY <1>1 DEF RchInv, ReachTypeOK, nudges
    <2>2. CASE m \in Due
      <3>1. ~msgs[m].stamped
        BY <2>2 DEF Due
      <3>2. jobs[m].pc = "none" /\ Unsent(m) /\ msgs[m].early \subseteq msgs[m].read
        BY <2>1, <3>1 DEF NudgeInv
      <3>3. \A q \in Procs : m \in procs'[q].claimed => q = p
        BY <1>4, <2>1, <3>1 DEF NudgeInv
      <3> QED BY <1>9, <2>1, <2>2, <3>2, <3>3 DEF NudgeInv, Unsent
    <2>3. CASE m \notin Due
      <3>1. \A q \in Procs : m \in procs'[q].claimed => m \in procs[q].claimed
        BY <1>2, <1>4, <2>3
      <3> QED BY <1>9, <2>1, <2>3, <3>1, NudgeKept
    <2> QED BY <2>2, <2>3
  <1> QED BY <1>3, <1>10, <1>11 DEF RchInv

LEMMA ReadFlagStep ==
  ASSUME RchInv, NEW p \in Procs, ReadFlag(p)
  PROVE  RchInv'
  <1>1. /\ procs[p].pc = "flag" /\ procs' = [procs EXCEPT ![p] = Idle] /\ UNCHANGED <<data, inbound, sent, mishaps>>
    BY DEF ReadFlag
  <1>2. /\ Idle \in Proc /\ Idle.pc = "idle" /\ Idle.item = Nobody /\ Idle.n = 0 /\ ~Idle.heard /\ Idle.claimed = {}
    BY DEF Idle, Proc
  <1>3. procs[p].item = Nobody /\ procs[p].claimed \subseteq StaffMessages
    <2>1. CallInv(p) /\ procs[p] \in Proc
      BY DEF RchInv, InboundInv, ReachTypeOK
    <2> QED BY <1>1, <2>1 DEF CallInv, Proc
  <1>4. /\ InboundInv' /\ procs' \in [Procs -> Proc]
        /\ \A q \in Procs :
             procs'[q].n \in 0 .. (IF procs'[q].item = Nobody THEN 0 ELSE Len(rows'[procs'[q].item]))
    BY <1>1, <1>2, <1>3, NoCall DEF inbound
  <1>5. procs'[p] = Idle /\ \A q \in Procs \ {p} : procs'[q] = procs[q]
    BY <1>1 DEF RchInv, ReachTypeOK
  <1> DEFINE job == [NoJob EXCEPT !.pc = "load"]
  <1>6. job \in Job /\ job.pc = "load" /\ job.to = {} /\ job.cur = Nobody
    BY DEF NoJob, Job
  <1>7. jobs \in [StaffMessages -> Job] /\ excused \subseteq StaffMessages \X Clients
    BY DEF RchInv, ReachTypeOK
  <1>8. /\ \/ jobs' = [m \in StaffMessages |-> IF m \in procs[p].claimed THEN job ELSE jobs[m]]
           \/ jobs' = jobs
        /\ excused' \subseteq StaffMessages \X Clients
    BY <1>3, <1>7 DEF ReadFlag, Missed
  <1> HIDE DEF job
  <1>9. /\ jobs' \in [StaffMessages -> Job]
        /\ \A m \in StaffMessages : jobs'[m] = jobs[m] \/ (m \in procs[p].claimed /\ jobs'[m] = job)
    BY <1>6, <1>7, <1>8
  <1>10. ReachTypeOK'
    BY <1>1, <1>4, <1>8, <1>9 DEF RchInv, ReachTypeOK, data, inbound
  <1>11. ASSUME NEW m \in StaffMessages PROVE NudgeInv(m)'
    <2>1. NudgeInv(m) /\ msgs' = msgs /\ sent' = sent /\ jobs[m] \in Job
      BY <1>1, <1>7 DEF RchInv, data
    <2>2. \A q \in Procs : m \in procs'[q].claimed => m \in procs[q].claimed /\ q # p
      BY <1>2, <1>5
    <2>3. CASE jobs'[m] = jobs[m]
      BY <2>1, <2>2, <2>3, NudgeKept
    <2>4. CASE m \in procs[p].claimed /\ jobs'[m] = job
      <3>1. msgs[m].stamped /\ Unsent(m) /\ \A q \in Procs : m \in procs[q].claimed => q = p
        BY <2>1, <2>4 DEF NudgeInv
      <3>2. \A q \in Procs : m \notin procs'[q].claimed
        BY <2>2, <3>1
      <3> QED BY <1>6, <2>1, <2>4, <3>1, <3>2 DEF NudgeInv, Unsent
    <2> QED BY <1>9, <2>3, <2>4
  <1> QED BY <1>4, <1>10, <1>11 DEF RchInv

-----------------------------------------------------------------------------
(* A crash ends every call, tick and dispatch. *)
LEMMA ReachCrash ==
  ASSUME RchInv, Crash
  PROVE  RchInv'
  <1>1. /\ procs' = [p \in Procs |-> Idle] /\ jobs' = [m \in StaffMessages |-> NoJob] /\ Mishap
        /\ item' = [i \in Items |-> IF item[i] = "out" THEN "due" ELSE item[i]]
        /\ UNCHANGED <<data, kind, rows, blobs, taken, refused, overlapped, sent>>
    BY DEF Crash
  <1>2. /\ Idle \in Proc /\ Idle.pc = "idle" /\ Idle.item = Nobody /\ Idle.n = 0 /\ ~Idle.heard /\ Idle.claimed = {}
    BY DEF Idle, Proc
  <1>3. \A p \in Procs : procs'[p] = Idle
    BY <1>1
  <1>4. \A m \in StaffMessages : jobs'[m] = NoJob
    BY <1>1
  <1>5. excused' \subseteq StaffMessages \X Clients
    BY NudgeTyped DEF Crash, Missed
  <1>6. mishaps' \in 0 .. MaxMishaps /\ mishaps' > 0
    BY <1>1, MishapFacts DEF RchInv
  <1>7. /\ procs' \in [Procs -> Proc] /\ jobs' \in [StaffMessages -> Job]
        /\ item' \in [Items -> {"unsent", "due", "out", "done"}]
    BY <1>1, <1>2, NoJobRow DEF RchInv, ReachTypeOK
  <1>8. \A p \in Procs : procs'[p].n \in 0 .. (IF procs'[p].item = Nobody THEN 0 ELSE Len(rows'[procs'[p].item]))
    BY <1>2, <1>3
  <1>9. ReachTypeOK'
    BY <1>1, <1>5, <1>6, <1>7, <1>8 DEF RchInv, ReachTypeOK, data
  <1>10. InboundInv'
    <2>1. \A p \in Procs : CallInv(p)' /\ ~Writing(p)'
      BY <1>2, <1>3 DEF CallInv, Writing
    <2>2. \A i \in Items : ItemInv(i)'
      BY <1>1, <1>2, <1>3, ReachAssumption DEF RchInv, InboundInv, ItemInv
    <2>3. FilesMatchRows'
      BY <1>1, <1>6 DEF RchInv, InboundInv, FilesMatchRows
    <2>4. BlobsHaveRows'
      BY <1>1 DEF RchInv, InboundInv, BlobsHaveRows
    <2> QED BY <2>1, <2>2, <2>3, <2>4 DEF InboundInv, CallsApart
  <1>11. ASSUME NEW m \in StaffMessages PROVE NudgeInv(m)'
    <2>1. NudgeInv(m) /\ msgs' = msgs /\ sent' = sent
      BY <1>1 DEF RchInv, data
    <2> QED BY <1>2, <1>3, <1>4, <2>1, NoJobRow DEF NudgeInv, Unsent
  <1> QED BY <1>9, <1>10, <1>11 DEF RchInv

-----------------------------------------------------------------------------
LEMMA ReachStep == RchInv /\ [ReachNext]_reachVars => RchInv'
  <1> SUFFICES ASSUME RchInv, [ReachNext]_reachVars PROVE RchInv'
    OBVIOUS
  <1>1. CASE UNCHANGED reachVars
    <2>1. UNCHANGED <<item, kind, rows, blobs, taken, refused, overlapped, jobs, sent, excused, procs>>
          /\ UNCHANGED <<msgs, client, opt, messaging, mishaps>>
      BY <1>1 DEF reachVars, data, inbound, nudges
    <2> QED BY <2>1, ByRead DEF RchInv, ReachTypeOK
  <1>2. CASE \E m \in StaffMessages :
               \/ Post(m) \/ Broadcast(m) \/ Delete(m) \/ Age(m) \/ (\E c \in Clients : Read(c, m))
               \/ LoadRecipients(m) \/ DropReaders(m) \/ Text(m) \/ (\E r \in jobs[m].to : Mail(m, r))
    BY <1>2, MsgSteps, LoadRecipientsStep, DropReadersStep, TextStep, MailStep
  <1>3. CASE (\E c \in Clients : Reinvite(c) \/ Forget(c)) \/ Switch
    BY <1>3, ClientSteps
  <1>4. CASE \E i \in Items : Send(i) \/ (\E p \in Procs : Deliver(p, i))
    BY <1>4, SendStep, DeliverStep
  <1>5. CASE \E p \in Procs :
               Claim(p) \/ ReadFlag(p) \/ TimeOut(p) \/ Fail(p) \/ TurnDown(p) \/ LookUp(p) \/ Route(p) \/ Keyword(p) \/ Confirm(p)
    BY <1>5, ClaimStep, ReadFlagStep, TimeOutStep, FailStep, TurnDownStep, LookUpStep, RouteStep, KeywordStep, ConfirmStep
  <1>6. CASE \E p \in Procs : Store(p) \/ Scan(p) \/ Put(p) \/ InsertFile(p) \/ Unput(p) \/ Publish(p)
    BY <1>6, StoreStep, ScanStep, PutStep, InsertFileStep, UnputStep, PublishStep
  <1>7. CASE Crash
    BY <1>7, ReachCrash
  <1> QED BY <1>1, <1>2, <1>3, <1>4, <1>5, <1>6, <1>7 DEF ReachNext

(* Every variable of the model keeps its type, and every call the row it works on. *)
THEOREM ReachTypes == ReachSpec => []ReachTypeOK
  <1>1. RchInv => ReachTypeOK
    BY DEF RchInv
  <1> QED BY <1>1, InitRchInv, ReachStep, PTL DEF ReachSpec

(* What a client sends is stored once, through failures, crashes and calls that are made again, *)
(* unless the provider called again while a call was running.                                   *)
THEOREM StoredOneTime == ReachSpec => []StoredOnce
  <1>1. RchInv => StoredOnce
    <2> SUFFICES ASSUME RchInv, NEW i \in Items, Len(rows[i]) > 1 PROVE i \in overlapped
      BY DEF StoredOnce
    <2>1. ItemInv(i) /\ Len(rows[i]) \in Nat
      BY CallTyped DEF RchInv, InboundInv
    <2> QED BY <2>1 DEF ItemInv
  <1> QED BY <1>1, InitRchInv, ReachStep, PTL DEF ReachSpec

(* A file listed as clean is in the store, and one that is not listed is only there while a *)
(* call is at work on it, or after something failed.                                        *)
THEOREM ListedFilesAreStored == ReachSpec => []FilesMatchRows
  <1>1. RchInv => FilesMatchRows
    BY DEF RchInv, InboundInv
  <1> QED BY <1>1, InitRchInv, ReachStep, PTL DEF ReachSpec

(* However ticks overlap and wherever they die, nobody gets two mails about one message, nor *)
(* one about a message that they had read when it was claimed.                               *)
THEOREM NudgesAreDue == ReachSpec => NudgedOnceUnread
  <1> DEFINE Ok == \A m \in StaffMessages : \A r \in jobs[m].to :
                     Mail(m, r) => <<m, r.c, "email">> \notin sent /\ r.c \notin msgs[m].early
  <1>1. RchInv /\ [ReachNext]_reachVars => [Ok]_reachVars
    <2> SUFFICES ASSUME RchInv, NEW m \in StaffMessages, NEW r \in jobs[m].to, Mail(m, r)
                 PROVE  <<m, r.c, "email">> \notin sent /\ r.c \notin msgs[m].early
      OBVIOUS
    <2>1. NudgeInv(m) /\ jobs[m].pc = "send"
      BY DEF RchInv, Mail
    <2> QED BY <2>1 DEF NudgeInv
  <1>2. ReachSpec => [][Ok]_reachVars
    BY <1>1, InitRchInv, ReachStep, PTL DEF ReachSpec
  <1> QED BY <1>2 DEF NudgedOnceUnread

-----------------------------------------------------------------------------
(* How far KeywordsActOnce goes: what is sent is stored or obeyed once until something fails. *)

Taking(p) == procs[p].pc \in {"dedup", "route", "keyword", "store"}

TakeInv(i) ==
  mishaps = 0 =>
    /\ item[i] \in {"unsent", "due"} => i \notin taken
    /\ \A p \in Procs : procs[p].item = i => procs[p].heard /\ (Taking(p) => i \notin taken)

TakenOnce ==
  [][\A p \in Procs : Keyword(p) \/ Store(p) => mishaps > 0 \/ procs[p].item \notin taken]_reachVars

LEMMA InitTakeInv == ReachInit => \A i \in Items : TakeInv(i)
  BY ReachAssumption DEF ReachInit, TakeInv, Idle

(* Steps that are not about this item. *)
LEMMA TakeKept ==
  ASSUME NEW i \in Items, TakeInv(i), UNCHANGED mishaps, item'[i] = item[i], i \in taken' => i \in taken,
         \A p \in Procs : procs'[p].item = i => procs'[p] = procs[p]
  PROVE  TakeInv(i)'
  BY DEF TakeInv, Taking

(* The call goes on or ends. *)
LEMMA TakeCall ==
  ASSUME RchInv, NEW p \in Procs, procs[p].pc \notin {"idle", "flag"}, UNCHANGED mishaps,
         NEW row \in Proc, procs' = [procs EXCEPT ![p] = row],
         row = Idle \/ (row.item = procs[p].item /\ row.heard = procs[p].heard),
         row # Idle => item' = item,
         row = Idle => item' = IF procs[p].heard THEN [item EXCEPT ![procs[p].item] = "done"] ELSE item,
         taken' = taken \/ (taken' = taken \cup {procs[p].item} /\ row.pc \in {"confirm", "scan", "publish"}),
         row.pc \in {"dedup", "route", "keyword", "store"} => Taking(p) /\ taken' = taken,
         NEW i \in Items, TakeInv(i)
  PROVE  TakeInv(i)'
  <1>1. /\ procs'[p] = row /\ \A q \in Procs \ {p} : procs'[q] = procs[q]
        /\ item \in [Items -> {"unsent", "due", "out", "done"}] /\ procs[p].item \in Items
    BY CallTyped DEF CallTypes
  <1>2. Idle.item # i /\ Idle.pc = "idle"
    BY ReachAssumption DEF Idle
  <1> SUFFICES ASSUME mishaps = 0
               PROVE  /\ item'[i] \in {"unsent", "due"} => i \notin taken'
                      /\ \A q \in Procs : procs'[q].item = i => procs'[q].heard /\ (Taking(q)' => i \notin taken')
    BY DEF TakeInv
  <1>3. CASE procs[p].item # i
    <2>1. i \in taken' => i \in taken
      BY <1>3
    <2>2. item'[i] = item[i]
      BY <1>1, <1>3
    <2>3. \A q \in Procs : procs'[q].item = i => procs'[q] = procs[q]
      BY <1>1, <1>2, <1>3
    <2>4. TakeInv(i)'
      BY <2>1, <2>2, <2>3, TakeKept
    <2> QED BY <2>4 DEF TakeInv
  <1>4. CASE procs[p].item = i
    <2>1. procs[p].heard /\ (Taking(p) => i \notin taken)
      BY <1>4 DEF TakeInv
    <2>2. item[i] = "out" /\ \A q \in Procs : procs[q].item = i => q = p
      <3>1. ItemInv(i) /\ CallInv(p)
        BY DEF RchInv, InboundInv
      <3>2. \A q \in Procs : procs[q].item = i => procs[q].heard
        BY DEF TakeInv
      <3> QED BY <1>4, <2>1, <3>1, <3>2 DEF ItemInv, CallInv
    <2>3. item'[i] \in {"out", "done"}
      BY <1>1, <1>4, <2>2
    <2>4. \A q \in Procs : procs'[q].item = i => q = p /\ row # Idle
      BY <1>1, <1>2, <2>2
    <2>5. Taking(p)' => i \notin taken'
      BY <1>1, <1>4, <2>1 DEF Taking
    <2>6. row # Idle => row.heard
      BY <2>1
    <2> QED BY <1>1, <2>3, <2>4, <2>5, <2>6
  <1> QED BY <1>3, <1>4

LEMMA TakeAnswer ==
  ASSUME RchInv, NEW p \in Procs, procs[p].pc \notin {"idle", "flag"}, Answer(p), UNCHANGED <<taken, mishaps>>,
         NEW i \in Items, TakeInv(i)
  PROVE  TakeInv(i)'
  <1>1. Idle \in Proc /\ Idle.pc = "idle"
    BY DEF Idle, Proc
  <1>2. /\ procs' = [procs EXCEPT ![p] = Idle]
        /\ item' = IF procs[p].heard THEN [item EXCEPT ![procs[p].item] = "done"] ELSE item
    BY DEF Answer
  <1> QED BY <1>1, <1>2, TakeCall

LEMMA TakeGoto ==
  ASSUME RchInv, NEW p \in Procs, procs[p].pc \notin {"idle", "flag"},
         NEW pc \in {"route", "keyword", "confirm", "store", "put", "insert", "unput", "publish"}, Goto(p, pc),
         UNCHANGED <<item, mishaps>>,
         taken' = taken \/ (taken' = taken \cup {procs[p].item} /\ pc = "confirm"),
         pc \in {"route", "keyword", "store"} => Taking(p),
         NEW i \in Items, TakeInv(i)
  PROVE  TakeInv(i)'
  <1> DEFINE row == [procs[p] EXCEPT !.pc = pc]
  <1>1. procs[p] \in Proc /\ procs \in [Procs -> Proc]
    BY CallTyped DEF CallTypes
  <1>2. row \in Proc /\ row.pc = pc /\ row.item = procs[p].item /\ row.heard = procs[p].heard
    BY <1>1 DEF Proc
  <1>3. procs' = [procs EXCEPT ![p] = row]
    BY DEF Goto
  <1>4. Idle.pc = "idle"
    BY DEF Idle
  <1> HIDE DEF row
  <1>5. row # Idle
    BY <1>2, <1>4
  <1> QED BY <1>2, <1>3, <1>5, TakeCall

LEMMA TakeTurnDown ==
  ASSUME RchInv, NEW p \in Procs, TurnDown(p), NEW i \in Items, TakeInv(i)
  PROVE  TakeInv(i)'
  <1>1. /\ UNCHANGED <<taken, mishaps>> /\ Taking(p) /\ procs' = [procs EXCEPT ![p] = Idle]
        /\ item' = IF procs[p].heard THEN [item EXCEPT ![procs[p].item] = "due"] ELSE item
    BY DEF TurnDown, Refuse, Taking
  <1>2. /\ procs'[p] = Idle /\ \A q \in Procs \ {p} : procs'[q] = procs[q]
        /\ item \in [Items -> {"unsent", "due", "out", "done"}] /\ procs[p].item \in Items
    BY <1>1, CallTyped DEF CallTypes, TurnDown
  <1>3. Idle.item # i
    BY ReachAssumption DEF Idle
  <1>4. mishaps = 0 => \A q \in Procs : procs'[q].item = i => procs'[q].heard /\ (Taking(q)' => i \notin taken)
    BY <1>2, <1>3 DEF TakeInv, Taking
  <1>5. mishaps = 0 /\ item'[i] \in {"unsent", "due"} => i \notin taken
    <2>1. CASE procs[p].item = i
      BY <1>1, <2>1 DEF TakeInv
    <2>2. CASE procs[p].item # i
      BY <1>1, <1>2, <2>2 DEF TakeInv
    <2> QED BY <2>1, <2>2
  <1> QED BY <1>1, <1>4, <1>5 DEF TakeInv

LEMMA TakeSteps ==
  ASSUME RchInv, NEW p \in Procs, NEW i \in Items, TakeInv(i), mishaps' = mishaps,
         \/ LookUp(p) \/ Route(p) \/ Keyword(p) \/ Confirm(p)
         \/ Store(p) \/ Scan(p) \/ Put(p) \/ InsertFile(p) \/ Unput(p) \/ Publish(p)
  PROVE  TakeInv(i)'
  <1>1. procs[p].pc \notin {"idle", "flag"}
    BY DEF LookUp, Route, Keyword, Confirm, Store, Scan, Put, InsertFile, Unput, Publish
  <1>2. CASE Confirm(p) \/ Publish(p)
    BY <1>1, <1>2, TakeAnswer DEF Confirm, Publish
  <1>3. CASE LookUp(p)
    <2>1. CASE Answer(p)
      BY <1>1, <1>3, <2>1, TakeAnswer DEF LookUp
    <2>2. CASE Goto(p, "route") /\ item' = item
      BY <1>1, <1>3, <2>2, TakeGoto DEF LookUp, Taking
    <2> QED BY <1>3, <2>1, <2>2 DEF LookUp
  <1>4. CASE Route(p)
    <2>1. CASE Answer(p)
      BY <1>1, <1>4, <2>1, TakeAnswer DEF Route
    <2>2. CASE \E pc \in {"keyword", "store"} : Goto(p, pc) /\ item' = item
      BY <1>1, <1>4, <2>2, TakeGoto DEF Route, Taking
    <2> QED BY <1>4, <2>1, <2>2 DEF Route
  <1>5. CASE Keyword(p)
    BY <1>1, <1>5, TakeGoto DEF Keyword
  <1>6. CASE Scan(p) \/ Put(p) \/ InsertFile(p) \/ Unput(p)
    <2>1. PICK pc \in {"put", "insert", "unput", "publish"} : Goto(p, pc)
      BY <1>6 DEF Scan, Put, InsertFile, Unput
    <2>2. item' = item /\ taken' = taken
      BY <1>6 DEF Scan, Put, InsertFile, Unput
    <2> QED BY <1>1, <2>1, <2>2, TakeGoto
  <1>7. CASE Store(p)
    <2>1. PICK pc \in {"scan", "publish"}, n \in Nat : procs' = [procs EXCEPT ![p].pc = pc, ![p].n = n]
      <3>1. Len(rows[procs[p].item]) + 1 \in Nat
        BY <1>1, CallTyped
      <3>2. \E pc \in {"scan", "publish"} : procs' = [procs EXCEPT ![p].pc = pc, ![p].n = Len(rows[procs[p].item]) + 1]
        BY <1>7 DEF Store
      <3> QED BY <3>1, <3>2
    <2> DEFINE row == [procs[p] EXCEPT !.pc = pc, !.n = n]
    <2>2. procs[p] \in Proc /\ procs \in [Procs -> Proc]
      BY CallTyped DEF CallTypes
    <2>3. row \in Proc /\ row.pc = pc /\ row.item = procs[p].item /\ row.heard = procs[p].heard
      BY <2>2 DEF Proc
    <2>4. procs' = [procs EXCEPT ![p] = row]
      BY <2>1, <2>2
    <2>5. item' = item /\ taken' = taken \cup {procs[p].item} /\ Idle.pc = "idle"
      BY <1>7 DEF Store, Idle
    <2> HIDE DEF row
    <2>6. row # Idle
      BY <2>3, <2>5
    <2> QED BY <1>1, <2>3, <2>4, <2>5, <2>6, TakeCall
  <1> QED BY <1>2, <1>3, <1>4, <1>5, <1>6, <1>7

LEMMA TakeStep == RchInv /\ (\A i \in Items : TakeInv(i)) /\ [ReachNext]_reachVars => (\A i \in Items : TakeInv(i))'
  <1> SUFFICES ASSUME RchInv, NEW i \in Items, TakeInv(i), [ReachNext]_reachVars PROVE TakeInv(i)'
    OBVIOUS
  <1>1. CASE mishaps' # 0
    BY <1>1 DEF TakeInv
  <1>2. CASE Mishap
    BY <1>2, MishapFacts DEF RchInv, TakeInv
  <1>3. CASE /\ UNCHANGED <<item, taken, mishaps>>
             /\ UNCHANGED procs \/ \E p \in Procs, row \in Proc : procs' = [procs EXCEPT ![p] = row] /\ row.item = Nobody
    <2>1. procs \in [Procs -> Proc]
      BY DEF RchInv, ReachTypeOK
    <2>2. \A p \in Procs : procs'[p].item = i => procs'[p] = procs[p]
      BY <1>3, <2>1, ReachAssumption
    <2> QED BY <1>3, <2>2, TakeKept
  <1>4. CASE \E p \in Procs : Claim(p) \/ ReadFlag(p)
    <2>1. PICK p \in Procs : Claim(p) \/ ReadFlag(p)
      BY <1>4
    <2>2. UNCHANGED <<item, taken, mishaps>>
      BY <2>1 DEF Claim, ReadFlag, inbound
    <2>3. \E row \in Proc : procs' = [procs EXCEPT ![p] = row] /\ row.item = Nobody
      <3>1. CASE Claim(p)
        <4> DEFINE row == [Idle EXCEPT !.pc = "flag", !.claimed = Due]
        <4>1. row \in Proc /\ row.item = Nobody
          BY DEF Idle, Proc, Due
        <4>2. procs' = [procs EXCEPT ![p] = row]
          BY <3>1 DEF Claim
        <4> QED BY <4>1, <4>2
      <3>2. CASE ReadFlag(p)
        <4>1. Idle \in Proc /\ Idle.item = Nobody
          BY DEF Idle, Proc
        <4>2. procs' = [procs EXCEPT ![p] = Idle]
          BY <3>2 DEF ReadFlag
        <4> QED BY <4>1, <4>2
      <3> QED BY <2>1, <3>1, <3>2
    <2> QED BY <1>3, <2>2, <2>3
  <1>5. CASE \E m \in StaffMessages :
               \/ Post(m) \/ Broadcast(m) \/ Delete(m) \/ Age(m) \/ (\E c \in Clients : Read(c, m))
               \/ LoadRecipients(m) \/ DropReaders(m) \/ Text(m) \/ (\E r \in jobs[m].to : Mail(m, r))
    <2>1. UNCHANGED <<item, taken, procs>> /\ (Mishap \/ UNCHANGED mishaps)
      BY <1>5 DEF Post, Broadcast, Delete, Age, Read, LoadRecipients, DropReaders, Text, Mail, inbound
    <2> QED BY <1>2, <1>3, <2>1
  <1>6. CASE (\E c \in Clients : Reinvite(c) \/ Forget(c)) \/ Switch
    <2>1. UNCHANGED <<item, taken, procs>> /\ (Mishap \/ UNCHANGED mishaps)
      BY <1>6 DEF Reinvite, Forget, Switch, inbound
    <2> QED BY <1>2, <1>3, <2>1
  <1>7. CASE \E k \in Items : Send(k)
    <2>1. PICK k \in Items : Send(k)
      BY <1>7
    <2>2. item \in [Items -> {"unsent", "due", "out", "done"}]
      BY DEF RchInv, ReachTypeOK
    <2>3. UNCHANGED <<taken, procs, mishaps>> /\ item[k] = "unsent" /\ item' = [item EXCEPT ![k] = "due"]
      BY <2>1 DEF Send
    <2> QED BY <2>2, <2>3 DEF TakeInv, Taking
  <1>8. CASE \E k \in Items, p \in Procs : Deliver(p, k)
    <2>1. PICK k \in Items, p \in Procs : Deliver(p, k)
      BY <1>8
    <2> DEFINE row == [Idle EXCEPT !.pc = "dedup", !.item = k, !.heard = TRUE]
    <2>2. row.item = k /\ row.heard
      BY DEF Idle
    <2>3. /\ UNCHANGED <<taken, mishaps>> /\ item[k] = "due" /\ item' = [item EXCEPT ![k] = "out"]
          /\ procs' = [procs EXCEPT ![p] = row]
      BY <2>1 DEF Deliver
    <2> HIDE DEF row
    <2>4. item \in [Items -> {"unsent", "due", "out", "done"}] /\ procs \in [Procs -> Proc]
      BY DEF RchInv, ReachTypeOK
    <2>5. procs'[p] = row /\ \A q \in Procs \ {p} : procs'[q] = procs[q]
      BY <2>3, <2>4
    <2>6. CASE k = i
      BY <2>2, <2>3, <2>4, <2>5, <2>6 DEF TakeInv, Taking
    <2>7. CASE k # i
      <3>1. item'[i] = item[i] /\ \A q \in Procs : procs'[q].item = i => procs'[q] = procs[q]
        BY <2>2, <2>3, <2>4, <2>5, <2>7
      <3> QED BY <2>3, <3>1, TakeKept
    <2> QED BY <2>6, <2>7
  <1>9. CASE \E p \in Procs : \/ LookUp(p) \/ Route(p) \/ Keyword(p) \/ Confirm(p)
                              \/ Store(p) \/ Scan(p) \/ Put(p) \/ InsertFile(p) \/ Unput(p) \/ Publish(p)
    <2>1. PICK p \in Procs : \/ LookUp(p) \/ Route(p) \/ Keyword(p) \/ Confirm(p)
                             \/ Store(p) \/ Scan(p) \/ Put(p) \/ InsertFile(p) \/ Unput(p) \/ Publish(p)
      BY <1>9
    <2>2. Mishap \/ mishaps' = mishaps
      BY <2>1 DEF LookUp, Route, Keyword, Confirm, Store, Scan, Put, InsertFile, Unput, Publish
    <2> QED BY <1>2, <2>1, <2>2, TakeSteps
  <1>10. CASE Crash \/ \E p \in Procs : TimeOut(p) \/ Fail(p)
    BY <1>2, <1>10 DEF Crash, TimeOut, Fail
  <1>11. CASE \E p \in Procs : TurnDown(p)
    BY <1>11, TakeTurnDown
  <1>12. CASE UNCHANGED reachVars
    BY <1>3, <1>12 DEF reachVars, inbound
  <1> QED BY <1>4, <1>5, <1>6, <1>7, <1>8, <1>9, <1>10, <1>11, <1>12 DEF ReachNext

(* A keyword is obeyed once, and a mail or text stored once, until something fails, crashes or *)
(* a provider grows impatient: what KeywordsActOnce promises holds exactly as long as that.    *)
THEOREM TakenOnceUntilMishap == ReachSpec => TakenOnce
  <1> DEFINE Ok == \A p \in Procs : Keyword(p) \/ Store(p) => mishaps > 0 \/ procs[p].item \notin taken
             TInv == RchInv /\ \A i \in Items : TakeInv(i)
  <1>1. ReachInit => TInv
    BY InitRchInv, InitTakeInv
  <1>2. TInv /\ [ReachNext]_reachVars => TInv'
    BY ReachStep, TakeStep
  <1>3. TInv => Ok
    <2> SUFFICES ASSUME TInv, NEW p \in Procs, Keyword(p) \/ Store(p), mishaps = 0 PROVE procs[p].item \notin taken
      BY MishapFacts DEF RchInv
    <2>1. Taking(p) /\ procs[p].item \in Items
      BY CallTyped DEF Keyword, Store, Taking
    <2> QED BY <2>1 DEF TakeInv
  <1>4. TInv /\ [ReachNext]_reachVars => [Ok]_reachVars
    BY <1>3
  <1> HIDE DEF TInv, Ok
  <1>5. ReachSpec => [][Ok]_reachVars
    BY <1>1, <1>2, <1>4, PTL DEF ReachSpec
  <1> QED BY <1>5 DEF TakenOnce, Ok

===============================================================================
