------------------------------- MODULE Realtime -------------------------------
(***************************************************************************)
(* How staff hear of a message in a conversation (realtime/socket.ts,      *)
(* pgFanout.ts, presence.ts, services/offlineNotify.ts): a tab that shows  *)
(* it refetches when the event reaches its socket (web/src/state/          *)
(* realtime.tsx, components/ConversationView.tsx), and a user of whom no   *)
(* socket is counted gets a mail.  Servers pass events on by LISTEN and    *)
(* NOTIFY of Postgres.  The messages are those of the client.              *)
(***************************************************************************)
EXTENDS Naturals, FiniteSets

CONSTANTS
  Servers, Users, Tabs,
  Faulty,      \* the servers that are stopped, crash or lose a connection
  Drops,       \* the connections of the fan-out, "pub" and "sub", that may end at once
  UserOf,      \* who is signed in in a tab
  Sockets,     \* ids of the servers' sockets
  Messages, None,
  MaxFaults    \* tabs that are cut or left, connections of the fan-out that drop or cannot be
               \* made, servers that crash or are told to stop

ASSUME RealtimeAssumption ==
  /\ UserOf \in [Tabs -> Users] /\ None \notin Servers \cup Sockets \cup Tabs
  /\ IsFiniteSet(Sockets) /\ Faulty \subseteq Servers /\ Drops \subseteq SUBSET {"pub", "sub"}
  /\ MaxFaults \in Nat

VARIABLES
  server,   \* the process
  fan,      \* its two clients of Postgres, and the timer to make them again
  sock,     \* its sockets
  count,    \* user_presence.socket_count
  tab,
  post,     \* the messages, and the server that handles them
  faults

vars == <<server, fan, sock, count, tab, post, faults>>

(* A client of Postgres that is down is one the server still holds. *)
FanRec == [pub: {"none", "up", "down"}, sub: {"none", "up", "down"}, timer: BOOLEAN,
           wiring: BOOLEAN]
SockRec == [pc: {"none", "counting", "publishing", "ready", "leaving", "stuck"},
            tab: Tabs \cup {None}, srv: Servers \cup {None}, conv: BOOLEAN, alive: BOOLEAN]
(* join: the emit of conversation:join waits for a connection, or is on its way.  stale,  *)
(* loaded, fetch and got: the query of the messages is invalidated, has data, is fetched  *)
(* for the first or the second time, and what a server has read for it.                   *)
TabRec == [conn: {"off", "connecting", "up"}, sid: Sockets \cup {None}, open: BOOLEAN,
           join: {"no", "buffered", "sent"}, stale: BOOLEAN, loaded: BOOLEAN,
           fetch: {"no", "first", "second"}, got: (SUBSET Messages) \cup {None},
           view: SUBSET Messages]
PostRec == [st: {"none", "stored", "announced", "notified"}, srv: Servers \cup {None}]

Wired == [pub |-> "up", sub |-> "up", timer |-> FALSE, wiring |-> FALSE]
Unwired == [pub |-> "none", sub |-> "none", timer |-> FALSE, wiring |-> FALSE]
NoSock == [pc |-> "none", tab |-> None, srv |-> None, conv |-> FALSE, alive |-> FALSE]
NoPage == [conn |-> "off", sid |-> None, open |-> FALSE, join |-> "no", stale |-> TRUE,
           loaded |-> FALSE, fetch |-> "no", got |-> None, view |-> {}]

Init ==
  /\ server = [s \in Servers |-> "up"] /\ fan = [s \in Servers |-> Wired]
  /\ sock = [x \in Sockets |-> NoSock] /\ count = [u \in Users |-> 0]
  /\ tab = [t \in Tabs |-> NoPage]
  /\ post = [m \in Messages |-> [st |-> "none", srv |-> None]]
  /\ faults = 0

Fault == faults < MaxFaults /\ faults' = faults + 1

Stored == {m \in Messages : post[m].st # "none"}
At(s) == {x \in Sockets : sock[x].srv = s}
Free == {x \in Sockets : sock[x] = NoSock}
Has(t, x) == tab[t].sid = x /\ sock[x].tab = t   \* an id may be in use again
OfUser(u) == {x \in Sockets : sock[x].tab # None /\ UserOf[sock[x].tab] = u}

-----------------------------------------------------------------------------
(* The fan-out. *)

(* Whichever of the two ends, the pair is made again, a while later. *)
FanDrops(s, ended) ==
  /\ s \in Faulty /\ server[s] # "down" /\ Fault
  /\ ended # {} /\ \A c \in ended : fan[s][c] = "up"
  /\ fan' = [fan EXCEPT ![s].pub = IF "pub" \in ended THEN "down" ELSE @,
                        ![s].sub = IF "sub" \in ended THEN "down" ELSE @, ![s].timer = TRUE]
  /\ UNCHANGED <<server, sock, count, tab, post>>

(* reconnect: the old pair is closed, and whatever of it was still up ends with an event *)
(* of its own, which sets the timer again.  The pair is made before that timer fires.    *)
Reconnect(s) ==
  /\ server[s] # "down" /\ fan[s].timer /\ ~fan[s].wiring
  /\ fan' = [fan EXCEPT ![s] =
       [Unwired EXCEPT !.wiring = TRUE, !.timer = "up" \in {fan[s].pub, fan[s].sub}]]
  /\ UNCHANGED <<server, sock, count, tab, post, faults>>

Wire_givesUp(s) ==
  /\ server[s] # "down" /\ fan[s].wiring
  /\ \/ fan' = [fan EXCEPT ![s] = [Wired EXCEPT !.timer = fan[s].timer]] /\ UNCHANGED faults
     \/ Fault /\ fan' = [fan EXCEPT ![s] = [Unwired EXCEPT !.timer = fan[s].timer]]
  /\ UNCHANGED <<server, sock, count, tab, post>>

(* wireClients; a failure tries again later. *)
Wire(s) ==
  /\ server[s] # "down" /\ fan[s].wiring
  /\ \/ /\ fan' = [fan EXCEPT ![s] = [Wired EXCEPT !.timer = fan[s].timer]]
        /\ UNCHANGED faults
     \/ Fault /\ fan' = [fan EXCEPT ![s] = [Unwired EXCEPT !.timer = TRUE]]
  /\ UNCHANGED <<server, sock, count, tab, post>>

(* publish: to this server alone while it has no client, and to all that listen else.  *)
(* The query of a client that is down is rejected.                                     *)
Publishes(s) == fan[s].pub # "down"
Audience(s) ==
  IF fan[s].pub = "none" THEN {s} ELSE {r \in Servers : server[r] # "down" /\ fan[r].sub = "up"}

-----------------------------------------------------------------------------
(* The process. *)

(* The shutdown of index.ts begins, by a signal or because nobody handles a rejection: *)
(* it drains the requests, then disconnects the sockets, then exits.                   *)
Drain(s) == server' = [server EXCEPT ![s] = IF @ = "up" THEN "draining" ELSE @]

Stop(s) ==
  /\ s \in Faulty /\ server[s] = "up" /\ Fault /\ Drain(s)
  /\ UNCHANGED <<fan, sock, count, tab, post>>

Closed_handlersFirst(x) == [sock[x] EXCEPT !.alive = FALSE,
  !.pc = IF @ \in {"counting", "publishing", "ready"} THEN "leaving" ELSE @]

(* A socket that has its disconnect handler runs it. *)
Closed(x) == [sock[x] EXCEPT !.alive = FALSE, !.pc = IF @ = "ready" THEN "leaving" ELSE @]

CloseSockets(s) ==
  /\ server[s] = "draining"
  /\ server' = [server EXCEPT ![s] = "closing"]
  /\ sock' = [x \in Sockets |-> IF x \in At(s) THEN Closed(x) ELSE sock[x]]
  /\ UNCHANGED <<fan, count, tab, post, faults>>

Gone(s) ==
  /\ server' = [server EXCEPT ![s] = "down"] /\ fan' = [fan EXCEPT ![s] = Unwired]
  /\ sock' = [x \in Sockets |-> IF x \in At(s) THEN NoSock ELSE sock[x]]
  /\ post' = [m \in Messages |-> IF post[m].srv = s THEN [post[m] EXCEPT !.srv = None] ELSE post[m]]
  /\ UNCHANGED <<count, tab>>

Crashes(s) == s \in Faulty /\ server[s] # "down" /\ Fault /\ Gone(s)
Exits(s) == server[s] = "closing" /\ Gone(s) /\ UNCHANGED faults

Start(s) ==
  /\ server[s] = "down"
  /\ server' = [server EXCEPT ![s] = "up"] /\ fan' = [fan EXCEPT ![s] = Wired]
  /\ UNCHANGED <<sock, count, tab, post, faults>>

-----------------------------------------------------------------------------
(* A socket on the server. *)

(* The connection handler: the user is counted ... *)
Count(x) ==
  /\ sock[x].pc = "counting"
  /\ count' = [count EXCEPT ![UserOf[sock[x].tab]] = @ + 1]
  /\ sock' = [sock EXCEPT ![x].pc = "publishing"]
  /\ UNCHANGED <<server, fan, tab, post, faults>>

(* ... that is announced, and only then are the handlers of the socket attached.  A *)
(* rejection leaves it without, and nobody handles it.                              *)
Attach(x) ==
  LET s == sock[x].srv IN
  /\ sock[x].pc = "publishing"
  /\ IF Publishes(s)
     THEN /\ sock' = [sock EXCEPT ![x] = IF @.alive THEN [@ EXCEPT !.pc = "ready"] ELSE NoSock]
          /\ UNCHANGED server
     ELSE sock' = [sock EXCEPT ![x] = IF @.alive THEN [@ EXCEPT !.pc = "stuck"] ELSE NoSock] /\ Drain(s)
  /\ UNCHANGED <<fan, count, tab, post, faults>>

(* The connection is gone: the ping of its tab times out. *)
Notice(x) ==
  /\ sock[x].alive /\ ~\E t \in Tabs : Has(t, x)
  /\ sock' = [sock EXCEPT ![x] = IF @.pc = "stuck" THEN NoSock ELSE Closed(x)]
  /\ UNCHANGED <<server, fan, count, tab, post, faults>>

(* The disconnect handler; it announces that the last socket of the user is gone. *)
Leave(x) ==
  LET u == UserOf[sock[x].tab]  s == sock[x].srv IN
  /\ sock[x].pc = "leaving"
  /\ count' = [count EXCEPT ![u] = IF @ = 0 THEN 0 ELSE @ - 1]
  /\ sock' = [sock EXCEPT ![x] = NoSock]
  /\ IF count[u] <= 1 /\ ~Publishes(s) THEN Drain(s) ELSE UNCHANGED server
  /\ UNCHANGED <<fan, tab, post, faults>>

-----------------------------------------------------------------------------
(* A tab. *)

(* GET /conversations/:id/messages, with the one retry of App.tsx.  Nothing but an      *)
(* invalidation or the mount of the view starts it.                                      *)
Fetching(r) == [r EXCEPT !.fetch = "first", !.got = None]

(* invalidateQueries: the fetch of a view that has data starts over, and one that has none *)
(* goes on with the fetch under way.                                                       *)
Invalidated(r) ==
  [(IF r.open /\ (r.fetch = "no" \/ r.loaded) THEN Fetching(r) ELSE r) EXCEPT !.stale = TRUE]

(* The view is mounted. *)
Mounted(r) == [(IF r.stale /\ r.fetch = "no" THEN Fetching(r) ELSE r) EXCEPT
                 !.open = TRUE, !.join = IF r.conn = "up" THEN "sent" ELSE "buffered"]

OpenPage(t, open) ==
  /\ tab[t].conn = "off"
  /\ LET page == [NoPage EXCEPT !.conn = "connecting"] IN
       tab' = [tab EXCEPT ![t] = IF open THEN Mounted(page) ELSE page]
  /\ UNCHANGED <<server, fan, sock, count, post, faults>>

ClosePage(t) ==
  /\ tab[t].conn # "off" /\ Fault
  /\ tab' = [tab EXCEPT ![t] = NoPage]
  /\ UNCHANGED <<server, fan, sock, count, post>>

Connect_refreshesOnce(t, s) ==
  /\ tab[t].conn = "connecting" /\ server[s] = "up"
  /\ Free # {}
  /\ LET x == CHOOSE x \in Free : TRUE IN
       /\ sock' = [sock EXCEPT ![x] = [pc |-> "counting", tab |-> t, srv |-> s, conv |-> FALSE,
                                       alive |-> TRUE]]
       /\ tab' = [tab EXCEPT ![t].conn = "up", ![t].sid = x,
                             ![t].join = IF @ = "buffered" THEN "sent" ELSE @]
  /\ UNCHANGED <<server, fan, count, post, faults>>

(* A new socket for the tab; the queries are invalidated, and what was buffered is sent. *)
Connect(t, s) ==
  /\ tab[t].conn = "connecting" /\ server[s] = "up"
  /\ Free # {}
  /\ LET x == CHOOSE x \in Free : TRUE
         page == Invalidated(tab[t]) IN
       /\ sock' = [sock EXCEPT ![x] = [pc |-> "counting", tab |-> t, srv |-> s, conv |-> FALSE,
                                       alive |-> TRUE]]
       /\ tab' = [tab EXCEPT ![t] = [page EXCEPT !.conn = "up", !.sid = x,
                    !.join = IF page.join = "buffered" THEN "sent" ELSE page.join]]
  /\ UNCHANGED <<server, fan, count, post, faults>>

Disconnected(t) ==
  tab' = [tab EXCEPT ![t].conn = "connecting", ![t].sid = None,
                     ![t].join = IF @ = "sent" THEN "no" ELSE @]

CutOff(t) ==
  /\ tab[t].conn = "up" /\ Has(t, tab[t].sid) /\ sock[tab[t].sid].alive /\ Fault
  /\ Disconnected(t)
  /\ UNCHANGED <<server, fan, sock, count, post>>

(* The server has closed the connection, or is gone. *)
NoticeLoss(t) ==
  /\ tab[t].conn = "up" /\ ~(Has(t, tab[t].sid) /\ sock[tab[t].sid].alive)
  /\ Disconnected(t)
  /\ UNCHANGED <<server, fan, sock, count, post, faults>>

(* ConversationView is mounted: what it has in its cache will do for half a minute. *)
OpenConversation(t) ==
  /\ tab[t].conn # "off" /\ ~tab[t].open
  /\ \E stale \in {tab[t].stale, TRUE} : tab' = [tab EXCEPT ![t] = Mounted([@ EXCEPT !.stale = stale])]
  /\ UNCHANGED <<server, fan, sock, count, post, faults>>

CloseConversation(t) ==
  /\ tab[t].open /\ Fault
  /\ tab' = [tab EXCEPT ![t].open = FALSE, ![t].join = "no"]
  /\ sock' = [x \in Sockets |-> IF Has(t, x) THEN [sock[x] EXCEPT !.conv = FALSE] ELSE sock[x]]
  /\ UNCHANGED <<server, fan, count, post>>

Join_unchecked(t) ==
  /\ tab[t].join = "sent"
  /\ sock' = [x \in Sockets |-> IF tab[t].sid = x THEN [sock[x] EXCEPT !.conv = TRUE] ELSE sock[x]]
  /\ tab' = [tab EXCEPT ![t].join = "no"]
  /\ UNCHANGED <<server, fan, count, post, faults>>

(* conversation:join arrives; a socket without handlers drops it. *)
Join(t) ==
  /\ tab[t].join = "sent"
  /\ sock' = [x \in Sockets |-> IF Has(t, x) /\ sock[x].pc = "ready" THEN [sock[x] EXCEPT !.conv = TRUE]
                               ELSE sock[x]]
  /\ tab' = [tab EXCEPT ![t].join = "no"]
  /\ UNCHANGED <<server, fan, count, post, faults>>

(* The request is answered from the database by a server that runs ... *)
FetchReads(t) ==
  /\ tab[t].fetch # "no" /\ tab[t].got = None
  /\ \E s \in Servers : server[s] \in {"up", "draining"}
  /\ tab' = [tab EXCEPT ![t].got = Stored]
  /\ UNCHANGED <<server, fan, sock, count, post, faults>>

(* ... and the answer arrives. *)
FetchArrives(t) ==
  /\ tab[t].fetch # "no" /\ tab[t].got # None
  /\ tab' = [tab EXCEPT ![t] = [@ EXCEPT !.view = tab[t].got, !.loaded = TRUE, !.stale = FALSE,
                                         !.fetch = "no", !.got = None]]
  /\ UNCHANGED <<server, fan, sock, count, post, faults>>

(* It is sent to a server that takes no requests, or the network drops it.  Once more, if *)
(* the view is still there; after that nobody asks again.                                 *)
FetchFails(t) ==
  /\ tab[t].fetch # "no"
  /\ \/ (\E s \in Servers : server[s] # "up") /\ UNCHANGED faults
     \/ Fault
  /\ tab' = [tab EXCEPT ![t].fetch = IF @ = "first" /\ tab[t].open THEN "second" ELSE "no",
                        ![t].got = None]
  /\ UNCHANGED <<server, fan, sock, count, post>>

Fetch(t) == FetchReads(t) \/ FetchArrives(t) \/ FetchFails(t)

-----------------------------------------------------------------------------
(* POST /portal/conversations/:id/messages. *)

Hears(t, ss) ==
  \E x \in Sockets : Has(t, x) /\ sock[x].alive /\ sock[x].conv /\ sock[x].srv \in ss

Insert(m, s) ==
  /\ post[m].st = "none" /\ server[s] \in {"up", "draining"}
  /\ post' = [post EXCEPT ![m].st = "stored", ![m].srv = s]
  /\ UNCHANGED <<server, fan, sock, count, tab, faults>>

(* message:new is published, or the request fails. *)
Announce(m) ==
  LET s == post[m].srv IN
  /\ post[m].st = "stored" /\ s # None
  /\ IF Publishes(s)
     THEN /\ post' = [post EXCEPT ![m].st = "announced"]
          /\ tab' = [t \in Tabs |-> IF Hears(t, Audience(s)) THEN Invalidated(tab[t]) ELSE tab[t]]
     ELSE post' = [post EXCEPT ![m].srv = None] /\ UNCHANGED tab
  /\ UNCHANGED <<server, fan, sock, count, faults>>

(* notifyForNewMessage: of the staff who want mail, those get one of whom no socket is counted. *)
Offline == {u \in Users : count[u] = 0}

Notify(m) ==
  /\ post[m].st = "announced" /\ post[m].srv # None
  /\ post' = [post EXCEPT ![m] = [st |-> "notified", srv |-> None]]
  /\ UNCHANGED <<server, fan, sock, count, tab, faults>>

-----------------------------------------------------------------------------
Next ==
  \/ \E s \in Servers :
       \/ Reconnect(s) \/ Wire(s)
       \/ \E ended \in Drops : FanDrops(s, ended)
       \/ Stop(s) \/ CloseSockets(s) \/ Crashes(s) \/ Exits(s) \/ Start(s)
       \/ \E t \in Tabs : Connect(t, s)
       \/ \E m \in Messages : Insert(m, s)
  \/ \E x \in Sockets : Count(x) \/ Attach(x) \/ Notice(x) \/ Leave(x)
  \/ \E t \in Tabs :
       \/ ClosePage(t) \/ CutOff(t) \/ NoticeLoss(t) \/ OpenConversation(t) \/ CloseConversation(t)
       \/ Join(t) \/ Fetch(t) \/ \E open \in BOOLEAN : OpenPage(t, open)
  \/ \E m \in Messages : Announce(m) \/ Notify(m)

(* Timers fire, a process that is gone is started again, a tab reconnects for good, and a *)
(* request is answered or fails: whatever a socket, a tab or a message waits for is done, *)
(* one after the other.                                                                   *)
Fairness ==
  /\ \A s \in Servers : /\ WF_vars(Reconnect(s) \/ Wire(s))
                        /\ WF_vars(CloseSockets(s) \/ Exits(s) \/ Start(s))
  /\ \A x \in Sockets : WF_vars(Count(x) \/ Attach(x) \/ Notice(x) \/ Leave(x))
  /\ \A t \in Tabs :
       WF_vars(NoticeLoss(t) \/ Join(t) \/ Fetch(t) \/ \E s \in Servers : Connect(t, s))
  /\ \A m \in Messages : WF_vars(Announce(m) \/ Notify(m))

Spec == Init /\ [][Next]_vars /\ Fairness

-----------------------------------------------------------------------------
(* Every variable has its type; a socket belongs to a tab and a server. *)
TypeOK ==
  /\ server \in [Servers -> {"up", "draining", "closing", "down"}] /\ fan \in [Servers -> FanRec]
  /\ sock \in [Sockets -> SockRec] /\ count \in [Users -> Nat] /\ tab \in [Tabs -> TabRec]
  /\ post \in [Messages -> PostRec]
  /\ faults \in 0 .. MaxFaults
  /\ \A x \in Sockets : IF sock[x].pc = "none" THEN sock[x] = NoSock
                        ELSE sock[x].tab # None /\ sock[x].srv # None
  /\ \A t \in Tabs : /\ tab[t].conn = "up" <=> tab[t].sid # None
                     /\ tab[t].join = "sent" => tab[t].conn = "up"

(* Whatever connects, reconnects, crashes or is cut: nobody with a socket that works is   *)
(* taken for offline when the recipients of a mail are read.                              *)
Online(u) == \E x \in OfUser(u) : sock[x].pc = "ready"
OnlineIsNeverMailed ==
  [][\A m \in Messages : Notify(m) => \A u \in Offline : ~Online(u)]_vars

(* Because no socket that will be taken off the count has not been put on it. *)
Counted(u) == {x \in OfUser(u) : sock[x].pc \in {"publishing", "ready", "leaving", "stuck"}}
CountCoversSockets == \A u \in Users : count[u] >= Cardinality(Counted(u))

(* However often its connections drop or cannot be made, a server that stays up gets its  *)
(* pair back.                                                                             *)
FanoutComesBack == \A s \in Servers : []<>(server[s] # "up" \/ (fan[s].pub = "up" /\ fan[s].sub = "up"))

(* What is posted while a tab is away is in its view once it is back, unless the fetch that *)
(* its return starts fails twice: nobody starts another.  A tab that has no messages yet    *)
(* may still wait for a fetch that was read too early, and its return starts none.          *)
GaveUp(t) == tab[t].conn = "up" /\ tab[t].open /\ tab[t].stale /\ tab[t].fetch = "no"
TabsCatchUp ==
  \A t \in Tabs, m \in Messages :
    (m \in Stored /\ tab[t].conn = "connecting" /\ tab[t].open /\ tab[t].loaded)
      ~> (m \in tab[t].view \/ ~tab[t].open \/ GaveUp(t))

-----------------------------------------------------------------------------
(* What the code promises and does not keep. *)

(* A tab that connects refreshes its messages from what the server holds: but the fetch may *)
(* fail for good, or be one that was answered before.                                       *)
EveryTabCatchesUp ==
  \A t \in Tabs, m \in Messages :
    (m \in Stored /\ tab[t].conn = "connecting" /\ tab[t].open) ~> (m \in tab[t].view \/ ~tab[t].open)

(* A tab that lost its connection while it showed a conversation gets what is posted there *)
(* once it is connected again: but only the view joins the room, when it is mounted.        *)
Lost(t) == tab[t].conn = "connecting" /\ tab[t].open /\ tab[t].join = "no"
MessagesFlowAgain ==
  \A t \in Tabs, m \in Messages :
    [](Lost(t) => []((m \in Stored /\ tab[t].conn = "up" /\ tab[t].open)
                       => <>(m \in tab[t].view \/ tab[t].conn # "up" \/ ~tab[t].open)))

(* A pair that has been made stays until one of its connections drops: the close of the   *)
(* one that was still up is taken for a drop.                                             *)
FanoutSettles == \A s \in Servers : <>[](server[s] # "up" \/ ~fan[s].wiring)

(* Whoever has no socket is mailed: a crash, or a tab that is cut before its handlers are *)
(* attached, leaves the count above zero for good.                                        *)
OfflineIsMailed ==
  [][\A m \in Messages : Notify(m) => \A u \in Users : OfUser(u) = {} => u \in Offline]_vars
===============================================================================
