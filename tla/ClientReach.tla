------------------------------ MODULE ClientReach ------------------------------
(***************************************************************************)
(* How the firm reaches a client outside the portal, and the client        *)
(* answers: the ticker that nudges clients of unread messages              *)
(* (services/clientMessageNudgeTicker.ts, offlineNotify.ts) and the        *)
(* webhooks of the mail and SMS providers (routes/emailBridge.ts,          *)
(* smsBridge.ts), which call again until they hear a 200.  One             *)
(* conversation, of which all clients are members.                         *)
(***************************************************************************)
EXTENDS Naturals, FiniteSets, Sequences

CONSTANTS
  Clients, StaffMessages,
  Items,       \* mails and texts that clients send
  Kinds,       \* what they may be: a mail with a file, a text, a keyword, one without text
  FromOf,      \* who sends it
  Procs,       \* webhook calls and ticks at a time
  Nobody,
  MaxMishaps   \* failed statements and sends, impatient providers, crashes, switches of messaging

ASSUME ReachAssumption ==
  /\ Kinds \subseteq {"mail", "text", "stop", "start", "empty"} /\ FromOf \in [Items -> Clients]
  /\ Nobody \notin Items \cup Clients
  /\ MaxMishaps \in Nat

VARIABLES
  msgs,       \* messages of staff
  client,     \* external_identities
  opt,        \* sms_opt_ins
  messaging,  \* firm_settings.client_messaging_enabled
  item,       \* the provider's view of an item
  kind,       \* what it is
  rows,       \* messages made of an item
  blobs,      \* files of those in the store
  procs, jobs,
  mishaps,
  sent, excused,            \* who was nudged of what, and who never will be
  taken, overlapped,  \* items that were stored or obeyed, and that were delivered twice at a time
  refused

data == <<msgs, client, opt, messaging>>
inbound == <<item, kind, rows, blobs, taken, refused, overlapped>>
nudges == <<jobs, sent, excused>>
reachVars == <<data, inbound, nudges, procs, mishaps>>

(* old: 15 minutes since created_at.  stamped: nudge_sent_at; early: who had read it then. *)
(* A client has an address or a number on file as long as that channel is wanted.          *)
MsgRow == [st: {"none", "scheduled", "shown", "deleted"}, old: BOOLEAN, stamped: BOOLEAN,
           read: SUBSET Clients, early: SUBSET Clients]
Client == [email: BOOLEAN, sms: BOOLEAN, gone: BOOLEAN]
Row == [told: BOOLEAN, file: {"none", "infected", "clean"}]
Recipient == [c: Clients, email: BOOLEAN, sms: BOOLEAN]
Job == [pc: {"none", "load", "readers", "send"}, to: SUBSET Recipient, cur: Recipient \cup {Nobody}]
Proc == [pc: {"idle", "flag", "dedup", "route", "keyword", "confirm", "store", "scan", "put",
              "insert", "unput", "publish"},
         claimed: SUBSET StaffMessages, item: Items \cup {Nobody}, heard: BOOLEAN, n: Nat]

NoMsg == [st |-> "none", old |-> FALSE, stamped |-> FALSE, read |-> {}, early |-> {}]
NoJob == [pc |-> "none", to |-> {}, cur |-> Nobody]
Idle == [pc |-> "idle", claimed |-> {}, item |-> Nobody, heard |-> FALSE, n |-> 0]

ReachInit ==
  /\ msgs = [m \in StaffMessages |-> NoMsg]
  /\ client \in [Clients -> {[email |-> e, sms |-> s, gone |-> FALSE] : e, s \in BOOLEAN}]
  /\ \A c \in Clients : client[c].email \/ client[c].sms
  /\ opt = [c \in Clients |-> "none"] /\ messaging = TRUE
  /\ item = [i \in Items |-> "unsent"] /\ kind \in [Items -> Kinds]
  /\ rows = [i \in Items |-> <<>>] /\ blobs = {}
  /\ procs = [p \in Procs |-> Idle] /\ jobs = [m \in StaffMessages |-> NoJob]
  /\ mishaps = 0
  /\ sent = {} /\ excused = {} /\ taken = {} /\ refused = [i \in Items |-> "no"] /\ overlapped = {}

Mishap == mishaps < MaxMishaps /\ mishaps' = mishaps + 1
Goto(p, pc) == procs' = [procs EXCEPT ![p].pc = pc]

-----------------------------------------------------------------------------
(* Staff, clients and administrators. *)

Post(m) ==
  /\ msgs[m].st = "none"
  /\ \E st \in {"scheduled", "shown"} : msgs' = [msgs EXCEPT ![m].st = st]
  /\ UNCHANGED <<client, opt, messaging, inbound, nudges, procs, mishaps>>

(* The ticker of scheduled messages broadcasts it. *)
Broadcast(m) ==
  /\ msgs[m].st = "scheduled"
  /\ msgs' = [msgs EXCEPT ![m].st = "shown"]
  /\ UNCHANGED <<client, opt, messaging, inbound, nudges, procs, mishaps>>

Delete(m) ==
  /\ msgs[m].st = "shown"
  /\ msgs' = [msgs EXCEPT ![m].st = "deleted"]
  /\ UNCHANGED <<client, opt, messaging, inbound, nudges, procs, mishaps>>

Age(m) ==
  /\ msgs[m].st \in {"scheduled", "shown"} /\ ~msgs[m].old
  /\ msgs' = [msgs EXCEPT ![m].old = TRUE]
  /\ UNCHANGED <<client, opt, messaging, inbound, nudges, procs, mishaps>>

Read(c, m) ==
  /\ msgs[m].st = "shown" /\ ~client[c].gone /\ c \notin msgs[m].read
  /\ msgs' = [msgs EXCEPT ![m].read = @ \cup {c}]
  /\ UNCHANGED <<client, opt, messaging, inbound, nudges, procs, mishaps>>

(* An invite is sent again, with other channels, to a client who has not signed in yet. *)
Reinvite(c) ==
  /\ messaging /\ ~client[c].gone /\ \A m \in StaffMessages : c \notin msgs[m].read
  /\ \E email, sms \in BOOLEAN :
       (email \/ sms) /\ client' = [client EXCEPT ![c].email = email, ![c].sms = sms]
  /\ UNCHANGED <<msgs, opt, messaging, inbound, nudges, procs, mishaps>>

Forget(c) ==
  /\ ~client[c].gone
  /\ client' = [client EXCEPT ![c] = [email |-> TRUE, sms |-> FALSE, gone |-> TRUE]]
  /\ UNCHANGED <<msgs, opt, messaging, inbound, nudges, procs, mishaps>>

Switch ==
  /\ Mishap /\ messaging' = ~messaging
  /\ UNCHANGED <<msgs, client, opt, inbound, nudges, procs>>

-----------------------------------------------------------------------------
(* The nudge ticker. *)

Due_unstamped == {m \in StaffMessages : msgs[m].st = "shown" /\ msgs[m].old}

(* What the UPDATE claims. *)
Due == {m \in StaffMessages : msgs[m].st = "shown" /\ msgs[m].old /\ ~msgs[m].stamped}

Claim(p) ==
  /\ procs[p] = Idle /\ Due # {}
  /\ msgs' = [m \in StaffMessages |->
                IF m \in Due THEN [msgs[m] EXCEPT !.stamped = TRUE, !.early = @ \cup msgs[m].read]
                ELSE msgs[m]]
  /\ procs' = [procs EXCEPT ![p] = [Idle EXCEPT !.pc = "flag", !.claimed = Due]]
  /\ UNCHANGED <<client, opt, messaging, inbound, nudges, mishaps>>

Missed(ms) == excused' = excused \cup (ms \X Clients)

(* The messages it claimed are dispatched, each on its own; with messaging off, never. *)
ReadFlag(p) ==
  /\ procs[p].pc = "flag"
  /\ procs' = [procs EXCEPT ![p] = Idle]
  /\ IF messaging
     THEN /\ jobs' = [m \in StaffMessages |->
                        IF m \in procs[p].claimed THEN [NoJob EXCEPT !.pc = "load"] ELSE jobs[m]]
          /\ UNCHANGED excused
     ELSE Missed(procs[p].claimed) /\ UNCHANGED jobs
  /\ UNCHANGED <<data, inbound, sent, mishaps>>

Present_withPhone == {c \in Clients : ~client[c].gone /\ client[c].sms}
Present == {c \in Clients : ~client[c].gone}

(* notifyExternalRecipients: the clients and what they want ... *)
LoadRecipients(m) ==
  LET to == {[c |-> c, email |-> client[c].email, sms |-> client[c].sms] : c \in Present} IN
  /\ jobs[m].pc = "load"
  /\ jobs' = [jobs EXCEPT ![m] = IF to = {} THEN NoJob ELSE [@ EXCEPT !.pc = "readers", !.to = to]]
  /\ excused' = excused \cup {<<m, c>> : c \in {c \in Clients : client[c].gone \/ ~client[c].email}}
  /\ UNCHANGED <<data, inbound, procs, sent, mishaps>>

Unread_all(m) == jobs[m].to

(* ... less those who have read the message ... *)
Unread(m) == {r \in jobs[m].to : r.c \notin msgs[m].read}

DropReaders(m) ==
  /\ jobs[m].pc = "readers"
  /\ jobs' = [jobs EXCEPT ![m] = IF Unread(m) = {} THEN NoJob ELSE [@ EXCEPT !.pc = "send", !.to = Unread(m)]]
  /\ UNCHANGED <<data, inbound, procs, sent, excused, mishaps>>

(* ... get a mail and a text, one client after the other; one that fails is skipped. *)
Mail(m, r) ==
  /\ jobs[m].pc = "send" /\ jobs[m].cur = Nobody /\ r \in jobs[m].to
  /\ jobs' = [jobs EXCEPT ![m].to = @ \ {r}, ![m].cur = r]
  /\ \/ /\ sent' = (IF r.email THEN sent \cup {<<m, r.c, "email">>} ELSE sent)
        /\ UNCHANGED <<excused, mishaps>>
     \/ r.email /\ Mishap /\ excused' = excused \cup {<<m, r.c>>} /\ UNCHANGED sent
  /\ UNCHANGED <<data, inbound, procs>>

Text(m) ==
  LET r == jobs[m].cur IN
  /\ r # Nobody
  /\ jobs' = [jobs EXCEPT ![m] = IF @.to = {} THEN NoJob ELSE [@ EXCEPT !.cur = Nobody]]
  /\ \/ sent' = (IF r.sms THEN sent \cup {<<m, r.c, "sms">>} ELSE sent) /\ UNCHANGED mishaps
     \/ r.sms /\ Mishap /\ UNCHANGED sent
  /\ UNCHANGED <<data, inbound, procs, excused>>

-----------------------------------------------------------------------------
(* A webhook call. *)

Send(i) ==
  /\ item[i] = "unsent" /\ item' = [item EXCEPT ![i] = "due"]
  /\ UNCHANGED <<data, kind, rows, blobs, taken, refused, overlapped, nudges, procs, mishaps>>

Deliver(p, i) ==
  /\ procs[p] = Idle /\ item[i] = "due"
  /\ item' = [item EXCEPT ![i] = "out"]
  /\ procs' = [procs EXCEPT ![p] = [Idle EXCEPT !.pc = "dedup", !.item = i, !.heard = TRUE]]
  /\ UNCHANGED <<data, kind, rows, blobs, taken, refused, overlapped, nudges, mishaps>>

(* The provider stops waiting for the answer, and will call again. *)
TimeOut(p) ==
  /\ procs[p].heard /\ Mishap
  /\ item' = [item EXCEPT ![procs[p].item] = "due"]
  /\ procs' = [procs EXCEPT ![p].heard = FALSE]
  /\ overlapped' = overlapped \cup {procs[p].item}
  /\ UNCHANGED <<data, kind, rows, blobs, taken, refused, nudges>>

Answer(p) ==
  /\ item' = IF procs[p].heard THEN [item EXCEPT ![procs[p].item] = "done"] ELSE item
  /\ procs' = [procs EXCEPT ![p] = Idle]

Fail_answered(p) ==
  /\ procs[p].pc \in {"dedup", "route", "keyword", "confirm", "store", "publish"} /\ Mishap
  /\ item' = IF procs[p].heard THEN [item EXCEPT ![procs[p].item] = "done"] ELSE item
  /\ procs' = [procs EXCEPT ![p] = Idle]
  /\ UNCHANGED <<data, kind, rows, blobs, taken, refused, overlapped, nudges>>

(* Anything but a 200. *)
Refuse(p) ==
  /\ item' = IF procs[p].heard THEN [item EXCEPT ![procs[p].item] = "due"] ELSE item
  /\ procs' = [procs EXCEPT ![p] = Idle]

(* A statement, the firm's key or the confirmation fails: the answer is a 500. *)
Fail(p) ==
  /\ procs[p].pc \in {"dedup", "route", "keyword", "confirm", "store", "publish"} /\ Mishap
  /\ Refuse(p)
  /\ UNCHANGED <<data, kind, rows, blobs, taken, refused, overlapped, nudges>>

(* A mail that is only a file or only HTML, or a text that is only a picture: a 400, every *)
(* time.  The pipe of Postfix takes such mails: they are of kind "mail".                   *)
TurnDown(p) ==
  /\ procs[p].pc = "dedup" /\ kind[procs[p].item] = "empty"
  /\ Refuse(p)
  /\ UNCHANGED <<data, kind, rows, blobs, taken, refused, overlapped, nudges, mishaps>>

Known_raw(i) == FALSE

(* The lookup by providerMessageId: keywords are not messages. *)
Known(i) == rows[i] # <<>>

LookUp(p) ==
  LET i == procs[p].item IN
  /\ procs[p].pc = "dedup" /\ kind[i] # "empty"
  /\ IF Known(i) THEN Answer(p) ELSE Goto(p, "route") /\ UNCHANGED item
  /\ UNCHANGED <<data, kind, rows, blobs, taken, refused, overlapped, nudges, mishaps>>

(* Nobody has this address or number. *)
Unknown(i) ==
  LET c == client[FromOf[i]] IN c.gone \/ ~(IF kind[i] = "mail" THEN c.email ELSE c.sms)

Barred_stop(i) == Unknown(i) \/ ~messaging

(* The switch of the firm does not hold a STOP. *)
Barred(i) == Unknown(i) \/ (~messaging /\ kind[i] # "stop")

Route(p) ==
  LET i == procs[p].item IN
  /\ procs[p].pc = "route"
  /\ IF Barred(i)
     THEN refused' = [refused EXCEPT ![i] = IF Unknown(i) THEN "unknown" ELSE "off"] /\ Answer(p)
     ELSE /\ Goto(p, IF kind[i] \in {"stop", "start"} THEN "keyword" ELSE "store")
          /\ UNCHANGED <<item, refused>>
  /\ UNCHANGED <<data, kind, rows, blobs, taken, overlapped, nudges, mishaps>>

Keyword(p) ==
  LET i == procs[p].item IN
  /\ procs[p].pc = "keyword"
  /\ opt' = [opt EXCEPT ![FromOf[i]] = IF kind[i] = "stop" THEN "out" ELSE "in"]
  /\ taken' = taken \cup {i}
  /\ Goto(p, "confirm")
  /\ UNCHANGED <<msgs, client, messaging, item, kind, rows, blobs, refused, overlapped, nudges, mishaps>>

Confirm(p) ==
  /\ procs[p].pc = "confirm" /\ Answer(p)
  /\ UNCHANGED <<data, kind, rows, blobs, taken, refused, overlapped, nudges, mishaps>>

Store(p) ==
  LET i == procs[p].item IN
  /\ procs[p].pc = "store"
  /\ rows' = [rows EXCEPT ![i] = Append(@, [told |-> FALSE, file |-> "none"])]
  /\ taken' = taken \cup {i}
  /\ procs' = [procs EXCEPT ![p].pc = IF kind[i] = "mail" THEN "scan" ELSE "publish",
                            ![p].n = Len(rows[i]) + 1]
  /\ UNCHANGED <<data, item, kind, blobs, refused, overlapped, nudges, mishaps>>

SetFile(p, file) == rows' = [rows EXCEPT ![procs[p].item][procs[p].n].file = file]
Blob(p) == <<procs[p].item, procs[p].n>>

(* A file that is empty or too large is skipped; the others are scanned before they are *)
(* stored, and left out without a verdict.                                              *)
Scan(p) ==
  /\ procs[p].pc = "scan"
  /\ \/ \E pc \in {"put", "publish"} : Goto(p, pc) /\ UNCHANGED <<rows, mishaps>>
     \/ SetFile(p, "infected") /\ Goto(p, "publish") /\ UNCHANGED mishaps
     \/ Mishap /\ Goto(p, "publish") /\ UNCHANGED rows
  /\ UNCHANGED <<data, item, kind, blobs, taken, refused, overlapped, nudges>>

Put_rowFirst(p) ==
  /\ procs[p].pc = "put"
  /\ \/ blobs' = blobs \cup {Blob(p)} /\ UNCHANGED mishaps
     \/ Mishap /\ UNCHANGED blobs
  /\ SetFile(p, "clean") /\ Goto(p, "publish")
  /\ UNCHANGED <<data, item, kind, taken, refused, overlapped, nudges>>

(* Whatever fails here is logged, and the message goes on without the file. *)
Put(p) ==
  /\ procs[p].pc = "put"
  /\ \/ blobs' = blobs \cup {Blob(p)} /\ Goto(p, "insert") /\ UNCHANGED mishaps
     \/ Mishap /\ Goto(p, "publish") /\ UNCHANGED blobs
  /\ UNCHANGED <<data, item, kind, rows, taken, refused, overlapped, nudges>>

InsertFile(p) ==
  /\ procs[p].pc = "insert"
  /\ \/ SetFile(p, "clean") /\ Goto(p, "publish") /\ UNCHANGED mishaps
     \/ Mishap /\ Goto(p, "unput") /\ UNCHANGED rows
  /\ UNCHANGED <<data, item, kind, blobs, taken, refused, overlapped, nudges>>

Unput(p) ==
  /\ procs[p].pc = "unput"
  /\ \/ blobs' = blobs \ {Blob(p)} /\ UNCHANGED mishaps
     \/ Mishap /\ UNCHANGED blobs
  /\ Goto(p, "publish")
  /\ UNCHANGED <<data, item, kind, rows, taken, refused, overlapped, nudges>>

(* The conversation is touched, the audit written, and the message announced. *)
Publish(p) ==
  /\ procs[p].pc = "publish"
  /\ rows' = [rows EXCEPT ![procs[p].item][procs[p].n].told = TRUE]
  /\ Answer(p)
  /\ UNCHANGED <<data, kind, blobs, taken, refused, overlapped, nudges, mishaps>>

-----------------------------------------------------------------------------
(* The process dies: no call gets an answer, and what was claimed stays stamped. *)
Crash ==
  /\ Mishap
  /\ item' = [i \in Items |-> IF item[i] = "out" THEN "due" ELSE item[i]]
  /\ procs' = [p \in Procs |-> Idle] /\ jobs' = [m \in StaffMessages |-> NoJob]
  /\ Missed({m \in StaffMessages : jobs[m] # NoJob \/ \E p \in Procs : m \in procs[p].claimed})
  /\ UNCHANGED <<data, kind, rows, blobs, taken, refused, overlapped, sent>>

ReachNext ==
  \/ \E m \in StaffMessages :
       \/ Post(m) \/ Broadcast(m) \/ Delete(m) \/ Age(m)
       \/ LoadRecipients(m) \/ DropReaders(m) \/ Text(m)
       \/ \E r \in jobs[m].to : Mail(m, r)
       \/ \E c \in Clients : Read(c, m)
  \/ \E c \in Clients : Reinvite(c) \/ Forget(c)
  \/ \E i \in Items : Send(i) \/ \E p \in Procs : Deliver(p, i)
  \/ \E p \in Procs :
       \/ Claim(p) \/ ReadFlag(p) \/ TimeOut(p) \/ Fail(p)
       \/ TurnDown(p) \/ LookUp(p) \/ Route(p) \/ Keyword(p) \/ Confirm(p)
       \/ Store(p) \/ Scan(p) \/ Put(p) \/ InsertFile(p) \/ Unput(p) \/ Publish(p)
  \/ Switch \/ Crash

(* The ticker runs, what it started goes on, the process is started again, and providers *)
(* call until they hear a 200.                                                           *)
ReachFairness ==
  /\ WF_reachVars(\E p \in Procs : Claim(p))
  /\ \A i \in Items : WF_reachVars(\E p \in Procs : Deliver(p, i))
  /\ \A p \in Procs :
       WF_reachVars(ReadFlag(p) \/ TurnDown(p) \/ LookUp(p) \/ Route(p) \/ Keyword(p) \/ Confirm(p) \/ Store(p)
                    \/ Scan(p) \/ Put(p) \/ InsertFile(p) \/ Unput(p) \/ Publish(p))
  /\ \A m \in StaffMessages :
       WF_reachVars(LoadRecipients(m) \/ DropReaders(m) \/ (\E r \in jobs[m].to : Mail(m, r)) \/ Text(m))

ReachSpec == ReachInit /\ [][ReachNext]_reachVars /\ ReachFairness

-----------------------------------------------------------------------------
(* Every variable has its type, and a call or a job what its step works on. *)
ReachTypeOK ==
  /\ msgs \in [StaffMessages -> MsgRow] /\ client \in [Clients -> Client]
  /\ opt \in [Clients -> {"none", "in", "out"}] /\ messaging \in BOOLEAN
  /\ item \in [Items -> {"unsent", "due", "out", "done"}] /\ kind \in [Items -> Kinds]
  /\ rows \in [Items -> Seq(Row)]
  /\ blobs \subseteq Items \X Nat /\ procs \in [Procs -> Proc] /\ jobs \in [StaffMessages -> Job]
  /\ mishaps \in 0 .. MaxMishaps
  /\ sent \subseteq StaffMessages \X Clients \X {"email", "sms"} /\ excused \subseteq StaffMessages \X Clients
  /\ taken \subseteq Items /\ overlapped \subseteq Items
  /\ refused \in [Items -> {"no", "unknown", "off"}]
  /\ \A p \in Procs : procs[p].n \in 0 .. (IF procs[p].item = Nobody THEN 0 ELSE Len(rows[procs[p].item]))

(* Nobody gets two mails about one message, however ticks overlap and wherever they die, *)
(* and nobody gets one who had read it when the message was claimed.                     *)
NudgedOnceUnread ==
  [][\A m \in StaffMessages : \A r \in jobs[m].to :
       Mail(m, r) => <<m, r.c, "email">> \notin sent /\ r.c \notin msgs[m].early]_reachVars

(* A client who wants mail and leaves a message unread for a quarter of an hour gets one,   *)
(* scheduled or not, if no failure, crash or switch of the firm takes away the one attempt. *)
UnreadIsNudged ==
  \A m \in StaffMessages, c \in Clients :
    (msgs[m].st = "shown" /\ msgs[m].old) ~>
      (<<m, c, "email">> \in sent \/ c \in msgs[m].read \/ msgs[m].st = "deleted" \/ <<m, c>> \in excused)

(* What a client sends, if it has a text, is stored or obeyed in the end, through failures, *)
(* crashes and calls that are made again, or turned away; and a STOP only when nobody has   *)
(* the number.                                                                              *)
Turned(i) == refused[i] = "unknown" \/ (refused[i] = "off" /\ kind[i] # "stop")
SentIsTaken == \A i \in Items : (item[i] # "unsent" /\ kind[i] # "empty") ~> (i \in taken \/ Turned(i))

(* Calls that are made again, after failures and crashes, store one message; two only if the *)
(* provider called again while a call was running.                                          *)
StoredOnce == \A i \in Items : Len(rows[i]) > 1 => i \in overlapped

(* A file that is listed as clean can be downloaded, and one that is not listed is in the    *)
(* store only while a call is at work on it, or after something failed.                      *)
FilesMatchRows ==
  \A i \in Items :
    /\ \A n \in 1 .. Len(rows[i]) : rows[i][n].file = "clean" => <<i, n>> \in blobs
    /\ \A n \in 1 .. Len(rows[i]) : <<i, n>> \in blobs /\ rows[i][n].file # "clean" =>
         mishaps > 0 \/ \E p \in Procs : procs[p].pc \in {"insert", "unput"} /\ Blob(p) = <<i, n>>

-----------------------------------------------------------------------------
(* What the code promises and does not keep. *)

(* "No further SMS ever until new opt-in": the fan-out does not read sms_opt_ins, and the   *)
(* senders that do, maybeSendOutboundSms and its like for mail, are called by nothing.      *)
StopIsHonoured == [][\A m \in StaffMessages : Text(m) /\ sent' # sent => opt[jobs[m].cur.c] # "out"]_reachVars

(* What a client sends is stored, obeyed or turned away: but what has no text is answered   *)
(* with a 400 each time the provider calls, a mail with nothing but a file too, and nobody  *)
(* hears of it.                                                                             *)
AllSentIsTaken == \A i \in Items : (item[i] # "unsent") ~> (i \in taken \/ Turned(i))

(* A keyword that is delivered again is ignored: but keywords are not messages, and only    *)
(* those are looked up, so a STOP whose confirmation failed may undo the START after it.    *)
KeywordsActOnce ==
  [][\A p \in Procs : Keyword(p) => procs[p].item \notin taken]_reachVars

(* What is stored is announced: a call that dies in between is made again, and deduped.     *)
StoredIsAnnounced == \A i \in Items : (rows[i] # <<>>) ~> (rows[i] # <<>> /\ rows[i][1].told)

(* Clients have a quarter of an hour to read a message: a scheduled one is as old as its    *)
(* row, and may be claimed as soon as it is shown.                                          *)
ClientsHaveTime == [][\A m \in StaffMessages : Broadcast(m) => m \notin Due']_reachVars
=============================================================================
