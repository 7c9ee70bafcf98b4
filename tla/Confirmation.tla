---------------------------- MODULE Confirmation ----------------------------
(***************************************************************************)
(* The confirmation of account changes on Bibledit Cloud: somebody asks    *)
(* for a change (kernel/user/account.cpp, kernel/session/signup.cpp), gets *)
(* a mail with a link, and clicks it; then the change is made, and the     *)
(* user and the managers are told (kernel/confirm/worker.cpp,              *)
(* kernel/database/confirm.cpp, kernel/session/confirm.cpp).  The mails go *)
(* through the queue of MailQueue, which runs beside it.                   *)
(*                                                                         *)
(* "click" in Hazard lets two clicks on a link be handled at a time.       *)
(***************************************************************************)
EXTENDS MailQueue

CONSTANTS
  Request,   \* The requests for a change, each with an id of its own.
  Within,    \* The pairs of which the first one's id is part of the other's.
  LinkOf,    \* The mail of each request with the link, ...
  NewsOf,    \* ... the one that says that the change is made, ...
  Memo,      \* ... those to the managers, ...
  NewsOfNone,\* ... and the one that is made up if the record is gone.
  Visitor,   \* The threads that handle clicks.
  NoRequest  \* A click that is not underway.

\* A mail with a link is about one request, whose random id is in it, and about
\* nothing else.
ASSUME ConfirmationAssumption ==
  /\ Within \subseteq Request \X Request
  /\ LinkOf \in [Request -> Mail] /\ NewsOf \in [Request -> Mail]
  /\ Memo \subseteq Mail /\ NewsOfNone \in Invalid
  /\ \A r, q \in Request : r # q => LinkOf[r] # LinkOf[q]
  /\ \A r \in Request :
       LinkOf[r] \notin {NewsOf[q] : q \in Request} \union Memo \union {NewsOfNone}
  /\ NoRequest \notin Request

VARIABLES
  setup,     \* Where the setup of a request is.
  record,    \* The requests in the table of confirmations.
  vpc,       \* Where the handling of a click is, ...
  request,   \* ... the request that it found, ...
  memos,     \* ... and the managers that are still to be told.
  executed,  \* History: how often a change was made, ...
  clicked,   \* ... the requests whose link was clicked, ...
  expired,   \* ... those that were there for too long, ...
  broken     \* ... and those in hand when the server crashed.

confirmVars == <<setup, record, vpc, request, memos, executed, clicked, expired, broken>>
vars == <<mailVars, confirmVars>>

TypeOK ==
  /\ MailTypeOK
  /\ setup \in [Request -> {"new", "mailed", "done"}]
  /\ record \subseteq Request
  /\ vpc \in [Visitor -> {"idle", "execute", "mail", "erase", "inform"}]
  /\ request \in [Visitor -> Request \union {NoRequest}]
  /\ memos \in [Visitor -> SUBSET Memo]
  /\ executed \in [Request -> Nat]
  /\ clicked \subseteq Request
  /\ expired \subseteq Request
  /\ broken \subseteq Request

Init ==
  /\ MailInit
  /\ setup = [r \in Request |-> "new"]
  /\ record = {}
  /\ vpc = [v \in Visitor |-> "idle"]
  /\ request = [v \in Visitor |-> NoRequest]
  /\ memos = [v \in Visitor |-> {}]
  /\ executed = [r \in Request |-> 0]
  /\ clicked = {}
  /\ expired = {}
  /\ broken = {}

-----------------------------------------------------------------------------
(* confirm::worker::setup *)

MailLink(r) ==
  /\ setup[r] = "new"
  /\ Schedule(LinkOf[r])
  /\ setup' = [setup EXCEPT ![r] = "mailed"]
  /\ UNCHANGED <<record, vpc, request, memos, executed, clicked, expired, broken>>

\* Mutant: the record is not stored.
StoreRecordNot(r) ==
  /\ setup[r] = "mailed"
  /\ setup' = [setup EXCEPT ![r] = "done"]
  /\ UNCHANGED <<mailVars, record, vpc, request, memos, executed, clicked, expired, broken>>

StoreRecord(r) ==
  /\ setup[r] = "mailed"
  /\ record' = record \union {r}
  /\ setup' = [setup EXCEPT ![r] = "done"]
  /\ UNCHANGED <<mailVars, vpc, request, memos, executed, clicked, expired, broken>>

-----------------------------------------------------------------------------
(* confirm::worker::handle_link *)

ToStep(v, where) == vpc' = [vpc EXCEPT ![v] = where]

\* The records whose id is found in the link's one.
Found(r) == {q \in record : q = r \/ <<q, r>> \in Within}

\* The user clicks the link of a mail that came in.
Click(v, r) ==
  /\ vpc[v] = "idle" /\ sent[LinkOf[r]] > 0
  /\ "click" \in Hazard \/ \A w \in Visitor : vpc[w] = "idle"
  /\ \E q \in Found(r) : request' = [request EXCEPT ![v] = q]
  /\ clicked' = clicked \union {r}
  /\ ToStep(v, "execute")
  /\ UNCHANGED <<mailVars, setup, record, memos, executed, expired, broken>>

\* The query of a record that is gone does nothing.
Execute(v) ==
  /\ vpc[v] = "execute"
  /\ executed' = IF request[v] \in record
                 THEN [executed EXCEPT ![request[v]] = @ + 1] ELSE executed
  /\ ToStep(v, "mail")
  /\ UNCHANGED <<mailVars, setup, record, request, memos, clicked, expired, broken>>

MailNews(v) ==
  /\ vpc[v] = "mail"
  /\ Schedule(IF request[v] \in record THEN NewsOf[request[v]] ELSE NewsOfNone)
  /\ ToStep(v, "erase")
  /\ UNCHANGED <<setup, record, request, memos, executed, clicked, expired, broken>>

\* Mutant: the record is kept.
EraseRecordNot(v) ==
  /\ vpc[v] = "erase"
  /\ memos' = [memos EXCEPT ![v] = Memo]
  /\ ToStep(v, "inform")
  /\ UNCHANGED <<mailVars, setup, record, request, executed, clicked, expired, broken>>

EraseRecord(v) ==
  /\ vpc[v] = "erase"
  /\ record' = record \ {request[v]}
  /\ memos' = [memos EXCEPT ![v] = Memo]
  /\ ToStep(v, "inform")
  /\ UNCHANGED <<mailVars, setup, request, executed, clicked, expired, broken>>

\* inform_managers, one by one
Inform(v) ==
  /\ vpc[v] = "inform"
  /\ \E m \in memos[v] : Schedule(m) /\ memos' = [memos EXCEPT ![v] = @ \ {m}]
  /\ UNCHANGED <<setup, record, vpc, request, executed, clicked, expired, broken>>

Done(v) ==
  /\ vpc[v] = "inform" /\ memos[v] = {}
  /\ ToStep(v, "idle")
  /\ request' = [request EXCEPT ![v] = NoRequest]
  /\ UNCHANGED <<mailVars, setup, record, memos, executed, clicked, expired, broken>>

-----------------------------------------------------------------------------
\* The nightly maintenance: after the mails come the records, which stay for thirty
\* days, whoever has them in hand.
TrimRecords ==
  /\ night = "records"
  /\ \E old \in SUBSET record :
       record' = record \ old /\ expired' = expired \union old
  /\ night' = "mails"
  /\ UNCHANGED <<mails, senderVars, mailGhosts>>
  /\ UNCHANGED <<setup, vpc, request, memos, executed, clicked, broken>>

Maintain == (MaintainMails /\ UNCHANGED confirmVars) \/ TrimRecords

\* The server crashes in the midst of whatever it does.
Crash ==
  /\ CrashMails
  /\ setup' = [r \in Request |-> IF setup[r] = "mailed" THEN "done" ELSE setup[r]]
  /\ broken' = broken \union {r \in Request : setup[r] = "mailed"}
       \union ({request[v] : v \in Visitor} \ {NoRequest})
  /\ vpc' = [v \in Visitor |-> "idle"]
  /\ request' = [v \in Visitor |-> NoRequest]
  /\ memos' = [v \in Visitor |-> {}]
  /\ UNCHANGED <<record, executed, clicked, expired>>

Setup(r) == MailLink(r) \/ StoreRecord(r)
Handle(v) == Execute(v) \/ MailNews(v) \/ EraseRecord(v) \/ Inform(v) \/ Done(v)
Mailing(s) == SendMails(s) /\ UNCHANGED confirmVars

Next ==
  \/ \E r \in Request : Setup(r) \/ \E v \in Visitor : Click(v, r)
  \/ \E v \in Visitor : Handle(v)
  \/ \E s \in Sender : Mailing(s)
  \/ DueAgain /\ UNCHANGED confirmVars
  \/ ClearMails /\ UNCHANGED confirmVars
  \/ Maintain \/ Crash

Spec == Init /\ [][Next]_vars
-----------------------------------------------------------------------------
(* Properties *)

\* The link that the user has got works, until it is used, or expires.  The mail
\* may well arrive before the record is there.
LinkWorks ==
  \A r \in Request \ (expired \union broken) :
    sent[LinkOf[r]] > 0 => r \in record \/ setup[r] = "mailed" \/ executed[r] > 0

\* A change is made once, though its link may be clicked time and again, and only
\* when its own link was clicked.
ExecutedOnce ==
  \A r \in Request \ broken : executed[r] <= IF r \in clicked THEN 1 ELSE 0

Fairness ==
  /\ \A r \in Request : WF_vars(StoreRecord(r))
  /\ \A v \in Visitor : WF_vars(Handle(v))
  /\ \A s \in Sender : WF_vars(Mailing(s))
  /\ WF_vars(DueAgain /\ UNCHANGED confirmVars)
  /\ SF_vars(Maintain)

FairSpec == Spec /\ Fairness

\* Whoever has an account changed gets to know it, as far as mail can tell: if the
\* server does not crash meanwhile, and the record, which has the address, does not
\* expire between the change and the news.
ToldOfChange ==
  \A r \in Request :
    executed[r] > 0 ~> sent[NewsOf[r]] > 0 \/ NewsOf[r] \in dropped \/ r \in broken \union expired
=============================================================================
