----------------------------- MODULE MailQueue -----------------------------
(***************************************************************************)
(* The queue of the mails to send: the table with the mails                *)
(* (kernel/database/mail.cpp), and the task that sends them                *)
(* (kernel/email/send.cpp) and that is started every minute and whenever a *)
(* mail is queued, beside one that may be running already.                 *)
(*                                                                         *)
(* A mail is known by the number of its row.  SQLite gives a new row the   *)
(* highest number plus one, and numbers the rows of this table anew when   *)
(* it gets vacuumed, for they have no key of their own.                    *)
(*                                                                         *)
(* Hazard names what may come between the steps of a task that sends:      *)
(*   "flag"    another task finds the flag mail_send_running not set       *)
(*   "vacuum"  the nightly maintenance deletes rows, or numbers them anew  *)
(*   "clear"   the administrator clears the mails                          *)
(***************************************************************************)
EXTENDS Integers, FiniteSets, FiniteSetsExt, Functions

CONSTANTS
  Mail,        \* The mails: who gets which.
  Invalid,     \* Those to an invalid address.
  Sender,      \* The threads that send mails.
  MaxRows,     \* The bound on the rows in the table.
  MaxRetry,    \* How often a mail is tried before it is dropped.
  MaxFaults,   \* The bound on the crashes of the server and the answers that get lost.
  Hazard,      \* What may come in between.
  NoMail       \* A row that is not there.

Row == 1..MaxRows

ASSUME MailQueueAssumption ==
  /\ Invalid \subseteq Mail /\ NoMail \notin Mail
  /\ MaxRows \in Nat \ {0} /\ MaxRetry \in Nat /\ MaxFaults \in Nat
  /\ Hazard \subseteq {"flag", "vacuum", "clear", "click"}

VARIABLES
  mails,    \* The table: what it holds in the row of each number.
  running,  \* The flag mail_send_running.
  spc,      \* Where a sender is.
  rows,     \* The rows it still has to deal with, ...
  mail,     \* ... and the mail that it read in the first of them.
  night,    \* What the nightly maintenance deals with next.
  asked,    \* History: how often a mail was queued, ...
  sent,     \* ... and sent, ...
  dropped,  \* ... the mails that were dropped, ...
  lost,     \* ... how often the answer to a mail got lost, ...
  faults,   \* ... how often the server crashed or an answer got lost, ...
  crashed   \* ... and the mails that it was sending then.

senderVars == <<running, spc, rows, mail>>
mailGhosts == <<asked, sent, dropped, lost, faults, crashed>>
mailVars == <<mails, senderVars, night, mailGhosts>>

Entry == [mail : Mail, due : BOOLEAN, retry : 0..MaxRetry + 1]

MailTypeOK ==
  /\ DOMAIN mails \subseteq Row /\ mails \in [DOMAIN mails -> Entry]
  /\ running \in BOOLEAN
  /\ spc \in [Sender -> {"idle", "set", "list", "get", "send", "erase", "postpone", "deny"}]
  /\ rows \in [Sender -> SUBSET Row]
  /\ mail \in [Sender -> Mail \union {NoMail}]
  /\ night \in {"mails", "vacuum", "records"}
  /\ asked \in [Mail -> Nat] /\ sent \in [Mail -> Nat] /\ lost \in [Mail -> Nat]
  /\ dropped \subseteq Mail
  /\ faults \in 0..MaxFaults
  /\ crashed \subseteq Mail

MailInit ==
  /\ mails = [n \in {} |-> NoMail]
  /\ running = FALSE
  /\ spc = [s \in Sender |-> "idle"]
  /\ rows = [s \in Sender |-> {}]
  /\ mail = [s \in Sender |-> NoMail]
  /\ night = "mails"
  /\ asked = [m \in Mail |-> 0] /\ sent = [m \in Mail |-> 0] /\ lost = [m \in Mail |-> 0]
  /\ dropped = {}
  /\ faults = 0
  /\ crashed = {}

-----------------------------------------------------------------------------
(* The table *)

Numbers == DOMAIN mails

\* Mutant: the rows are numbered from zero.
NextRowFromZero == IF Numbers = {} THEN 0 ELSE Max(Numbers) + 1

\* The number of a new row.
NextRow == IF Numbers = {} THEN 1 ELSE Max(Numbers) + 1

\* The mails in the table, and the rows of those that are to be sent now.
Queued == {mails[n].mail : n \in Numbers}
Due == {n \in Numbers : mails[n].due}

\* What the table holds in a row.
MailIn(row) == IF row \in Numbers THEN mails[row].mail ELSE NoMail

With(m) ==
  [n \in Numbers \union {NextRow} |->
     IF n = NextRow THEN [mail |-> m, due |-> TRUE, retry |-> 0] ELSE mails[n]]

Without(gone) == Restrict(mails, Numbers \ gone)

\* Once more, and later; the count stops just past its limit.
Postponed(set) ==
  [n \in Numbers |->
     IF n \in set
     THEN [mails[n] EXCEPT !.retry = Min({@ + 1, MaxRetry + 1}), !.due = FALSE]
     ELSE mails[n]]

\* These rows, numbered anew from 1 in their order.
Rank(n, left) == Cardinality({k \in left : k <= n})
Renumbered(left) ==
  [i \in 1..Cardinality(left) |-> mails[CHOOSE n \in left : Rank(n, left) = i]]

\* email_schedule: the caller goes on from here.
Schedule(m) ==
  /\ NextRow <= MaxRows
  /\ mails' = With(m)
  /\ asked' = [asked EXCEPT ![m] = @ + 1]
  /\ UNCHANGED <<senderVars, night, sent, dropped, lost, faults, crashed>>

-----------------------------------------------------------------------------
(* email_send *)

Sending == {s \in Sender : spc[s] # "idle"}
To(s, where) == spc' = [spc EXCEPT ![s] = where]

\* The next row, after this one.
NextMail(s) ==
  /\ rows' = [rows EXCEPT ![s] = @ \ {Min(rows[s])}]
  /\ mail' = [mail EXCEPT ![s] = NoMail]
  /\ To(s, "get")

Start(s) ==
  /\ spc[s] = "idle" /\ ~running
  /\ "flag" \in Hazard \/ Sending = {}
  /\ To(s, "set")
  /\ UNCHANGED <<mails, running, rows, mail, night, mailGhosts>>

SetRunning(s) ==
  /\ spc[s] = "set"
  /\ running' = TRUE
  /\ To(s, "list")
  /\ UNCHANGED <<mails, rows, mail, night, mailGhosts>>

ListMails(s) ==
  /\ spc[s] = "list"
  /\ rows' = [rows EXCEPT ![s] = Due]
  /\ To(s, "get")
  /\ UNCHANGED <<mails, running, mail, night, mailGhosts>>

\* A mail that is gone has an invalid address too.
GetMail(s) ==
  /\ spc[s] = "get" /\ rows[s] # {}
  /\ mail' = [mail EXCEPT ![s] = MailIn(Min(rows[s]))]
  /\ To(s, IF mail'[s] \in Invalid \union {NoMail} THEN "erase" ELSE "send")
  /\ dropped' = dropped \union ({mail'[s]} \intersect Invalid)
  /\ UNCHANGED <<mails, running, rows, night, asked, sent, lost, faults, crashed>>

Accepted(s) ==
  /\ spc[s] = "send"
  /\ sent' = [sent EXCEPT ![mail[s]] = @ + 1]
  /\ To(s, "erase")
  /\ UNCHANGED <<mails, running, rows, mail, night, asked, dropped, lost, faults, crashed>>

\* The smart host takes the mail, but the connection breaks, or it is too late,
\* before that is known: any error of cURL counts as a mail that was not sent.
Unanswered(s) ==
  /\ spc[s] = "send"
  /\ faults < MaxFaults /\ faults' = faults + 1
  /\ sent' = [sent EXCEPT ![mail[s]] = @ + 1]
  /\ lost' = [lost EXCEPT ![mail[s]] = @ + 1]
  /\ To(s, "postpone")
  /\ UNCHANGED <<mails, running, rows, mail, night, asked, dropped, crashed>>

\* Mutant: the mails that were not sent are erased too.
RefusedForGood(s) ==
  /\ spc[s] = "send"
  /\ To(s, "erase")
  /\ UNCHANGED <<mails, running, rows, mail, night, mailGhosts>>

Refused(s) ==
  /\ spc[s] = "send"
  /\ To(s, "postpone")
  /\ UNCHANGED <<mails, running, rows, mail, night, mailGhosts>>

\* Mutant: a mail that was sent is left in the table.
EraseNot(s) ==
  /\ spc[s] = "erase"
  /\ NextMail(s)
  /\ UNCHANGED <<mails, running, night, mailGhosts>>

Erase(s) ==
  /\ spc[s] = "erase"
  /\ mails' = Without({Min(rows[s])})
  /\ NextMail(s)
  /\ UNCHANGED <<running, night, mailGhosts>>

Postpone(s) ==
  /\ spc[s] = "postpone"
  /\ mails' = Postponed({Min(rows[s])})
  /\ NextMail(s)
  /\ UNCHANGED <<running, night, mailGhosts>>

EndSending(s) ==
  /\ running' = FALSE
  /\ rows' = [rows EXCEPT ![s] = {}]
  /\ mail' = [mail EXCEPT ![s] = NoMail]
  /\ To(s, "idle")

AllSent(s) ==
  /\ spc[s] = "get" /\ rows[s] = {}
  /\ EndSending(s)
  /\ UNCHANGED <<mails, night, mailGhosts>>

\* The smart host denies login: all the mails there are ...
LoginDenied(s) ==
  /\ spc[s] = "send"
  /\ rows' = [rows EXCEPT ![s] = Numbers]
  /\ mail' = [mail EXCEPT ![s] = NoMail]
  /\ To(s, "deny")
  /\ UNCHANGED <<mails, running, night, mailGhosts>>

\* ... are postponed, one by one, ...
PostponeAlso(s) ==
  /\ spc[s] = "deny" /\ rows[s] # {}
  /\ mails' = Postponed({Min(rows[s])})
  /\ rows' = [rows EXCEPT ![s] = @ \ {Min(rows[s])}]
  /\ UNCHANGED <<running, spc, mail, night, mailGhosts>>

\* Mutant: this way out leaves the flag set.
AllPostponedRunning(s) ==
  /\ spc[s] = "deny" /\ rows[s] = {}
  /\ To(s, "idle")
  /\ UNCHANGED <<mails, running, rows, mail, night, mailGhosts>>

\* ... and the task ends.
AllPostponed(s) ==
  /\ spc[s] = "deny" /\ rows[s] = {}
  /\ EndSending(s)
  /\ UNCHANGED <<mails, night, mailGhosts>>

-----------------------------------------------------------------------------
(* What else deals with the table *)

\* It is time to send a mail once more.
DueAgain ==
  /\ \E n \in Numbers :
       /\ ~mails[n].due
       /\ mails' = [mails EXCEPT ![n].due = TRUE]
  /\ UNCHANGED <<senderVars, night, mailGhosts>>

\* The nightly maintenance: mails that were tried too often are deleted, and so
\* are those that wait to be sent for thirty days; ...
TrimMails ==
  /\ night = "mails"
  /\ "vacuum" \in Hazard \/ Sending = {}
  /\ \E old \in SUBSET Due :
       LET gone == old \union {n \in Numbers : mails[n].retry > MaxRetry}
       IN /\ mails' = Without(gone)
          /\ dropped' = dropped \union {mails[n].mail : n \in gone}
  /\ night' = "vacuum"
  /\ UNCHANGED <<senderVars, asked, sent, lost, faults, crashed>>

\* ... then the table is vacuumed.
VacuumMails ==
  /\ night = "vacuum"
  /\ "vacuum" \in Hazard \/ Sending = {}
  /\ mails' = Renumbered(Numbers)
  /\ night' = "records"
  /\ UNCHANGED <<senderVars, mailGhosts>>

MaintainMails == TrimMails \/ VacuumMails

\* The administrator clears the mails.
ClearMails ==
  /\ Numbers # {}
  /\ "clear" \in Hazard \/ Sending = {}
  /\ mails' = Without(Numbers)
  /\ dropped' = dropped \union Queued
  /\ UNCHANGED <<senderVars, night, asked, sent, lost, faults, crashed>>

\* The server crashes and starts again.  Nothing tells it afterwards that it was
\* sending a mail: has_crashed_while_mailing is never set.
CrashMails ==
  /\ faults < MaxFaults /\ faults' = faults + 1
  /\ crashed' = crashed \union
       ({mail[s] : s \in {t \in Sender : spc[t] \in {"send", "erase"}}} \ {NoMail})
  /\ running' = FALSE
  /\ spc' = [s \in Sender |-> "idle"]
  /\ rows' = [s \in Sender |-> {}]
  /\ mail' = [s \in Sender |-> NoMail]
  /\ night' = "mails"
  /\ UNCHANGED <<mails, asked, sent, lost, dropped>>

SendMails(s) ==
  \/ Start(s) \/ SetRunning(s) \/ ListMails(s) \/ GetMail(s)
  \/ Accepted(s) \/ Unanswered(s) \/ Refused(s) \/ Erase(s) \/ Postpone(s) \/ AllSent(s)
  \/ LoginDenied(s) \/ PostponeAlso(s) \/ AllPostponed(s)
-----------------------------------------------------------------------------
(* Properties *)

\* A mail leaves the table only when it was sent, or when it is dropped.
MailsStay ==
  [][\A m \in Queued : m \in Queued' \/ sent[m] > 0 \/ m \in dropped']_mailVars

\* A mail is not sent more often than it was queued, but once more for each time
\* that the answer to it got lost, if not the server crashed while it was sent.
SentOnce == \A m \in Mail \ crashed : sent[m] <= asked[m] + lost[m]

\* A mail during which the server crashed is not sent again, for it might cause
\* the crash again in an endless loop.
NotTriedAgain == \A s \in Sender : spc[s] = "send" => mail[s] \notin crashed
=============================================================================
