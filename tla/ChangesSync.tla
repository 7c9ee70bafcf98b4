---------------------------- MODULE ChangesSync ----------------------------
(***************************************************************************)
(* Send/receive of the change notifications of a user who works on several *)
(* clients and on the Cloud's own site: the client's task                  *)
(* (kernel/sendreceive/changes.cpp), the server's handler                  *)
(* (kernel/sync/changes.cpp), the user's dismissals                        *)
(* (kernel/changes/changes.cpp), and the nightly run on the server that    *)
(* records new notifications and removes expired ones                      *)
(* (kernel/changes/modifications.cpp, kernel/database/modifications.cpp).  *)
(*                                                                         *)
(* Notifications are numbered as they are recorded, and 'cloud' and 'note' *)
(* say which one is stored under an identifier.  The server has those of   *)
(* other users too, all in one folder.  The checksum of the user's         *)
(* notifications is the set of their identifiers, for that is what it is   *)
(* made of; both sides cache it, and clear it after a change, in a step of *)
(* its own.  Requests of which the handlers do the same are one.  While a  *)
(* handler is at work the client waits for it: the timeouts                *)
(* (kernel/filter/url.cpp) are ten seconds and more.                       *)
(*                                                                         *)
(* Where a dismissal may get lost, or may hit another notification, is     *)
(* recorded in 'hit', so that the properties can say what holds everywhere *)
(* else:                                                                   *)
(*   - an identifier is given once more: the next one is the highest that  *)
(*     is in use, plus one, whoever uses it;                               *)
(*   - the user's dismissal and the task change the list at the same time. *)
(* A dismissal that the client's stop cuts short before it is listed       *)
(* counts as none.                                                         *)
(***************************************************************************)
EXTENDS Integers, FiniteSets, FiniteSetsExt

CONSTANTS
  Client,    \* The clients of the user.
  MaxEvents, \* The bound on the notifications recorded and the stops, together.
  NoEdit     \* The user is not dismissing a notification.

Id == 1..MaxEvents
Note == 1..MaxEvents
None == 0              \* No notification is stored under the identifier.
Blank == MaxEvents + 1   \* What the server answers for one that is gone.
NoSum == {0}           \* No checksum is cached.

Edits == [id : Id, seen : SUBSET Id, step : {"read", "write"}]
         \union [id : {0}, seen : {{}}, step : {"clear"}]

ASSUME ChangesSyncAssumption ==
  /\ IsFiniteSet(Client)
  /\ MaxEvents \in Nat \ {0}
  /\ NoEdit \notin Edits

VARIABLES
  cloud,      \* The notifications on the server, ...
  sum,        \* ... the checksum of the user's ones that is cached there, ...
  clearing,   \* ... the identifiers removed, after which it is to be cleared, ...
  due,        \* ... the checksums about to be cached that were calculated
  old,        \*     after, and before, the last change.
  note,       \* The notifications on the clients, ...
  own,        \* ... the checksum cached there, ...
  removed,    \* ... and the list of what was removed.
  edit,       \* The user's dismissal that is not recorded in full yet.
  pc,         \* Where the client's task is.
  todo,       \* The identifiers it still has to deal with, ...
  news,       \* ... those to download after that, ...
  job,        \* ... and the one underway.
  seen,       \* A set of identifiers that it read.
  answer,     \* The checksum that the server answers.
  failed,     \* A removal could not be sent.
  made,       \* History: the notifications recorded, ...
  others,     \* ... those of other users, ...
  lent,       \* ... the identifiers that those were given, ...
  top,        \* ... the highest identifier given, ...
  quits,      \* ... the stops so far, ...
  gone,       \* ... the notifications dismissed on each client, ...
  hit,        \* ... those that are caught in a window, ...
  late,       \* ... whether the server keeps a checksum of before a change, ...
  torn        \* ... and the clients that do.

cloudVars == <<cloud, sum, clearing, due, old>>
userVars == <<note, own, removed, edit>>
taskVars == <<pc, todo, news, job, seen, answer, failed>>
givenVars == <<made, others, lent, top>>
ghostVars == <<givenVars, quits, gone, hit, late, torn>>
vars == <<cloudVars, userVars, taskVars, ghostVars>>

PC == {"idle", "send", "ack", "unlist", "own", "cache", "sum", "set", "compare",
       "ids", "get", "tidy"}

TypeOK ==
  /\ cloud \in [Id -> {None} \union Note]
  /\ sum \in (SUBSET Id) \union {NoSum}
  /\ clearing \subseteq Id
  /\ due \subseteq SUBSET Id /\ old \subseteq SUBSET Id
  /\ note \in [Client -> [Id -> {None, Blank} \union Note]]
  /\ own \in [Client -> (SUBSET Id) \union {NoSum}]
  /\ removed \in [Client -> SUBSET Id]
  /\ edit \in [Client -> Edits \union {NoEdit}]
  /\ pc \in [Client -> PC]
  /\ todo \in [Client -> SUBSET Id]
  /\ news \in [Client -> SUBSET Id]
  /\ job \in [Client -> Id \union {0}]
  /\ seen \in [Client -> SUBSET Id]
  /\ answer \in [Client -> SUBSET Id]
  /\ failed \in [Client -> BOOLEAN]
  /\ made \in 0..MaxEvents /\ top \in 0..made
  /\ others \subseteq Note /\ lent \subseteq Id
  /\ quits \in 0..(MaxEvents - made)
  /\ gone \in [Client -> SUBSET Note]
  /\ hit \subseteq Note
  /\ late \in BOOLEAN
  /\ torn \subseteq Client

Init ==
  /\ cloud = [id \in Id |-> None]
  /\ sum = NoSum
  /\ clearing = {} /\ due = {} /\ old = {}
  /\ note = [c \in Client |-> [id \in Id |-> None]]
  /\ own = [c \in Client |-> NoSum]
  /\ removed = [c \in Client |-> {}]
  /\ edit = [c \in Client |-> NoEdit]
  /\ pc = [c \in Client |-> "idle"]
  /\ todo = [c \in Client |-> {}]
  /\ news = [c \in Client |-> {}]
  /\ job = [c \in Client |-> 0]
  /\ seen = [c \in Client |-> {}]
  /\ answer = [c \in Client |-> {}]
  /\ failed = [c \in Client |-> FALSE]
  /\ made = 0 /\ others = {} /\ lent = {} /\ top = 0 /\ quits = 0
  /\ gone = [c \in Client |-> {}]
  /\ hit = {}
  /\ late = FALSE
  /\ torn = {}

-----------------------------------------------------------------------------
Ids(store) == {id \in Id : store[id] # None}
Notes(store) == {store[id] : id \in Ids(store)}

\* Those of the user.
Mine == {id \in Id : cloud[id] \notin {None} \union others}

\* What was calculated before is old.
Overtake ==
  /\ old' = old \union due
  /\ due' = {}

\* Mutant: the checksum is not cleared thereafter.
RemoveThereKeeping(id) ==
  /\ cloud' = [cloud EXCEPT ![id] = None]
  /\ Overtake
  /\ UNCHANGED clearing

\* The server takes away what has the identifier, the user's or not, and is to
\* clear the user's checksum.
RemoveThere(id) ==
  /\ cloud' = [cloud EXCEPT ![id] = None]
  /\ Overtake
  /\ clearing' = clearing \union {id}

-----------------------------------------------------------------------------
(* The user dismisses notifications. *)

\* On a client it is taken away first, ...
Dismiss(c) ==
  /\ edit[c] = NoEdit
  /\ \E id \in Ids(note[c]) :
       /\ note' = [note EXCEPT ![c][id] = None]
       /\ edit' = [edit EXCEPT ![c] = [id |-> id, seen |-> {}, step |-> "read"]]
       /\ gone' = [gone EXCEPT ![c] = @ \union ({note[c][id]} \intersect Note)]
  /\ UNCHANGED <<cloudVars, own, removed, taskVars, givenVars, quits, hit, late, torn>>

\* ... then the list of what was removed is read ...
ReadRemoved(c) ==
  /\ edit[c] # NoEdit /\ edit[c].step = "read"
  /\ edit' = [edit EXCEPT ![c].seen = removed[c], ![c].step = "write"]
  /\ UNCHANGED <<cloudVars, note, own, removed, taskVars, ghostVars>>

\* Mutant: a dismissal replaces the list.
WriteRemovedOnly(c) ==
  /\ edit[c] # NoEdit /\ edit[c].step = "write"
  /\ removed' = [removed EXCEPT ![c] = {edit[c].id}]
  /\ edit' = [edit EXCEPT ![c].step = "clear"]
  /\ UNCHANGED <<cloudVars, note, own, taskVars, ghostVars>>

\* ... and written ...
WriteRemoved(c) ==
  /\ edit[c] # NoEdit /\ edit[c].step = "write"
  /\ removed' = [removed EXCEPT ![c] = edit[c].seen \union {edit[c].id}]
  /\ edit' = [edit EXCEPT ![c] = [id |-> 0, seen |-> {}, step |-> "clear"]]
  /\ hit' = IF pc[c] = "unlist" THEN hit \union ({cloud[edit[c].id]} \ {None}) ELSE hit
  /\ UNCHANGED <<cloudVars, note, own, taskVars, givenVars, quits, gone, late, torn>>

\* ... and the cached checksum is cleared.
ClearOwn(c) ==
  /\ edit[c] # NoEdit /\ edit[c].step = "clear"
  /\ own' = [own EXCEPT ![c] = NoSum]
  /\ torn' = torn \ {c}
  /\ edit' = [edit EXCEPT ![c] = NoEdit]
  /\ UNCHANGED <<cloudVars, note, removed, taskVars, givenVars, quits, gone, hit, late>>

\* On the Cloud's own site.
DismissThere ==
  /\ \E id \in Mine : RemoveThere(id)
  /\ UNCHANGED <<sum, userVars, taskVars, ghostVars>>

\* The handler of either removal clears the checksum.
ClearSum ==
  /\ \E id \in clearing : clearing' = clearing \ {id}
  /\ sum' = NoSum
  /\ late' = FALSE
  /\ UNCHANGED <<cloud, due, old, userVars, taskVars, givenVars, quits, gone, hit, torn>>

\* Other users, on the site or on a client, dismiss what has an identifier that
\* one of theirs was given.  Their checksums are cleared thereafter.
OthersDismiss ==
  /\ \E id \in lent \intersect Ids(cloud) :
       /\ cloud' = [cloud EXCEPT ![id] = None]
       /\ late' = (late \/ id \in Mine)
  /\ Overtake
  /\ UNCHANGED <<sum, clearing, userVars, taskVars, givenVars, quits, gone, hit, torn>>

-----------------------------------------------------------------------------
(* The nightly run on the server *)

\* Mutant: one identifier is skipped.
NextIdentifierSkipping == Max(Ids(cloud) \union {0}) + 2

\* The highest identifier in use, plus one.
NextIdentifier == Max(Ids(cloud) \union {0}) + 1

\* What is there thirty days is gone.
Expire(store, ids) == [id \in Id |-> IF id \in ids THEN None ELSE store[id]]

\* A new notification is recorded, if there is any, for the user or for another
\* one, and others expire.  Clients cannot get at them meanwhile.
Night ==
  /\ \E expired \in SUBSET Ids(cloud), foreign \in BOOLEAN :
       \/ /\ made + quits < MaxEvents
          /\ made' = made + 1
          /\ cloud' = [Expire(cloud, expired) EXCEPT ![NextIdentifier] = made']
          /\ others' = IF foreign THEN others \union {made'} ELSE others
          /\ lent' = IF foreign THEN lent \union {NextIdentifier} ELSE lent
          /\ top' = Max({top, NextIdentifier})
          /\ hit' = IF NextIdentifier <= top THEN hit \union {made'} ELSE hit
       \/ /\ cloud' = Expire(cloud, expired)
          /\ UNCHANGED <<givenVars, hit>>
  /\ IF cloud' = cloud THEN UNCHANGED <<due, old>> ELSE Overtake
  /\ sum' = NoSum
  /\ late' = FALSE
  /\ UNCHANGED <<clearing, userVars, taskVars, quits, gone, torn>>

\* The server stops before it clears the checksum, and does not answer the clients
\* whose removals it was handling.  A checksum that it was calculating would be lost
\* without a trace, so that it is calculating none.
Restart ==
  /\ clearing # {} /\ due \union old = {}
  /\ made + quits < MaxEvents /\ quits' = quits + 1
  /\ clearing' = {}
  /\ late' = TRUE
  /\ pc' = [c \in Client |-> IF pc[c] = "ack" THEN "send" ELSE pc[c]]
  /\ failed' = [c \in Client |-> failed[c] \/ pc[c] = "ack"]
  /\ job' = [c \in Client |-> IF pc[c] = "ack" THEN 0 ELSE job[c]]
  /\ UNCHANGED <<cloud, sum, due, old, userVars, todo, news, seen, answer, givenVars, gone,
                 hit, torn>>

-----------------------------------------------------------------------------
(* The client sends the identifiers that were removed. *)

\* A handler is at work for the client, which waits for it.
Handled(c) ==
  \/ pc[c] = "ack" /\ job[c] \in clearing
  \/ pc[c] = "set" /\ answer[c] \in due \union old

To(c, where) == pc' = [pc EXCEPT ![c] = where]

EndTask(c) ==
  /\ To(c, "idle")
  /\ todo' = [todo EXCEPT ![c] = {}]
  /\ news' = [news EXCEPT ![c] = {}]
  /\ job' = [job EXCEPT ![c] = 0]
  /\ seen' = [seen EXCEPT ![c] = {}]
  /\ answer' = [answer EXCEPT ![c] = {}]
  /\ failed' = [failed EXCEPT ![c] = FALSE]

\* Mutant: what the client does not have counts as removed.
StartMissing(c) ==
  /\ pc[c] = "idle"
  /\ To(c, "send")
  /\ todo' = [todo EXCEPT ![c] = Id \ Ids(note[c])]
  /\ UNCHANGED <<cloudVars, userVars, news, job, seen, answer, failed, ghostVars>>

Start(c) ==
  /\ pc[c] = "idle"
  /\ To(c, "send")
  /\ todo' = [todo EXCEPT ![c] = removed[c]]
  /\ UNCHANGED <<cloudVars, userVars, news, job, seen, answer, failed, ghostVars>>

\* The server takes it away, whatever is stored there now.
ReceiveRemoval(c) ==
  /\ pc[c] = "send"
  /\ \E id \in todo[c] :
       /\ RemoveThere(id)
       /\ job' = [job EXCEPT ![c] = id]
       /\ todo' = [todo EXCEPT ![c] = @ \ {id}]
  /\ To(c, "ack")
  /\ UNCHANGED <<sum, userVars, news, seen, answer, failed, ghostVars>>

\* A request, or its answer, does not arrive.
SendFails(c) ==
  /\ \/ /\ pc[c] = "send"
        /\ \E id \in todo[c] : todo' = [todo EXCEPT ![c] = @ \ {id}]
     \/ pc[c] = "ack" /\ ~Handled(c) /\ UNCHANGED todo
  /\ To(c, "send")
  /\ failed' = [failed EXCEPT ![c] = TRUE]
  /\ job' = [job EXCEPT ![c] = 0]
  /\ UNCHANGED <<cloudVars, userVars, news, seen, answer, ghostVars>>

\* When the handler is done, removeRemovedChange reads the list ...
Confirmed(c) ==
  /\ pc[c] = "ack" /\ ~Handled(c)
  /\ seen' = [seen EXCEPT ![c] = removed[c]]
  /\ To(c, "unlist")
  /\ UNCHANGED <<cloudVars, userVars, todo, news, job, answer, failed, ghostVars>>

\* ... and writes it without this one.
Unlist(c) ==
  /\ pc[c] = "unlist"
  /\ removed' = [removed EXCEPT ![c] = seen[c] \ {job[c]}]
  /\ seen' = [seen EXCEPT ![c] = {}]
  /\ job' = [job EXCEPT ![c] = 0]
  /\ To(c, "send")
  /\ UNCHANGED <<cloudVars, note, own, edit, todo, news, answer, failed, ghostVars>>

\* Nothing is downloaded if a removal could not be sent.
SendDone(c) ==
  /\ pc[c] = "send" /\ todo[c] = {}
  /\ IF failed[c]
     THEN EndTask(c)
     ELSE To(c, "own") /\ UNCHANGED <<todo, news, job, seen, answer, failed>>
  /\ UNCHANGED <<cloudVars, userVars, ghostVars>>

-----------------------------------------------------------------------------
(* The client and the server compare their checksums. *)

OwnSum(c) ==
  /\ pc[c] = "own"
  /\ IF own[c] = NoSum
     THEN seen' = [seen EXCEPT ![c] = Ids(note[c])] /\ To(c, "cache")
     ELSE seen' = [seen EXCEPT ![c] = own[c]] /\ To(c, "sum")
  /\ UNCHANGED <<cloudVars, userVars, todo, news, job, answer, failed, ghostVars>>

CacheOwn(c) ==
  /\ pc[c] = "cache"
  /\ own' = [own EXCEPT ![c] = seen[c]]
  /\ To(c, "sum")
  /\ UNCHANGED <<cloudVars, note, removed, edit, todo, news, job, seen, answer,
                 failed, ghostVars>>

\* The server answers what it has cached, or calculates it ...
AskSum(c) ==
  /\ pc[c] = "sum"
  /\ IF sum = NoSum
     THEN /\ answer' = [answer EXCEPT ![c] = Mine]
          /\ due' = due \union {Mine}
          /\ To(c, "set")
     ELSE answer' = [answer EXCEPT ![c] = sum] /\ To(c, "compare") /\ UNCHANGED due
  /\ UNCHANGED <<cloud, sum, clearing, old, userVars, todo, news, job, seen, failed,
                 ghostVars>>

\* ... and caches it; its notifications may be others by now ...
CacheSum ==
  /\ \E s \in due \union old :
       /\ sum' = s
       /\ \/ s \in due /\ due' = due \ {s} /\ late' = FALSE /\ UNCHANGED old
          \/ s \in old /\ old' = old \ {s} /\ late' = TRUE /\ UNCHANGED due
  /\ UNCHANGED <<cloud, clearing, userVars, taskVars, givenVars, quits, gone, hit, torn>>

\* ... and then answers.
SumArrives(c) ==
  /\ pc[c] = "set" /\ ~Handled(c)
  /\ To(c, "compare")
  /\ UNCHANGED <<cloudVars, userVars, todo, news, job, seen, answer, failed, ghostVars>>

\* If they differ, the client reads its identifiers, before it asks for the
\* server's ones.
Compare(c) ==
  /\ pc[c] = "compare"
  /\ IF seen[c] = answer[c]
     THEN EndTask(c)
     ELSE /\ seen' = [seen EXCEPT ![c] = Ids(note[c])]
          /\ answer' = [answer EXCEPT ![c] = {}]
          /\ To(c, "ids")
          /\ UNCHANGED <<todo, news, job, failed>>
  /\ UNCHANGED <<cloudVars, userVars, ghostVars>>

-----------------------------------------------------------------------------
(* The client removes and downloads notifications. *)

AskIds(c) ==
  /\ pc[c] = "ids"
  /\ todo' = [todo EXCEPT ![c] = seen[c] \ Mine]
  /\ news' = [news EXCEPT ![c] = Mine \ seen[c]]
  /\ seen' = [seen EXCEPT ![c] = {}]
  /\ To(c, "get")
  /\ UNCHANGED <<cloudVars, userVars, job, answer, failed, ghostVars>>

RemoveHere(c) ==
  /\ pc[c] = "get"
  /\ \E id \in todo[c] :
       /\ note' = [note EXCEPT ![c][id] = None]
       /\ todo' = [todo EXCEPT ![c] = @ \ {id}]
  /\ To(c, "tidy")
  /\ UNCHANGED <<cloudVars, own, removed, edit, news, job, seen, answer, failed, ghostVars>>

\* The server answers with blanks for one that is gone, and the client stores
\* whatever it gets.
Download(c, id) ==
  /\ pc[c] = "get" /\ todo[c] = {} /\ id \in news[c]
  /\ note' = [note EXCEPT ![c][id] = IF cloud[id] = None THEN Blank ELSE cloud[id]]
  /\ news' = [news EXCEPT ![c] = @ \ {id}]
  /\ To(c, "tidy")
  /\ UNCHANGED <<cloudVars, own, removed, edit, todo, job, seen, answer, failed, ghostVars>>

\* Mutant: the client keeps the checksum that it has cached.
TidyKeeping(c) ==
  /\ pc[c] = "tidy"
  /\ To(c, "get")
  /\ UNCHANGED <<cloudVars, userVars, todo, news, job, seen, answer, failed, ghostVars>>

\* After either, it clears the checksum that it has cached.
Tidy(c) ==
  /\ pc[c] = "tidy"
  /\ own' = [own EXCEPT ![c] = NoSum]
  /\ torn' = torn \ {c}
  /\ To(c, "get")
  /\ UNCHANGED <<cloudVars, note, removed, edit, todo, news, job, seen, answer, failed,
                 givenVars, quits, gone, hit, late>>

\* All is received, the rest is skipped for errors, or a request failed and the
\* task returns.
ReceiveDone(c) ==
  /\ \/ pc[c] \in {"sum", "set", "ids"}
     \/ pc[c] = "get" /\ todo[c] = {}
  /\ ~Handled(c)
  /\ EndTask(c)
  /\ UNCHANGED <<cloudVars, userVars, ghostVars>>

Dismissing(c) ==
  IF edit[c] = NoEdit \/ edit[c].step = "clear" THEN {} ELSE {edit[c].id}

\* The client stops.  A dismissal that is not listed by then is none: the
\* notification will come back.
Quit(c) ==
  /\ pc[c] # "idle" \/ edit[c] # NoEdit
  /\ ~Handled(c)
  /\ made + quits < MaxEvents /\ quits' = quits + 1
  /\ EndTask(c)
  /\ edit' = [edit EXCEPT ![c] = NoEdit]
  /\ gone' = [gone EXCEPT ![c] = @ \ {cloud[id] : id \in Dismissing(c) \ removed[c]}]
  /\ torn' = IF pc[c] = "tidy" \/ edit[c] # NoEdit THEN torn \union {c} ELSE torn
  /\ UNCHANGED <<cloudVars, note, own, removed, givenVars, hit, late>>

-----------------------------------------------------------------------------
Save(c) == ReadRemoved(c) \/ WriteRemoved(c) \/ ClearOwn(c)
Send(c) ==
  \/ Start(c) \/ SendFails(c) \/ Unlist(c) \/ SendDone(c)
Fetch(c) ==
  \/ OwnSum(c) \/ CacheOwn(c) \/ Compare(c)
  \/ RemoveHere(c) \/ Tidy(c) \/ ReceiveDone(c)
Downloads(c) == \E id \in Id : Download(c, id)
Ask(c) == AskSum(c) \/ SumArrives(c) \/ AskIds(c) \/ Downloads(c)
Handle == ClearSum \/ CacheSum

Next ==
  \/ \E c \in Client :
       \/ Dismiss(c) \/ Save(c) \/ Quit(c)
       \/ Send(c) \/ ReceiveRemoval(c) \/ Confirmed(c) \/ Fetch(c) \/ Ask(c)
  \/ DismissThere \/ OthersDismiss \/ Handle \/ Night \/ Restart

Spec == Init /\ [][Next]_vars
-----------------------------------------------------------------------------
(* Properties *)

\* A notification that the user dismissed on a client, and that the server
\* still has, is listed to be removed there, or about to be: nothing else
\* tells the server, and the client would download it once more.
DismissedIsListed ==
  \A c \in Client : \A id \in Id :
    cloud[id] \in gone[c] \ hit => id \in removed[c] \union Dismissing(c)

\* The checksum that the server has cached is the one of the user's notifications
\* that it has, or clients rely on it that they are up to date when they are not.
\* It may be otherwise between a removal and the clearing, which are two steps;
\* after it cached one that was calculated before the last change; and where the
\* clearing did not happen, as the server stopped, or another user's client, which
\* clears another checksum, took one away.
SumIsTrue == sum # NoSum /\ clearing = {} /\ ~late => sum = Mine

\* A user's notifications go from the server when this user dismissed them or when
\* they expired: no client, of this user or of another one, has one removed that
\* it did not have, whatever identifiers it has listed.
OnlyDismissedGo ==
  [][\A id \in Id :
       cloud'[id] # cloud[id] /\ cloud[id] # None =>
         \/ cloud[id] \in hit \union UNION {gone[c] : c \in Client}
         \/ Night \/ (IF cloud[id] \in others THEN OthersDismiss ELSE DismissThere)]_vars

\* Fairness: the tasks of the clients are started time and again, and end; a
\* request succeeds in the end if it is tried time and again.
Fairness ==
  \A c \in Client :
    /\ WF_vars(Save(c)) /\ WF_vars(Send(c)) /\ WF_vars(Fetch(c))
    /\ SF_vars(ReceiveRemoval(c)) /\ SF_vars(Confirmed(c))
    /\ SF_vars(AskSum(c)) /\ SF_vars(SumArrives(c)) /\ SF_vars(AskIds(c))
    /\ SF_vars(Downloads(c))

FairSpec == Spec /\ Fairness /\ WF_vars(Handle)

\* Once the user rests, the clients have the user's notifications that the
\* server has, and those that the user dismissed are gone for good.  A checksum
\* that stays old puts that off until after the next change.
Resting == ~late /\ torn = {} /\ \A c \in Client : edit[c] = NoEdit
InStep ==
  \A c \in Client : \A id \in Id :
    \/ cloud[id] \in hit
    \/ /\ note[c][id] = IF id \in Mine THEN cloud[id] ELSE None
       /\ cloud[id] \notin gone[c]

Convergence == <>[]Resting => <>[]InStep
=============================================================================
