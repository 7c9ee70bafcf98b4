------------------------------ MODULE BibleSync ------------------------------
(***************************************************************************)
(* Send/receive of Bibles between Bibledit clients and Bibledit Cloud:     *)
(* the client's task (kernel/sendreceive/bibles.cpp), the user's saves     *)
(* that run beside it (kernel/bb/logic.cpp), the recorded Bible actions    *)
(* (kernel/database/bibleactions.cpp) and the server's handler             *)
(* (kernel/sync/bibles.cpp).                                               *)
(*                                                                         *)
(* Neither side takes a lock: every read and write of a database is a step *)
(* of its own where another thread can come in between and matter.         *)
(*                                                                         *)
(* Hazard names what the surroundings may do.  The first group are the     *)
(* windows between two statements in which another thread writes, the      *)
(* second are faults and habits:                                           *)
(*   "clear"   a save lands between reading a chapter and clearing its     *)
(*             action                                                      *)
(*   "restore" a save lands while the action of a failed send is restored  *)
(*   "apply"   a save lands between the last look at the client's chapter  *)
(*             and the store of the server's                               *)
(*   "compose" the task stores a chapter between the editor's read of it   *)
(*             and the editor's record                                     *)
(*   "server"  two requests for one chapter are handled at the same time   *)
(*   "reply"   the server handles a chapter but its answer gets lost       *)
(*   "quit"    the client stops while no chapter is underway               *)
(*   "crash"   the client stops while a chapter is underway                *)
(*   "restart" the server stops while it handles chapters                  *)
(*   "revert"  users put earlier wordings back                             *)
(*   "create"  users create chapters                                       *)
(* A lost or a refused request is always possible.  One window is closed   *)
(* throughout, at the guard of Receive: a request that its client stopped  *)
(* waiting for is handled to its end before the next one of that client.   *)
(***************************************************************************)
EXTENDS ChapterMerge, FiniteSets

CONSTANTS
  Client,      \* The clients, each with its sole user.
  Chapter,     \* The chapters of a book.
  Author,      \* For each verse the users who edit it.
  Writer,      \* The users with write access on the server.
  OnServer,    \* The chapters the server has at the start.
  OnClient,    \* For each client the chapters it has at the start.
  Connecting,  \* The clients that just connected to the Cloud.
  Hazard,      \* What the surroundings may do.
  MaxWord,     \* The bound on the wordings of a verse.
  NoAction,    \* No Bible action is recorded.
  NoEdit,      \* The user is not saving.
  NoRequest    \* The server is not handling a request.

Hazards == {"clear", "restore", "apply", "compose", "server", "reply", "quit",
            "crash", "restart", "revert", "create"}

ASSUME BibleSyncAssumption ==
  /\ Chapter \subseteq Nat /\ Chapter # {}
  /\ Author \in [Verse -> SUBSET Client]
  /\ Writer \subseteq Client
  /\ OnServer \subseteq Chapter
  /\ OnClient \in [Client -> SUBSET Chapter]
  /\ Connecting \subseteq Client
  /\ Hazard \subseteq Hazards
  /\ MaxWord \in Nat
  /\ NoAction \notin Text \union {NoText}
  /\ NoEdit \notin [chapter : Chapter, text : Text, recorded : BOOLEAN]
  /\ NoRequest \notin [chapter : Chapter, old : Text \union {NoText},
                       new : Text, seen : Text \union {NoText}]

VARIABLES
  server,  \* The chapters on the server.
  text,    \* The chapters on each client.
  action,  \* The base recorded with the Bible action of a chapter.
  first,   \* The flag that the client just connected to the Cloud.
  edit,    \* The save the user is making.
  pc,      \* Where the client's task is.
  todo,    \* The chapters the task still has to deal with.
  failed,  \* The task's communication_errors.
  job,     \* The task's current chapter ...
  old,     \* ... its oldusfm or old_usfm ...
  new,     \* ... its newusfm, and client_usfm while receiving ...
  got,     \* ... and its server_usfm.
  request  \* The request of this client that the server is handling.

clientVars == <<text, action, first, edit>>
taskVars == <<pc, todo, failed, job, old, new, got>>
vars == <<server, clientVars, taskVars, request>>

Maybe == Text \union {NoText}
PC == {"idle", "send", "clear", "post", "wait", "ack", "restore", "record",
       "list", "walk", "check", "store", "read", "merge", "put"}
Edits == [chapter : Chapter, text : Text, recorded : BOOLEAN]
Requests == [chapter : Chapter, old : Maybe, new : Text, seen : Maybe]

TypeOK ==
  /\ server \in [Chapter -> Maybe]
  /\ text \in [Client -> [Chapter -> Maybe]]
  /\ action \in [Client -> [Chapter -> Maybe \union {NoAction}]]
  /\ first \in [Client -> BOOLEAN]
  /\ edit \in [Client -> Edits \union {NoEdit}]
  /\ pc \in [Client -> PC]
  /\ todo \in [Client -> SUBSET Chapter]
  /\ failed \in [Client -> BOOLEAN]
  /\ job \in [Client -> Chapter]
  /\ old \in [Client -> Maybe]
  /\ new \in [Client -> Maybe]
  /\ got \in [Client -> Maybe]
  /\ request \in [Client -> Requests \union {NoRequest}]

\* What the chapters hold at the start: on the server, and where only a client
\* has the chapter, so that its user translated some of it.
StartText == [v \in Verse |-> 1]
LocalText(c) == [v \in Verse |-> IF c \in Author[v] THEN 2 ELSE Blank]

Init ==
  /\ server = [ch \in Chapter |-> IF ch \in OnServer THEN StartText ELSE NoText]
  /\ text = [c \in Client |-> [ch \in Chapter |->
               IF ch \notin OnClient[c] THEN NoText
               ELSE IF ch \in OnServer THEN StartText ELSE LocalText(c)]]
  /\ action = [c \in Client |-> [ch \in Chapter |-> NoAction]]
  /\ first = [c \in Client |-> c \in Connecting]
  /\ edit = [c \in Client |-> NoEdit]
  /\ pc = [c \in Client |-> "idle"]
  /\ todo = [c \in Client |-> {}]
  /\ failed = [c \in Client |-> FALSE]
  /\ job = [c \in Client |-> CHOOSE ch \in Chapter : TRUE]
  /\ old = [c \in Client |-> NoText]
  /\ new = [c \in Client |-> NoText]
  /\ got = [c \in Client |-> NoText]
  /\ request = [c \in Client |-> NoRequest]

-----------------------------------------------------------------------------
(* Bible actions *)

\* Mutant: the caller gets to see that there is no row.
BaseRaw(recorded) == recorded

\* bible_actions::get_usfm: no row and a row with an empty base look the same.
Base(recorded) == IF recorded = NoAction THEN NoText ELSE recorded

\* Mutants: a row replaces the one there is; an empty base is not recorded.
RecordLatest(recorded, usfm) == usfm
RecordNonEmpty(recorded, usfm) ==
  IF recorded = NoAction /\ usfm # NoText THEN usfm ELSE recorded

\* bible_actions::record: a row after one with an empty base is never read.
Record(recorded, usfm) == IF recorded = NoAction THEN usfm ELSE recorded

\* The chapters are dealt with in order.
IsFirst(ch, S) == \A other \in S : ch <= other

-----------------------------------------------------------------------------
(* The user saves: the editor reads, bible_logic::store_chapter records    *)
(* the action and then stores.                                             *)

\* The user's save of this chapter is before its record, or after it.
Composing(c, ch) == edit[c] # NoEdit /\ ~edit[c].recorded /\ edit[c].chapter = ch
Storing(c, ch) == edit[c] # NoEdit /\ edit[c].recorded /\ edit[c].chapter = ch

Compose(c) ==
  /\ edit[c] = NoEdit
  /\ \E ch \in Chapter, v \in Verse, word \in 0..MaxWord :
       LET current == IF text[c][ch] = NoText THEN BlankChapter ELSE text[c][ch]
       IN /\ c \in Author[v]
          /\ text[c][ch] # NoText \/ "create" \in Hazard
          /\ word > current[v] \/ ("revert" \in Hazard /\ word < current[v])
          /\ edit' = [edit EXCEPT ![c] =
               [chapter |-> ch, text |-> [current EXCEPT ![v] = word], recorded |-> FALSE]]
  /\ UNCHANGED <<server, text, action, first, taskVars, request>>

RecordEdit(c) ==
  /\ edit[c] # NoEdit
  /\ ~edit[c].recorded
  /\ LET ch == edit[c].chapter
     IN /\ "clear" \in Hazard \/ ~(pc[c] = "clear" /\ job[c] = ch)
        /\ "restore" \in Hazard \/ ~(pc[c] = "record" /\ job[c] = ch)
        /\ action' = [action EXCEPT ![c][ch] = Record(@, text[c][ch])]
  /\ edit' = [edit EXCEPT ![c].recorded = TRUE]
  /\ UNCHANGED <<server, text, first, taskVars, request>>

StoreEdit(c) ==
  /\ edit[c] # NoEdit
  /\ edit[c].recorded
  /\ "apply" \in Hazard \/ ~(pc[c] \in {"store", "merge", "put"} /\ job[c] = edit[c].chapter)
  /\ text' = [text EXCEPT ![c][edit[c].chapter] = edit[c].text]
  /\ edit' = [edit EXCEPT ![c] = NoEdit]
  /\ UNCHANGED <<server, action, first, taskVars, request>>

-----------------------------------------------------------------------------
(* The client sends the chapters that have an action. *)

\* The locals of the loop over the chapters go out of scope.
EndChapter(c, next) ==
  /\ pc' = [pc EXCEPT ![c] = next]
  /\ old' = [old EXCEPT ![c] = NoText]
  /\ new' = [new EXCEPT ![c] = NoText]
  /\ got' = [got EXCEPT ![c] = NoText]
  /\ UNCHANGED job

\* The task returns, and with it goes its communication_errors.
EndTask(c) ==
  /\ EndChapter(c, "idle")
  /\ todo' = [todo EXCEPT ![c] = {}]
  /\ failed' = [failed EXCEPT ![c] = FALSE]

Start(c) ==
  /\ pc[c] = "idle"
  /\ pc' = [pc EXCEPT ![c] = "send"]
  /\ todo' = [todo EXCEPT ![c] = {ch \in Chapter : action[c][ch] # NoAction}]
  /\ UNCHANGED <<server, clientVars, failed, job, old, new, got, request>>

ReadChapter(c) ==
  /\ pc[c] = "send"
  /\ \E ch \in todo[c] :
       /\ IsFirst(ch, todo[c])
       /\ "clear" \in Hazard \/ ~Storing(c, ch)
       /\ job' = [job EXCEPT ![c] = ch]
       /\ todo' = [todo EXCEPT ![c] = @ \ {ch}]
       /\ old' = [old EXCEPT ![c] = Base(action[c][ch])]
       /\ new' = [new EXCEPT ![c] = text[c][ch]]
  /\ pc' = [pc EXCEPT ![c] = "clear"]
  /\ UNCHANGED <<server, clientVars, failed, got, request>>

ClearAction(c) ==
  /\ pc[c] = "clear"
  /\ action' = [action EXCEPT ![c][job[c]] = NoAction]
  /\ IF new[c] \notin {old[c], NoText}
     THEN pc' = [pc EXCEPT ![c] = "post"] /\ UNCHANGED <<job, old, new, got>>
     ELSE EndChapter(c, "send")
  /\ UNCHANGED <<server, text, first, edit, todo, failed, request>>

\* The server confirmed the receipt with the checksum.
Confirmed(c) ==
  /\ pc[c] = "ack"
  /\ EndChapter(c, "send")
  /\ UNCHANGED <<server, clientVars, todo, failed, request>>

\* Mutant: the action of a chapter that could not be sent is not restored.
SendFailsForgetful(c) ==
  /\ pc[c] = "post" \/ ("reply" \in Hazard /\ pc[c] \in {"wait", "ack"})
  /\ EndChapter(c, "send")
  /\ failed' = [failed EXCEPT ![c] = TRUE]
  /\ UNCHANGED <<server, clientVars, todo, request>>

\* A communication error, or an answer other than the checksum.
SendFails(c) ==
  /\ pc[c] = "post" \/ ("reply" \in Hazard /\ pc[c] \in {"wait", "ack"})
  /\ pc' = [pc EXCEPT ![c] = "restore"]
  /\ failed' = [failed EXCEPT ![c] = TRUE]
  /\ UNCHANGED <<server, clientVars, todo, job, old, new, got, request>>

RestoreErase(c) ==
  /\ pc[c] = "restore"
  /\ action' = [action EXCEPT ![c][job[c]] = NoAction]
  /\ pc' = [pc EXCEPT ![c] = "record"]
  /\ UNCHANGED <<server, text, first, edit, todo, failed, job, old, new, got, request>>

\* Mutant: the text that was not sent is recorded as the base.
RestoreRecordNew(c) ==
  /\ pc[c] = "record"
  /\ action' = [action EXCEPT ![c][job[c]] = Record(@, new[c])]
  /\ EndChapter(c, "send")
  /\ UNCHANGED <<server, text, first, edit, todo, failed, request>>

RestoreRecord(c) ==
  /\ pc[c] = "record"
  /\ action' = [action EXCEPT ![c][job[c]] = Record(@, old[c])]
  /\ EndChapter(c, "send")
  /\ UNCHANGED <<server, text, first, edit, todo, failed, request>>

SendDone(c) ==
  /\ pc[c] = "send"
  /\ todo[c] = {}
  /\ IF failed[c]
     THEN EndTask(c)
     ELSE pc' = [pc EXCEPT ![c] = "list"] /\ UNCHANGED <<todo, failed, job, old, new, got>>
  /\ UNCHANGED <<server, clientVars, request>>

-----------------------------------------------------------------------------
(* The server handles a chapter: it reads its own version, then stores.    *)

\* The handler of a request that the client gave up on takes less time than the
\* client takes to give up, to restore the action and to post again.
AbandonedIsHandled(c) == request[c] = NoRequest

\* Mutant: who has no write access gets an error instead of the checksum.
ReceiveRefusing(c) ==
  /\ pc[c] = "post"
  /\ AbandonedIsHandled(c)
  /\ IF c \in Writer
     THEN /\ request' = [request EXCEPT ![c] =
               [chapter |-> job[c], old |-> old[c], new |-> new[c], seen |-> server[job[c]]]]
          /\ pc' = [pc EXCEPT ![c] = "wait"]
          /\ UNCHANGED failed
     ELSE /\ pc' = [pc EXCEPT ![c] = "restore"]
          /\ failed' = [failed EXCEPT ![c] = TRUE]
          /\ UNCHANGED request
  /\ UNCHANGED <<server, clientVars, todo, job, old, new, got>>

Receive(c) ==
  /\ pc[c] = "post"
  /\ AbandonedIsHandled(c)
  /\ IF c \in Writer
     THEN /\ \/ "server" \in Hazard
             \/ \A d \in Client : request[d] # NoRequest => request[d].chapter # job[c]
          /\ request' = [request EXCEPT ![c] =
               [chapter |-> job[c], old |-> old[c], new |-> new[c], seen |-> server[job[c]]]]
          /\ pc' = [pc EXCEPT ![c] = "wait"]
     ELSE \* No write access: mail the user, and return the checksum.
          /\ pc' = [pc EXCEPT ![c] = "ack"]
          /\ UNCHANGED request
  /\ UNCHANGED <<server, clientVars, todo, failed, job, old, new, got>>

\* Mutant: the client's text wins a conflict.
OutcomeSwapped(r) ==
  IF r.seen = NoText THEN r.new ELSE Merge(r.old, r.seen, r.new)

\* Mutant: the server does not take up a chapter that it does not have.
OutcomeLost(r) ==
  IF r.seen = NoText THEN NoText ELSE Merge(r.old, r.new, r.seen)

\* What the server stores for a request.
Outcome(r) ==
  IF r.seen = NoText THEN r.new ELSE Merge(r.old, r.new, r.seen)

StoreReceived(c) ==
  /\ request[c] # NoRequest
  /\ LET r == request[c]
     IN server' = IF r.new = r.seen THEN server
                  ELSE [server EXCEPT ![r.chapter] = Outcome(r)]
  /\ request' = [request EXCEPT ![c] = NoRequest]
  /\ pc' = [pc EXCEPT ![c] = IF @ = "wait" THEN "ack" ELSE @]
  /\ UNCHANGED <<clientVars, todo, failed, job, old, new, got>>

-----------------------------------------------------------------------------
(* The client receives the chapters that differ. *)

OnlyOnClient(c) == {ch \in Chapter : text[c][ch] # NoText /\ server[ch] = NoText}

\* The totals are the same, or cannot be had: the task is done.
NothingToReceive(c) ==
  /\ pc[c] = "list"
  /\ EndTask(c)
  /\ UNCHANGED <<server, clientVars, request>>

ListChapters(c) ==
  /\ pc[c] = "list"
  /\ text[c] # server
  /\ todo' = [todo EXCEPT ![c] = {ch \in Chapter : server[ch] # NoText}]
  /\ LET surplus == OnlyOnClient(c)
     IN IF first[c]
        THEN /\ action' = [action EXCEPT ![c] = [ch \in Chapter |->
                  IF ch \in surplus THEN Record(@[ch], NoText) ELSE @[ch]]]
             /\ UNCHANGED text
        ELSE /\ IF surplus = {}
                THEN UNCHANGED text
                ELSE \E ch \in surplus : /\ IsFirst(ch, surplus)
                                         /\ text' = [text EXCEPT ![c][ch] = NoText]
             /\ UNCHANGED action
  /\ pc' = [pc EXCEPT ![c] = "walk"]
  /\ UNCHANGED <<server, first, edit, failed, job, old, new, got, request>>

\* The checksums of the chapter are the same, or a request failed.
SkipChapter(c) ==
  /\ pc[c] = "walk"
  /\ \E ch \in todo[c] :
       /\ IsFirst(ch, todo[c])
       /\ todo' = [todo EXCEPT ![c] = @ \ {ch}]
       /\ \/ text[c][ch] = server[ch] /\ UNCHANGED failed
          \/ failed' = [failed EXCEPT ![c] = TRUE]
  /\ UNCHANGED <<server, clientVars, pc, job, old, new, got, request>>

GetChapter(c) ==
  /\ pc[c] = "walk"
  /\ \E ch \in todo[c] :
       /\ IsFirst(ch, todo[c])
       /\ text[c][ch] # server[ch]
       /\ job' = [job EXCEPT ![c] = ch]
       /\ todo' = [todo EXCEPT ![c] = @ \ {ch}]
       /\ got' = [got EXCEPT ![c] = server[ch]]
  /\ pc' = [pc EXCEPT ![c] = "check"]
  /\ UNCHANGED <<server, clientVars, failed, old, new, request>>

\* Mutant: the server's chapter replaces the client's in any case.
CheckActionBlind(c) ==
  /\ pc[c] = "check"
  /\ pc' = [pc EXCEPT ![c] = "store"]
  /\ UNCHANGED <<server, clientVars, todo, failed, job, old, new, got, request>>

CheckAction(c) ==
  /\ pc[c] = "check"
  /\ old' = [old EXCEPT ![c] = Base(action[c][job[c]])]
  /\ pc' = [pc EXCEPT ![c] = IF Base(action[c][job[c]]) = NoText THEN "store" ELSE "read"]
  /\ UNCHANGED <<server, clientVars, todo, failed, job, new, got, request>>

\* The editor is not between its read of this chapter and its record.
NotComposing(c) == "compose" \in Hazard \/ ~Composing(c, job[c])

StoreServer(c) ==
  /\ pc[c] = "store"
  /\ NotComposing(c)
  /\ text' = [text EXCEPT ![c][job[c]] = got[c]]
  /\ EndChapter(c, "walk")
  /\ UNCHANGED <<server, action, first, edit, todo, failed, request>>

ReadMine(c) ==
  /\ pc[c] = "read"
  /\ new' = [new EXCEPT ![c] = text[c][job[c]]]
  /\ pc' = [pc EXCEPT ![c] = "merge"]
  /\ UNCHANGED <<server, clientVars, todo, failed, job, old, got, request>>

\* bible_logic::store_chapter, called by the task: it records, then stores.
RecordMerged(c) ==
  /\ pc[c] = "merge"
  /\ action' = [action EXCEPT ![c][job[c]] = Record(@, text[c][job[c]])]
  /\ pc' = [pc EXCEPT ![c] = "put"]
  /\ UNCHANGED <<server, text, first, edit, todo, failed, job, old, new, got, request>>

StoreMerged(c) ==
  /\ pc[c] = "put"
  /\ NotComposing(c)
  /\ text' = [text EXCEPT ![c][job[c]] = Merge(old[c], new[c], got[c])]
  /\ EndChapter(c, "walk")
  /\ UNCHANGED <<server, action, first, edit, todo, failed, request>>

ReceiveDone(c) ==
  /\ pc[c] = "walk"
  /\ todo[c] = {}
  /\ first' = [first EXCEPT ![c] = @ /\ failed[c]]
  /\ EndTask(c)
  /\ UNCHANGED <<server, text, action, edit, request>>

-----------------------------------------------------------------------------
(* Client and server stop; what is in their databases stays. *)

Underway(c) == pc[c] \in {"post", "wait", "ack", "restore", "record"}

Quit(c) ==
  /\ pc[c] # "idle" \/ edit[c] # NoEdit
  /\ IF Underway(c) THEN "crash" \in Hazard ELSE "quit" \in Hazard
  /\ EndTask(c)
  /\ edit' = [edit EXCEPT ![c] = NoEdit]
  /\ UNCHANGED <<server, text, action, first, request>>

Restart ==
  /\ "restart" \in Hazard
  /\ \E c \in Client : request[c] # NoRequest
  /\ request' = [c \in Client |-> NoRequest]
  /\ pc' = [c \in Client |-> IF pc[c] = "wait" THEN "restore" ELSE pc[c]]
  /\ failed' = [c \in Client |-> failed[c] \/ pc[c] = "wait"]
  /\ UNCHANGED <<server, clientVars, todo, job, old, new, got>>

-----------------------------------------------------------------------------
Save(c) == Compose(c) \/ RecordEdit(c) \/ StoreEdit(c)

Send(c) ==
  \/ Start(c) \/ ReadChapter(c) \/ ClearAction(c) \/ Confirmed(c)
  \/ SendFails(c) \/ RestoreErase(c) \/ RestoreRecord(c) \/ SendDone(c)

Handle(c) == Receive(c) \/ StoreReceived(c)

Fetch(c) ==
  \/ NothingToReceive(c) \/ ListChapters(c) \/ SkipChapter(c) \/ GetChapter(c)
  \/ CheckAction(c) \/ StoreServer(c) \/ ReadMine(c) \/ RecordMerged(c)
  \/ StoreMerged(c) \/ ReceiveDone(c)

Next ==
  \/ \E c \in Client : Save(c) \/ Send(c) \/ Handle(c) \/ Fetch(c) \/ Quit(c)
  \/ Restart

Spec == Init /\ [][Next]_vars
-----------------------------------------------------------------------------
(* Properties *)

\* The verses of a translator who has write access and shares them with nobody.
Own(c) == {v \in Verse : Author[v] = {c} /\ c \in Writer}

\* What a client has and the server lacks is recorded as an action, or is
\* being sent: otherwise nothing would ever send it (the reason bible_logic
\* records the action before it stores, and sendreceive restores it).
Carried(c, ch) ==
  \/ action[c][ch] # NoAction
  \/ Underway(c) /\ job[c] = ch

UnsentIsRecorded ==
  \A c \in Client, ch \in Chapter : \A v \in Own(c) :
    text[c][ch] # NoText /\ VerseText(server[ch], v) # text[c][ch][v] => Carried(c, ch)

\* The client's task never changes a verse that is its user's own: only the
\* user's saves do (bibles.cpp: "the edits made by the user should not be
\* overwritten by downloading the newest chapter from the server").
OwnVerseKept(c, ch) ==
  \A v \in Own(c) :
    text[c][ch] # NoText => VerseText(text'[c][ch], v) = text[c][ch][v]

EditsKept ==
  [][\A c \in Client, ch \in Chapter : OwnVerseKept(c, ch) \/ StoreEdit(c)]_vars

\* A chapter that the server confirmed is on the server: "Returning the
\* checksum serves as a confirmation to the client that the Cloud properly
\* received the chapter".
ConfirmedIsStored ==
  \A c \in Client : \A v \in Own(c) :
    pc[c] = "ack" => VerseText(server[job[c]], v) = new[c][v]

\* The server never goes back to an earlier wording of a verse that has one
\* author: the merge of an old copy of it, sent by another client, loses.
ServerMovesOn ==
  [][\A ch \in Chapter, c \in Client : \A v \in Own(c) :
       VerseText(server'[ch], v) >= VerseText(server[ch], v)]_vars

-----------------------------------------------------------------------------
(* Fairness: the operating system schedules the threads, the timer queues  *)
(* the task again and again (kernel/timer/index.cpp), and a request that   *)
(* is retried forever gets through.                                        *)

\* The server answers while the client still waits for it.
Answer(c) == pc[c] = "wait" /\ StoreReceived(c)

Fairness ==
  \A c \in Client :
    /\ WF_vars(RecordEdit(c)) /\ WF_vars(StoreEdit(c))
    /\ WF_vars(Send(c)) /\ WF_vars(Fetch(c)) /\ WF_vars(StoreReceived(c))
    /\ SF_vars(Receive(c)) /\ SF_vars(Answer(c)) /\ SF_vars(Confirmed(c))
    /\ SF_vars(ListChapters(c)) /\ SF_vars(GetChapter(c))

FairSpec == Spec /\ Fairness

\* Whatever went wrong on the way, once the users stop editing every client
\* gets the text of the server, and nothing is left to send.
Resting == \A c \in Client : edit[c] = NoEdit
InStep ==
  \A c \in Client, ch \in Chapter : text[c][ch] = server[ch] /\ action[c][ch] = NoAction

Convergence == <>[]Resting => <>[]InStep

\* The chapters that a client brings along when it connects to the Cloud stay
\* on it, through its first synchronization and the later ones ("It does not
\* delete any chapters, but rather sends them to the Cloud").
BroughtAlongStays ==
  \A c \in Connecting : \A ch \in OnClient[c] : text[c][ch] # NoText

\* And they reach the server.
BroughtAlongArrives ==
  \A c \in Connecting : \A ch \in Chapter :
    ch \in OnClient[c] => <>[](server[ch] # NoText)
=============================================================================
