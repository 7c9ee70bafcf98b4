------------------------------ MODULE NotesSync ------------------------------
(***************************************************************************)
(* Send/receive of a consultation note between Bibledit clients and        *)
(* Bibledit Cloud: the client's task (kernel/sendreceive/notes.cpp), the   *)
(* user's changes beside it (kernel/notes/logic.cpp), the recorded note    *)
(* actions (kernel/database/noteactions.cpp), the server's handlers        *)
(* (kernel/sync/notes.cpp), and the checksums that tell a client what to   *)
(* download (kernel/database/notes.cpp, kernel/database/state.cpp).        *)
(*                                                                         *)
(* One note is modelled: notes meet only in the checksum of a range.  The  *)
(* order of the comments in a note is abstracted, how often each is there  *)
(* is not.  The passages stand for the fields of which the server does not *)
(* refresh the checksum, the status for the summary, severity and Bible,   *)
(* of which it does; all of these are read when they are sent, whereas a   *)
(* comment travels with its action.                                        *)
(*                                                                         *)
(* Hazard names what the surroundings may do:                              *)
(*   "check"  the user changes the note between the task's look for        *)
(*            actions and its store or erasure of the note                 *)
(*   "late"   the task looks for actions after the user's change, before   *)
(*            the action of that change is recorded                        *)
(*   "cache"  a note changes between the computation of a range's checksum *)
(*            and its caching                                              *)
(*   "server" two requests are handled at the same time                    *)
(*   "reply"  the server handles an action but its answer gets lost        *)
(*   "quit"   the client stops                                             *)
(* A lost request is always possible.  One window is closed throughout, at *)
(* the guard of Receive: a request that its client stopped waiting for is  *)
(* handled to its end before the next one of that client.                  *)
(***************************************************************************)
EXTENDS Integers, FiniteSets, Sequences

CONSTANTS
  Client,      \* The clients, each with its sole user.
  Ops,         \* For each client what its user does to the note.
  Creator,     \* The clients that have yet to create the note: at most one.
  MaxEdits,    \* The bound on the changes a user makes.
  Hazard,      \* What the surroundings may do.
  NoRequest,   \* The server is not handling a request.
  NoSum,       \* There is no checksum.
  Nothing      \* An empty field, or no change.

Operations == {"comment", "status", "passages", "delete"}
Hazards == {"check", "late", "cache", "server", "reply", "quit"}

\* The changes of a user are numbered, and a comment is named after its change.
Comment == Client \X (1..MaxEdits)
Contents == [Comment -> Nat]
Chosen == {"New", "Done"}
Status == Chosen \union {"Reopened", Nothing}
Passages == 0..MaxEdits
Fields == [contents : Contents, status : Status, passages : Passages \union {Nothing}]
Note == [listed : BOOLEAN, fields : Fields]

Kind == {"create", "contents", "comment", "status", "passages", "delete"}
Row == [row : Nat, kind : Kind, content : Contents]

\* What a handler has still to do after its first step: to make the note, to
\* reopen it, or to refresh the checksum, after a comment or otherwise.
Phase == {"made", "reopen", "commented", "sum"}
Request == [kind : Kind \union Phase, content : Fields, seen : Note]

ASSUME NotesSyncAssumption ==
  /\ Ops \in [Client -> SUBSET Operations]
  /\ Creator \subseteq Client /\ Cardinality(Creator) <= 1
  /\ MaxEdits \in Nat
  /\ Hazard \subseteq Hazards
  /\ Nothing \notin Chosen \union {"Reopened"} \union Kind
  /\ Nothing \notin Passages
  /\ NoRequest \notin Request

VARIABLES
  server,   \* The note on the server: its row in the index, and its file.
  sum,      \* The checksum of the note in the server's database.
  cache,    \* The checksum of the range in the server's database.
  note,     \* The note on each client.
  actions,  \* The rows of the note actions of each client.
  edit,     \* The user's change of which the action is to be recorded.
  made,     \* The changes the user made.
  pc,       \* Where the client's task is.
  batch,    \* The task's note_actions that it still has to send.
  heard,    \* The checksum of the range that the server computed for the task.
  got,      \* The fields the server sent.
  request   \* The request of this client that the server is handling.

serverVars == <<server, sum, cache>>
userVars == <<note, actions, edit, made>>
taskVars == <<pc, batch, heard, got>>
vars == <<serverVars, userVars, taskVars, request>>

PC == {"idle", "send", "wait", "ack", "refresh", "contents", "keep", "total",
       "cache", "identifiers", "erase", "bulk", "save"}

NoComments == [k \in Comment |-> 0]
EmptyFields == [contents |-> NoComments, status |-> Nothing, passages |-> Nothing]
NewFields == [contents |-> NoComments, status |-> "New", passages |-> 0]

\* No row in the index and no file.
Gone == [listed |-> FALSE, fields |-> EmptyFields]

\* A checksum is abstracted to what it is computed from: the fields.  The
\* checksum of a range is that of the checksums of the notes it lists.
RangeSum(listed, s) == IF listed THEN {s} ELSE {}
Sum == Fields \union {NoSum}

TypeOK ==
  /\ server \in Note
  /\ sum \in Sum
  /\ cache # NoSum => cache \in SUBSET Sum
  /\ note \in [Client -> Note]
  /\ actions \in [Client -> SUBSET Row]
  /\ edit \in [Client -> {"comment", "status", "passages", "create", "contents", Nothing}]
  /\ made \in [Client -> Seq(Operations \union {"create"})]
  /\ pc \in [Client -> PC]
  /\ batch \in [Client -> SUBSET Row]
  /\ heard \in [Client -> SUBSET Sum]
  /\ got \in [Client -> Fields]
  /\ request \in [Client -> Request \union {NoRequest}]

\* The note is there for all, or its creator is going to make it.
Init ==
  LET start == IF Creator = {} THEN [listed |-> TRUE, fields |-> NewFields] ELSE Gone
  IN /\ server = start
     /\ sum = IF start.listed THEN start.fields ELSE NoSum
     /\ cache = NoSum
     /\ note = [c \in Client |-> start]
     /\ actions = [c \in Client |-> {}]
     /\ edit = [c \in Client |-> Nothing]
     /\ made = [c \in Client |-> <<>>]
     /\ pc = [c \in Client |-> "idle"]
     /\ batch = [c \in Client |-> {}]
     /\ heard = [c \in Client |-> {}]
     /\ got = [c \in Client |-> EmptyFields]
     /\ request = [c \in Client |-> NoRequest]

-----------------------------------------------------------------------------
(* Note actions *)

\* SQLite numbers a row one above the highest number in the table.
NextRow(rows) ==
  IF rows = {} THEN 1 ELSE 1 + (CHOOSE r \in rows : \A q \in rows : q.row <= r.row).row

\* Database_NoteActions::record
Record(rows, kind, content) ==
  rows \union {[row |-> NextRow(rows), kind |-> kind, content |-> content]}

\* getNoteData returns the rows in the order of their numbers.
FirstRow(rows) == CHOOSE r \in rows : \A q \in rows : r.row <= q.row

-----------------------------------------------------------------------------
(* The user changes the note, and then the action is recorded. *)

Just(k) == [NoComments EXCEPT ![k] = 1]
PlusComment(contents, k) == [contents EXCEPT ![k] = @ + 1]

\* The window between the look for actions and the store is not to be hit.
MayChange(c) == "check" \in Hazard \/ pc[c] \notin {"erase", "bulk", "save"}

Change(c, kind, fields) ==
  /\ note[c].listed
  /\ kind \in Ops[c]
  /\ edit[c] = Nothing
  /\ Len(made[c]) < MaxEdits
  /\ MayChange(c)
  /\ note' = [note EXCEPT ![c].fields = fields]
  /\ edit' = [edit EXCEPT ![c] = kind]
  /\ made' = [made EXCEPT ![c] = Append(@, kind)]
  /\ UNCHANGED <<serverVars, actions, taskVars, request>>

AddComment(c) ==
  /\ Len(made[c]) < MaxEdits
  /\ Change(c, "comment", [note[c].fields EXCEPT
       !.contents = PlusComment(@, <<c, Len(made[c]) + 1>>)])

SetStatus(c) ==
  \E status \in Chosen \ {note[c].fields.status} :
    Change(c, "status", [note[c].fields EXCEPT !.status = status])

SetPassages(c) ==
  Change(c, "passages", [note[c].fields EXCEPT !.passages = Len(made[c]) + 1])

\* The note starts with a comment of its creator.
CreateNote(c) ==
  /\ c \in Creator
  /\ made[c] = <<>>
  /\ MaxEdits > 0
  /\ MayChange(c)
  /\ note' = [note EXCEPT ![c] =
       [listed |-> TRUE, fields |-> [NewFields EXCEPT !.contents = Just(<<c, 1>>)]]]
  /\ edit' = [edit EXCEPT ![c] = "create"]
  /\ made' = [made EXCEPT ![c] = <<"create">>]
  /\ UNCHANGED <<serverVars, actions, taskVars, request>>

\* The rows of a new note are recorded one by one.
NextEdit(kind) ==
  CASE kind = "create" -> "contents"
    [] kind = "contents" -> "passages"
    [] OTHER -> Nothing

\* Only comments, and the contents of a new note, travel with their action.
Recorded(c) ==
  CASE edit[c] = "comment" -> Just(<<c, Len(made[c])>>)
    [] edit[c] = "contents" -> note[c].fields.contents
    [] OTHER -> NoComments

\* Of the six rows of a new note three are modelled: those of the summary and
\* the Bible are like those of a status, and the last one only notifies people.
RecordAction(c) ==
  /\ edit[c] # Nothing
  /\ actions' = [actions EXCEPT ![c] = Record(@, edit[c], Recorded(c))]
  /\ edit' = [edit EXCEPT ![c] = NextEdit(@)]
  /\ UNCHANGED <<serverVars, note, made, taskVars, request>>

\* An erasure is recorded first.
EraseNote(c) ==
  /\ "delete" \in Ops[c]
  /\ note[c].listed
  /\ edit[c] = Nothing
  /\ Len(made[c]) < MaxEdits
  /\ MayChange(c)
  /\ actions' = [actions EXCEPT ![c] = Record(@, "delete", NoComments)]
  /\ note' = [note EXCEPT ![c] = Gone]
  /\ made' = [made EXCEPT ![c] = Append(@, "delete")]
  /\ UNCHANGED <<serverVars, edit, taskVars, request>>

-----------------------------------------------------------------------------
(* The client uploads the actions of the note one by one. *)

EndTask(c) ==
  /\ pc' = [pc EXCEPT ![c] = "idle"]
  /\ batch' = [batch EXCEPT ![c] = {}]
  /\ heard' = [heard EXCEPT ![c] = {}]
  /\ got' = [got EXCEPT ![c] = EmptyFields]

Start(c) ==
  /\ pc[c] = "idle"
  /\ batch' = [batch EXCEPT ![c] = actions[c]]
  /\ pc' = [pc EXCEPT ![c] = IF actions[c] = {} THEN "total" ELSE "send"]
  /\ UNCHANGED <<serverVars, userVars, heard, got, request>>

\* What is posted: the content of the row, or what the note has now.
Posted(c, r) == [note[c].fields EXCEPT !.contents = r.content]

\* The handler of a request that the client gave up on takes less time than the
\* client takes to give up and to start its task again.
AbandonedIsHandled(c) == request[c] = NoRequest

\* The request arrives and its handler reads the note.
Receive(c) ==
  /\ pc[c] = "send"
  /\ batch[c] # {}
  /\ AbandonedIsHandled(c)
  /\ "server" \in Hazard \/ \A d \in Client : request[d] = NoRequest
  /\ LET r == FirstRow(batch[c])
     IN request' = [request EXCEPT ![c] =
          [kind |-> r.kind, content |-> Posted(c, r), seen |-> server]]
  /\ pc' = [pc EXCEPT ![c] = "wait"]
  /\ UNCHANGED <<serverVars, userVars, batch, heard, got>>

\* Mutant: all rows of the note are deleted once one has been dealt with.
ConfirmAll(c) ==
  /\ pc[c] = "ack"
  /\ actions' = [actions EXCEPT ![c] = {}]
  /\ batch' = [batch EXCEPT ![c] = @ \ {FirstRow(@)}]
  /\ pc' = [pc EXCEPT ![c] = "send"]
  /\ UNCHANGED <<serverVars, note, edit, made, heard, got, request>>

\* Mutant: the row stays.
ConfirmNone(c) ==
  /\ pc[c] = "ack"
  /\ batch' = [batch EXCEPT ![c] = @ \ {FirstRow(@)}]
  /\ pc' = [pc EXCEPT ![c] = "send"]
  /\ UNCHANGED <<serverVars, userVars, heard, got, request>>

\* The action has been dealt with: its row is deleted.
Confirm(c) ==
  /\ pc[c] = "ack"
  /\ LET r == FirstRow(batch[c])
     IN /\ actions' = [actions EXCEPT ![c] = {q \in @ : q.row # r.row}]
        /\ batch' = [batch EXCEPT ![c] = @ \ {r}]
  /\ pc' = [pc EXCEPT ![c] = "send"]
  /\ UNCHANGED <<serverVars, note, edit, made, heard, got, request>>

\* The upload fails, and then there is no download.
SendFails(c) ==
  /\ \/ pc[c] = "send" /\ batch[c] # {}
     \/ "reply" \in Hazard /\ pc[c] \in {"wait", "ack"}
  /\ EndTask(c)
  /\ UNCHANGED <<serverVars, userVars, request>>

AllSent(c) ==
  /\ pc[c] = "send"
  /\ batch[c] = {}
  /\ pc' = [pc EXCEPT ![c] = "refresh"]
  /\ UNCHANGED <<serverVars, userVars, batch, heard, got, request>>

-----------------------------------------------------------------------------
(* The server handles an action. *)

\* Mutant: the checksum of the range is not erased.
SetChecksumStale(fields) ==
  /\ sum' = fields
  /\ UNCHANGED cache

\* set_checksum leaves the range alone if the checksum of the note was right.
SetChecksum(fields) ==
  /\ sum' = fields
  /\ cache' = IF fields = sum THEN cache ELSE NoSum

\* What a handler makes of the note file it read.  A handler of a note that
\* is gone writes a file with one field, and adds no row to the index.  The
\* creation first erases what there may be under the note's identifier.
Put(fields, kind, content) ==
  CASE kind = "made" -> NewFields
    [] kind = "contents" -> [fields EXCEPT !.contents = content.contents]
    [] kind = "comment" ->
         [fields EXCEPT !.contents = [k \in Comment |-> @[k] + content.contents[k]]]
    [] kind = "status" -> [fields EXCEPT !.status = content.status]
    [] kind = "reopen" -> [fields EXCEPT !.status = "Reopened"]
    [] kind = "passages" -> [fields EXCEPT !.passages = content.passages]
    [] kind \in {"create", "delete"} -> EmptyFields

\* The handler is done, and answers.
Answered(c) ==
  /\ request' = [request EXCEPT ![c] = NoRequest]
  /\ pc' = [pc EXCEPT ![c] = IF @ = "wait" THEN "ack" ELSE @]

\* The handler goes on with the note as it is now.
GoesOn(c, phase) ==
  /\ request' = [request EXCEPT ![c] = 
       [kind |-> phase, content |-> EmptyFields, seen |-> server']]
  /\ UNCHANGED pc

\* A handler that sets a field refreshes the checksum after it.
HandlesOn(c, kind) ==
  \/ kind = "create" /\ GoesOn(c, "made")
  \/ kind = "comment" /\ GoesOn(c, "commented")
  \/ kind \in {"made", "contents", "status", "reopen"} /\ GoesOn(c, "sum")
  \/ kind \in {"passages", "delete"} /\ Answered(c)

\* Mutant: a handler that makes a file also lists it.
HandleListing(c) ==
  /\ request[c] # NoRequest
  /\ request[c].kind \notin {"commented", "sum"}
  /\ LET r == request[c]
     IN /\ server' = [listed |-> r.kind \notin {"create", "delete"},
                      fields |-> Put(r.seen.fields, r.kind, r.content)]
        /\ IF r.kind \in {"create", "delete"}
           THEN sum' = NoSum /\ cache' = NoSum
           ELSE UNCHANGED <<sum, cache>>
        /\ HandlesOn(c, r.kind)
  /\ UNCHANGED <<userVars, batch, heard, got>>

\* The handler writes the note file, and erases or adds the row in the index.
Handle(c) ==
  /\ request[c] # NoRequest
  /\ request[c].kind \notin {"commented", "sum"}
  /\ LET r == request[c]
     IN /\ server' =
             [listed |-> (server.listed \/ r.kind = "made") /\ r.kind \notin {"create", "delete"},
              fields |-> Put(r.seen.fields, r.kind, r.content)]
        /\ IF r.kind \in {"create", "delete"}
           THEN sum' = NoSum /\ cache' = NoSum
           ELSE UNCHANGED <<sum, cache>>
        /\ HandlesOn(c, r.kind)
  /\ UNCHANGED <<userVars, batch, heard, got>>

\* Then it refreshes the checksum; and a comment on a note that is done has
\* the note reopened.
UpdateChecksum(c) ==
  /\ request[c] # NoRequest
  /\ request[c].kind \in {"commented", "sum"}
  /\ SetChecksum(server.fields)
  /\ UNCHANGED <<server, userVars, batch, heard, got>>
  /\ IF request[c].kind = "commented" /\ server.fields.status = "Done"
     THEN GoesOn(c, "reopen")
     ELSE Answered(c)

-----------------------------------------------------------------------------
(* After its actions the client gets the parts of the note that the server *)
(* may have changed; it goes on if it does not get them.                   *)

\* The request for the summary refreshes the checksum on the server.
Refresh(c) ==
  /\ pc[c] = "refresh"
  /\ pc' = [pc EXCEPT ![c] = "contents"]
  /\ SetChecksum(server.fields) \/ UNCHANGED <<sum, cache>>
  /\ UNCHANGED <<server, userVars, batch, heard, got, request>>

GetContents(c) ==
  /\ pc[c] = "contents"
  /\ \/ /\ got' = [got EXCEPT ![c] = server.fields]
        /\ pc' = [pc EXCEPT ![c] = "keep"]
     \/ /\ pc' = [pc EXCEPT ![c] = "total"]
        /\ UNCHANGED got
  /\ UNCHANGED <<serverVars, userVars, batch, heard, request>>

\* Mutant: the comments of others only are kept.
KeepContentsOthers(c) ==
  /\ pc[c] = "keep"
  /\ note' = [note EXCEPT ![c].fields.contents =
       [k \in {q \in Comment : q[1] # c} |-> got[c].contents[k]]]
  /\ got' = [got EXCEPT ![c] = EmptyFields]
  /\ pc' = [pc EXCEPT ![c] = "total"]
  /\ UNCHANGED <<serverVars, actions, edit, made, batch, heard, request>>

KeepContents(c) ==
  /\ pc[c] = "keep"
  /\ note' = [note EXCEPT ![c].fields.contents = got[c].contents]
  /\ got' = [got EXCEPT ![c] = EmptyFields]
  /\ pc' = [pc EXCEPT ![c] = "total"]
  /\ UNCHANGED <<serverVars, actions, edit, made, batch, heard, request>>

-----------------------------------------------------------------------------
(* The client downloads the note if the checksums differ. *)

DownloadFails(c) ==
  /\ pc[c] \in {"total", "identifiers", "bulk"}
  /\ EndTask(c)
  /\ UNCHANGED <<serverVars, userVars, request>>

\* The client compares the server's count and checksum with its own, which are
\* always up to date: the task is done, or goes on with the notes in the range.
Compare(c, listed, total) ==
  IF listed = note[c].listed /\ total = RangeSum(listed, note[c].fields)
  THEN EndTask(c)
  ELSE /\ pc' = [pc EXCEPT ![c] = "identifiers"]
       /\ heard' = [heard EXCEPT ![c] = {}]
       /\ UNCHANGED <<batch, got>>

\* The server sends the cached checksum of the range, or computes and caches it.
AskTotal(c) ==
  /\ pc[c] = "total"
  /\ LET total == IF cache = NoSum THEN RangeSum(server.listed, sum) ELSE cache
     IN IF "cache" \in Hazard /\ cache = NoSum
        THEN /\ heard' = [heard EXCEPT ![c] = total]
             /\ pc' = [pc EXCEPT ![c] = "cache"]
             /\ UNCHANGED <<cache, batch, got>>
        ELSE /\ cache' = total
             /\ Compare(c, server.listed, total)
  /\ UNCHANGED <<server, sum, userVars, request>>

CacheTotal(c) ==
  /\ pc[c] = "cache"
  /\ cache' = heard[c]
  /\ Compare(c, heard[c] # {}, heard[c])
  /\ UNCHANGED <<server, sum, userVars, request>>

\* Mutant: the note is not skipped if it is still to be sent.
AskIdentifiersBlind(c) ==
  /\ pc[c] = "identifiers"
  /\ "late" \in Hazard \/ edit[c] = Nothing
  /\ CASE note[c].listed /\ ~server.listed ->
            pc' = [pc EXCEPT ![c] = "erase"] /\ UNCHANGED <<batch, heard, got>>
       [] server.listed /\ note[c].fields # sum ->
            pc' = [pc EXCEPT ![c] = "bulk"] /\ UNCHANGED <<batch, heard, got>>
       [] OTHER -> EndTask(c)
  /\ UNCHANGED <<serverVars, userVars, request>>

\* The server sends which notes it has, with their checksums; the client skips
\* the note if it has actions for it.
AskIdentifiers(c) ==
  /\ pc[c] = "identifiers"
  /\ "late" \in Hazard \/ edit[c] = Nothing
  /\ CASE actions[c] = {} /\ note[c].listed /\ ~server.listed ->
            pc' = [pc EXCEPT ![c] = "erase"] /\ UNCHANGED <<batch, heard, got>>
       [] actions[c] = {} /\ server.listed /\ note[c].fields # sum ->
            pc' = [pc EXCEPT ![c] = "bulk"] /\ UNCHANGED <<batch, heard, got>>
       [] OTHER -> EndTask(c)
  /\ UNCHANGED <<serverVars, userVars, request>>

EraseLocal(c) ==
  /\ pc[c] = "erase"
  /\ note' = [note EXCEPT ![c] = Gone]
  /\ EndTask(c)
  /\ UNCHANGED <<serverVars, actions, edit, made, request>>

GetBulk(c) ==
  /\ pc[c] = "bulk"
  /\ got' = [got EXCEPT ![c] = server.fields]
  /\ pc' = [pc EXCEPT ![c] = "save"]
  /\ UNCHANGED <<serverVars, userVars, batch, heard, request>>

SetBulk(c) ==
  /\ pc[c] = "save"
  /\ note' = [note EXCEPT ![c] = [listed |-> TRUE, fields |-> got[c]]]
  /\ EndTask(c)
  /\ UNCHANGED <<serverVars, actions, edit, made, request>>

-----------------------------------------------------------------------------
\* The client stops.
Quit(c) ==
  /\ "quit" \in Hazard
  /\ pc[c] # "idle"
  /\ pc[c] \in {"wait", "ack"} => "reply" \in Hazard
  /\ EndTask(c)
  /\ IF "late" \in Hazard
     THEN edit' = [edit EXCEPT ![c] = Nothing]
     ELSE edit[c] = Nothing /\ UNCHANGED edit
  /\ UNCHANGED <<serverVars, note, actions, made, request>>

\* Every night the index and the checksums are made to match the files; a
\* file without passages counts as damaged.
Reindex ==
  /\ IF server.fields.passages # Nothing
     THEN /\ server' = [server EXCEPT !.listed = TRUE]
          /\ SetChecksum(server.fields)
     ELSE /\ server' = IF server.listed THEN Gone ELSE server
          /\ sum' = NoSum
          /\ cache' = IF sum = NoSum /\ ~server.listed THEN cache ELSE NoSum
  /\ UNCHANGED <<userVars, taskVars, request>>

-----------------------------------------------------------------------------
User(c) ==
  \/ AddComment(c) \/ SetStatus(c) \/ SetPassages(c) \/ CreateNote(c)
  \/ EraseNote(c) \/ RecordAction(c)

Upload(c) ==
  \/ Start(c) \/ Confirm(c) \/ SendFails(c) \/ AllSent(c) \/ Refresh(c)
  \/ GetContents(c) \/ KeepContents(c)

Download(c) ==
  \/ DownloadFails(c) \/ AskTotal(c) \/ CacheTotal(c) \/ AskIdentifiers(c)
  \/ EraseLocal(c) \/ GetBulk(c) \/ SetBulk(c)

Next ==
  \/ \E c \in Client :
       \/ User(c) \/ Upload(c) \/ Receive(c) \/ Handle(c) \/ UpdateChecksum(c)
       \/ Download(c) \/ Quit(c)
  \/ Reindex

Spec == Init /\ [][Next]_vars
-----------------------------------------------------------------------------
(* Properties *)

\* The comments that were made.
MadeComment(k) == k[2] <= Len(made[k[1]]) /\ made[k[1]][k[2]] = "comment"

\* The comment is in an action of the client that made it, or its user is
\* just making it.
Waiting(k) ==
  LET c == k[1]
  IN \/ \E r \in actions[c] : r.kind = "comment" /\ r.content = Just(k)
     \/ edit[c] = "comment" /\ k[2] = Len(made[c])

\* The server has put the action that is underway into the note.
Taken(c) ==
  \/ pc[c] = "ack"
  \/ pc[c] = "wait" /\ request[c] # NoRequest /\ request[c].kind \in Phase

\* The server has the comment, but the client did not delete its row yet.
Delivered(k) == Taken(k[1]) /\ FirstRow(batch[k[1]]).content = Just(k)

\* Every comment that a user made gets to the server, and gets there once.
CommentsOnce ==
  \A k \in Comment :
    server.listed /\ MadeComment(k) =>
      server.fields.contents[k] = IF Waiting(k) /\ ~Delivered(k) THEN 0 ELSE 1

\* The status that the user chose is to be sent.
StatusPending(c) ==
  (\E r \in actions[c] : r.kind = "status") \/ edit[c] = "status"

\* Where one user alone sets the status, the server has it or is going to get
\* it, unless the server itself reopened the note.
StatusArrives ==
  \A c \in Client :
    /\ \A d \in Client : "status" \in Ops[d] => d = c
    /\ note[c].listed /\ server.listed
    /\ server.fields.status \notin {"Reopened", note[c].fields.status}
    => StatusPending(c)

\* The task does not change the status of a note while it is still to be sent
\* off to the server ("Skip note if it is still to be sent off to the server"),
\* for otherwise the server's own status would be sent back to it.
StatusStays ==
  [][\A c \in Client :
       \/ StatusPending(c) => note'[c].fields.status = note[c].fields.status
       \/ SetStatus(c) \/ EraseNote(c)]_vars

\* A note that the server does not have is not erased from the client that is
\* still to send it, or anything about it.
UnsentStays ==
  [][\A c \in Client :
       note[c].listed /\ actions[c] # {} => note'[c].listed \/ EraseNote(c)]_vars

\* What brings a note back is still to come, or there already: its creation, or
\* its passages, for which the nightly indexing takes a file for a note.
Reviving ==
  \/ server.fields.passages # Nothing
  \/ \E c \in Client :
       \/ c \in Creator /\ made[c] = <<>>
       \/ edit[c] \in {"create", "contents", "passages"}
       \/ \E r \in actions[c] : r.kind \in {"create", "passages"}
       \/ request[c] # NoRequest /\ request[c].kind \in {"create", "made", "passages"}

\* A note that is gone from the server stays away, whatever else the clients
\* still had to send about it, and nothing comes to bring it back, unless a user
\* who still has it changes its passages.
DeletionIsFinal ==
  [][~server.listed /\ ~Reviving =>
       ~server'.listed /\ (~Reviving' \/ \E c \in Client : SetPassages(c))]_vars

-----------------------------------------------------------------------------
(* Fairness: the threads are scheduled, the timer queues the task and the  *)
(* nightly indexing again and again (kernel/timer/index.cpp), and a        *)
(* request that is retried forever gets through.                           *)

\* The server answers while the client still waits for it.
Answer(c) == pc[c] = "wait" /\ (Handle(c) \/ UpdateChecksum(c)) /\ pc'[c] = "ack"

Fairness ==
  /\ \A c \in Client :
       /\ WF_vars(RecordAction(c)) /\ WF_vars(Upload(c)) /\ WF_vars(Download(c))
       /\ WF_vars(Handle(c)) /\ WF_vars(UpdateChecksum(c))
       /\ SF_vars(Receive(c)) /\ SF_vars(Answer(c)) /\ SF_vars(Confirm(c))
       /\ SF_vars(AskTotal(c)) /\ SF_vars(AskIdentifiers(c)) /\ SF_vars(GetBulk(c))
  /\ WF_vars(Reindex)

FairSpec == Spec /\ Fairness

\* In the end every client has the note of the server ("If it matches, that
\* means that the local notes match the notes on the server"), and nothing is
\* left to send.
InStep ==
  \A c \in Client :
    /\ actions[c] = {}
    /\ note[c].listed = server.listed
    /\ server.listed => note[c].fields = server.fields

Convergence == <>[]InStep
=============================================================================
