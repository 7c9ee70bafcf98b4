# Bibledit in TLA+

Models, model-checking runs and proofs of the parts of Bibledit that several
threads, or a client and a server, work on at the same time.  Paths are given
from `src/swift/Bibledit/kernel/`, which is called `kernel/` here.

## 1. Inventory

Bibledit is one C++ code base from which two programs are built: *Bibledit
Cloud*, the server that a team of translators shares (`HAVE_CLOUD`), and the
*client* that one user runs on a desktop (`HAVE_CLIENT`; the macOS application
in this repository wraps it).  A client keeps a full copy of what its user
works on and sends and receives the differences from time to time.  Both are a
web server with a thread per request, plus one timer thread that starts tasks
in threads of their own.  The databases are SQLite files and plain files;
there is no lock around a *sequence* of reads and writes, neither on the client
nor on the server.

| Component | State it keeps | Operations | What makes it correct |
|---|---|---|---|
| Bible send/receive, client (`sendreceive/bibles.cpp`) | chapters, Bible actions, the flag "just connected", the task's locals | send the chapters that have an action, confirm or restore, list, delete what the server lacks, get, replace or merge | no edit of the user is lost, what is unsent stays known as unsent, all clients get the same text in the end |
| Bible send/receive, server (`sync/bibles.cpp`) | chapters | read, merge, store, answer with a checksum | what is confirmed is stored; a client with an old copy puts no old wording back |
| Bible actions (`database/bibleactions.cpp`) | a row (chapter, text before the first unsent change) | record, get, list, delete | the base of a merge is what the server last had |
| Bible saves (`bb/logic.cpp`, `filter/usfm.cpp`, `edit/save.cpp`) | chapters, actions | read, change, record the action, store | as above, from the editor's side |
| Three-way merge (`filter/merge.cpp`) | none | merge of base, change and prioritized text | takes both changes, prefers one at a conflict, loses nothing that is undisputed |
| Notes send/receive (`sendreceive/notes.cpp`, `sync/notes.cpp`, `database/noteactions.cpp`, `database/notes.cpp`, `notes/logic.cpp`) | notes, note actions, checksums per note and per range | upload the actions one by one, refresh the note, list, download in bulk, delete | what the user did to a note gets to the server once, and is not taken back by a download |
| Settings send/receive (`sendreceive/settings.cpp`, `sync/settings.cpp`) | settings and a flag for each that changed | send the flagged ones, get all | a change that was not sent is not overwritten |
| Changes send/receive (`sendreceive/changes.cpp`, `sync/changes.cpp`, `changes/`, `database/modifications.cpp`) | change notifications per user, a list of what was removed, a cached checksum on either side | dismiss, send removals, compare, get; the nightly recording and expiry | a dismissed notification does not come back, and no other one goes |
| Files and resources (`sendreceive/files.cpp`, `sendreceive/resources.cpp`) | cached copies | compare checksums, get | the copy becomes the server's |
| Task queue (`tasks/logic.cpp`, `tasks/run.cpp`, `sendreceive/logic.cpp`, `timer/index.cpp`) | a file per task, a counter of running tasks, a time stamp per synchronization | queue, look up, start, finish | no task gets lost or runs twice, the number of threads is bounded, no two synchronizations of one kind at a time |
| Mail queue (`email/send.cpp`, `database/mail.cpp`) | mails with a retry count, the flag "sending" | queue, send, postpone, trim, vacuum, clear | every mail goes out once, one bad mail does not block the others |
| Confirmation of account changes (`confirm/worker.cpp`) | queries to execute at a click on a link | record, execute, delete | a query is executed once, and by its own link only |
| Sessions and logins (`session/logic.cpp`, `database/login.cpp`) | logged-in devices | log in, touch, log out, expire | a session belongs to one user |
| Git (`sendreceive/sendreceive.cpp`, `filter/git.cpp`) | a repository per Bible | export, commit, pull, merge, push, import | a Bible and its repository get the same text |
| Web server (`webserver/`) | none | a thread per request | - |
| Editors and conversions, checks, exports, imports, resources | none that outlives a call | transformations of text | sequential, out of the reach of what is hard here |
| Vendored libraries (mbedtls, tidy, gumbo, sqlite, miniz, pugixml, dtl, ...) | - | - | third-party code |

How they interact: the timer thread queues the synchronization tasks and starts
them (`timer/index.cpp`, `tasks/run.cpp`).  A task calls the server over HTTP
and handles each answer in turn; it shares the client's databases with the
requests of the user's browser, which run in other threads.  The user's saves
tell the task what to send by way of the action databases.  The server's handlers of
different clients share the server's databases.  A request may fail before the
server gets it, or after it handled it; the client cannot tell these apart.

Hard to test, and therefore what the properties are about (the list with the
lines is in `PROJECT.json`, "hazards"):

* a save of the user between two statements of the task, and the reverse;
* two requests for the same chapter at the server;
* an answer that gets lost after the server did what was asked, and the retry;
* a stop of the client or the server between two steps;
* a send that fails for some chapters, and a receive that would follow it;
* a row whose empty base looks like no row;
* the first synchronization of a client, which may be interrupted, and after
  which what only the client has is to be sent rather than deleted;
* a look followed by an act without a lock: two threads that both see no task
  queued, no watchdog set, no mail being sent, no click being handled;
* a task that is started, but not yet counted or unlinked;
* a list of flags that two threads read, change and write as a whole;
* a checksum that is computed, and cached after what it sums changed;
* numbers that are given once more: row numbers after a vacuum, identifiers of
  notifications, and ids that are a part of another id;
* a nightly restart or maintenance that comes in between.

## 2. Plan

Most important first: a translator's edits.

1. `ChapterMerge`, `BibleSync`: Bible send/receive, client, server and editor
   together.  Invariants, action properties, convergence, proofs. *Done.*
2. `SharedBible`: what send/receive of Bibles promises its users; `BibleSync`
   implements it, model-checked and proved. *Done.*
3. `NotesSync`: the upload of note actions one by one and the download that
   follows, with the user's changes beside it; once-only delivery of comments;
   creation and erasure.  With proofs. *Done* for one note.
4. `TaskQueue`: queue, timer, threads, watchdogs; that the synchronization of
   one kind does not run twice at the same time is what 1, 3 and 5 take for
   granted.  With proofs. *Done.*
5. `SettingsSync`, `ChangesSync`: flags and removals that have to survive a
   failed send, and cached checksums.  With proofs. *Done.*
6. `MailQueue`, and `Confirmation` composed with it: single-server state with
   concurrent requests.  With proofs. *Done.*
7. *Left:* `LoginSession`, the devices that are logged in.
8. *Left:* `EditUpdate`, the three-way merges between what the browser loaded,
   what it holds and what the chapter became (`edit/save.cpp`,
   `edit/update.cpp`), with `ChapterMerge`.
9. *Left:* `BibleWalk`, `NoteRange`, the descent by checksums from all Bibles to
   a chapter, and from a range of notes to a note (`Sync_Logic::create_range`).
10. *Left:* `GitSync`, the order of export, commit, pull, merge, push, import.
11. *Left:* a mailbox of actions as the abstract specification of `NotesSync`.

## 3. Modules

| Module | Content |
|---|---|
| `ChapterMerge` | a chapter as a function from verses to wordings, and `filter_merge_run` |
| `ChapterMergeProofs` | what the merge keeps, for every set of verses |
| `BibleSync` | Bible send/receive |
| `BibleSyncInv` | its inductive invariants |
| `BibleSyncProofs` | the theorems about `BibleSync` |
| `SharedBible` | the abstract specification: one shared Bible, and a copy of it for each client |
| `SharedBibleProofs` | `BibleSync` implements `SharedBible` |
| `NotesSync`, `NotesSyncProofs` | send/receive of a consultation note |
| `TaskQueue` | the folder of tasks, the timer, the threads and the watchdogs |
| `TaskQueueProofs` | its inductive invariants and theorems |
| `SettingsSync`, `SettingsSyncProofs` | send/receive of a user's settings |
| `ChangesSync`, `ChangesSyncProofs` | send/receive of change notifications |
| `MailQueue` | the table of mails and the task that sends them |
| `Confirmation` | account changes and their links, composed with `MailQueue` |
| `ConfirmationProofs` | the theorems about both |
| `MCBibleSync`, `MCNotesSync`, `MCTaskQueue`, `MCSettingsSync`, `MCChangesSync`, `MCConfirmation` | instances for TLC |

### ChapterMerge

A verse holds 0 (there, but without text) or a larger number, a later wording.
`NoText` is the empty string, with which the code says "no such chapter".
`Merge` is `filter_merge_run`: lines, words and graphemes never conflict when
two edits touch different verses, as the marker `\v` of the next verse stands
between them unchanged; two different edits of one verse are taken to conflict
at every grain, and `filter_merge_run_clever` then takes the verse of the
prioritized text, unless that lost the text of the verse.

### BibleSync

State: `server` and `text[c]` are the chapters; `action[c]` the rows of the
Bible actions, of which only the first for a chapter counts; `first[c]` the flag
that the client just connected; `edit[c]` a save in a browser request's thread;
`pc`, `todo`, `failed`, `job`, `old`, `new`, `got` the position and the locals
of `sendreceive_bibles`; `request[c]` a request the server is handling.

| Action | Code |
|---|---|
| `Compose`, `RecordEdit`, `StoreEdit` | `usfm_safely_store_verse` reads and changes a chapter, `bible_logic::store_chapter` records the action and stores |
| `Start` | the list of the chapters with an action |
| `ReadChapter`, `ClearAction` | `sendreceive/bibles.cpp` 151-152 read, 159 delete |
| `Receive`, `StoreReceived` | `sync/bibles.cpp` `bibles_send_chapter`, read and store; `AbandonedIsHandled` is explained under "Runs" |
| `Confirmed`, `SendFails` | the answer is the checksum, or is not |
| `RestoreErase`, `RestoreRecord` | 186-187 |
| `SendDone` | return if anything failed |
| `NothingToReceive`, `ListChapters`, `SkipChapter` | totals and checksums; the deletion of what the server lacks, or the record of it on a first synchronization |
| `GetChapter`, `CheckAction`, `StoreServer`, `ReadMine`, `RecordMerged`, `StoreMerged` | download, and replace or merge; a merged chapter is stored as a save is, first the action, then the text |
| `ReceiveDone` | 541-544 |
| `Quit`, `Restart` | the client stops; the server restarts every night (`timer/index.cpp`) |

The constant `Hazard`, of this module and of the next, names which windows
between two statements may be hit, and which faults may happen.  With all of them nothing much would hold, with none
nothing much could go wrong: each run names those it is about.  A window that a
run leaves out is left out by a guard of the action that would fall into it, and
each of these guards names its token.

### NotesSync

State: `server` is the note on the server, its row in the index (`listed`) apart
from its file (`fields`), `sum` its checksum in the checksums database and
`cache` the cached checksum of the range; `note[c]` and `actions[c]` are the
note and the note actions of a client, `edit[c]` a change of the user that is
not recorded yet, `made[c]` the changes so far; `pc`, `batch`, `heard`, `got`
the position and the locals of `sendreceive_notes`; `request[c]` a request the
server is handling, with the file that its handler read.

| Action | Code |
|---|---|
| `AddComment`, `SetStatus`, `SetPassages`, `CreateNote`, then `RecordAction`; `EraseNote` | `notes/logic.cpp`: first the note, then the action; for an erasure the reverse |
| `Start` | `getNoteData`: the actions there are when the upload of the note begins |
| `Receive`, `Handle`, `UpdateChecksum` | `sync/notes.cpp`; each field is set by a read, a change and a write of the whole file (`database/notes.cpp`, `set_field`), and its handler refreshes the checksum after that.  A creation first erases what the identifier has, then has the file and the row, then the checksum; a comment gets its checksum, and then reopens a note that is done, with a second write and a second checksum (`Phase`) |
| `Confirm`, `SendFails`, `AllSent` | the answer arrives and the row is deleted, or the upload ends |
| `Refresh`, `GetContents`, `KeepContents` | the requests after the upload of a note; the one for the summary refreshes the checksum on the server |
| `AskTotal`, `CacheTotal`, `Compare` | the totals: the server computes the checksum of the range and caches it |
| `AskIdentifiers`, `EraseLocal`, `GetBulk`, `SetBulk` | the comparison per note, and the erasure or the download |
| `Reindex` | the nightly `Database_Notes::sync` on the server |
| `Quit` | the client stops between two requests |

A checksum is modelled by what it is computed from.  The status stands for the
fields whose handlers refresh the checksum, the passages for those whose
handlers do not.  A comment and the contents of a new note travel in their action, the
other fields are read at the moment they are sent.  Of the six rows of a new note,
which are recorded one by one, three are modelled: its creation, its contents and
its passages; those of the summary and the Bible are like that of a status, and the
last one only notifies people.  The time of modification is fetched along with the
contents and is abstracted.  A change of a note that is gone makes a file
with one field, which is not a note until it has passages.

### SharedBible

One shared Bible, and a copy of it for each client: a user saves (`Edit`), own
verses get to the shared Bible (`Publish`), the verses of others get to a copy
(`Fetch`), and nothing else ever happens.  The mapping (`BibleSyncInv`) takes the
verses that one translator with write access edits: `shared` is their wording on
the server, `copy` their wording on the clients.  The tasks, the requests and
the Bible actions are what the implementation hides.

### TaskQueue

State: `folder` is the folder with the tasks, oldest first, of which each file is
created and then filled (`whole`); `phase` is where the timer is in its loop;
`asks`, `step`, `left`, `mine` are what a caller of `tasks_logic_queue` still
has to queue, and where it is; `pc`, `task`, `command` are the threads,
`running` is `running_tasks`, `watchdog` the time stamps of the synchronizations
that are not too old.  The module has the client's synchronizations and the
Cloud's nightly restart at once (`HAVE_CLIENT`, `HAVE_CLOUD`): more than either
build can do.

| Action | Code |
|---|---|
| `WebAsks`, `TimerAsks`; `Scan`, `Look` | `sendreceive/logic.cpp`, `tasks_logic_queued`: the list of the files, and then the files one by one; one that is gone or empty ends the search |
| `Create`, `Write` | `tasks_logic_queue`: a file is created, and filled |
| `RunCheck` | `tasks_run_check`: the oldest file, if the count allows it, gets a thread |
| `Count`, `Read`, `Unlink`, `End` | `tasks_run_one`: the thread counts itself, reads the file and deletes it, runs the command, takes itself off the count |
| `CheckWatchdog`, `Kick`, `Synchronized` | the beginning and all ends of `sendreceive_bibles` and its like |
| `GiveWay`, `Postponed` | `sendreceive/resources.cpp`: the resources queue themselves again while others are active |
| `RestartDue`, `Restart`, `Quit` | the nightly restart of the Cloud with its condition (`timer/index.cpp`), and a stop at any time |

### SettingsSync

State: `cloud` and `value[c]` are the settings, a value being the number of the
change that made it; `flags[c]` is the list of the settings updated on the
client; `edit[c]` a change whose flag is not written yet; `pc`, `todo`, `job`,
`hold`, `seen`, `total` the position and the locals of `sendreceive_settings`.

| Action | Code |
|---|---|
| `Change`, `ReadFlags`, `WriteFlag`; `ChangeCloud` | `database/config/user.cpp`: the value, then the list of flags read, and written; on the Cloud's own site there are no flags |
| `Connect` | the client connects for the first time |
| `Start`, `ReadValue` | the flags there are, and the value of the next |
| `Receive`, `SendFails`, `Confirmed`, `Unflag` | the request, and the list of flags read, and written without this one; a failure goes on with the next |
| `SendDone`, `AskTotal`, `Compare` | the checksum of all settings on both sides |
| `GetSetting`, `Store`, `ReceiveDone` | the settings one by one |
| `Quit` | the client stops |

### ChangesSync

State: `cloud` and `note[c]` say which notification is stored under an
identifier, those of other users (`others`) included; `sum` and `own[c]` are the
cached checksums; `clearing` has the removals after which the server has still to
clear its checksum, `due` and `old` the checksums that its handlers calculated
after, and before, the last change, and are about to cache; `removed[c]` is the
list of what was removed; `edit[c]` is a dismissal that is not recorded in
full; `pc`, `todo`, `news`, `job`, `seen`, `answer`, `failed` the position and
the locals of `sendreceive_changes`.

| Action | Code |
|---|---|
| `Dismiss`, `ReadRemoved`, `WriteRemoved`, `ClearOwn` | `changes/changes.cpp` on a client: the removal, the list read and written, the checksum cleared |
| `DismissThere`, `ClearSum` | the same on the Cloud's site: the removal, and then the checksum |
| `OthersDismiss` | other users remove what has an identifier that one of theirs was given |
| `Night` | `changes/modifications.cpp`, `database/modifications.cpp`: a new notification of any user gets the highest identifier plus one, and old ones expire; clients are kept out meanwhile |
| `Start`, `ReceiveRemoval`, `ClearSum`, `SendFails`, `Confirmed`, `Unlist`, `SendDone` | the removals, one by one; the handler removes, and then clears the checksum (`sync/changes.cpp` 74, 76) |
| `OwnSum`, `CacheOwn`, `AskSum`, `CacheSum`, `SumArrives`, `Compare` | the checksums on both sides, each computed and then cached (`sync/changes.cpp` 84, 85), and then answered |
| `AskIds`, `RemoveHere`, `Download`, `Tidy`, `ReceiveDone` | what the server lacks is removed, what it has more is downloaded, and each time the client's checksum is cleared |
| `Quit`, `Restart` | the client stops; the server stops between a removal and the clearing of the checksum |

A handler is far quicker than the timeouts of a client (`filter/url.cpp`
1283-1305), so that a client that waits for one at work (`Handled`) neither gives
up nor stops.  The cached checksum is false between a removal and the clearing, and
after a handler cached what it calculated before the last change; the model keeps
apart (`late`, `torn`) when it *stays* false, on the server and on a client.

In `SettingsSync` and `ChangesSync` every window is open all the time.  What was
caught in one is put down in the history variable `hit`, and the safety
properties speak of all that was not; `Convergence` holds whatever was hit.

### MailQueue and Confirmation

State of `MailQueue`: `mails` is the table, a function from the numbers of its
rows to what they hold (SQLite's row identifiers, `NextRow` and `Renumbered`);
`running` the flag `mail_send_running`; `spc`, `rows`, `mail` where a task that
sends is.  Of `Confirmation`: `setup[r]` where the request for a change is,
`record` the table of confirmations, `vpc` and `request` the threads that
handle clicks.  `Confirmation` extends `MailQueue`: the link travels by a mail,
and so does the news that the change was made.

| Action | Code |
|---|---|
| `Start`, `SetRunning`, `ListMails`, `AllSent` | `email/send.cpp`: the look at the flag, the flag, the list, the end |
| `GetMail`, `Accepted`, `Unanswered`, `Refused`, `Erase`, `Postpone` | a mail of the list, and what became of it: sent, taken by the smart host without an answer that gets back, or not sent; cURL's error is the same for the last two |
| `LoginDenied`, `PostponeAlso`, `AllPostponed` | the smart host denies login: all mails are postponed, one by one, and the task ends |
| `DueAgain`; `Maintain` (`TrimMails`, `VacuumMails`, `TrimRecords`); `ClearMails` | the time to try again; the nightly maintenance in its order (`night`): mails that are old or were tried too often go, the table is vacuumed, which numbers the rows anew, and old records go, whoever has them in hand; the administrator |
| `MailLink`, `StoreRecord` | `confirm::worker::setup`: the mail is queued before the record is stored |
| `Click`, `Execute`, `MailNews`, `EraseRecord`, `Inform`, `Done` | `confirm::worker::handle_link` and `inform_managers`, one manager at a time; `Database_Confirm` finds a record whose id is part of the link's |
| `Crash` | the server crashes and starts again |

### Bounds

`MaxWord` bounds the wordings of a verse (3 gives each translator two edits, so
that one can be made while the previous is underway).  Two translators, one verse
each, suffice for every conflict between one's edits and a stale copy of them at
the other; one chapter suffices where the chapters of a book do not interact,
two are taken where they do (`connect`, where the deletion and the merge concern
different chapters of a book).

In `NotesSync` two changes per user suffice for one that is underway and one
that comes meanwhile; a third only repeats that.  Two users are the least that
can overwrite each other.  `MaxEdits` is 1 in the liveness run, where the
retries of failed requests make the behaviours long enough.  Lost answers and
comments do not go together: each retry adds the comment once more, without
end.

`TaskQueue` has the timer, one web thread and three threads for tasks, with
`MaxParallel` 2, so that the bound is met and one could be too many.  There is a
prioritized synchronization, one that gives way to it, and a task without
watchdog; three names for files (`MaxTasks`), which are used again, let two
tasks of a kind be there beside a third.  The program stops once
(`MaxStops`); a second stop meets nothing that the first did not.

`SettingsSync` has three settings, of which two can be sent: one may fail while
the other gets through, and the third only comes down.  With three changes
(`MaxMade`) a setting is changed on both sides and once more while the task has
it in hand.  `ChangesSync` has two events (`MaxEvents`), each a
notification of this user or of another, or a stop of a client or the server, so that
one notification is removed while the other is recorded, an identifier may be given
twice, and a dismissal may be cut short.  Both runs have
one client, which with the Cloud's own site makes the two actors that matter;
clients never meet but at the server.  That more of them change nothing about
the safety properties is proved (section 5).

`Confirmation` has one request with its two mails, and one manager.  A second request
meets the first in the queue only, where the news and the memo of one request meet its
link already (an answer that got lost leaves it there); for any number of them the
safety properties are proved.  There are two rows of mails, no second try (`MaxRetry`
0, so that a mail that was refused is dropped by the next night), one sender and one
visitor, as a second one waits for the first while no token lets it in, and two faults
(`MaxFaults`), each a crash or a lost answer, so that a mail may be sent three times,
or be in hand in a crash after its answer got lost.

## 4. Runs

| Run | What it asks |
|---|---|
| `bible_sync_edits` | Two translators edit their own verse; requests fail, clients quit between chapters, the server restarts.  What is unsent is recorded (`UnsentIsRecorded`), what is confirmed is stored (`ConfirmedIsStored`), the task does not take edits back (`EditsKept`), the server does not go back (`ServerMovesOn`), and all of it is a behaviour of a shared Bible (`ImplementsSharedBible`).  The inductive invariant of the proofs, `IInvForward`, is checked along. |
| `bible_sync_converges` | Whatever window of the task a save hits, and whatever answer is lost: when the users rest, all clients get in step with the server, a client without write access included.  Closed are requests that overlap on the server, stops (`"quit"`, `"crash"`) and restarts. |
| `bible_sync_connect` | Two clients connect to the Cloud and both bring the same chapter that the server lacks: it stays on the clients and gets to the server. |
| `bible_sync_clear` | *Violated.*  The comment calls reading and clearing an action atomic; a save that has recorded its action before the read of the chapter, and stores its text between the two or after them, loses the action. |
| `notes_sync_discuss` | Two users comment, one minds the status; requests fail, clients quit, ranges get stale checksums.  Every comment gets to the server once (`CommentsOnce`), the status gets there (`StatusArrives`) and is not taken back while it waits (`StatusStays`). |
| `notes_sync_lifetime` | One user creates a note and goes on with it, another erases it; lost answers, half-made notes, stale checksums and clients that stop; the windows of the download (`"check"`, `"late"`) are closed.  What is still to be sent is not erased by the download (`UnsentStays`), and a note that was erased stays away whatever is still sent about it, and nothing comes up that would bring it back, unless a user who still has it changes its passages (`DeletionIsFinal`). |
| `notes_sync_converges` | Changes in every window on the clients: all get the note of the server in the end, or its erasure. |
| `task_queue` | The timer and a user queue synchronizations and a mail, and the program stops: no two synchronizations of a kind at a time (`Exclusive`), no watchdog is left behind (`WatchdogHeld`), a task is executed once (`RunsOnce`), none gets lost (`NothingLost`), no more than the bound at a time (`Bounded`), none waits for ever (`EveryTaskRuns`). |
| `settings` | A user changes settings on a client and on the Cloud: what is unsent is flagged (`UnsentIsFlagged`) and not overwritten (`UnsentIsKept`), only changes of the user are sent (`OnlyChangesAreSent`), and in the end both sides agree (`Convergence`). |
| `changes` | A user dismisses notifications on both sides while the server records new ones: what is dismissed is listed (`DismissedIsListed`), a cached checksum is true once no removal is underway (`SumIsTrue`), no other notification goes, another user's neither (`OnlyDismissedGo`), and both sides agree in the end (`Convergence`). |
| `account_change` | A change is asked for, mailed, clicked and made while mails are refused, answers get lost, records expire and the server crashes: the link works until it is used or expires (`LinkWorks`), the change is made once (`ExecutedOnce`), mails are sent as often as they were queued, and once more for each answer that got lost (`SentOnce`), and stay till then (`MailsStay`), and the user is told, unless the record with the address expires meanwhile (`ToldOfChange`). |
| `mail_crash` | *Violated.*  The comment says that a mail during which the server crashed is not sent again; nothing ever sets the flag that it looks at. |

The violated runs each check one statement of a comment against what the code
does; `PROJECT.json`, "findings", quotes the comments.

The other windows are named by their tokens too, and the properties fail when a run is
given the token:

| Module | Token | What fails |
|---|---|---|
| `BibleSync` | `"apply"` | `EditsKept`: a save between the last look for an action and the store of the server's chapter is overwritten |
| | `"reply"` | `EditsKept`: after a lost answer the retry conflicts with what the first try stored |
| | `"server"` | `ConfirmedIsStored`: of two requests for a chapter that are handled at the same time both are confirmed, and one is lost |
| | `"create"` | `EditsKept`: a chapter just created on the client is replaced or deleted, since its action has an empty base |
| | `"crash"` | `UnsentIsRecorded`: the client stops with a chapter underway |
| | `"clear"`, `"quit"`, `"crash"`, `"revert"` | each by itself, with edits, `BroughtAlongStays`: the client is left with a chapter that the server lacks, and either no action or one whose base is what the chapter says, which is not sent; the flag that it just connected goes, and the next synchronization deletes the chapter.  (`"quit"`: an action is recorded, and the client stops before the save is stored) |
| | `Connecting` not within `Writer` | `BroughtAlongStays`: a client without write access gets the checksum, yet nothing is stored, and it deletes its chapter the next time |
| `NotesSync` | `"check"` | `StatusStays`, `UnsentStays`: the task stores or erases a note that the user changed after its look for actions |
| | `"late"` | `StatusStays`, `UnsentStays`: the task looks for actions before that of the change is recorded; with `"quit"` also `CommentsOnce`, `StatusArrives`: the client stops before it is |
| | `"server"`, `"reply"` | `CommentsOnce`: two comments handled at once, and a comment sent again |
| | `"server"` | `DeletionIsFinal`: a handler that read the note before its erasure writes it back |
| | `"cache"` | `Convergence`: a stale checksum of a range stays in the cache |
| `TaskQueue` | `"slow"` | `RunsOnce`, `Bounded`, `Exclusive`: the timer looks at the folder before a thread has taken its file, or has set its watchdog |
| | `"hang"` | `Exclusive`: a synchronization that takes 15 minutes for one step |
| | `"half"` | `NothingLost`: a thread reads a file that is not filled yet, and deletes it |
| | `"exit"` | `NothingLost`: the restart comes between the start of a thread and its count |
| `MailQueue` | `"flag"` | `SentOnce`, `MailsStay`: two tasks find the flag not set, and one erases a row that has got another mail since it listed it |
| | `"vacuum"` | `SentOnce`, `MailsStay`: rows are deleted or numbered anew under the sender's hands |
| | `"clear"` | `MailsStay`: the mails are cleared, and a new one gets the number of an old one |
| `Confirmation` | `"click"` | `ExecutedOnce`: two clicks are handled at the same time |
| | `Within = {<<1, 2>>}` | `ExecutedOnce`: a link makes the change of another request |

One window has no token and is closed in every run of `BibleSync` and `NotesSync`, by
`AbandonedIsHandled`: a handler whose client stopped waiting is done before that
client posts again.  The client stops waiting after 600 seconds (`filter/url.cpp:1566`)
or when the connection breaks, and has to end its task, or to restore the action, and to
make a new connection before it posts; a handler only reads and writes some files.

Three more things fail without any token.  A second commenter on a note that is being
created loses a comment, for the creation takes several requests: in the run only
the creator comments.  A change of the passages after another client erased
the note makes a file that the nightly indexing takes for a note again.  And a setting that could
not be sent is overwritten by the download (`hit` in `SettingsSync`).

Fairness (`FairSpec`).  Weak fairness for the steps of the task, the saves and the handler:
the operating system schedules threads, and the timer queues the task over and
over (`timer/index.cpp`, `sendreceive/logic.cpp`).  Strong fairness for
requests that reach the server, for answers that reach the client, and for the
list and the get of chapters, notes, settings and notifications: a network over which a retry never gets through
is not one on which anything can converge.  Users are not fair: `Convergence`
says what happens *if* they rest.

`TaskQueue` only has weak fairness: of the timer, of the callers that are
about to queue something, and of the threads.  A synchronization ends, as every one of its
requests has a timeout (600 seconds, `filter/url.cpp:1566`, which is less than
the 900 of a watchdog).  In `Confirmation` the threads and the sender are weakly
fair, and the nightly maintenance strongly, for it comes every night, and at
some night no mail is being sent.

## 5. Proofs

Every safety property of the passing runs, and the refinement, is a theorem;
section 4 says by its tokens what each hypothesis keeps out.

`BibleSyncProofs` proves, for any number of clients, chapters, verses, authors,
writers and any `MaxWord`, most of it under two named hypotheses:

* `Calm`: no window is hit, no answer is lost (`Hazard` within `quit` and
  `restart`).  None of the properties survives without it: see the tokens in
  section 4.
* `AllOnServer`: the server has all chapters at the start.

| Theorem | Statement | Hypothesis |
|---|---|---|
| `TypeCorrect` | `Spec => []TypeOK` | none |
| `Invariance` | `Spec => []IInv` | `Calm`, `AllOnServer` |
| `UnsentRecorded` | `Spec => []UnsentIsRecorded` | `Calm`, `AllOnServer` |
| `ConfirmedStored` | `Spec => []ConfirmedIsStored` | `Calm`, `AllOnServer` |
| `EditsAreKept` | `Spec => EditsKept` | `Calm`, `AllOnServer` |
| `ServerNeverGoesBack` | `Spec => ServerMovesOn` | `Calm`, `AllOnServer` |
| `BroughtAlong` | `Spec => []BroughtAlongStays` | `Undisturbed` |

`Undisturbed` leaves the server with any chapters, and allows lost answers, a
server that restarts, simultaneous requests for one chapter, new chapters, and the
saves beside the task but for one window (`"clear"`).  It excludes clients that
stop, and earlier wordings that are put back, and it has those who connect write.

Types first.  A request has no empty text and no merge an empty prioritized side:
that holds with every hazard, but rests on what the task knows (`Sound`): what is
on its list is on the server, which never loses a chapter, what it got is a
chapter, and so is what it has sent.  Without this the types are not inductive.

The argument for a calm system.  The other properties speak of a verse that one translator with write
access edits.  The heart of `IInv` is `Known`: for such a verse the server has
exactly the wording that the recorded base says it has, or, without an action,
exactly the client's.  So the merge on the server finds the base and the
server's copy equal and takes the client's; it never comes to a conflict.
`Known` is not inductive by itself.  It needs that *other* clients, which send
an old copy of the verse along with their own, never have a newer wording than
the server (`Behind`), and that their base is not newer than their copy
(`Ordered`), so that the merge takes the server's copy.  `Handled` ties a
request to the locals of the task that waits for it, `Remembers` says what stays
true of the locals while others write, and `Present` keeps the empty texts out.

The argument for `BroughtAlong`.  A chapter is deleted on the client if the server
lacks it and the client did not just connect.  So, until the server has the chapter,
either the flag is set, or the chapter has an action or is underway *and* the task
will not get as far as the list: it is still on the task's list, or something
failed (the last part of `OnItsWay`).  An action by itself is not enough, since the
task sends nothing if the text equals the base.  Hence `Older`: a base is
nothing at all, or truly older than the text, or belongs to a save that is about
to store something newer; and what the task has in hand is newer than the base
that it will restore.  That is where an earlier wording, a stop in the midst of a
save, and a save in the window of the clearing get in.  The confirmation of a chapter
that the server lacks would end all that; that there is none (`pc[c] # "ack"`) is
where write access is needed.

`ChapterMergeProofs`: the merge has a type, equals both texts if they agree,
has the prioritized wording at a conflict, has the change where only it
changed, and keeps the later of two wordings neither of which is older than the
base.

`SharedBibleProofs`: under the same hypotheses `BibleSync` implements
`SharedBible` (`Implementation`).  The invariant is extended by `Forward`
(`ForwardInvariance`): a save underway, and a chapter that the task has in hand, are
not older than the client's copy, nor the server's verses of this user newer.
Most steps are `Quiet`, and map to a stutter; a store on a client maps to `Edit`
or `Fetch`, a store on the server to `Publish`.

`TaskQueueProofs`, for any threads, callers, tasks and bounds.  The hypotheses are
about the constant `Hazard` only, and each theorem names those it needs:

| Theorem | Statement | As long as |
|---|---|---|
| `TypeCorrect` | `Spec => []TypeOK` | always |
| `OneExecution` | `Spec => []RunsOnce` | no thread is slow |
| `ParallelBound` | `Spec => []Bounded` | no thread is slow |
| `Exclusion` | `Spec => []Exclusive` | no thread is slow, no synchronization hangs |
| `Watchdogs` | `Spec => []WatchdogHeld` | no thread is slow, no synchronization hangs |
| `NoneLost` | `Spec => []NothingLost` | no thread is slow, files are read whole, no exit before the count |

The argument goes up in four steps, each an inductive invariant relative to those
before it.  `Basic`: the counter is the number of the threads that counted
themselves, and names in the folder are unique.  `Steady`: one thread at a time is
between its start and its watchdog, its file is in the folder until it unlinks it, and
files in the folder were not executed.  `Apart`: the watchdogs that are set are those
of the synchronizations that run; the look at a watchdog and the kick that
follows are two steps, and only `Steady` keeps another thread from coming in
between.  `Kept`: a file belongs to who fills it until it is filled, and a
thread that found nothing in its file holds one that was not queued in full.

`SettingsSyncProofs`, for any clients, settings and bounds and without any
hypothesis, as what may get lost is put down in `hit`:

| Theorem | Statement |
|---|---|
| `TypeCorrect` | `Spec => []TypeOK` |
| `Flagged` | `Spec => []UnsentIsFlagged` |
| `Kept` | `Spec => UnsentIsKept` |
| `OnlyChanges` | `Spec => OnlyChangesAreSent` |

`IInv` has three parts for each client.  `Recorded`: every list of flags that
somebody has read, and will write, has the open changes.  `Sent`: a task that runs
has the open changes in hand, with their values.  `Genuine`: nothing is flagged,
or about to be sent, but changes of the user.

`ChangesSyncProofs`, for any clients and bounds and without any hypothesis:

| Theorem | Statement |
|---|---|
| `TypeCorrect` | `Spec => []TypeOK` |
| `Listed` | `Spec => []DismissedIsListed` |
| `CachedSum` | `Spec => []SumIsTrue` |
| `OnlyDismissed` | `Spec => OnlyDismissedGo` |

`IInv` says that identifiers in use were given, and to whom (`Given`), that what was
calculated since the last change is true (`Due`), and for each client that it
has under an identifier what the server has, unless that is hit (`Coherent`),
that what anybody takes for dismissed is so, or gone, or hit (`Genuine`), and that
every list of removals that somebody will write has all dismissals
(`Complete`).  The identifiers make it hard: a client may ask to remove a
number that means another notification by then.

`NotesSyncProofs`, for any clients, users' operations and numbers of changes:

| Theorem | Statement | Hypothesis |
|---|---|---|
| `TypeCorrect` | `Spec => []TypeOK` | none |
| `UnsentKept` | `Spec => UnsentStays` | without `"check"`, `"late"` |
| `StatusKept` | `Spec => StatusStays` | without `"check"`, `"late"` |
| `DeletionStays` | `Spec => DeletionIsFinal` | without `"server"` |
| `CommentsArriveOnce` | `Spec => []CommentsOnce` | `Discussion` |
| `StatusComes` | `Spec => []StatusArrives` | `Discussion` |

`Discussion` is: the note is there from the start, nobody erases it, and of the
hazards at most `"check"`, `"cache"` and `"quit"`.  `Basic` (types; the rows of a
client have numbers of their own, and what its task has still to send is among
them) holds whatever happens, and is needed even for the types: SQLite's number for
a new row is one above the highest, which has to exist.  `Minded` says that the
task stores or erases a note only while nothing is to be sent; `Orderly`, that a
handler has read the passages, and the whole note if it has any, as they still
are; `Talk`, that each comment row is about a comment of its own, that the server
handles the first row of the task that waits for it, and what follows from that
for each comment (`Counted`) and each status (`Heeded`) on the server.  `"check"`
takes the status from a client that has yet to send it, yet does not break
`StatusArrives`: the client then has the status of the server.

`ConfirmationProofs`, for any requests, visitors, senders, mails, rows, retries, lost
answers and crashes:

| Theorem | Statement | Hypothesis |
|---|---|---|
| `TypeCorrect` | `Spec => []TypeOK` | none |
| `LinksWork` | `Spec => []LinkWorks` | none |
| `MadeOnce` | `Spec => []ExecutedOnce` | without `"click"`, and `Within` empty |
| `MailSentOnce` | `Spec => []SentOnce` | without `"flag"`, `"vacuum"`, `"clear"` |
| `MailIsKept` | `Spec => MailsStay` | without `"flag"`, `"vacuum"`, `"clear"` |

The constants are assumed to give each request a link of its own, as the code puts
a random id into each, and no other mail looks like one (`ConfirmationAssumption`).

`TypeCorrect` is about the table: that the number of a new row is free, which rests
on a finite set of numbers having a highest one, and that the rows which a vacuum
numbers anew have the numbers 1, 2 and so on, one each (`RanksAreNumbers`: different
rows have different ranks, and there are as many ranks as rows).

Nothing but the record tells whether a change was made, and it is erased two
steps after the change: so whoever handles a click has to be alone (`Single`),
and a record that outlives its change belongs to somebody who is about to erase
it (`Once`), or was in hand in a crash.  For `LinksWork`, `LinkInv` follows the mail
with the link through the table, from the set-up, which queues it before the record is
there, to the click.

Nothing but its number tells a sender which row it deals with.  `SendInv` says that
one sender is at work (`OneSends`), that the rows which it listed are in the table
with the mail that it read (`Holding`), and that for each mail the times it was sent and the
rows in which it waits are together no more than the times it was queued and those that
its answer got lost (`Counted`).  The
row that is about to be erased waits no more (`Waiting`): without that the count
would be wrong between the answer of the mail server and the erasure.

Only model-checked: every property called `Convergence`, `EveryTaskRuns`,
`ToldOfChange` and `BroughtAlongArrives` (liveness under fairness is beyond the proof system,
and so is ENABLED).  Nothing is proved about the two violated statements.

## 6. Not modelled

The kernel has some 740,000 lines, of which most are not Bibledit's own: SQLite,
mbedtls, gumbo, utf8proc's and gumbo's generated tables, pugixml, stb, miniz and
others are third-party code.  Of the rest, most turns one text into another
(editors, exports, imports, checks, pages), in one thread, with no state that
outlives the call, where a model would say no more than the code.  The modules cover what
several threads, or a client and the server, do to the same data.

* Bibles and books above the chapters: the task goes over them in the same way,
  and only the descent by checksums differs (plan, 9).
* Texts within a verse: words and graphemes.  Two changes of one verse that would merge
  at the grain of words are taken as a conflict, the worse case.
* Several rows of Bible actions for one chapter: a row is only ever added if
  `get_usfm` finds none, except after one with an empty base, and then it is never read.
* Notes: subscriptions, assignments, the mark for deletion and its expiry,
  which a download drops (`database/notes.cpp:1863`); the division of a range of
  more than 20 notes; the bound of 15 erasures in one go
  (`sendreceive/notes.cpp:470`); a write of a note's file on the client that
  overlaps another one there; the nightly indexing on the client.
* The checksum of a list of identifiers, which puts them one after the other
  without a separator (`sync/logic.cpp:240`): two lists may have the same one.
* Settings: the list of Bibles for which fonts are got, and the name and
  version of the platform.  Changes: how the nightly run finds them, and the
  clearing of notifications by category.
* Mails: the static payload that two sending threads would share
  (`email/send.cpp:136`); SMTP, which accepts, refuses, denies the login, or
  accepts without an answer that gets back.
* The tasks themselves but for the synchronizations: in `TaskQueue` each is one step.
* HTTP, authentication and encoding: pure input and output.  A request is
  handled or not, and its answer arrives or not.
* The hours at which the timer queues its tasks: any time may be.
* The components that "components" in `PROJECT.json` lists as not modelled, with
  the reason for each.
