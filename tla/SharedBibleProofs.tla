-------------------------- MODULE SharedBibleProofs --------------------------
(***************************************************************************)
(* Proof that BibleSync implements SharedBible, for any clients, chapters, *)
(* verses, authors and bounds, where none of the windows is hit.           *)
(***************************************************************************)
EXTENDS BibleSyncProofs

-----------------------------------------------------------------------------
(* No save takes an own verse back *)

\* A step that changes neither the client's chapters nor its save, and that the
\* task does not take a chapter in hand in.
Quiet(c) ==
  /\ text'[c] = text[c]
  /\ edit'[c] # NoEdit => /\ edit[c] # NoEdit
                          /\ edit'[c].chapter = edit[c].chapter
                          /\ edit'[c].text = edit[c].text
  /\ Holding(c)' => Holding(c) /\ new'[c] = new[c] /\ job'[c] = job[c]

\* Such a step keeps a save that moves forward a save that does.
LEMMA QuietKeepsForward ==
  ASSUME NEW c \in Client, NEW v, Quiet(c), Forward(c, v)
  PROVE  Forward(c, v)'
BY DEF Quiet, Forward

\* The steps of the user that do not store are quiet for all, but for the save
\* that the user begins.
LEMMA SaveIsQuiet ==
  ASSUME TypeOK, NEW c \in Client, NEW d \in Client,
         RecordEdit(d) \/ ((Compose(d) \/ StoreEdit(d)) /\ d # c)
  PROVE  Quiet(c)
<1>1. /\ pc' = pc /\ new' = new /\ job' = job
      /\ d # c => text'[c] = text[c] /\ edit'[c] = edit[c]
  BY DEF RecordEdit, Compose, StoreEdit, taskVars, TypeOK
<1>2. CASE d # c
  BY <1>1, <1>2 DEF Quiet, Holding, Underway
<1>3. CASE RecordEdit(c)
  <2>1. edit[c] # NoEdit /\ edit[c] \in Edits /\ text' = text
        /\ edit' = [edit EXCEPT ![c].recorded = TRUE]
    BY <1>3 DEF RecordEdit, TypeOK
  <2>2. edit'[c].chapter = edit[c].chapter /\ edit'[c].text = edit[c].text
    BY <2>1 DEF TypeOK, Edits
  <2> QED BY <1>1, <2>1, <2>2 DEF Quiet, Holding, Underway
<1> QED BY <1>2, <1>3

\* So are the steps of sending, but for the one that takes up a chapter.
LEMMA SendIsQuiet ==
  ASSUME TypeOK, NEW c \in Client, NEW d \in Client,
         \/ Start(d) \/ ClearAction(d) \/ Confirmed(d) \/ SendFails(d)
         \/ RestoreErase(d) \/ RestoreRecord(d) \/ SendDone(d)
         \/ ReadChapter(d) /\ d # c
  PROVE  Quiet(c)
<1>1. text' = text /\ edit' = edit
  BY DEF Start, ReadChapter, ClearAction, Confirmed, SendFails, RestoreErase, RestoreRecord,
     SendDone, clientVars
<1>2. Holding(c)' => Holding(c) /\ new'[c] = new[c] /\ job'[c] = job[c]
  <2>1. CASE Start(d)
    BY <2>1 DEF Start, TypeOK, Holding, Underway
  <2>2. CASE ClearAction(d)
    BY <2>2 DEF ClearAction, EndChapter, TypeOK, Holding, Underway
  <2>3. CASE Confirmed(d)
    BY <2>3 DEF Confirmed, EndChapter, TypeOK, Holding, Underway
  <2>4. CASE SendFails(d)
    BY <2>4 DEF SendFails, TypeOK, Holding, Underway
  <2>5. CASE RestoreErase(d)
    BY <2>5 DEF RestoreErase, TypeOK, Holding, Underway
  <2>6. CASE RestoreRecord(d)
    BY <2>6 DEF RestoreRecord, EndChapter, TypeOK, Holding, Underway
  <2>7. CASE SendDone(d)
    BY <2>7 DEF SendDone, EndTask, EndChapter, TypeOK, Holding, Underway
  <2>8. CASE ReadChapter(d) /\ d # c
    BY <2>8 DEF ReadChapter, TypeOK, Holding, Underway
  <2> QED BY <2>1, <2>2, <2>3, <2>4, <2>5, <2>6, <2>7, <2>8
<1> QED BY <1>1, <1>2 DEF Quiet

\* And those of the server, and of a client or a server that stops.
LEMMA ServerIsQuiet ==
  ASSUME TypeOK, NEW c \in Client, NEW d \in Client,
         Receive(d) \/ StoreReceived(d) \/ Quit(d) \/ Restart
  PROVE  Quiet(c)
<1>1. text' = text /\ edit'[c] \in {edit[c], NoEdit}
  BY DEF Receive, StoreReceived, Quit, Restart, clientVars, TypeOK
<1>2. Holding(c)' => Holding(c) /\ new'[c] = new[c] /\ job'[c] = job[c]
  <2>1. CASE Receive(d)
    BY <2>1 DEF Receive, TypeOK, Holding, Underway
  <2>2. CASE StoreReceived(d)
    BY <2>2 DEF StoreReceived, TypeOK, Holding, Underway
  <2>3. CASE Quit(d)
    BY <2>3 DEF Quit, EndTask, EndChapter, TypeOK, Holding, Underway
  <2>4. CASE Restart
    BY <2>4 DEF Restart, TypeOK, Holding, Underway
  <2> QED BY <2>1, <2>2, <2>3, <2>4
<1> QED BY <1>1, <1>2 DEF Quiet

\* And those of receiving that do not store.
LEMMA FetchIsQuiet ==
  ASSUME IInv, NEW c \in Client, NEW d \in Client,
         \/ NothingToReceive(d) \/ ListChapters(d) \/ SkipChapter(d) \/ GetChapter(d)
         \/ CheckAction(d) \/ ReadMine(d) \/ RecordMerged(d) \/ ReceiveDone(d)
         \/ (StoreServer(d) \/ StoreMerged(d)) /\ d # c
  PROVE  Quiet(c)
<1> USE DEF IInv, Present
<1>1. text'[c] = text[c] /\ edit' = edit
  <2>1. ListChapters(d) => UNCHANGED <<text, edit>>
    BY ListChaptersStep DEF ListChapters
  <2> QED BY <2>1 DEF NothingToReceive, SkipChapter, GetChapter, CheckAction, ReadMine,
     RecordMerged, ReceiveDone, StoreServer, StoreMerged, clientVars, TypeOK
<1>2. Holding(c)' => Holding(c) /\ new'[c] = new[c] /\ job'[c] = job[c]
  <2>1. CASE NothingToReceive(d)
    BY <2>1 DEF NothingToReceive, EndTask, EndChapter, TypeOK, Holding, Underway
  <2>2. CASE ListChapters(d)
    BY <2>2 DEF ListChapters, TypeOK, Holding, Underway
  <2>3. CASE SkipChapter(d)
    BY <2>3 DEF SkipChapter, TypeOK, Holding, Underway
  <2>4. CASE GetChapter(d)
    BY <2>4 DEF GetChapter, TypeOK, Holding, Underway
  <2>5. CASE CheckAction(d)
    BY <2>5 DEF CheckAction, TypeOK, Holding, Underway
  <2>6. CASE ReadMine(d)
    BY <2>6 DEF ReadMine, TypeOK, Holding, Underway
  <2>7. CASE ReceiveDone(d)
    BY <2>7 DEF ReceiveDone, EndTask, EndChapter, TypeOK, Holding, Underway
  <2>8. CASE RecordMerged(d)
    BY <2>8 DEF RecordMerged, TypeOK, Holding, Underway
  <2>9. CASE (StoreServer(d) \/ StoreMerged(d)) /\ d # c
    BY <2>9 DEF StoreServer, StoreMerged, EndChapter, TypeOK, Holding, Underway
  <2> QED BY <2>1, <2>2, <2>3, <2>4, <2>5, <2>6, <2>7, <2>8, <2>9
<1> QED BY <1>1, <1>2 DEF Quiet

\* What a user saves is not older than what the client has.
LEMMA ComposeForward ==
  ASSUME IInvForward, Calm, NEW c \in Client, NEW v \in Own(c), Compose(c)
  PROVE  Forward(c, v)'
<1> USE DEF IInvForward, IInv, Present
<1>1. v \in Verse
  BY WhoseVerse
<1>2. PICK ch \in Chapter, u \in Verse, word \in 0..MaxWord :
        /\ text[c][ch] # NoText
        /\ word > text[c][ch][u]
        /\ edit' = [edit EXCEPT ![c] =
             [chapter |-> ch, text |-> [text[c][ch] EXCEPT ![u] = word], recorded |-> FALSE]]
  BY NoWindow, NoTextAssumption DEF Compose, Calm
<1>3. /\ UNCHANGED <<text, pc, new, job>> /\ text[c][ch] \in Text
      /\ edit'[c].chapter = ch /\ edit'[c].text = [text[c][ch] EXCEPT ![u] = word]
  BY <1>2 DEF Compose, taskVars, TypeOK, Maybe
<1>4. text[c][ch][v] <= edit'[c].text[v]
  BY <1>1, <1>2, <1>3 DEF Text
<1> QED BY <1>3, <1>4 DEF Forward, Holding, Underway

\* The store of a save takes the client forward.
LEMMA StoreEditForward ==
  ASSUME IInvForward, NEW c \in Client, NEW v \in Own(c), StoreEdit(c)
  PROVE  /\ Forward(c, v)'
         /\ text[c][edit[c].chapter][v] <= edit[c].text[v]
<1> USE DEF IInvForward, IInv, Present
<1>1. v \in Verse
  BY WhoseVerse
<1>2. /\ edit[c] # NoEdit /\ edit[c] \in Edits
      /\ text[c][edit[c].chapter] \in Text
      /\ text' = [text EXCEPT ![c][edit[c].chapter] = edit[c].text]
      /\ edit'[c] = NoEdit
      /\ UNCHANGED <<pc, new, job>>
  BY DEF StoreEdit, taskVars, TypeOK, Maybe, Edits
<1>3. text[c][edit[c].chapter][v] <= edit[c].text[v]
  BY <1>2 DEF Forward
<1>4. ASSUME Holding(c) PROVE new[c][v] <= text'[c][job[c]][v]
  <2>1. /\ new[c] \in Text /\ job[c] \in Chapter /\ text[c][job[c]] \in Text
        /\ new[c][v] <= text[c][job[c]][v]
    BY <1>4 DEF TypeOK, Maybe, Forward
  <2>2. CASE job[c] = edit[c].chapter
    BY <1>1, <1>2, <1>3, <2>1, <2>2 DEF Text, Edits, TypeOK
  <2>3. CASE job[c] # edit[c].chapter
    BY <1>2, <2>1, <2>3 DEF TypeOK, Edits
  <2> QED BY <2>2, <2>3
<1> QED BY <1>2, <1>3, <1>4 DEF Forward, Holding, Underway

\* What the task takes in hand is what the client has.
LEMMA ReadChapterForward ==
  ASSUME IInvForward, NEW c \in Client, NEW v \in Own(c), ReadChapter(c)
  PROVE  Forward(c, v)'
<1> USE DEF IInvForward, IInv, Present
<1>1. v \in Verse
  BY WhoseVerse
<1>2. PICK ch \in todo[c] :
        /\ job' = [job EXCEPT ![c] = ch]
        /\ new' = [new EXCEPT ![c] = text[c][ch]]
        /\ action[c][ch] # NoAction
        /\ UNCHANGED <<text, edit>>
  BY DEF ReadChapter, clientVars, Remembers
<1>3. /\ ch \in Chapter /\ text[c][ch] \in Text
      /\ job'[c] = ch /\ new'[c] = text[c][ch]
  BY <1>2 DEF TypeOK, Maybe
<1>4. text[c][ch][v] <= text[c][ch][v]
  BY <1>1, <1>3 DEF Text
<1> QED BY <1>2, <1>3, <1>4 DEF Forward

\* What the task stores leaves the own verses as they are.
LEMMA StoreForward ==
  ASSUME IInvForward, Calm, NEW c \in Client, NEW v \in Own(c),
         StoreServer(c) \/ StoreMerged(c)
  PROVE  Forward(c, v)'
<1> USE DEF IInvForward, IInv, Present
<1>1. /\ job[c] \in Chapter /\ pc'[c] = "walk" /\ edit' = edit
      /\ \A ch \in Chapter \ {job[c]} : text'[c][ch] = text[c][ch]
  BY DEF StoreServer, StoreMerged, EndChapter, TypeOK
<1>2. text[c][job[c]] # NoText => text'[c][job[c]][v] = text[c][job[c]][v]
  BY StoreServerStep, StoreMergedStep
<1>3. edit[c] # NoEdit => edit[c].chapter \in Chapter /\ text[c][edit[c].chapter] # NoText
  BY DEF TypeOK, Edits
<1> QED BY <1>1, <1>2, <1>3 DEF Forward, Holding, Underway

\* Every step keeps the saves that move forward.
LEMMA StepForward ==
  ASSUME IInvForward, Calm, [Next]_vars
  PROVE  IInvForward'
<1> USE DEF IInvForward
<1>1. IInv'
  BY StepHolds
<1>2. TypeOK
  BY DEF IInv, Present
<1>3. SUFFICES ASSUME NEW c \in Client, NEW v \in Own(c)
               PROVE  Forward(c, v)'
  BY <1>1 DEF Own
<1>4. Forward(c, v)
  OBVIOUS
<1>5. CASE UNCHANGED vars
  BY <1>4, <1>5, QuietKeepsForward DEF vars, clientVars, taskVars, Quiet, Holding, Underway
<1>6. CASE Restart
  BY <1>2, <1>4, <1>6, ServerIsQuiet, QuietKeepsForward
<1>7. ASSUME NEW d \in Client, Save(d) PROVE Forward(c, v)'
  <2>1. CASE d = c /\ (Compose(c) \/ StoreEdit(c))
    BY <2>1, ComposeForward, StoreEditForward
  <2>2. CASE ~(d = c /\ (Compose(d) \/ StoreEdit(d)))
    BY <1>2, <1>4, <1>7, <2>2, SaveIsQuiet, QuietKeepsForward DEF Save
  <2> QED BY <2>1, <2>2
<1>8. ASSUME NEW d \in Client, Send(d) PROVE Forward(c, v)'
  <2>1. CASE d = c /\ ReadChapter(c)
    BY <2>1, ReadChapterForward
  <2>2. CASE ~(d = c /\ ReadChapter(d))
    BY <1>2, <1>4, <1>8, <2>2, SendIsQuiet, QuietKeepsForward DEF Send
  <2> QED BY <2>1, <2>2
<1>9. ASSUME NEW d \in Client, Handle(d) \/ Quit(d) PROVE Forward(c, v)'
  BY <1>2, <1>4, <1>9, ServerIsQuiet, QuietKeepsForward DEF Handle
<1>10. ASSUME NEW d \in Client, Fetch(d) PROVE Forward(c, v)'
  <2>1. CASE d = c /\ (StoreServer(c) \/ StoreMerged(c))
    BY <2>1, StoreForward
  <2>2. CASE ~(d = c /\ (StoreServer(d) \/ StoreMerged(d)))
    BY <1>4, <1>10, <2>2, FetchIsQuiet, QuietKeepsForward DEF Fetch
  <2> QED BY <2>1, <2>2
<1> QED BY <1>5, <1>6, <1>7, <1>8, <1>9, <1>10 DEF Next

\* At the start nobody saves, and no task has a chapter in hand.
LEMMA InitForward ==
  ASSUME AllOnServer, Init
  PROVE  IInvForward
<1>1. \A c \in Client : edit[c] = NoEdit /\ pc[c] = "idle"
  BY DEF Init
<1> QED BY <1>1, InitHolds DEF IInvForward, Forward, Holding, Underway

\* The inductive invariant of the implementation holds in every state.
THEOREM ForwardInvariance ==
  ASSUME Calm, AllOnServer
  PROVE  Spec => []IInvForward
<1>1. Init => IInvForward
  BY InitForward
<1>2. IInvForward /\ [Next]_vars => IInvForward'
  BY StepForward
<1> QED BY <1>1, <1>2, PTL DEF Spec

-----------------------------------------------------------------------------
(* The steps of the shared Bible *)

\* Of the verses that have a translator those that are not the client's own are
\* another's.
LEMMA NotMine ==
  ASSUME NEW c \in Client, NEW v \in OwnVerses
  PROVE  v \in Own(c) \/ v \in Theirs(c)
<1>1. PICK d \in Client : v \in Own(d)
  BY DEF OwnVerses
<1> QED BY <1>1, WhoseVerse

\* A step that changes neither the server nor any client's chapters is not seen.
LEMMA Unseen ==
  ASSUME UNCHANGED <<server, text>>
  PROVE  UNCHANGED Shared!vars
<1>1. \A ch \in Chapter : SharedText(ch)' = SharedText(ch)
  BY DEF SharedText, VerseText, OwnVerses, Own
<1>2. \A c \in Client, ch \in Chapter : CopyText(c, ch)' = CopyText(c, ch)
  BY DEF CopyText, VerseText, OwnVerses, Own
<1> QED BY <1>1, <1>2 DEF Shared!vars

\* A step that changes one chapter of one client is seen to change just that.
LEMMA ChangesOneCopy ==
  ASSUME TypeOK, NEW c \in Client, NEW ch \in Chapter, NEW new_text,
         UNCHANGED server, text' = [text EXCEPT ![c][ch] = new_text]
  PROVE  Shared!ChangesCopy(c, ch)
<1>1. \A x \in Chapter : SharedText(x)' = SharedText(x)
  BY DEF SharedText, VerseText, OwnVerses, Own
<1>2. ASSUME NEW d \in Client, NEW other \in Chapter, <<d, other>> # <<c, ch>>
      PROVE  CopyText(d, other)' = CopyText(d, other)
  <2>1. text'[d][other] = text[d][other]
    BY <1>2 DEF TypeOK
  <2> QED BY <2>1 DEF CopyText, VerseText, OwnVerses, Own
<1> QED BY <1>1, <1>2 DEF Shared!ChangesCopy

\* The wordings that the shared Bible is about.
LEMMA SharedWords ==
  ASSUME IInv, NEW c \in Client, NEW ch \in Chapter, NEW v \in OwnVerses
  PROVE  /\ v \in Verse
         /\ SharedText(ch)[v] = server[ch][v] /\ server[ch][v] \in Nat
         /\ CopyText(c, ch)[v] = IF text[c][ch] = NoText THEN Absent ELSE text[c][ch][v]
         /\ text[c][ch] # NoText => text[c][ch][v] \in Nat
<1>1. v \in Verse
  BY DEF OwnVerses, Own
<1>2. server[ch] \in Text /\ server[ch] # NoText /\ text[c][ch] \in Text \union {NoText}
  BY NoTextAssumption DEF IInv, Present, TypeOK, Maybe
<1> QED BY <1>1, <1>2 DEF SharedText, CopyText, VerseText, Text

\* The user's store is the edit of the shared Bible.
LEMMA StoreEditIsEdit ==
  ASSUME IInvForward, Calm, NEW c \in Client, StoreEdit(c)
  PROVE  Shared!Next
<1> USE DEF IInvForward
<1>0. PICK ch \in Chapter : ch = edit[c].chapter
  BY DEF StoreEdit, IInv, Present, TypeOK, Edits
<1>1. /\ edit[c] # NoEdit /\ edit[c] \in Edits /\ edit[c].chapter = ch
      /\ text[c][ch] # NoText /\ edit[c].text \in Text
      /\ text' = [text EXCEPT ![c][ch] = edit[c].text] /\ UNCHANGED server
      /\ text'[c][ch] = edit[c].text
  BY <1>0 DEF StoreEdit, IInv, Present, TypeOK, Edits
<1>2. IInv' /\ IInv /\ TypeOK
  BY StoreEditStep DEF IInv, Present
<1>3. Shared!ChangesCopy(c, ch)
  BY <1>1, <1>2, ChangesOneCopy
<1>4. ASSUME NEW v \in OwnVerses
      PROVE  CopyText(c, ch)[v] = text[c][ch][v] /\ CopyText(c, ch)'[v] = edit[c].text[v]
  <2>1. edit[c].text # NoText
    BY <1>1, NoTextAssumption
  <2> QED BY <2>1, <1>1 DEF CopyText, VerseText, OwnVerses, Own
<1>5. ASSUME NEW v \in Own(c) PROVE CopyText(c, ch)'[v] >= CopyText(c, ch)[v]
  <2>1. v \in OwnVerses /\ v \in Verse
    BY WhoseVerse DEF OwnVerses
  <2>2. text[c][ch][v] <= edit[c].text[v] /\ text[c][ch][v] \in Nat /\ edit[c].text[v] \in Nat
    BY <1>1, <1>2, <2>1, StoreEditForward, SharedWords DEF Text
  <2> QED BY <2>1, <2>2, <1>4
<1>6. ASSUME NEW v \in OwnVerses \ Own(c) PROVE CopyText(c, ch)'[v] <= SharedText(ch)[v]
  <2>1. v \in Theirs(c)
    BY <1>6, NotMine
  <2>2. edit[c].text[v] <= server[ch][v]
    BY <1>1, <1>2, <2>1 DEF IInv, Behind
  <2> QED BY <2>2, <1>1, <1>2, <1>4, SharedWords
<1>7. Shared!Edit(c, ch)
  BY <1>1, <1>3, <1>5, <1>6 DEF Shared!Edit
<1> QED BY <1>1, <1>7 DEF Shared!Next

\* The server's store of a received chapter is its publication.
LEMMA StoreReceivedIsPublish ==
  ASSUME IInvForward, NEW c \in Client, StoreReceived(c)
  PROVE  Shared!Next
<1> USE DEF IInvForward
<1>0. PICK ch \in Chapter : ch = job[c]
  BY DEF IInv, Present, TypeOK
<1>1. /\ server' \in [Chapter -> Text] /\ job[c] = ch /\ pc[c] = "wait"
      /\ \A x \in Chapter \ {ch} : server'[x] = server[x]
      /\ \A v \in Own(c) : server'[ch][v] = new[c][v] /\ server[ch][v] <= new[c][v]
      /\ \A v \in Theirs(c) : server'[ch][v] = server[ch][v]
  BY <1>0, StoreReceivedFacts
<1>2. /\ Holding(c) /\ text[c][ch] # NoText /\ UNCHANGED text
      /\ new[c] \in Text
  BY <1>1 DEF StoreReceived, clientVars, Holding, Underway, IInv, Present, TypeOK, Maybe
<1>3. server'[ch] # NoText
  BY <1>1, NoTextAssumption
<1>4. \A v \in OwnVerses : SharedText(ch)'[v] = server'[ch][v]
  BY <1>3 DEF SharedText, VerseText, OwnVerses, Own
<1>5. ASSUME NEW v \in Own(c) PROVE SharedText(ch)'[v] \in SharedText(ch)[v]..CopyText(c, ch)[v]
  <2>1. v \in OwnVerses /\ v \in Verse
    BY WhoseVerse DEF OwnVerses
  <2>2. new[c][v] <= text[c][ch][v]
    BY <1>1, <1>2 DEF Forward
  <2>3. new[c][v] \in Nat
    BY <1>2, <2>1 DEF Text
  <2> QED BY <2>1, <2>2, <2>3, <1>1, <1>2, <1>4, SharedWords
<1>6. ASSUME NEW v \in OwnVerses \ Own(c) PROVE SharedText(ch)'[v] = SharedText(ch)[v]
  <2>1. v \in Theirs(c)
    BY <1>6, NotMine
  <2> QED BY <2>1, <1>1, <1>4, SharedWords
<1>7. \A other \in Chapter \ {ch} : SharedText(other)' = SharedText(other)
  BY <1>1 DEF SharedText, VerseText, OwnVerses, Own
<1>8. \A d \in Client, x \in Chapter : CopyText(d, x)' = CopyText(d, x)
  BY <1>2 DEF CopyText, VerseText, OwnVerses, Own
<1>9. Shared!Publish(c, ch)
  BY <1>1, <1>5, <1>6, <1>7, <1>8 DEF Shared!Publish
<1> QED BY <1>1, <1>9 DEF Shared!Next

\* What the task stores of the verses that are another's.
LEMMA StoreFacts ==
  ASSUME IInv, Calm, NEW c \in Client, StoreServer(c) \/ StoreMerged(c)
  PROVE  LET ch == job[c]
         IN  /\ \E new_text : text' = [text EXCEPT ![c][ch] = new_text]
             /\ text'[c][ch] \in Text
             /\ \A v \in Theirs(c) : /\ text'[c][ch][v] <= server[ch][v]
                                     /\ text[c][ch] # NoText => text[c][ch][v] <= text'[c][ch][v]
             /\ \A v \in Own(c) :
                  text'[c][ch][v] = IF text[c][ch] = NoText THEN server[ch][v] ELSE text[c][ch][v]
<1> DEFINE ch == job[c]
<1> USE DEF IInv
<1>1. /\ ch \in Chapter /\ Getting(c)
      /\ got[c] \in Text /\ got[c] # NoText
  BY NoTextAssumption DEF StoreServer, StoreMerged, Getting, Present, TypeOK, Maybe
<1>2. ASSUME StoreServer(c)
      PROVE  text' = [text EXCEPT ![c][ch] = got[c]] /\ text'[c][ch] = got[c]
  BY <1>1, <1>2 DEF StoreServer, Present, TypeOK
<1>3. ASSUME StoreMerged(c)
      PROVE  /\ text' = [text EXCEPT ![c][ch] = Merge(old[c], new[c], got[c])]
             /\ text'[c][ch] = Merge(old[c], new[c], got[c])
             /\ text[c][ch] # NoText /\ new[c] = text[c][ch]
             /\ old[c] \in Text /\ new[c] \in Text
             /\ action[c][ch] = old[c] /\ old[c] # NoAction
  <2>1. pc[c] = "put" /\ action[c][ch] = old[c] /\ old[c] # NoText /\ new[c] = text[c][ch]
    BY <1>3 DEF StoreMerged, Remembers
  <2>2. old[c] # NoAction /\ old[c] \in Text
    BY <2>1, BibleSyncAssumption DEF Present, TypeOK, Maybe
  <2> QED BY <1>1, <1>3, <2>1, <2>2 DEF StoreMerged, Present, TypeOK, Maybe
<1>4. text'[c][ch] \in Text
  BY <1>1, <1>2, <1>3, MergeType
<1>5. ASSUME NEW v \in Theirs(c)
      PROVE  text'[c][ch][v] = got[c][v]
  <2>1. CASE StoreServer(c)
    BY <2>1, <1>2
  <2>2. CASE StoreMerged(c)
    <3>1. v \in Verse /\ old[c][v] <= new[c][v] /\ new[c][v] <= got[c][v]
      BY <2>2, <1>1, <1>3, WhoseVerse DEF Ordered, Behind
    <3> QED BY <2>2, <3>1, <1>1, <1>3, MergeKeepsLatest
  <2> QED BY <2>1, <2>2
<1>6. ASSUME NEW v \in Theirs(c)
      PROVE  /\ text'[c][ch][v] <= server[ch][v]
             /\ text[c][ch] # NoText => text[c][ch][v] <= text'[c][ch][v]
  BY <1>1, <1>5 DEF Behind
<1>7. ASSUME NEW v \in Own(c), text[c][ch] = NoText
      PROVE  text'[c][ch][v] = server[ch][v]
  BY <1>1, <1>2, <1>3, <1>7 DEF Known
<1>8. ASSUME NEW v \in Own(c), text[c][ch] # NoText
      PROVE  text'[c][ch][v] = text[c][ch][v]
  BY <1>8, StoreServerStep, StoreMergedStep
<1> QED BY <1>2, <1>3, <1>4, <1>6, <1>7, <1>8

\* It is the fetch of the shared Bible.
LEMMA StoreIsFetch ==
  ASSUME IInv, Calm, NEW c \in Client, StoreServer(c) \/ StoreMerged(c)
  PROVE  Shared!Next
<1>1. PICK ch \in Chapter : ch = job[c]
  BY DEF IInv, Present, TypeOK
<1>2. /\ \E new_text : text' = [text EXCEPT ![c][ch] = new_text]
      /\ text'[c][ch] \in Text
      /\ \A v \in Theirs(c) : /\ text'[c][ch][v] <= server[ch][v]
                              /\ text[c][ch] # NoText => text[c][ch][v] <= text'[c][ch][v]
      /\ \A v \in Own(c) :
           text'[c][ch][v] = IF text[c][ch] = NoText THEN server[ch][v] ELSE text[c][ch][v]
  BY <1>1, StoreFacts
<1>3. TypeOK /\ UNCHANGED server
  BY DEF IInv, Present, StoreServer, StoreMerged
<1>4. Shared!ChangesCopy(c, ch)
  BY <1>2, <1>3, ChangesOneCopy
<1>5. \A v \in OwnVerses : CopyText(c, ch)'[v] = text'[c][ch][v]
  BY <1>2, NoTextAssumption DEF CopyText, VerseText, OwnVerses, Own
<1>6. ASSUME NEW v \in Own(c)
      PROVE  CopyText(c, ch)'[v] =
               IF CopyText(c, ch)[v] = Absent THEN SharedText(ch)[v] ELSE CopyText(c, ch)[v]
  <2>1. v \in OwnVerses
    BY DEF OwnVerses
  <2> QED BY <2>1, <1>2, <1>5, SharedWords DEF Absent
<1>7. ASSUME NEW v \in OwnVerses \ Own(c)
      PROVE  CopyText(c, ch)'[v] \in CopyText(c, ch)[v]..SharedText(ch)[v]
  <2>1. v \in Theirs(c) /\ v \in Verse
    BY <1>7, NotMine, SharedWords
  <2>2. text'[c][ch][v] \in Nat
    BY <2>1, <1>2 DEF Text
  <2> QED BY <2>1, <2>2, <1>2, <1>5, SharedWords DEF Absent
<1>8. Shared!Fetch(c, ch)
  BY <1>4, <1>6, <1>7 DEF Shared!Fetch
<1> QED BY <1>8 DEF Shared!Next

\* The other steps are not seen.
LEMMA StepIsShared ==
  ASSUME IInvForward, Calm, [Next]_vars
  PROVE  [Shared!Next]_(Shared!vars)
<1> USE DEF IInvForward
<1>1. CASE UNCHANGED <<server, text>>
  BY <1>1, Unseen
<1>2. ASSUME NEW c \in Client, StoreEdit(c) PROVE Shared!Next
  BY <1>2, StoreEditIsEdit
<1>3. ASSUME NEW c \in Client, StoreReceived(c) PROVE Shared!Next
  BY <1>3, StoreReceivedIsPublish
<1>4. ASSUME NEW c \in Client, StoreServer(c) \/ StoreMerged(c) PROVE Shared!Next
  BY <1>4, StoreIsFetch
<1>5. \/ UNCHANGED <<server, text>>
      \/ \E c \in Client : \/ StoreEdit(c) \/ StoreReceived(c)
                           \/ StoreServer(c) \/ StoreMerged(c)
  <2>1. CASE UNCHANGED vars
    BY <2>1 DEF vars, clientVars
  <2>2. CASE Restart
    BY <2>2 DEF Restart, clientVars
  <2>3. ASSUME NEW c \in Client, Save(c) PROVE UNCHANGED <<server, text>> \/ StoreEdit(c)
    BY <2>3 DEF Save, Compose, RecordEdit
  <2>4. ASSUME NEW c \in Client, Send(c) PROVE UNCHANGED <<server, text>>
    BY <2>4 DEF Send, Start, ReadChapter, ClearAction, Confirmed, SendFails, RestoreErase,
       RestoreRecord, SendDone, clientVars
  <2>5. ASSUME NEW c \in Client, Handle(c)
        PROVE  UNCHANGED <<server, text>> \/ StoreReceived(c)
    BY <2>5 DEF Handle, Receive, clientVars
  <2>6. ASSUME NEW c \in Client, Fetch(c)
        PROVE  UNCHANGED <<server, text>> \/ StoreServer(c) \/ StoreMerged(c)
    <3>1. ListChapters(c) => UNCHANGED <<server, text>>
      BY ListChaptersStep DEF ListChapters
    <3> QED BY <2>6, <3>1 DEF Fetch, NothingToReceive, SkipChapter, GetChapter, CheckAction,
       ReadMine, RecordMerged, ReceiveDone, clientVars
  <2>7. ASSUME NEW c \in Client, Quit(c) PROVE UNCHANGED <<server, text>>
    BY <2>7 DEF Quit
  <2> QED BY <2>1, <2>2, <2>3, <2>4, <2>5, <2>6, <2>7 DEF Next
<1> QED BY <1>1, <1>2, <1>3, <1>4, <1>5

\* At the start a client has what the server has, or does not have the chapter.
LEMMA InitIsShared ==
  ASSUME AllOnServer, Init
  PROVE  Shared!Init
<1>1. IInv
  BY InitHolds
<1>2. \A c \in Client, ch \in Chapter : text[c][ch] = NoText \/ text[c][ch] = server[ch]
  BY DEF Init, AllOnServer
<1>3. ASSUME NEW c \in Client, NEW ch \in Chapter, NEW v \in OwnVerses
      PROVE  CopyText(c, ch)[v] \in {Absent, SharedText(ch)[v]}
  BY <1>1, <1>2, SharedWords
<1> QED BY <1>3 DEF Shared!Init

\* Send/receive of Bibles implements the shared Bible: with any number of clients
\* and translators, and whatever requests get lost and whoever stops, a verse
\* that has one translator only changes as the shared Bible says.
THEOREM Implementation ==
  ASSUME Calm, AllOnServer
  PROVE  Spec => ImplementsSharedBible
<1>1. Init => Shared!Init
  BY InitIsShared
<1>2. IInvForward /\ [Next]_vars => [Shared!Next]_(Shared!vars)
  BY StepIsShared
<1> QED BY <1>1, <1>2, ForwardInvariance, PTL DEF Spec, ImplementsSharedBible, Shared!Spec
=============================================================================
