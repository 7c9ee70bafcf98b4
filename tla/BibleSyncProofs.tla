--------------------------- MODULE BibleSyncProofs ---------------------------
(***************************************************************************)
(* Proofs that IInv, SoundInv and BroughtInv are invariants of BibleSync,  *)
(* for any clients, chapters, verses, authors and bounds, and that the     *)
(* safety properties of BibleSync follow from them.                        *)
(***************************************************************************)
EXTENDS BibleSyncInv, ChapterMergeProofs

-----------------------------------------------------------------------------
(* What the steps have in common *)

\* The state of a client and of its task that a step of another leaves alone.
Untouched(d) ==
  /\ text'[d] = text[d] /\ action'[d] = action[d] /\ edit'[d] = edit[d]
  /\ pc'[d] = pc[d] /\ todo'[d] = todo[d] /\ job'[d] = job[d]
  /\ old'[d] = old[d] /\ new'[d] = new[d] /\ got'[d] = got[d]

\* None of the windows that the proofs exclude is among the hazards.
LEMMA NoWindow ==
  ASSUME Calm
  PROVE  /\ "clear" \notin Hazard /\ "restore" \notin Hazard /\ "apply" \notin Hazard
         /\ "compose" \notin Hazard /\ "server" \notin Hazard /\ "reply" \notin Hazard
         /\ "crash" \notin Hazard
  BY DEF Calm

\* A step elsewhere that leaves the server's chapters disturbs nothing here.
LEMMA Elsewhere ==
  ASSUME NEW d \in Client, Untouched(d), UNCHANGED server
  PROVE  /\ Remembers(d) => Remembers(d)'
         /\ \A v : Ordered(d, v) => Ordered(d, v)'
         /\ \A v : Behind(d, v) => Behind(d, v)'
         /\ \A v : Known(d, v) => Known(d, v)'
<1>1. Remembers(d) => Remembers(d)'
  BY DEF Untouched, Remembers, Holding, Underway, Storing
<1>2. ASSUME NEW v PROVE Ordered(d, v) => Ordered(d, v)'
  BY DEF Untouched, Ordered, Holding, Underway
<1>3. ASSUME NEW v PROVE Behind(d, v) => Behind(d, v)'
  BY DEF Untouched, Behind, Holding, Underway, Getting
<1>4. ASSUME NEW v PROVE Known(d, v) => Known(d, v)'
  BY DEF Untouched, Known, Underway, Getting
<1> QED BY <1>1, <1>2, <1>3, <1>4

\* A step of one client that leaves the server's chapters.
LEMMA ClientStep ==
  ASSUME IInv, NEW c \in Client,
         UNCHANGED server,
         \A d \in Client \ {c} : Untouched(d),
         Present', Remembers(c)',
         \A d \in Client : Handled(d)',
         \A v \in Own(c) \union Theirs(c) : Ordered(c, v)',
         \A v \in Theirs(c) : Behind(c, v)',
         \A v \in Own(c) : Known(c, v)'
  PROVE  IInv'
<1> USE DEF IInv
<1>1. \A d \in Client : Own(d)' = Own(d) /\ Theirs(d)' = Theirs(d)
  BY DEF Own, Theirs
<1>2. \A d \in Client \ {c} :
        /\ Remembers(d)'
        /\ \A v \in Own(d) \union Theirs(d) : Ordered(d, v)'
        /\ \A v \in Theirs(d) : Behind(d, v)'
        /\ \A v \in Own(d) : Known(d, v)'
  BY Elsewhere
<1> QED BY <1>1, <1>2

\* A step of one client, its user or its task, that the server has no part in.
LEMMA LocalStep ==
  ASSUME IInv, NEW c \in Client,
         UNCHANGED <<server, request>>,
         \A d \in Client \ {c} : Untouched(d),
         \/ pc[c] # "wait" /\ pc'[c] # "wait"
         \/ UNCHANGED <<pc, job, old, new>>,
         Present', Remembers(c)',
         \A v \in Own(c) \union Theirs(c) : Ordered(c, v)',
         \A v \in Theirs(c) : Behind(c, v)',
         \A v \in Own(c) : Known(c, v)'
  PROVE  IInv'
<1> USE DEF IInv
<1>1. \A d \in Client : Handled(d)'
  <2>1. \A d \in Client : pc'[d] = "wait" <=> pc[d] = "wait"
    BY DEF Untouched
  <2>2. ASSUME NEW d \in Client, request[d] # NoRequest
        PROVE  job'[d] = job[d] /\ old'[d] = old[d] /\ new'[d] = new[d]
    <3>1. pc[d] = "wait"
      BY <2>2 DEF Handled
    <3>2. CASE d = c
      BY <3>1, <3>2
    <3>3. CASE d # c
      BY <3>3 DEF Untouched
    <3> QED BY <3>2, <3>3
  <2> QED BY <2>1, <2>2 DEF Handled
<1> QED BY <1>1, ClientStep

\* One's own verse is nobody else's, and both are verses.
LEMMA WhoseVerse ==
  ASSUME NEW c \in Client
  PROVE  /\ Own(c) \subseteq Verse
         /\ Theirs(c) \subseteq Verse
         /\ \A v \in Theirs(c) : c \notin Author[v]
         /\ \A d \in Client \ {c} : Own(c) \subseteq Theirs(d)
         /\ \A v \in Own(c) : c \in Writer
  BY DEF Own, Theirs

-----------------------------------------------------------------------------
(* The user's saves *)

\* The editor offers a newer wording of a verse that the user edits.
LEMMA ComposeStep ==
  ASSUME IInv, Calm, NEW c \in Client, Compose(c)
  PROVE  IInv'
<1> USE DEF IInv
<1>1. PICK ch \in Chapter, v \in Verse, word \in 0..MaxWord :
        /\ c \in Author[v]
        /\ text[c][ch] # NoText
        /\ word > text[c][ch][v]
        /\ edit' = [edit EXCEPT ![c] =
             [chapter |-> ch, text |-> [text[c][ch] EXCEPT ![v] = word], recorded |-> FALSE]]
  BY DEF Compose, Calm
<1>2. /\ edit[c] = NoEdit
      /\ UNCHANGED <<server, text, action, first, pc, todo, failed, job, old, new, got, request>>
  BY DEF Compose, taskVars
<1>3. /\ text[c][ch] \in Text
      /\ [text[c][ch] EXCEPT ![v] = word] \in Text
      /\ edit'[c] \in Edits
      /\ edit'[c].chapter = ch /\ ~edit'[c].recorded
      /\ edit'[c].text = [text[c][ch] EXCEPT ![v] = word]
  BY <1>1, <1>2, BibleSyncAssumption DEF Present, TypeOK, Maybe, Text, Edits
<1>4. edit'[c] # NoEdit
  BY <1>3, BibleSyncAssumption DEF Edits
<1>5. Present'
  BY <1>1, <1>2, <1>3 DEF Present, TypeOK, Holding, Underway, Getting
<1>6. \A d \in Client \ {c} : Untouched(d)
  BY <1>1, <1>2 DEF Untouched, Present, TypeOK
<1>7. Remembers(c)'
  BY <1>2, <1>3 DEF Remembers, Holding, Underway, Storing
<1>8. \A x \in Verse : text[c][ch][x] <= edit'[c].text[x]
  BY <1>1, <1>3 DEF Text
<1>9. \A x \in Own(c) \union Theirs(c) : Ordered(c, x)'
  <2> SUFFICES ASSUME NEW x \in Own(c) \union Theirs(c) PROVE Ordered(c, x)'
    OBVIOUS
  <2>1. x \in Verse /\ Ordered(c, x)
    BY WhoseVerse
  <2>2. Holding(c) => old[c] \in Text /\ text[c][job[c]] \in Text
    BY DEF Present, TypeOK, Maybe
  <2> QED BY <2>1, <2>2, <1>2, <1>3, <1>8 DEF Ordered, Holding, Underway, Text
<1>10. \A x \in Theirs(c) : Behind(c, x)'
  <2> SUFFICES ASSUME NEW x \in Theirs(c) PROVE Behind(c, x)'
    OBVIOUS
  <2>1. x \in Verse /\ Behind(c, x) /\ x # v
    BY <1>1, WhoseVerse
  <2>2. edit'[c].text[x] = text[c][ch][x]
    BY <2>1, <1>3 DEF Text
  <2> QED BY <2>1, <2>2, <1>1, <1>2, <1>3 DEF Behind, Holding, Underway, Getting
<1>11. \A x \in Own(c) : Known(c, x)'
  BY <1>2 DEF Known, Underway, Getting
<1> QED BY <1>2, <1>5, <1>6, <1>7, <1>9, <1>10, <1>11, LocalStep

\* bible_logic::store_chapter records the action, with the client's chapter as the
\* base unless there is one: IInv survives.
LEMMA RecordEditStep ==
  ASSUME IInv, Calm, NEW c \in Client, RecordEdit(c)
  PROVE  IInv'
<1> USE DEF IInv
<1> DEFINE ch == edit[c].chapter
<1>1. /\ edit[c] # NoEdit /\ ~edit[c].recorded
      /\ ~(pc[c] = "clear" /\ job[c] = ch)
      /\ ~(pc[c] = "record" /\ job[c] = ch)
      /\ action' = [action EXCEPT ![c][ch] = Record(action[c][ch], text[c][ch])]
      /\ edit' = [edit EXCEPT ![c].recorded = TRUE]
      /\ UNCHANGED <<server, text, first, pc, todo, failed, job, old, new, got, request>>
  BY NoWindow DEF RecordEdit, taskVars
<1>2. /\ edit[c] \in Edits /\ ch \in Chapter
      /\ text[c][ch] \in Text
      /\ action[c][ch] = NoAction \/ action[c][ch] \in Text
  BY <1>1 DEF Present, TypeOK, Edits, Maybe
<1>3. /\ edit'[c] \in Edits /\ edit'[c] # NoEdit /\ edit'[c].recorded
      /\ edit'[c].chapter = ch /\ edit'[c].text = edit[c].text
  BY <1>1, <1>2, BibleSyncAssumption DEF Present, TypeOK, Edits
<1>4. /\ action'[c][ch] = IF action[c][ch] = NoAction THEN text[c][ch] ELSE action[c][ch]
      /\ \A x \in Chapter \ {ch} : action'[c][x] = action[c][x]
      /\ action'[c][ch] \in Text /\ action'[c][ch] # NoAction
      /\ action' \in [Client -> [Chapter -> Maybe \union {NoAction}]]
  BY <1>1, <1>2, BibleSyncAssumption DEF Present, TypeOK, Record, Maybe
<1>5. Present'
  BY <1>1, <1>2, <1>3, <1>4, NoTextAssumption DEF Present, TypeOK, Holding, Underway, Getting
<1>6. \A d \in Client \ {c} : Untouched(d)
  BY <1>1, <1>2 DEF Untouched, Present, TypeOK
<1>7. Remembers(c)'
  <2>1. job[c] \in Chapter /\ todo[c] \subseteq Chapter /\ old[c] # NoAction
    BY BibleSyncAssumption DEF Present, TypeOK, Maybe
  <2>2. \A x \in Chapter : action[c][x] # NoAction => action'[c][x] = action[c][x]
    BY <1>4
  <2> QED BY <2>1, <2>2, <1>1, <1>2, <1>3, <1>4 DEF Remembers, Holding, Underway, Storing
<1>8. \A v \in Own(c) \union Theirs(c) : Ordered(c, v)'
  <2> SUFFICES ASSUME NEW v \in Own(c) \union Theirs(c) PROVE Ordered(c, v)'
    OBVIOUS
  <2>1. v \in Verse /\ Ordered(c, v)
    BY WhoseVerse
  <2>2. text[c][ch][v] \in Nat /\ edit[c].text[v] \in Nat
        /\ (action[c][ch] # NoAction => action[c][ch][v] \in Nat)
    BY <2>1, <1>2 DEF Edits, Text
  <2>3. action'[c][ch][v] <= text[c][ch][v] /\ action'[c][ch][v] <= edit[c].text[v]
    BY <2>1, <2>2, <1>1, <1>2, <1>4 DEF Ordered
  <2> QED BY <2>1, <2>3, <1>1, <1>2, <1>3, <1>4 DEF Ordered, Holding, Underway
<1>9. \A v \in Theirs(c) : Behind(c, v)'
  BY <1>1, <1>3 DEF Behind, Holding, Underway, Getting
<1>10. \A v \in Own(c) : Known(c, v)'
  <2> SUFFICES ASSUME NEW v \in Own(c) PROVE Known(c, v)'
    OBVIOUS
  <2>1. Known(c, v)
    OBVIOUS
  <2>2. job[c] \in Chapter
    BY DEF Present, TypeOK
  <2> QED BY <2>1, <2>2, <1>1, <1>2, <1>4 DEF Known, Underway, Getting
<1> QED BY <1>1, <1>5, <1>6, <1>7, <1>8, <1>9, <1>10, LocalStep

\* bible_logic::store_chapter stores the user's chapter: the action is there already.
LEMMA StoreEditStep ==
  ASSUME IInv, Calm, NEW c \in Client, StoreEdit(c)
  PROVE  IInv'
<1> USE DEF IInv
<1> DEFINE ch == edit[c].chapter
<1>1. /\ edit[c] # NoEdit /\ edit[c].recorded
      /\ ~(pc[c] \in {"store", "merge", "put"} /\ job[c] = ch)
      /\ text' = [text EXCEPT ![c][ch] = edit[c].text]
      /\ edit' = [edit EXCEPT ![c] = NoEdit]
      /\ UNCHANGED <<server, action, first, pc, todo, failed, job, old, new, got, request>>
  BY NoWindow DEF StoreEdit, taskVars
<1>2. /\ edit[c] \in Edits /\ ch \in Chapter /\ edit[c].text \in Text
      /\ job[c] \in Chapter
  BY <1>1 DEF Present, TypeOK, Edits
<1>3. /\ edit'[c] = NoEdit
      /\ text'[c][ch] = edit[c].text
      /\ \A x \in Chapter \ {ch} : text'[c][x] = text[c][x]
      /\ text' \in [Client -> [Chapter -> Maybe]]
      /\ edit' \in [Client -> Edits \union {NoEdit}]
  BY <1>1, <1>2 DEF Present, TypeOK, Maybe
<1>4. Present'
  BY <1>1, <1>2, <1>3, NoTextAssumption DEF Present, TypeOK, Holding, Underway, Getting
<1>5. \A d \in Client \ {c} : Untouched(d)
  BY <1>1, <1>2 DEF Untouched, Present, TypeOK
<1>6. pc[c] = "clear" => job[c] # ch
  BY <1>1 DEF Remembers, Storing
<1>7. Remembers(c)'
  BY <1>1, <1>2, <1>3, <1>6 DEF Remembers, Holding, Underway, Storing
<1>8. \A v \in Own(c) \union Theirs(c) : Ordered(c, v)'
  <2> SUFFICES ASSUME NEW v \in Own(c) \union Theirs(c), Ordered(c, v) PROVE Ordered(c, v)'
    OBVIOUS
  <2> QED BY <1>1, <1>2, <1>3 DEF Ordered, Holding, Underway
<1>9. \A v \in Theirs(c) : Behind(c, v)'
  <2> SUFFICES ASSUME NEW v \in Theirs(c), Behind(c, v) PROVE Behind(c, v)'
    OBVIOUS
  <2> QED BY <1>1, <1>2, <1>3 DEF Behind, Holding, Underway, Getting
<1>10. \A v \in Own(c) : Known(c, v)'
  <2> SUFFICES ASSUME NEW v \in Own(c), Known(c, v) PROVE Known(c, v)'
    OBVIOUS
  <2>1. action[c][ch] # NoAction \/ (pc[c] = "record" /\ job[c] = ch)
    BY <1>1 DEF Remembers
  <2>2. text[c][ch] # NoText
    BY <1>1 DEF Present
  <2> QED BY <2>1, <2>2, <1>1, <1>2, <1>3 DEF Known, Underway, Getting
<1> QED BY <1>1, <1>4, <1>5, <1>7, <1>8, <1>9, <1>10, LocalStep

-----------------------------------------------------------------------------
(* The client sends *)

\* The task lists the chapters that have an action.
LEMMA StartStep ==
  ASSUME IInv, NEW c \in Client, Start(c)
  PROVE  IInv'
<1> USE DEF IInv
<1>1. /\ pc[c] = "idle"
      /\ pc' = [pc EXCEPT ![c] = "send"]
      /\ todo' = [todo EXCEPT ![c] = {ch \in Chapter : action[c][ch] # NoAction}]
      /\ UNCHANGED <<server, text, action, first, edit, failed, job, old, new, got, request>>
  BY DEF Start, clientVars
<1>2. pc'[c] = "send" /\ todo'[c] = {ch \in Chapter : action[c][ch] # NoAction}
  BY <1>1 DEF Present, TypeOK
<1>3. Present'
  BY <1>1, <1>2 DEF Present, TypeOK, PC, Holding, Underway, Getting
<1>4. \A d \in Client \ {c} : Untouched(d)
  BY <1>1 DEF Untouched, Present, TypeOK
<1>5. Remembers(c)'
  BY <1>1, <1>2 DEF Remembers, Holding, Underway
<1>6. \A v \in Own(c) \union Theirs(c) : Ordered(c, v)'
  BY <1>1, <1>2 DEF Ordered, Holding, Underway
<1>7. \A v \in Theirs(c) : Behind(c, v)'
  BY <1>1, <1>2 DEF Behind, Holding, Underway, Getting
<1>8. \A v \in Own(c) : Known(c, v)'
  BY <1>1, <1>2 DEF Known, Underway, Getting
<1> QED BY <1>1, <1>2, <1>3, <1>4, <1>5, <1>6, <1>7, <1>8, LocalStep

\* The task reads a chapter's base and text, and the two are in order.
LEMMA ReadChapterStep ==
  ASSUME IInv, Calm, NEW c \in Client, ReadChapter(c)
  PROVE  IInv'
<1> USE DEF IInv
<1>1. PICK ch \in todo[c] :
        /\ ~Storing(c, ch)
        /\ job' = [job EXCEPT ![c] = ch]
        /\ todo' = [todo EXCEPT ![c] = todo[c] \ {ch}]
        /\ old' = [old EXCEPT ![c] = Base(action[c][ch])]
        /\ new' = [new EXCEPT ![c] = text[c][ch]]
  BY NoWindow DEF ReadChapter
<1>2. /\ pc[c] = "send" /\ pc' = [pc EXCEPT ![c] = "clear"]
      /\ UNCHANGED <<server, text, action, first, edit, failed, got, request>>
  BY DEF ReadChapter, clientVars
<1>3. /\ ch \in Chapter /\ action[c][ch] # NoAction
      /\ action[c][ch] \in Text /\ text[c][ch] \in Text
  BY <1>2 DEF Present, TypeOK, Remembers, Maybe
<1>4. /\ pc'[c] = "clear" /\ job'[c] = ch /\ todo'[c] = todo[c] \ {ch}
      /\ old'[c] = action[c][ch] /\ new'[c] = text[c][ch]
  BY <1>1, <1>2, <1>3 DEF Present, TypeOK, Base
<1>5. Present'
  BY <1>1, <1>2, <1>3 DEF Present, TypeOK, PC, Maybe, Base, Holding, Underway, Getting
<1>6. \A d \in Client \ {c} : Untouched(d)
  BY <1>1, <1>2 DEF Untouched, Present, TypeOK
<1>7. Remembers(c)'
  BY <1>1, <1>2, <1>3, <1>4 DEF Remembers, Holding, Underway, Storing
<1>8. \A v \in Own(c) \union Theirs(c) : Ordered(c, v)'
  <2> SUFFICES ASSUME NEW v \in Own(c) \union Theirs(c) PROVE Ordered(c, v)'
    OBVIOUS
  <2>1. v \in Verse /\ Ordered(c, v)
    BY WhoseVerse
  <2>2. action[c][ch][v] <= text[c][ch][v]
    BY <2>1, <1>3 DEF Ordered
  <2>3. ASSUME edit[c] # NoEdit, edit[c].chapter = ch PROVE action[c][ch][v] <= edit[c].text[v]
    <3>1. edit[c].text[v] \in Nat /\ text[c][ch][v] \in Nat /\ action[c][ch][v] \in Nat
      BY <2>1, <2>3, <1>3 DEF Present, TypeOK, Edits, Text
    <3> QED BY <2>1, <2>2, <2>3, <3>1, <1>1 DEF Ordered, Storing
  <2> QED BY <2>1, <2>2, <2>3, <1>2, <1>4 DEF Ordered
<1>9. \A v \in Theirs(c) : Behind(c, v)'
  BY <1>2, <1>3, <1>4, NoTextAssumption DEF Behind, Getting
<1>10. \A v \in Own(c) : Known(c, v)'
  BY <1>2, <1>4 DEF Known, Getting, Underway
<1> QED BY <1>2, <1>4, <1>5, <1>6, <1>7, <1>8, <1>9, <1>10, LocalStep

\* The task clears the action: the chapter is now underway, or has nothing to send.
LEMMA ClearActionStep ==
  ASSUME IInv, NEW c \in Client, ClearAction(c)
  PROVE  IInv'
<1> USE DEF IInv
<1> DEFINE ch == job[c]
<1>1. /\ pc[c] = "clear"
      /\ action' = [action EXCEPT ![c][ch] = NoAction]
      /\ UNCHANGED <<server, text, first, edit, todo, failed, job, request>>
      /\ \/ UNCHANGED <<old, new, got>> /\ pc' = [pc EXCEPT ![c] = "post"]
         \/ /\ new[c] \in {old[c], NoText}
            /\ pc' = [pc EXCEPT ![c] = "send"]
            /\ old' = [old EXCEPT ![c] = NoText]
            /\ new' = [new EXCEPT ![c] = NoText]
            /\ got' = [got EXCEPT ![c] = NoText]
  BY DEF ClearAction, EndChapter
<1>2. /\ ch \in Chapter /\ old[c] \in Text /\ new[c] \in Text
      /\ action[c][ch] = old[c] /\ text[c][ch] = new[c] /\ ~Storing(c, ch)
      /\ old[c] # NoAction /\ todo[c] \subseteq Chapter \ {ch}
  BY <1>1, BibleSyncAssumption DEF Present, TypeOK, Maybe, Remembers, Holding
<1>3. /\ action'[c][ch] = NoAction
      /\ \A x \in Chapter \ {ch} : action'[c][x] = action[c][x]
      /\ \/ pc'[c] = "post" /\ old'[c] = old[c] /\ new'[c] = new[c]
         \/ pc'[c] = "send" /\ new[c] = old[c]
  BY <1>1, <1>2, NoTextAssumption DEF Present, TypeOK
<1>4. Present'
  <2>1. TypeOK'
    BY <1>1, <1>2 DEF Present, TypeOK, PC, Maybe
  <2>2. \A d \in Client \ {c} :
          /\ action'[d] = action[d] /\ pc'[d] = pc[d]
          /\ old'[d] = old[d] /\ new'[d] = new[d] /\ got'[d] = got[d]
    BY <1>1 DEF Present, TypeOK
  <2>3. NoAction # NoText
    BY BibleSyncAssumption
  <2> QED BY <2>1, <2>2, <2>3, <1>1, <1>2, <1>3, NoTextAssumption
      DEF Present, Holding, Underway, Getting
<1>5. \A d \in Client \ {c} : Untouched(d)
  BY <1>1, <1>2 DEF Untouched, Present, TypeOK
<1>6. Remembers(c)'
  BY <1>1, <1>2, <1>3 DEF Remembers, Holding, Underway, Storing
<1>7. \A v \in Own(c) \union Theirs(c) : Ordered(c, v)'
  <2> SUFFICES ASSUME NEW v \in Own(c) \union Theirs(c), Ordered(c, v) PROVE Ordered(c, v)'
    OBVIOUS
  <2> QED BY <1>1, <1>2, <1>3 DEF Ordered, Holding, Underway, Storing
<1>8. \A v \in Theirs(c) : Behind(c, v)'
  <2> SUFFICES ASSUME NEW v \in Theirs(c), Behind(c, v) PROVE Behind(c, v)'
    OBVIOUS
  <2> QED BY <1>1, <1>2, <1>3 DEF Behind, Holding, Underway, Getting
<1>9. \A v \in Own(c) : Known(c, v)'
  <2> SUFFICES ASSUME NEW v \in Own(c), Known(c, v) PROVE Known(c, v)'
    OBVIOUS
  <2>1. old[c][v] = server[ch][v]
    BY <1>1, <1>2, NoTextAssumption DEF Known, Underway
  <2> QED BY <2>1, <1>1, <1>2, <1>3 DEF Known, Underway, Getting
<1> QED BY <1>1, <1>3, <1>4, <1>5, <1>6, <1>7, <1>8, <1>9, LocalStep

\* The checksum came back: the server has what was sent.
LEMMA ConfirmedStep ==
  ASSUME IInv, NEW c \in Client, Confirmed(c)
  PROVE  IInv'
<1> USE DEF IInv
<1>1. /\ pc[c] = "ack"
      /\ pc' = [pc EXCEPT ![c] = "send"]
      /\ old' = [old EXCEPT ![c] = NoText]
      /\ new' = [new EXCEPT ![c] = NoText]
      /\ got' = [got EXCEPT ![c] = NoText]
      /\ UNCHANGED <<server, text, action, first, edit, todo, failed, job, request>>
  BY DEF Confirmed, EndChapter, clientVars
<1>2. pc'[c] = "send" /\ job[c] \in Chapter
  BY <1>1 DEF Present, TypeOK
<1>3. Present'
  BY <1>1, <1>2 DEF Present, TypeOK, PC, Maybe, Holding, Underway, Getting
<1>4. \A d \in Client \ {c} : Untouched(d)
  BY <1>1 DEF Untouched, Present, TypeOK
<1>5. Remembers(c)'
  BY <1>1, <1>2 DEF Remembers, Holding, Underway
<1>6. \A v \in Own(c) \union Theirs(c) : Ordered(c, v)'
  BY <1>1, <1>2 DEF Ordered, Holding, Underway
<1>7. \A v \in Theirs(c) : Behind(c, v)'
  BY <1>1, <1>2 DEF Behind, Holding, Underway, Getting
<1>8. \A v \in Own(c) : Known(c, v)'
  BY <1>1, <1>2 DEF Known, Underway, Getting
<1> QED BY <1>1, <1>2, <1>3, <1>4, <1>5, <1>6, <1>7, <1>8, LocalStep

\* The post failed before the server got it.
LEMMA SendFailsStep ==
  ASSUME IInv, Calm, NEW c \in Client, SendFails(c)
  PROVE  IInv'
<1> USE DEF IInv
<1>1. /\ pc[c] = "post"
      /\ pc' = [pc EXCEPT ![c] = "restore"]
      /\ failed' = [failed EXCEPT ![c] = TRUE]
      /\ UNCHANGED <<server, text, action, first, edit, todo, job, old, new, got, request>>
  BY NoWindow DEF SendFails, clientVars
<1>2. pc'[c] = "restore"
  BY <1>1 DEF Present, TypeOK
<1>3. Present'
  BY <1>1, <1>2 DEF Present, TypeOK, PC, Holding, Underway, Getting
<1>4. \A d \in Client \ {c} : Untouched(d)
  BY <1>1 DEF Untouched, Present, TypeOK
<1>5. Remembers(c)'
  BY <1>1, <1>2 DEF Remembers, Holding, Underway
<1>6. \A v \in Own(c) \union Theirs(c) : Ordered(c, v)'
  BY <1>1, <1>2 DEF Ordered, Holding, Underway
<1>7. \A v \in Theirs(c) : Behind(c, v)'
  BY <1>1, <1>2 DEF Behind, Holding, Underway, Getting
<1>8. \A v \in Own(c) : Known(c, v)'
  BY <1>1, <1>2 DEF Known, Underway, Getting
<1> QED BY <1>1, <1>2, <1>3, <1>4, <1>5, <1>6, <1>7, <1>8, LocalStep

\* The task restores the action: first it erases what edits recorded meanwhile ...
LEMMA RestoreEraseStep ==
  ASSUME IInv, NEW c \in Client, RestoreErase(c)
  PROVE  IInv'
<1> USE DEF IInv
<1> DEFINE ch == job[c]
<1>1. /\ pc[c] = "restore"
      /\ action' = [action EXCEPT ![c][ch] = NoAction]
      /\ pc' = [pc EXCEPT ![c] = "record"]
      /\ UNCHANGED <<server, text, first, edit, todo, failed, job, old, new, got, request>>
  BY DEF RestoreErase
<1>2. /\ ch \in Chapter /\ pc'[c] = "record" /\ action'[c][ch] = NoAction
      /\ \A x \in Chapter \ {ch} : action'[c][x] = action[c][x]
      /\ todo[c] \subseteq Chapter \ {ch}
  BY <1>1 DEF Present, TypeOK, Remembers, Holding, Underway
<1>3. Present'
  <2>1. TypeOK'
    BY <1>1, <1>2 DEF Present, TypeOK, PC
  <2>2. \A d \in Client \ {c} : action'[d] = action[d] /\ pc'[d] = pc[d]
    BY <1>1 DEF Present, TypeOK
  <2>3. NoAction # NoText
    BY BibleSyncAssumption
  <2> QED BY <2>1, <2>2, <2>3, <1>1, <1>2 DEF Present, Holding, Underway, Getting
<1>4. \A d \in Client \ {c} : Untouched(d)
  BY <1>1 DEF Untouched, Present, TypeOK
<1>5. Remembers(c)'
  <2>1. edit[c] # NoEdit => edit[c].chapter \in Chapter
    BY DEF Present, TypeOK, Edits
  <2> QED BY <2>1, <1>1, <1>2 DEF Remembers, Holding, Underway
<1>6. \A v \in Own(c) \union Theirs(c) : Ordered(c, v)'
  <2>1. edit[c] # NoEdit => edit[c].chapter \in Chapter
    BY DEF Present, TypeOK, Edits
  <2> QED BY <2>1, <1>1, <1>2 DEF Ordered, Holding, Underway
<1>7. \A v \in Theirs(c) : Behind(c, v)'
  BY <1>1, <1>2 DEF Behind, Holding, Underway, Getting
<1>8. \A v \in Own(c) : Known(c, v)'
  BY <1>1, <1>2 DEF Known, Underway, Getting
<1> QED BY <1>1, <1>2, <1>3, <1>4, <1>5, <1>6, <1>7, <1>8, LocalStep

\* ... then it records the base it held, which the server still has.
LEMMA RestoreRecordStep ==
  ASSUME IInv, NEW c \in Client, RestoreRecord(c)
  PROVE  IInv'
<1> USE DEF IInv
<1> DEFINE ch == job[c]
<1>1. /\ pc[c] = "record"
      /\ action' = [action EXCEPT ![c][ch] = Record(action[c][ch], old[c])]
      /\ pc' = [pc EXCEPT ![c] = "send"]
      /\ old' = [old EXCEPT ![c] = NoText]
      /\ new' = [new EXCEPT ![c] = NoText]
      /\ got' = [got EXCEPT ![c] = NoText]
      /\ UNCHANGED <<server, text, first, edit, todo, failed, job, request>>
  BY DEF RestoreRecord, EndChapter
<1>2. /\ ch \in Chapter /\ pc'[c] = "send"
      /\ old[c] # NoText /\ old[c] # NoAction /\ text[c][ch] # NoText
      /\ action[c][ch] = NoAction
      /\ todo[c] \subseteq Chapter \ {ch}
      /\ old[c] \in Maybe
      /\ edit[c] # NoEdit => edit[c].chapter \in Chapter
  BY <1>1, BibleSyncAssumption
  DEF Present, TypeOK, Remembers, Holding, Underway, Maybe, Edits
<1>3. /\ action'[c][ch] = old[c]
      /\ \A x \in Chapter \ {ch} : action'[c][x] = action[c][x]
  BY <1>1, <1>2 DEF Present, TypeOK, Record
<1>4. Present'
  <2>1. TypeOK'
    BY <1>1, <1>2 DEF Present, TypeOK, PC, Record, Maybe
  <2>2. \A d \in Client \ {c} :
          /\ action'[d] = action[d] /\ pc'[d] = pc[d]
          /\ old'[d] = old[d] /\ new'[d] = new[d] /\ got'[d] = got[d]
    BY <1>1 DEF Present, TypeOK
  <2> QED BY <2>1, <2>2, <1>1, <1>2, <1>3 DEF Present, Holding, Underway, Getting
<1>5. \A d \in Client \ {c} : Untouched(d)
  BY <1>1 DEF Untouched, Present, TypeOK
<1>6. Remembers(c)'
  BY <1>1, <1>2, <1>3 DEF Remembers, Holding, Underway
<1>7. \A v \in Own(c) \union Theirs(c) : Ordered(c, v)'
  <2> SUFFICES ASSUME NEW v \in Own(c) \union Theirs(c), Ordered(c, v) PROVE Ordered(c, v)'
    OBVIOUS
  <2>1. edit[c] # NoEdit /\ edit[c].recorded /\ action[c][edit[c].chapter] = NoAction
          => edit[c].chapter = ch
    BY DEF Remembers
  <2> QED BY <2>1, <1>1, <1>2, <1>3 DEF Ordered, Holding, Underway
<1>8. \A v \in Theirs(c) : Behind(c, v)'
  BY <1>1, <1>2 DEF Behind, Holding, Underway, Getting
<1>9. \A v \in Own(c) : Known(c, v)'
  BY <1>1, <1>2, <1>3 DEF Known, Underway, Getting
<1> QED BY <1>1, <1>2, <1>4, <1>5, <1>6, <1>7, <1>8, <1>9, LocalStep

\* Between two chapters the task has nothing in hand: a step from there to
\* there that leaves the user's side alone has little to disturb.
LEMMA BetweenChapters ==
  ASSUME IInv, NEW c \in Client,
         pc[c] \in {"idle", "send", "list", "walk"},
         pc'[c] \in {"idle", "list", "walk"},
         UNCHANGED <<server, text, action, edit, request>>,
         TypeOK',
         \A d \in Client \ {c} : Untouched(d)
  PROVE  IInv'
<1> USE DEF IInv
<1>1. Present'
  <2>1. ASSUME NEW d \in Client
        PROVE  /\ \A ch \in Chapter :
                    /\ action'[d][ch] # NoText
                    /\ action'[d][ch] # NoAction => text'[d][ch] # NoText
               /\ edit'[d] # NoEdit => text'[d][edit'[d].chapter] # NoText
               /\ Holding(d)' => /\ text'[d][job'[d]] # NoText
                                 /\ old'[d] # NoText
                                 /\ new'[d] # NoText
               /\ Getting(d)' => got'[d] # NoText
    <3>1. CASE d = c
      BY <3>1 DEF Present, Holding, Underway, Getting
    <3>2. CASE d # c
      BY <3>2 DEF Present, Holding, Underway, Getting, Untouched
    <3> QED BY <3>1, <3>2
  <2> QED BY <2>1 DEF Present
<1>2. Remembers(c)'
  BY DEF Remembers, Holding, Underway
<1>3. \A v \in Own(c) \union Theirs(c) : Ordered(c, v)'
  BY DEF Ordered, Holding, Underway
<1>4. \A v \in Theirs(c) : Behind(c, v)'
  BY DEF Behind, Holding, Underway, Getting
<1>5. \A v \in Own(c) : Known(c, v)'
  BY DEF Known, Underway, Getting
<1> QED BY <1>1, <1>2, <1>3, <1>4, <1>5, LocalStep

\* The task ends, or goes on to receive.
LEMMA SendDoneStep ==
  ASSUME IInv, NEW c \in Client, SendDone(c)
  PROVE  IInv'
<1> USE DEF IInv
<1>1. pc[c] = "send" /\ pc' \in {[pc EXCEPT ![c] = "idle"], [pc EXCEPT ![c] = "list"]}
  BY DEF SendDone, EndTask, EndChapter
<1>2. UNCHANGED <<server, text, action, first, edit, job, request>>
  BY DEF SendDone, EndTask, EndChapter, clientVars
<1>3. TypeOK'
  <2>1. \/ UNCHANGED <<todo, failed, old, new, got>>
        \/ /\ todo' = [todo EXCEPT ![c] = {}]
           /\ failed' = [failed EXCEPT ![c] = FALSE]
           /\ old' = [old EXCEPT ![c] = NoText]
           /\ new' = [new EXCEPT ![c] = NoText]
           /\ got' = [got EXCEPT ![c] = NoText]
    BY DEF SendDone, EndTask, EndChapter
  <2>2. pc' \in [Client -> PC]
    BY <1>1 DEF Present, TypeOK, PC
  <2> QED BY <2>1, <2>2, <1>2 DEF Present, TypeOK, Maybe
<1>4. pc'[c] \in {"idle", "list"}
  BY <1>1 DEF Present, TypeOK
<1>5. \A d \in Client \ {c} : Untouched(d)
  BY <1>2 DEF SendDone, EndTask, EndChapter, Present, TypeOK, Untouched
<1> QED BY <1>1, <1>2, <1>3, <1>4, <1>5, BetweenChapters

-----------------------------------------------------------------------------
(* The client receives *)

\* The totals agree: the task ends.
LEMMA NothingToReceiveStep ==
  ASSUME IInv, NEW c \in Client, NothingToReceive(c)
  PROVE  IInv'
<1> USE DEF IInv
<1>1. pc[c] = "list" /\ pc' = [pc EXCEPT ![c] = "idle"]
  BY DEF NothingToReceive, EndTask, EndChapter
<1>2. UNCHANGED <<server, text, action, first, edit, job, request>>
  BY DEF NothingToReceive, EndTask, EndChapter, clientVars
<1>3. TypeOK'
  BY <1>2 DEF NothingToReceive, EndTask, EndChapter, Present, TypeOK, PC, Maybe
<1>4. pc'[c] = "idle"
  BY <1>1 DEF Present, TypeOK
<1>5. \A d \in Client \ {c} : Untouched(d)
  BY <1>2 DEF NothingToReceive, EndTask, EndChapter, Present, TypeOK, Untouched
<1> QED BY <1>1, <1>2, <1>3, <1>4, <1>5, BetweenChapters

\* The server has all chapters, so that there is no surplus on the client.
LEMMA ListChaptersStep ==
  ASSUME IInv, NEW c \in Client, ListChapters(c)
  PROVE  IInv' /\ UNCHANGED text
<1> USE DEF IInv
<1>1. OnlyOnClient(c) = {}
  BY NoTextAssumption DEF OnlyOnClient, Present
<1>2. /\ pc[c] = "list" /\ pc' = [pc EXCEPT ![c] = "walk"]
      /\ todo' = [todo EXCEPT ![c] = {ch \in Chapter : server[ch] # NoText}]
      /\ UNCHANGED <<server, first, edit, failed, job, old, new, got, request>>
  BY DEF ListChapters
<1>3. UNCHANGED <<text, action>>
  BY <1>1 DEF ListChapters, Present, TypeOK
<1>4. TypeOK' /\ pc'[c] = "walk"
  BY <1>2, <1>3 DEF Present, TypeOK, PC
<1>5. \A d \in Client \ {c} : Untouched(d)
  BY <1>2, <1>3 DEF Present, TypeOK, Untouched
<1> QED BY <1>2, <1>3, <1>4, <1>5, BetweenChapters

\* A chapter with equal checksums, or a failed request, changes nothing.
LEMMA SkipChapterStep ==
  ASSUME IInv, NEW c \in Client, SkipChapter(c)
  PROVE  IInv'
<1> USE DEF IInv
<1>1. /\ pc[c] = "walk"
      /\ UNCHANGED <<server, text, action, first, edit, pc, job, old, new, got, request>>
  BY DEF SkipChapter, clientVars
<1>2. /\ failed' = failed \/ failed' = [failed EXCEPT ![c] = TRUE]
      /\ \E ch \in Chapter : todo' = [todo EXCEPT ![c] = todo[c] \ {ch}]
  BY DEF SkipChapter, Present, TypeOK
<1>3. TypeOK'
  <2>1. todo' \in [Client -> SUBSET Chapter]
    BY <1>2 DEF Present, TypeOK
  <2>2. failed' \in [Client -> BOOLEAN]
    BY <1>2 DEF Present, TypeOK
  <2> QED BY <2>1, <2>2, <1>1 DEF Present, TypeOK
<1>4. \A d \in Client \ {c} : Untouched(d)
  BY <1>1, <1>2 DEF Untouched, Present, TypeOK
<1> QED BY <1>1, <1>3, <1>4, BetweenChapters

\* The task ends after the last chapter.
LEMMA ReceiveDoneStep ==
  ASSUME IInv, NEW c \in Client, ReceiveDone(c)
  PROVE  IInv'
<1> USE DEF IInv
<1>1. pc[c] = "walk" /\ pc' = [pc EXCEPT ![c] = "idle"]
  BY DEF ReceiveDone, EndTask, EndChapter
<1>2. /\ UNCHANGED <<server, text, action, edit, job, request>>
      /\ first' = [first EXCEPT ![c] = first[c] /\ failed[c]]
  BY DEF ReceiveDone, EndTask, EndChapter
<1>3. TypeOK'
  BY <1>2 DEF ReceiveDone, EndTask, EndChapter, Present, TypeOK, PC, Maybe
<1>4. pc'[c] = "idle"
  BY <1>1 DEF Present, TypeOK
<1>5. \A d \in Client \ {c} : Untouched(d)
  BY <1>2 DEF ReceiveDone, EndTask, EndChapter, Present, TypeOK, Untouched
<1> QED BY <1>1, <1>2, <1>3, <1>4, <1>5, BetweenChapters

\* The task has a copy of the server's chapter, which nobody can be ahead of.
LEMMA GetChapterStep ==
  ASSUME IInv, NEW c \in Client, GetChapter(c)
  PROVE  IInv'
<1> USE DEF IInv
<1>1. PICK ch \in todo[c] :
        /\ job' = [job EXCEPT ![c] = ch]
        /\ todo' = [todo EXCEPT ![c] = todo[c] \ {ch}]
        /\ got' = [got EXCEPT ![c] = server[ch]]
  BY DEF GetChapter
<1>2. /\ pc[c] = "walk" /\ pc' = [pc EXCEPT ![c] = "check"]
      /\ UNCHANGED <<server, text, action, first, edit, failed, old, new, request>>
  BY DEF GetChapter, clientVars
<1>3. /\ ch \in Chapter /\ server[ch] \in Text
      /\ pc'[c] = "check" /\ job'[c] = ch /\ todo'[c] = todo[c] \ {ch}
      /\ got'[c] = server[ch]
  BY <1>1, <1>2 DEF Present, TypeOK
<1>4. \A d \in Client \ {c} : Untouched(d)
  BY <1>1, <1>2 DEF Untouched, Present, TypeOK
<1>5. Present'
  <2>1. TypeOK'
    BY <1>1, <1>2, <1>3 DEF Present, TypeOK, PC, Maybe
  <2> QED BY <2>1, <1>1, <1>2, <1>3, <1>4, NoTextAssumption
      DEF Present, Holding, Underway, Getting, Untouched
<1>6. Remembers(c)'
  BY <1>2, <1>3 DEF Remembers, Holding, Underway
<1>7. \A v \in Own(c) \union Theirs(c) : Ordered(c, v)'
  BY <1>2, <1>3 DEF Ordered, Holding, Underway
<1>8. \A v \in Theirs(c) : Behind(c, v)'
  <2> SUFFICES ASSUME NEW v \in Theirs(c), Behind(c, v), v \in Verse PROVE Behind(c, v)'
    BY WhoseVerse
  <2>1. server[ch][v] <= server[ch][v]
    BY <1>3 DEF Text
  <2> QED BY <2>1, <1>2, <1>3 DEF Behind, Holding, Underway
<1>9. \A v \in Own(c) : Known(c, v)'
  BY <1>2, <1>3 DEF Known, Underway
<1> QED BY <1>2, <1>3, <1>4, <1>5, <1>6, <1>7, <1>8, <1>9, LocalStep

\* The task learns whether it has to merge or can store.
LEMMA CheckActionStep ==
  ASSUME IInv, NEW c \in Client, CheckAction(c)
  PROVE  IInv'
<1> USE DEF IInv
<1> DEFINE ch == job[c]
<1>1. /\ pc[c] = "check"
      /\ old' = [old EXCEPT ![c] = Base(action[c][ch])]
      /\ pc' = [pc EXCEPT ![c] = IF Base(action[c][ch]) = NoText THEN "store" ELSE "read"]
      /\ UNCHANGED <<server, text, action, first, edit, todo, failed, job, new, got, request>>
  BY DEF CheckAction, clientVars
<1>2. /\ ch \in Chapter /\ action[c][ch] # NoText
      /\ action[c][ch] \in Maybe \union {NoAction}
      /\ got[c] # NoText
  BY <1>1 DEF Present, TypeOK, Getting
<1>3. \/ action[c][ch] = NoAction /\ pc'[c] = "store"
      \/ /\ action[c][ch] # NoAction /\ pc'[c] = "read"
         /\ old'[c] = action[c][ch]
  BY <1>1, <1>2 DEF Base, Present, TypeOK
<1>4. \A d \in Client \ {c} : Untouched(d)
  BY <1>1 DEF Untouched, Present, TypeOK
<1>5. Present'
  <2>1. TypeOK'
    BY <1>1, <1>2 DEF Present, TypeOK, PC, Maybe, Base
  <2> QED BY <2>1, <1>1, <1>2, <1>3, <1>4
      DEF Present, Holding, Underway, Getting, Untouched
<1>6. Remembers(c)'
  BY <1>1, <1>2, <1>3 DEF Remembers, Holding, Underway
<1>7. \A v \in Own(c) \union Theirs(c) : Ordered(c, v)'
  BY <1>1, <1>3 DEF Ordered, Holding, Underway
<1>8. \A v \in Theirs(c) : Behind(c, v)'
  BY <1>1, <1>3 DEF Behind, Holding, Underway, Getting
<1>9. \A v \in Own(c) : Known(c, v)'
  <2> SUFFICES ASSUME NEW v \in Own(c), Known(c, v) PROVE Known(c, v)'
    OBVIOUS
  <2>1. ASSUME action[c][ch] = NoAction, text[c][ch] # NoText
        PROVE  text[c][ch][v] = got[c][v]
    BY <2>1, <1>1, <1>2 DEF Known, Underway, Getting
  <2> QED BY <2>1, <1>1, <1>3 DEF Known, Underway, Getting
<1> QED BY <1>1, <1>3, <1>4, <1>5, <1>6, <1>7, <1>8, <1>9, LocalStep

\* The server's chapter replaces the client's: the user's own verses in it are the same.
LEMMA StoreServerStep ==
  ASSUME IInv, Calm, NEW c \in Client, StoreServer(c)
  PROVE  /\ IInv'
         /\ text'[c][job[c]] # NoText
         /\ \A v \in Own(c) :
              text[c][job[c]] # NoText => text'[c][job[c]][v] = text[c][job[c]][v]
<1> USE DEF IInv
<1> DEFINE ch == job[c]
<1>1. /\ pc[c] = "store" /\ ~Composing(c, ch)
      /\ text' = [text EXCEPT ![c][ch] = got[c]]
      /\ pc' = [pc EXCEPT ![c] = "walk"]
      /\ old' = [old EXCEPT ![c] = NoText]
      /\ new' = [new EXCEPT ![c] = NoText]
      /\ got' = [got EXCEPT ![c] = NoText]
      /\ UNCHANGED <<server, action, first, edit, todo, failed, job, request>>
  BY NoWindow DEF StoreServer, EndChapter, NotComposing
<1>2. /\ ch \in Chapter /\ got[c] \in Text /\ Getting(c) /\ pc'[c] = "walk"
      /\ text'[c][ch] = got[c]
      /\ \A x \in Chapter \ {ch} : text'[c][x] = text[c][x]
      /\ action[c][ch] = NoAction \/ action[c][ch] \in Text
      /\ edit[c] # NoEdit => edit[c].chapter \in Chapter
  BY <1>1 DEF Present, TypeOK, Getting, Maybe, Edits
<1>3. \A d \in Client \ {c} : Untouched(d)
  BY <1>1 DEF Untouched, Present, TypeOK
<1>4. Present'
  <2>1. TypeOK'
    BY <1>1, <1>2 DEF Present, TypeOK, PC, Maybe
  <2> QED BY <2>1, <1>1, <1>2, <1>3, NoTextAssumption
      DEF Present, Holding, Underway, Getting, Untouched
<1>5. Remembers(c)'
  BY <1>1, <1>2 DEF Remembers, Holding, Underway
<1>6. ASSUME NEW v \in Own(c)
      PROVE  /\ got[c][v] = server[ch][v]
             /\ text[c][ch] # NoText => text[c][ch][v] = got[c][v]
             /\ action[c][ch] # NoAction => action[c][ch][v] = server[ch][v]
  BY <1>1, <1>2 DEF Known, Getting, Underway, Present
<1>7. \A v \in Own(c) \union Theirs(c) : Ordered(c, v)'
  <2> SUFFICES ASSUME NEW v \in Own(c) \union Theirs(c), Ordered(c, v), v \in Verse
               PROVE  Ordered(c, v)'
    BY WhoseVerse
  <2>1. action[c][ch] # NoAction => action[c][ch][v] <= got[c][v]
    <3>1. CASE v \in Own(c)
      BY <3>1, <1>2, <1>6 DEF Text
    <3>2. CASE v \in Theirs(c)
      <4>1. ASSUME action[c][ch] # NoAction
            PROVE  text[c][ch] \in Text /\ action[c][ch][v] <= text[c][ch][v]
        BY <4>1, <1>2 DEF Present, TypeOK, Maybe, Ordered
      <4>2. text[c][ch] \in Text => text[c][ch][v] <= got[c][v]
        BY <3>2, <1>2, NoTextAssumption DEF Behind
      <4> QED BY <4>1, <4>2, <1>2 DEF Text
    <3> QED BY <3>1, <3>2
  <2> QED BY <2>1, <1>1, <1>2 DEF Ordered, Holding, Underway, Composing
<1>8. \A v \in Theirs(c) : Behind(c, v)'
  <2> SUFFICES ASSUME NEW v \in Theirs(c), Behind(c, v) PROVE Behind(c, v)'
    OBVIOUS
  <2> QED BY <1>1, <1>2 DEF Behind, Holding, Underway, Getting
<1>9. \A v \in Own(c) : Known(c, v)'
  <2> SUFFICES ASSUME NEW v \in Own(c), Known(c, v) PROVE Known(c, v)'
    OBVIOUS
  <2> QED BY <1>1, <1>2, <1>6 DEF Known, Underway, Getting
<1> QED BY <1>1, <1>2, <1>3, <1>4, <1>5, <1>6, <1>7, <1>8, <1>9, NoTextAssumption, LocalStep

\* The task reads the client's chapter for the merge.
LEMMA ReadMineStep ==
  ASSUME IInv, NEW c \in Client, ReadMine(c)
  PROVE  IInv'
<1> USE DEF IInv
<1>1. /\ pc[c] = "read"
      /\ new' = [new EXCEPT ![c] = text[c][job[c]]]
      /\ pc' = [pc EXCEPT ![c] = "merge"]
      /\ UNCHANGED <<server, text, action, first, edit, todo, failed, job, old, got, request>>
  BY DEF ReadMine, clientVars
<1>2. pc'[c] = "merge" /\ new'[c] = text[c][job[c]] /\ job[c] \in Chapter
  BY <1>1 DEF Present, TypeOK
<1>3. \A d \in Client \ {c} : Untouched(d)
  BY <1>1 DEF Untouched, Present, TypeOK
<1>4. Present'
  <2>1. TypeOK'
    BY <1>1, <1>2 DEF Present, TypeOK, PC
  <2> QED BY <2>1, <1>1, <1>2, <1>3 DEF Present, Holding, Underway, Getting, Untouched
<1>5. Remembers(c)'
  BY <1>1, <1>2 DEF Remembers, Holding, Underway
<1>6. \A v \in Own(c) \union Theirs(c) : Ordered(c, v)'
  BY <1>1, <1>2 DEF Ordered, Holding, Underway
<1>7. \A v \in Theirs(c) : Behind(c, v)'
  BY <1>1, <1>2 DEF Behind, Holding, Underway, Getting
<1>8. \A v \in Own(c) : Known(c, v)'
  BY <1>1, <1>2 DEF Known, Underway, Getting
<1> QED BY <1>1, <1>2, <1>3, <1>4, <1>5, <1>6, <1>7, <1>8, LocalStep

\* The task records the action for the merged chapter: it is there already.
LEMMA RecordMergedStep ==
  ASSUME IInv, NEW c \in Client, RecordMerged(c)
  PROVE  IInv'
<1> USE DEF IInv
<1> DEFINE ch == job[c]
<1>1. /\ pc[c] = "merge"
      /\ action' = [action EXCEPT ![c][ch] = Record(action[c][ch], text[c][ch])]
      /\ pc' = [pc EXCEPT ![c] = "put"]
      /\ UNCHANGED <<server, text, first, edit, todo, failed, job, old, new, got, request>>
  BY DEF RecordMerged
<1>2. pc'[c] = "put" /\ ch \in Chapter /\ action[c][ch] = old[c] /\ old[c] \in Maybe
  BY <1>1 DEF Present, TypeOK, Remembers
<1>3. UNCHANGED action
  BY <1>1, <1>2, BibleSyncAssumption DEF Present, TypeOK, Record, Maybe
<1>4. \A d \in Client \ {c} : Untouched(d)
  BY <1>1, <1>3 DEF Untouched, Present, TypeOK
<1>5. Present'
  <2>1. TypeOK'
    BY <1>1, <1>3 DEF Present, TypeOK, PC
  <2> QED BY <2>1, <1>1, <1>2, <1>3, <1>4 DEF Present, Holding, Underway, Getting, Untouched
<1>6. Remembers(c)'
  BY <1>1, <1>2, <1>3 DEF Remembers, Holding, Underway
<1>7. \A v \in Own(c) \union Theirs(c) : Ordered(c, v)'
  BY <1>1, <1>2, <1>3 DEF Ordered, Holding, Underway
<1>8. \A v \in Theirs(c) : Behind(c, v)'
  BY <1>1, <1>2, <1>3 DEF Behind, Holding, Underway, Getting
<1>9. \A v \in Own(c) : Known(c, v)'
  BY <1>1, <1>2, <1>3 DEF Known, Underway, Getting
<1> QED BY <1>1, <1>2, <1>4, <1>5, <1>6, <1>7, <1>8, <1>9, LocalStep

\* The merge takes one's own verses from the client, and those of others, of
\* which the server has the latest wording, from the server.
LEMMA StoreMergedStep ==
  ASSUME IInv, Calm, NEW c \in Client, StoreMerged(c)
  PROVE  /\ IInv'
         /\ text'[c][job[c]] # NoText
         /\ \A v \in Own(c) : text'[c][job[c]][v] = text[c][job[c]][v]
<1> USE DEF IInv
<1> DEFINE ch == job[c]
           merged == Merge(old[c], new[c], got[c])
<1>1. /\ pc[c] = "put" /\ ~Composing(c, ch)
      /\ text' = [text EXCEPT ![c][ch] = merged]
      /\ pc' = [pc EXCEPT ![c] = "walk"]
      /\ old' = [old EXCEPT ![c] = NoText]
      /\ new' = [new EXCEPT ![c] = NoText]
      /\ got' = [got EXCEPT ![c] = NoText]
      /\ UNCHANGED <<server, action, first, edit, todo, failed, job, request>>
  BY NoWindow DEF StoreMerged, EndChapter, NotComposing
<1>2. /\ ch \in Chapter /\ Getting(c)
      /\ action[c][ch] = old[c] /\ new[c] = text[c][ch]
      /\ old[c] # NoText /\ got[c] # NoText
      /\ edit[c] # NoEdit => edit[c].chapter \in Chapter
  BY <1>1 DEF Present, TypeOK, Getting, Remembers, Edits
<1>3. old[c] # NoAction /\ old[c] \in Text /\ got[c] \in Text
  BY <1>2, BibleSyncAssumption DEF Present, TypeOK, Maybe
<1>4. new[c] # NoText /\ new[c] \in Text
  BY <1>2, <1>3 DEF Present, TypeOK, Maybe
<1>5. merged \in Text
  BY <1>3, <1>4, MergeType
<1> HIDE DEF merged
<1>6. /\ pc'[c] = "walk" /\ text'[c][ch] = merged
      /\ \A x \in Chapter \ {ch} : text'[c][x] = text[c][x]
  BY <1>1, <1>2 DEF Present, TypeOK
<1>7. \A d \in Client \ {c} : Untouched(d)
  BY <1>1, <1>6 DEF Untouched, Present, TypeOK
<1>8. Present'
  <2>1. TypeOK'
    BY <1>1, <1>2, <1>5, <1>6 DEF Present, TypeOK, PC, Maybe
  <2> QED BY <2>1, <1>1, <1>2, <1>5, <1>6, <1>7, NoTextAssumption
      DEF Present, Holding, Underway, Getting, Untouched
<1>9. Remembers(c)'
  BY <1>1, <1>2, <1>6 DEF Remembers, Holding, Underway
<1>10. ASSUME NEW v \in Own(c) PROVE merged[v] = text[c][ch][v]
  <2>1. v \in Verse /\ old[c][v] = got[c][v]
    BY <1>1, <1>2, <1>3, <1>4, WhoseVerse DEF Known, Underway
  <2> QED BY <2>1, <1>2, <1>3, <1>4, MergeTakesChange DEF merged
<1>11. ASSUME NEW v \in Theirs(c) PROVE merged[v] = got[c][v]
  <2>1. v \in Verse /\ old[c][v] <= new[c][v] /\ new[c][v] <= got[c][v]
    BY <1>1, <1>2, <1>3, <1>4, WhoseVerse DEF Ordered, Behind
  <2> QED BY <2>1, <1>3, <1>4, MergeKeepsLatest DEF merged
<1>12. \A v \in Own(c) \union Theirs(c) : Ordered(c, v)'
  <2> SUFFICES ASSUME NEW v \in Own(c) \union Theirs(c), Ordered(c, v), v \in Verse
               PROVE  Ordered(c, v)'
    BY WhoseVerse
  <2>1. action[c][ch][v] <= merged[v]
    <3>1. CASE v \in Own(c)
      BY <3>1, <1>2, <1>3, <1>10 DEF Ordered
    <3>2. CASE v \in Theirs(c)
      <4>1. old[c][v] <= new[c][v] /\ new[c][v] <= got[c][v]
        BY <3>2, <1>2, <1>3, <1>4 DEF Ordered, Behind
      <4> QED BY <4>1, <3>2, <1>2, <1>3, <1>4, <1>11 DEF Text
    <3> QED BY <3>1, <3>2
  <2> QED BY <2>1, <1>1, <1>2, <1>6 DEF Ordered, Holding, Underway, Composing
<1>13. \A v \in Theirs(c) : Behind(c, v)'
  <2> SUFFICES ASSUME NEW v \in Theirs(c), Behind(c, v) PROVE Behind(c, v)'
    OBVIOUS
  <2> QED BY <1>1, <1>2, <1>6, <1>11 DEF Behind, Holding, Underway, Getting
<1>14. \A v \in Own(c) : Known(c, v)'
  <2> SUFFICES ASSUME NEW v \in Own(c), Known(c, v) PROVE Known(c, v)'
    OBVIOUS
  <2> QED BY <1>1, <1>2, <1>3, <1>4, <1>6, <1>10 DEF Known, Underway, Getting
<1>15. text'[c][ch] # NoText /\ \A v \in Own(c) : text'[c][ch][v] = text[c][ch][v]
  BY <1>5, <1>6, <1>10, NoTextAssumption
<1> QED BY <1>1, <1>6, <1>7, <1>8, <1>9, <1>12, <1>13, <1>14, <1>15, LocalStep

-----------------------------------------------------------------------------
(* Client and server stop *)

\* The client stops: nothing was underway, so the databases are consistent.
LEMMA QuitStep ==
  ASSUME IInv, Calm, NEW c \in Client, Quit(c)
  PROVE  IInv'
<1> USE DEF IInv
<1>1. /\ ~Underway(c)
      /\ pc' = [pc EXCEPT ![c] = "idle"]
      /\ edit' = [edit EXCEPT ![c] = NoEdit]
      /\ todo' = [todo EXCEPT ![c] = {}]
      /\ failed' = [failed EXCEPT ![c] = FALSE]
      /\ old' = [old EXCEPT ![c] = NoText]
      /\ new' = [new EXCEPT ![c] = NoText]
      /\ got' = [got EXCEPT ![c] = NoText]
      /\ UNCHANGED <<server, text, action, first, job, request>>
  BY NoWindow DEF Quit, EndTask, EndChapter
<1>2. pc[c] # "wait" /\ pc'[c] = "idle" /\ edit'[c] = NoEdit
  BY <1>1 DEF Present, TypeOK, Underway
<1>3. \A d \in Client \ {c} : Untouched(d)
  BY <1>1 DEF Untouched, Present, TypeOK
<1>4. Present'
  <2>1. TypeOK'
    BY <1>1 DEF Present, TypeOK, PC, Maybe
  <2> QED BY <2>1, <1>1, <1>2, <1>3 DEF Present, Holding, Underway, Getting, Untouched
<1>5. Remembers(c)'
  BY <1>1, <1>2 DEF Remembers, Holding, Underway
<1>6. \A v \in Own(c) \union Theirs(c) : Ordered(c, v)'
  BY <1>1, <1>2 DEF Ordered, Holding, Underway
<1>7. \A v \in Theirs(c) : Behind(c, v)'
  BY <1>1, <1>2 DEF Behind, Holding, Underway, Getting
<1>8. \A v \in Own(c) : Known(c, v)'
  BY <1>1, <1>2 DEF Known, Underway, Getting
<1> QED BY <1>1, <1>2, <1>3, <1>4, <1>5, <1>6, <1>7, <1>8, LocalStep

\* The clients whose request is lost restore their action.
LEMMA RestartStep ==
  ASSUME IInv, Restart
  PROVE  IInv'
<1> USE DEF IInv
<1>1. /\ request' = [c \in Client |-> NoRequest]
      /\ pc' = [c \in Client |-> IF pc[c] = "wait" THEN "restore" ELSE pc[c]]
      /\ failed' = [c \in Client |-> failed[c] \/ pc[c] = "wait"]
      /\ UNCHANGED <<server, text, action, first, edit, todo, job, old, new, got>>
  BY DEF Restart, clientVars
<1>2. TypeOK'
  BY <1>1 DEF Present, TypeOK, PC
<1>3. ASSUME NEW c \in Client
      PROVE  /\ request'[c] = NoRequest
             /\ \/ pc[c] # "wait" /\ pc'[c] = pc[c]
                \/ pc[c] = "wait" /\ pc'[c] = "restore"
             /\ Holding(c)' = Holding(c) /\ Underway(c)' = Underway(c)
             /\ Getting(c)' = Getting(c)
             /\ Own(c)' = Own(c) /\ Theirs(c)' = Theirs(c)
  BY <1>1 DEF Holding, Underway, Getting, Own, Theirs
<1>4. Present'
  BY <1>1, <1>2, <1>3 DEF Present
<1>5. ASSUME NEW c \in Client PROVE Remembers(c)'
  BY <1>1, <1>3 DEF Remembers, Storing
<1>6. ASSUME NEW c \in Client PROVE Handled(c)'
  BY <1>3 DEF Handled
<1>7. ASSUME NEW c \in Client, NEW v \in Own(c) \union Theirs(c) PROVE Ordered(c, v)'
  BY <1>1, <1>3 DEF Ordered
<1>8. ASSUME NEW c \in Client, NEW v \in Theirs(c) PROVE Behind(c, v)'
  BY <1>1, <1>3 DEF Behind
<1>9. ASSUME NEW c \in Client, NEW v \in Own(c) PROVE Known(c, v)'
  BY <1>1, <1>3 DEF Known
<1> QED BY <1>3, <1>4, <1>5, <1>6, <1>7, <1>8, <1>9

-----------------------------------------------------------------------------
(* The server handles a chapter *)

\* The server reads its chapter, or refuses who has no write access.
LEMMA ReceiveStep ==
  ASSUME IInv, Calm, NEW c \in Client, Receive(c)
  PROVE  IInv'
<1> USE DEF IInv
<1> DEFINE ch == job[c]
           r == [chapter |-> ch, old |-> old[c], new |-> new[c], seen |-> server[ch]]
<1>1. /\ pc[c] = "post" /\ request[c] = NoRequest
      /\ UNCHANGED <<server, text, action, first, edit, todo, failed, job, old, new, got>>
      /\ \/ /\ c \in Writer
            /\ \A d \in Client : request[d] # NoRequest => request[d].chapter # ch
            /\ request' = [request EXCEPT ![c] = r]
            /\ pc' = [pc EXCEPT ![c] = "wait"]
         \/ /\ c \notin Writer
            /\ pc' = [pc EXCEPT ![c] = "ack"]
            /\ UNCHANGED request
  BY NoWindow DEF Receive, AbandonedIsHandled, clientVars
<1>2. pc'[c] \in {"wait", "ack"}
  BY <1>1 DEF Present, TypeOK
<1>3. \A d \in Client \ {c} : Untouched(d) /\ request'[d] = request[d]
  BY <1>1 DEF Untouched, Present, TypeOK
<1>4. /\ ch \in Chapter /\ old[c] \in Maybe /\ new[c] \in Text /\ server[ch] \in Text
      /\ r \in Requests
  BY <1>1 DEF Present, TypeOK, Maybe, Requests, Holding, Underway
<1>5. r # NoRequest
  BY <1>4, BibleSyncAssumption DEF Requests, Maybe
<1>6. Present'
  <2>1. request' \in [Client -> Requests \union {NoRequest}]
    <3> HIDE DEF r
    <3> QED BY <1>1, <1>4 DEF Present, TypeOK
  <2>2. pc' \in [Client -> PC]
    BY <1>1 DEF Present, TypeOK, PC
  <2>3. TypeOK'
    BY <2>1, <2>2, <1>1 DEF Present, TypeOK
  <2> QED BY <2>3, <1>1, <1>2, <1>3 DEF Present, Holding, Underway, Getting, Untouched
<1>7. Remembers(c)'
  BY <1>1, <1>2 DEF Remembers, Holding, Underway
<1>8. ASSUME NEW d \in Client PROVE Handled(d)'
  <2>1. ASSUME NEW x \in Client, request[x] # NoRequest
        PROVE  x # c /\ request[x].chapter = job[x]
    <3>1. request[x] = [chapter |-> job[x], old |-> old[x], new |-> new[x],
                        seen |-> server[job[x]]]
      BY <2>1 DEF Handled
    <3> QED BY <2>1, <3>1, <1>1
  <2>2. CASE c \notin Writer
    <3>1. request' = request /\ pc'[c] # "wait"
      BY <2>2, <1>1 DEF Present, TypeOK
    <3> QED BY <3>1, <1>1, <1>3 DEF Handled, Untouched
  <2>3. CASE c \in Writer
    <3>1. /\ request'[c] = r /\ pc'[c] = "wait"
          /\ \A x \in Client : request[x] # NoRequest => job[x] # ch
      BY <2>1, <2>3, <1>1 DEF Present, TypeOK
    <3>2. CASE d = c
      BY <3>1, <3>2, <2>3, <1>1, <1>3, <1>5 DEF Handled
    <3>3. CASE d # c
      BY <3>1, <3>3, <1>1, <1>3, <1>5 DEF Handled, Untouched
    <3> QED BY <3>2, <3>3
  <2> QED BY <2>2, <2>3
<1>9. \A v \in Own(c) \union Theirs(c) : Ordered(c, v)'
  BY <1>1, <1>2 DEF Ordered, Holding, Underway
<1>10. \A v \in Theirs(c) : Behind(c, v)'
  BY <1>1, <1>2 DEF Behind, Holding, Underway, Getting
<1>11. \A v \in Own(c) : Known(c, v)'
  <2>1. c \notin Writer => Own(c) = {}
    BY DEF Own
  <2>2. c \in Writer => pc'[c] = "wait"
    BY <1>1 DEF Present, TypeOK
  <2> QED BY <2>1, <2>2, <1>1 DEF Known, Underway, Getting
<1> QED BY <1>1, <1>3, <1>6, <1>7, <1>8, <1>9, <1>10, <1>11, ClientStep

\* What the server stores has the sender's own verses as sent, and those of
\* others, of which the server has the latest wording, as they were.
LEMMA StoreReceivedFacts ==
  ASSUME IInv, NEW c \in Client, StoreReceived(c)
  PROVE  LET ch == job[c]
         IN  /\ server' \in [Chapter -> Text]
             /\ ch \in Chapter
             /\ pc[c] = "wait"
             /\ \A x \in Chapter \ {ch} : server'[x] = server[x]
             /\ \A v \in Own(c) : server'[ch][v] = new[c][v] /\ server[ch][v] <= new[c][v]
             /\ \A v \in Theirs(c) : server'[ch][v] = server[ch][v]
<1> USE DEF IInv
<1> DEFINE ch == job[c]
           merged == Merge(old[c], new[c], server[ch])
<1>1. /\ pc[c] = "wait"
      /\ request[c] = [chapter |-> ch, old |-> old[c], new |-> new[c], seen |-> server[ch]]
  BY DEF StoreReceived, Handled
<1>2. /\ ch \in Chapter /\ old[c] # NoText /\ new[c] # NoText
      /\ old[c] \in Text /\ new[c] \in Text /\ server[ch] \in Text
      /\ server \in [Chapter -> Text]
  BY <1>1 DEF Present, TypeOK, Maybe, Holding, Underway
<1>3. /\ merged \in Text
      /\ \A v \in Verse : old[c][v] = server[ch][v] => merged[v] = new[c][v]
      /\ \A v \in Verse : old[c][v] <= new[c][v] /\ new[c][v] <= server[ch][v]
                            => merged[v] = server[ch][v]
  <2>1. merged \in Text
    BY <1>2, MergeType
  <2>2. ASSUME NEW v \in Verse, old[c][v] = server[ch][v] PROVE merged[v] = new[c][v]
    BY <2>2, <1>2, MergeTakesChange
  <2>3. ASSUME NEW v \in Verse, old[c][v] <= new[c][v], new[c][v] <= server[ch][v]
        PROVE  merged[v] = server[ch][v]
    BY <2>3, <1>2, MergeKeepsLatest
  <2> HIDE DEF merged
  <2> QED BY <2>1, <2>2, <2>3
<1> HIDE DEF merged
<1>4. \/ new[c] = server[ch] /\ server' = server
      \/ server' = [server EXCEPT ![ch] = merged]
  <2>1. server[ch] # NoText
    BY <1>2, NoTextAssumption
  <2>2. Outcome(request[c]) = merged
    BY <2>1, <1>1 DEF Outcome, merged
  <2>3. /\ request[c].new = new[c] /\ request[c].seen = server[ch] /\ request[c].chapter = ch
    BY <1>1
  <2> QED BY <2>2, <2>3 DEF StoreReceived
<1>5. ASSUME NEW v \in Own(c) PROVE server'[ch][v] = new[c][v] /\ server[ch][v] <= new[c][v]
  <2>1. v \in Verse /\ old[c][v] = server[ch][v] /\ old[c][v] <= new[c][v]
    BY <1>1, WhoseVerse DEF Known, Ordered, Holding, Underway
  <2> QED BY <2>1, <1>2, <1>3, <1>4
<1>6. ASSUME NEW v \in Theirs(c) PROVE server'[ch][v] = server[ch][v]
  <2>1. v \in Verse /\ old[c][v] <= new[c][v] /\ new[c][v] <= server[ch][v]
    BY <1>1, WhoseVerse DEF Ordered, Behind, Holding, Underway
  <2> QED BY <2>1, <1>2, <1>3, <1>4
<1>7. server' \in [Chapter -> Text] /\ \A x \in Chapter \ {ch} : server'[x] = server[x]
  BY <1>2, <1>3, <1>4
<1> QED BY <1>1, <1>2, <1>5, <1>6, <1>7

\* The server stores the merge: everybody else's copies stay behind it.
LEMMA StoreReceivedStep ==
  ASSUME IInv, NEW c \in Client, StoreReceived(c)
  PROVE  IInv'
<1> USE DEF IInv
<1> DEFINE ch == job[c]
<1>1. /\ server' \in [Chapter -> Text]
      /\ ch \in Chapter
      /\ pc[c] = "wait"
      /\ \A x \in Chapter \ {ch} : server'[x] = server[x]
      /\ \A v \in Own(c) : server'[ch][v] = new[c][v] /\ server[ch][v] <= new[c][v]
      /\ \A v \in Theirs(c) : server'[ch][v] = server[ch][v]
  BY StoreReceivedFacts
<1>2. /\ request' = [request EXCEPT ![c] = NoRequest]
      /\ pc' = [pc EXCEPT ![c] = "ack"]
      /\ UNCHANGED <<text, action, first, edit, todo, failed, job, old, new, got>>
  BY <1>1 DEF StoreReceived, clientVars
<1>3. pc'[c] = "ack" /\ request'[c] = NoRequest /\ c \in Writer
  BY <1>1, <1>2 DEF Present, TypeOK, Handled
<1>4. \A d \in Client \ {c} : Untouched(d) /\ request'[d] = request[d]
  BY <1>2 DEF Untouched, Present, TypeOK
<1>5. \A d \in Client : Own(d)' = Own(d) /\ Theirs(d)' = Theirs(d)
  BY DEF Own, Theirs
<1>6. Present'
  <2>1. TypeOK'
    BY <1>1, <1>2 DEF Present, TypeOK, PC, Maybe
  <2> QED BY <2>1, <1>1, <1>2, <1>3, <1>4 DEF Present, Holding, Underway, Getting, Untouched
<1>7. ASSUME NEW d \in Client PROVE Remembers(d)'
  BY <1>1, <1>2, <1>3, <1>4 DEF Remembers, Holding, Underway, Storing, Untouched
<1>8. ASSUME NEW d \in Client PROVE Handled(d)'
  <2>1. CASE d = c
    BY <2>1, <1>3 DEF Handled
  <2>2. CASE d # c
    <3>1. /\ pc'[d] = pc[d] /\ request'[d] = request[d]
          /\ job' = job /\ old' = old /\ new' = new
      BY <2>2, <1>2, <1>4 DEF Untouched
    <3>2. \A e \in Client : request'[e] # NoRequest => request[e] # NoRequest
      BY <1>3, <1>4
    <3>3. Handled(d)
      OBVIOUS
    <3>4. request[d] # NoRequest => server'[job[d]] = server[job[d]]
      <4>1. request[d] # NoRequest => job[d] # ch /\ job[d] \in Chapter
        BY <2>2, <3>3, <1>1 DEF Handled, Present, TypeOK
      <4> QED BY <4>1, <1>1
    <3> HIDE DEF ch
    <3> QED BY ONLY <3>1, <3>2, <3>3, <3>4, d \in Client DEF Handled
  <2> QED BY <2>1, <2>2
<1>9. ASSUME NEW d \in Client, NEW v \in Own(d) \union Theirs(d) PROVE Ordered(d, v)'
  BY <1>1, <1>2, <1>3, <1>4 DEF Ordered, Holding, Underway, Untouched
<1>10. ASSUME NEW d \in Client, NEW v \in Theirs(d) PROVE Behind(d, v)'
  <2>1. v \in Verse /\ Behind(d, v)
    BY WhoseVerse
  <2>2. \A x \in Chapter : server[x][v] <= server'[x][v]
    <3>1. v \in Own(c) \union Theirs(c)
      BY <1>3 DEF Own, Theirs
    <3> QED BY <2>1, <3>1, <1>1 DEF Text, Present
  <2>3. ASSUME NEW x \in Chapter, NEW n \in Nat, n <= server[x][v] PROVE n <= server'[x][v]
    BY <2>1, <2>2, <2>3, <1>1 DEF Text, Present
  <2>4. /\ Holding(d)' = Holding(d) /\ Getting(d)' = Getting(d)
    BY <1>1, <1>2, <1>3, <1>4 DEF Holding, Underway, Getting, Untouched
  <2>5. /\ \A x \in Chapter : text[d][x] # NoText => text[d][x][v] \in Nat
        /\ edit[d] # NoEdit => edit[d].text[v] \in Nat /\ edit[d].chapter \in Chapter
        /\ Holding(d) => new[d][v] \in Nat
        /\ Getting(d) => got[d][v] \in Nat
        /\ job[d] \in Chapter
    BY <2>1 DEF Present, TypeOK, Maybe, Text, Edits
  <2> QED BY <2>1, <2>3, <2>4, <2>5, <1>2 DEF Behind
<1>11. ASSUME NEW d \in Client, NEW v \in Own(d) PROVE Known(d, v)'
  <2>1. CASE d = c
    <3>1. Known(c, v) /\ job[c] \in Chapter
      BY <2>1, <1>1
    <3> QED BY <2>1, <3>1, <1>1, <1>2, <1>3 DEF Known, Underway, Getting
  <2>2. CASE d # c
    <3>1. \A x \in Chapter : server'[x][v] = server[x][v]
      BY <2>2, <1>1, WhoseVerse
    <3>2. Known(d, v) /\ job[d] \in Chapter
      BY DEF Present, TypeOK
    <3> QED BY <2>2, <3>1, <3>2, <1>2, <1>4 DEF Known, Underway, Getting, Untouched
  <2> QED BY <2>1, <2>2
<1> QED BY <1>5, <1>6, <1>7, <1>8, <1>9, <1>10, <1>11

-----------------------------------------------------------------------------
(* The invariant *)

\* Clients with a copy of the server's chapters, or none, are consistent.
LEMMA InitHolds ==
  ASSUME AllOnServer, Init
  PROVE  IInv
<1>1. StartText \in Text /\ StartText # NoText
  BY NoTextAssumption DEF StartText, Text
<1>2. /\ server = [ch \in Chapter |-> StartText]
      /\ \A c \in Client, ch \in Chapter : text[c][ch] \in {NoText, StartText}
      /\ \A c \in Client, ch \in Chapter : action[c][ch] = NoAction
      /\ \A c \in Client : edit[c] = NoEdit /\ pc[c] = "idle" /\ request[c] = NoRequest
  BY DEF Init, AllOnServer
<1>3. NoAction # NoText
  BY BibleSyncAssumption
<1>4. TypeOK
  <2>1. (CHOOSE ch \in Chapter : TRUE) \in Chapter
    BY BibleSyncAssumption
  <2>2. text \in [Client -> [Chapter -> Maybe]]
    BY <1>1 DEF Init, AllOnServer, Maybe
  <2>3. server \in [Chapter -> Maybe]
    BY <1>1, <1>2 DEF Maybe
  <2> QED BY <2>1, <2>2, <2>3 DEF Init, TypeOK, Maybe, PC
<1>5. Present
  BY <1>1, <1>2, <1>3, <1>4 DEF Present, Holding, Underway, Getting
<1>6. ASSUME NEW c \in Client PROVE Remembers(c) /\ Handled(c)
  BY <1>2, <1>6 DEF Remembers, Handled, Holding, Underway
<1>7. ASSUME NEW c \in Client, NEW v \in Verse PROVE Ordered(c, v)
  BY <1>2, <1>7 DEF Ordered, Holding, Underway
<1>8. ASSUME NEW c \in Client, NEW v \in Verse PROVE Behind(c, v) /\ Known(c, v)
  <2>1. \A ch \in Chapter : text[c][ch] # NoText => text[c][ch] = server[ch]
    BY <1>2
  <2>2. StartText[v] <= StartText[v]
    BY <1>1 DEF Text
  <2> QED BY <2>1, <2>2, <1>2 DEF Behind, Known, Holding, Underway, Getting
<1>9. \A c \in Client : Own(c) \subseteq Verse /\ Theirs(c) \subseteq Verse
  BY WhoseVerse
<1> QED BY <1>5, <1>6, <1>7, <1>8, <1>9 DEF IInv

\* Every step of the system preserves the inductive invariant.
LEMMA StepHolds ==
  ASSUME IInv, Calm, [Next]_vars
  PROVE  IInv'
<1>1. CASE UNCHANGED vars
  <2>1. UNCHANGED <<server, text, action, first, edit, pc, todo, failed, job, old, new,
                    got, request>>
    BY <1>1 DEF vars, clientVars, taskVars
  <2>2. Present'
    BY <2>1 DEF IInv, Present, TypeOK, Holding, Underway, Getting
  <2>3. \A d \in Client : Untouched(d) /\ Handled(d)' /\ Own(d)' = Own(d) /\ Theirs(d)' = Theirs(d)
    BY <2>1 DEF IInv, Untouched, Handled, Own, Theirs
  <2> QED BY <2>1, <2>2, <2>3, Elsewhere DEF IInv
<1>2. CASE Restart
  BY <1>2, RestartStep
<1>3. ASSUME NEW c \in Client, Save(c) PROVE IInv'
  BY <1>3, ComposeStep, RecordEditStep, StoreEditStep DEF Save
<1>4. ASSUME NEW c \in Client, Send(c) PROVE IInv'
  BY <1>4, StartStep, ReadChapterStep, ClearActionStep, ConfirmedStep, SendFailsStep,
     RestoreEraseStep, RestoreRecordStep, SendDoneStep DEF Send
<1>5. ASSUME NEW c \in Client, Handle(c) PROVE IInv'
  BY <1>5, ReceiveStep, StoreReceivedStep DEF Handle
<1>6. ASSUME NEW c \in Client, Fetch(c) PROVE IInv'
  BY <1>6, NothingToReceiveStep, ListChaptersStep, SkipChapterStep, GetChapterStep,
     CheckActionStep, StoreServerStep, ReadMineStep, RecordMergedStep, StoreMergedStep,
     ReceiveDoneStep
  DEF Fetch
<1>7. ASSUME NEW c \in Client, Quit(c) PROVE IInv'
  BY <1>7, QuitStep
<1> QED BY <1>1, <1>2, <1>3, <1>4, <1>5, <1>6, <1>7 DEF Next

\* The inductive invariant holds in every state that client, user and server
\* can get to, for any number of clients, chapters, verses and wordings.
THEOREM Invariance ==
  ASSUME Calm, AllOnServer
  PROVE  Spec => []IInv
<1>1. Init => IInv
  BY InitHolds
<1>2. IInv /\ [Next]_vars => IInv'
  BY StepHolds
<1> QED BY <1>1, <1>2, PTL DEF Spec

-----------------------------------------------------------------------------
(* The properties that hold where none of the windows is hit *)

\* The translator's own work that the server lacks always has a Bible action,
\* or is on its way: the next send/receive finds it.
THEOREM UnsentRecorded ==
  ASSUME Calm, AllOnServer
  PROVE  Spec => []UnsentIsRecorded
<1>1. ASSUME IInv PROVE UnsentIsRecorded
  <2> SUFFICES ASSUME NEW c \in Client, NEW ch \in Chapter, NEW v \in Own(c),
                      text[c][ch] # NoText, ~Carried(c, ch)
               PROVE  VerseText(server[ch], v) = text[c][ch][v]
    BY DEF UnsentIsRecorded
  <2>1. Known(c, v) /\ server[ch] # NoText
    BY <1>1, NoTextAssumption DEF IInv, Present
  <2> QED BY <2>1 DEF Known, Carried, VerseText
<1> QED BY <1>1, Invariance, PTL

\* When sendreceive takes a chapter for sent, because the server returned the
\* checksum, the server has the translator's own verses of it.
THEOREM ConfirmedStored ==
  ASSUME Calm, AllOnServer
  PROVE  Spec => []ConfirmedIsStored
<1>1. ASSUME IInv PROVE ConfirmedIsStored
  <2> SUFFICES ASSUME NEW c \in Client, NEW v \in Own(c), pc[c] = "ack"
               PROVE  VerseText(server[job[c]], v) = new[c][v]
    BY DEF ConfirmedIsStored
  <2>1. Known(c, v) /\ job[c] \in Chapter /\ server[job[c]] # NoText
    BY <1>1, NoTextAssumption DEF IInv, Present, TypeOK
  <2> QED BY <2>1 DEF Known, VerseText
<1> QED BY <1>1, Invariance, PTL

\* Only the translator's own saves change the translator's own verses: neither
\* the download of the server's chapter nor the merge with it does.
THEOREM EditsAreKept ==
  ASSUME Calm, AllOnServer
  PROVE  Spec => EditsKept
<1> DEFINE Kept == \A c \in Client, ch \in Chapter : OwnVerseKept(c, ch) \/ StoreEdit(c)
<1>1. ASSUME IInv, [Next]_vars PROVE Kept \/ UNCHANGED vars
  <2>1. CASE UNCHANGED text
    BY <2>1 DEF OwnVerseKept, VerseText
  <2>2. ASSUME NEW c \in Client, StoreEdit(c) PROVE Kept
    <3>1. \A d \in Client \ {c} : text'[d] = text[d]
      BY <2>2, <1>1 DEF StoreEdit, IInv, Present, TypeOK
    <3> QED BY <2>2, <3>1 DEF OwnVerseKept, VerseText
  <2>3. ASSUME NEW c \in Client, StoreServer(c) \/ StoreMerged(c) PROVE Kept
    <3>1. /\ \A d \in Client \ {c} : text'[d] = text[d]
          /\ \A x \in Chapter \ {job[c]} : text'[c][x] = text[c][x]
          /\ job[c] \in Chapter
      BY <2>3, <1>1 DEF StoreServer, StoreMerged, IInv, Present, TypeOK
    <3>2. text'[c][job[c]] # NoText
      BY <2>3, <1>1, StoreServerStep, StoreMergedStep
    <3>3. \A v \in Own(c) :
            text[c][job[c]] # NoText => text'[c][job[c]][v] = text[c][job[c]][v]
      BY <2>3, <1>1, StoreServerStep, StoreMergedStep
    <3> QED BY <3>1, <3>2, <3>3 DEF OwnVerseKept, VerseText
  <2>4. ASSUME NEW c \in Client, ListChapters(c) PROVE UNCHANGED text
    BY <2>4, <1>1, ListChaptersStep
  <2>5. \/ UNCHANGED text
        \/ \E c \in Client : StoreEdit(c) \/ StoreServer(c) \/ StoreMerged(c)
    <3>1. CASE UNCHANGED vars
      BY <3>1 DEF vars, clientVars
    <3>2. CASE Restart
      BY <3>2 DEF Restart, clientVars
    <3>3. ASSUME NEW c \in Client, Save(c) PROVE UNCHANGED text \/ StoreEdit(c)
      BY <3>3 DEF Save, Compose, RecordEdit
    <3>4. ASSUME NEW c \in Client, Send(c) \/ Handle(c) PROVE UNCHANGED text
      BY <3>4 DEF Send, Handle, Start, ReadChapter, ClearAction, Confirmed, SendFails,
         RestoreErase, RestoreRecord, SendDone, Receive, StoreReceived, clientVars
    <3>5. ASSUME NEW c \in Client, Fetch(c)
          PROVE  UNCHANGED text \/ StoreServer(c) \/ StoreMerged(c)
      BY <3>5, <2>4 DEF Fetch, NothingToReceive, SkipChapter, GetChapter, CheckAction,
         ReadMine, RecordMerged, ReceiveDone, clientVars
    <3>6. ASSUME NEW c \in Client, Quit(c) PROVE UNCHANGED text
      BY <3>6 DEF Quit
    <3> QED BY <1>1, <3>1, <3>2, <3>3, <3>4, <3>5, <3>6 DEF Next
  <2> QED BY <2>1, <2>2, <2>3, <2>5
<1>2. IInv /\ [Next]_vars => [Kept]_vars
  BY <1>1
<1> QED BY <1>2, Invariance, PTL DEF Spec, EditsKept

\* The server never takes an older wording of a verse for a newer one: an old
\* copy of a translator's verse, sent by another, does not get through.
THEOREM ServerNeverGoesBack ==
  ASSUME Calm, AllOnServer
  PROVE  Spec => ServerMovesOn
<1> DEFINE Moves == \A ch \in Chapter, c \in Client : \A v \in Own(c) :
                      VerseText(server'[ch], v) >= VerseText(server[ch], v)
<1>1. ASSUME IInv, [Next]_vars PROVE Moves
  <2>1. server \in [Chapter -> Text]
    BY <1>1 DEF IInv, Present
  <2>2. CASE UNCHANGED server
    <3> SUFFICES ASSUME NEW ch \in Chapter, NEW c \in Client, NEW v \in Own(c)
                 PROVE  server[ch][v] >= server[ch][v]
      BY <2>1, <2>2, NoTextAssumption DEF VerseText
    <3> QED BY <2>1, WhoseVerse DEF Text
  <2>3. ASSUME NEW d \in Client, StoreReceived(d) PROVE Moves
    <3> SUFFICES ASSUME NEW ch \in Chapter, NEW c \in Client, NEW v \in Own(c)
                 PROVE  server'[ch][v] >= server[ch][v]
      <4>1. server' \in [Chapter -> Text]
        BY <2>3, <1>1, StoreReceivedFacts
      <4> QED BY <4>1, <2>1, NoTextAssumption DEF VerseText
    <3>1. v \in Verse /\ v \in Own(d) \union Theirs(d)
      BY WhoseVerse
    <3>2. /\ server' \in [Chapter -> Text]
          /\ ch # job[d] => server'[ch] = server[ch]
          /\ v \in Own(d) => server'[job[d]][v] = new[d][v] /\ server[job[d]][v] <= new[d][v]
          /\ v \in Theirs(d) => server'[job[d]][v] = server[job[d]][v]
      BY <2>3, <1>1, StoreReceivedFacts
    <3>3. server'[ch][v] \in Nat /\ server[ch][v] \in Nat
      BY <2>1, <3>1, <3>2 DEF Text
    <3> QED BY <3>1, <3>2, <3>3
  <2>4. UNCHANGED server \/ \E d \in Client : StoreReceived(d)
    <3>1. CASE UNCHANGED vars
      BY <3>1 DEF vars
    <3>2. CASE Restart
      BY <3>2 DEF Restart
    <3>3. ASSUME NEW c \in Client, Save(c) PROVE UNCHANGED server
      BY <3>3 DEF Save, Compose, RecordEdit, StoreEdit
    <3>4. ASSUME NEW c \in Client, Send(c) PROVE UNCHANGED server
      BY <3>4 DEF Send, Start, ReadChapter, ClearAction, Confirmed, SendFails,
         RestoreErase, RestoreRecord, SendDone
    <3>5. ASSUME NEW c \in Client, Fetch(c) PROVE UNCHANGED server
      BY <3>5 DEF Fetch, NothingToReceive, ListChapters, SkipChapter, GetChapter,
         CheckAction, StoreServer, ReadMine, RecordMerged, StoreMerged, ReceiveDone
    <3>6. ASSUME NEW c \in Client, Quit(c) \/ Receive(c) PROVE UNCHANGED server
      BY <3>6 DEF Quit, Receive
    <3> QED BY <1>1, <3>1, <3>2, <3>3, <3>4, <3>5, <3>6 DEF Next, Handle
  <2> QED BY <2>2, <2>3, <2>4
<1>2. IInv /\ [Next]_vars => [Moves]_vars
  BY <1>1
<1> QED BY <1>2, Invariance, PTL DEF Spec, ServerMovesOn
-----------------------------------------------------------------------------
(* Types, and what the server has *)

\* The whole state of a client, its task and its request that a step of another
\* leaves alone.
Bystander(d) ==
  /\ Untouched(d)
  /\ first'[d] = first[d] /\ failed'[d] = failed[d] /\ request'[d] = request[d]

\* The server never loses a chapter.
ServerKeeps == \A ch \in Chapter : server[ch] # NoText => server'[ch] # NoText

\* A step of somebody else leaves a client's task sound.
LEMMA SoundElsewhere ==
  ASSUME TypeOK, NEW d \in Client, Sound(d), Bystander(d), ServerKeeps
  PROVE  Sound(d)'
<1>1. /\ todo[d] \subseteq Chapter /\ job[d] \in Chapter
      /\ request[d] # NoRequest => request[d].chapter \in Chapter
  BY DEF TypeOK, Requests
<1> QED BY <1>1 DEF Sound, Getting, Underway, Bystander, Untouched, ServerKeeps

\* A step of one client keeps everybody's task sound.
LEMMA SoundStep ==
  ASSUME SoundInv, NEW c \in Client, ServerKeeps,
         \A d \in Client \ {c} : Bystander(d),
         TypeOK', Sound(c)'
  PROVE  SoundInv'
  BY SoundElsewhere DEF SoundInv

\* The user composes: the state stays sound.
LEMMA ComposeSound ==
  ASSUME SoundInv, NEW c \in Client, Compose(c)
  PROVE  SoundInv' /\ \A d \in Client \ {c} : Bystander(d)
<1> USE DEF SoundInv
<1> DEFINE current(ch) == IF text[c][ch] = NoText THEN BlankChapter ELSE text[c][ch]
           new_text(ch, v, word) == [current(ch) EXCEPT ![v] = word]
<1>1. PICK ch \in Chapter, v \in Verse, word \in 0..MaxWord :
        edit' = [edit EXCEPT ![c] =
          [chapter |-> ch, text |-> new_text(ch, v, word), recorded |-> FALSE]]
  BY DEF Compose
<1>2. UNCHANGED <<server, text, action, first, pc, todo, failed, job, old, new, got, request>>
  BY DEF Compose, taskVars
<1>3. current(ch) \in Text
  BY DEF TypeOK, Maybe, BlankChapter, Blank, Text
<1>4. new_text(ch, v, word) \in Text
  <2>1. word \in Nat
    BY BibleSyncAssumption
  <2> HIDE DEF current
  <2> QED BY <2>1, <1>3 DEF Text
<1> HIDE DEF new_text
<1>5. TypeOK'
  BY <1>1, <1>2, <1>4 DEF TypeOK, Edits
<1>6. \A d \in Client \ {c} : Bystander(d)
  BY <1>1, <1>2 DEF Bystander, Untouched, TypeOK
<1>7. Sound(c)'
  BY <1>2 DEF Sound, Getting, Underway
<1> QED BY <1>2, <1>5, <1>6, <1>7, SoundStep DEF ServerKeeps

\* The save is recorded: the state stays sound.
LEMMA RecordEditSound ==
  ASSUME SoundInv, NEW c \in Client, RecordEdit(c)
  PROVE  SoundInv' /\ \A d \in Client \ {c} : Bystander(d)
<1> USE DEF SoundInv
<1> DEFINE ch == edit[c].chapter
           base == Record(action[c][ch], text[c][ch])
<1>1. /\ edit[c] # NoEdit
      /\ action' = [action EXCEPT ![c][ch] = base]
      /\ edit' = [edit EXCEPT ![c].recorded = TRUE]
      /\ UNCHANGED <<server, text, first, pc, todo, failed, job, old, new, got, request>>
  BY DEF RecordEdit, taskVars
<1>2. edit[c] \in Edits /\ ch \in Chapter
  BY <1>1 DEF TypeOK, Edits
<1>3. base \in Maybe \union {NoAction}
  BY <1>2 DEF TypeOK, Record
<1>4. /\ edit' \in [Client -> Edits \union {NoEdit}]
      /\ \A d \in Client \ {c} : edit'[d] = edit[d]
  <2>1. [edit[c] EXCEPT !.recorded = TRUE] \in Edits
    BY <1>2 DEF Edits
  <2>2. edit' = [edit EXCEPT ![c] = [edit[c] EXCEPT !.recorded = TRUE]]
    BY <1>1
  <2> QED BY <2>1, <2>2 DEF TypeOK
<1> HIDE DEF base
<1>5. TypeOK'
  BY <1>1, <1>2, <1>3, <1>4 DEF TypeOK
<1>6. \A d \in Client \ {c} : Bystander(d)
  BY <1>1, <1>4 DEF Bystander, Untouched, TypeOK
<1>7. Sound(c)'
  BY <1>1 DEF Sound, Getting, Underway
<1> QED BY <1>1, <1>5, <1>6, <1>7, SoundStep DEF ServerKeeps

\* The save is stored: the state stays sound.
LEMMA StoreEditSound ==
  ASSUME SoundInv, NEW c \in Client, StoreEdit(c)
  PROVE  SoundInv' /\ \A d \in Client \ {c} : Bystander(d)
<1> USE DEF SoundInv
<1>1. /\ edit[c] # NoEdit
      /\ text' = [text EXCEPT ![c][edit[c].chapter] = edit[c].text]
      /\ edit' = [edit EXCEPT ![c] = NoEdit]
      /\ UNCHANGED <<server, action, first, pc, todo, failed, job, old, new, got, request>>
  BY DEF StoreEdit, taskVars
<1>2. edit[c].chapter \in Chapter /\ edit[c].text \in Text
  BY <1>1 DEF TypeOK, Edits
<1>3. TypeOK'
  BY <1>1, <1>2 DEF TypeOK, Maybe
<1>4. \A d \in Client \ {c} : Bystander(d)
  BY <1>1 DEF Bystander, Untouched, TypeOK
<1>5. Sound(c)'
  BY <1>1 DEF Sound, Getting, Underway
<1> QED BY <1>1, <1>3, <1>4, <1>5, SoundStep DEF ServerKeeps

\* The task starts: the state stays sound.
LEMMA StartSound ==
  ASSUME SoundInv, NEW c \in Client, Start(c)
  PROVE  SoundInv' /\ \A d \in Client \ {c} : Bystander(d)
<1> USE DEF SoundInv
<1>1. /\ pc' = [pc EXCEPT ![c] = "send"]
      /\ todo' = [todo EXCEPT ![c] = {ch \in Chapter : action[c][ch] # NoAction}]
      /\ UNCHANGED <<server, text, action, first, edit, failed, job, old, new, got, request>>
  BY DEF Start, clientVars
<1>2. TypeOK'
  BY <1>1 DEF TypeOK, PC
<1>3. \A d \in Client \ {c} : Bystander(d)
  BY <1>1 DEF Bystander, Untouched, TypeOK
<1>4. Sound(c)'
  BY <1>1 DEF Sound, Getting, Underway, TypeOK
<1> QED BY <1>1, <1>2, <1>3, <1>4, SoundStep DEF ServerKeeps

\* The task reads a chapter to send: the state stays sound.
LEMMA ReadChapterSound ==
  ASSUME SoundInv, NEW c \in Client, ReadChapter(c)
  PROVE  SoundInv' /\ \A d \in Client \ {c} : Bystander(d)
<1> USE DEF SoundInv
<1>1. PICK ch \in todo[c] :
        /\ job' = [job EXCEPT ![c] = ch]
        /\ todo' = [todo EXCEPT ![c] = @ \ {ch}]
        /\ old' = [old EXCEPT ![c] = Base(action[c][ch])]
        /\ new' = [new EXCEPT ![c] = text[c][ch]]
        /\ pc' = [pc EXCEPT ![c] = "clear"]
        /\ UNCHANGED <<server, text, action, first, edit, failed, got, request>>
  BY DEF ReadChapter, clientVars
<1>2. ch \in Chapter /\ Base(action[c][ch]) \in Maybe /\ text[c][ch] \in Maybe
  BY DEF TypeOK, Base, Maybe
<1>3. TypeOK'
  BY <1>1, <1>2 DEF TypeOK, PC
<1>4. \A d \in Client \ {c} : Bystander(d)
  BY <1>1 DEF Bystander, Untouched, TypeOK
<1>5. Sound(c)'
  BY <1>1 DEF Sound, Getting, Underway, TypeOK
<1> QED BY <1>1, <1>3, <1>4, <1>5, SoundStep DEF ServerKeeps

\* The task clears the action that it read: the state stays sound.
LEMMA ClearActionSound ==
  ASSUME SoundInv, NEW c \in Client, ClearAction(c)
  PROVE  SoundInv' /\ \A d \in Client \ {c} : Bystander(d)
<1> USE DEF SoundInv
<1>1. /\ action' = [action EXCEPT ![c][job[c]] = NoAction]
      /\ UNCHANGED <<server, text, first, edit, todo, failed, job, request>>
      /\ \/ UNCHANGED <<old, new, got>> /\ pc' = [pc EXCEPT ![c] = "post"] /\ new[c] # NoText
         \/ /\ pc' = [pc EXCEPT ![c] = "send"]
            /\ old' = [old EXCEPT ![c] = NoText]
            /\ new' = [new EXCEPT ![c] = NoText]
            /\ got' = [got EXCEPT ![c] = NoText]
  BY DEF ClearAction, EndChapter
<1>2. TypeOK'
  <2>1. action' \in [Client -> [Chapter -> Maybe \union {NoAction}]]
    BY <1>1 DEF TypeOK
  <2>2. /\ pc' \in [Client -> PC] /\ old' \in [Client -> Maybe]
        /\ new' \in [Client -> Maybe] /\ got' \in [Client -> Maybe]
    BY <1>1 DEF TypeOK, PC, Maybe
  <2> QED BY <1>1, <2>1, <2>2 DEF TypeOK
<1>3. \A d \in Client \ {c} : Bystander(d)
  BY <1>1 DEF Bystander, Untouched, TypeOK
<1>4. pc'[c] \in {"post", "send"} /\ (pc'[c] = "post" => new'[c] # NoText)
  BY <1>1 DEF TypeOK
<1>5. Sound(c)'
  BY <1>1, <1>4 DEF Sound, Getting, Underway
<1> QED BY <1>1, <1>2, <1>3, <1>5, SoundStep DEF ServerKeeps

\* The task is between two chapters, or over: the state stays sound.
LEMMA EndChapterSound ==
  ASSUME SoundInv, NEW c \in Client, NEW next \in {"idle", "send"},
         EndChapter(c, next),
         todo' \in [Client -> SUBSET Chapter],
         failed' \in [Client -> BOOLEAN],
         action' \in [Client -> [Chapter -> Maybe \union {NoAction}]],
         edit' \in [Client -> Edits \union {NoEdit}],
         \A d \in Client \ {c} : /\ todo'[d] = todo[d] /\ failed'[d] = failed[d]
                                 /\ action'[d] = action[d] /\ edit'[d] = edit[d],
         UNCHANGED <<server, text, first, request>>
  PROVE  SoundInv' /\ \A d \in Client \ {c} : Bystander(d)
<1> USE DEF SoundInv
<1>1. /\ pc' = [pc EXCEPT ![c] = next]
      /\ old' = [old EXCEPT ![c] = NoText]
      /\ new' = [new EXCEPT ![c] = NoText]
      /\ got' = [got EXCEPT ![c] = NoText]
      /\ UNCHANGED job
  BY DEF EndChapter
<1>2. TypeOK'
  BY <1>1 DEF TypeOK, PC, Maybe
<1>3. \A d \in Client \ {c} : Bystander(d)
  BY <1>1 DEF Bystander, Untouched, TypeOK
<1>4. pc'[c] = next
  BY <1>1 DEF TypeOK
<1>5. Sound(c)'
  BY <1>1, <1>4 DEF Sound, Getting, Underway
<1> QED BY <1>2, <1>3, <1>5, SoundStep DEF ServerKeeps

\* The send of a chapter is over, or the task: the state stays sound.
LEMMA OverSound ==
  ASSUME SoundInv, NEW c \in Client,
         Confirmed(c) \/ RestoreRecord(c) \/ NothingToReceive(c) \/ Quit(c)
  PROVE  SoundInv' /\ \A d \in Client \ {c} : Bystander(d)
<1> USE DEF SoundInv
<1>1. CASE Confirmed(c)
  <2>1. /\ EndChapter(c, "send")
        /\ UNCHANGED <<server, text, action, first, edit, todo, failed, request>>
    BY <1>1 DEF Confirmed, clientVars
  <2>2. /\ todo' \in [Client -> SUBSET Chapter] /\ failed' \in [Client -> BOOLEAN]
        /\ action' \in [Client -> [Chapter -> Maybe \union {NoAction}]]
        /\ edit' \in [Client -> Edits \union {NoEdit}]
    BY <2>1 DEF TypeOK
  <2> QED BY <2>1, <2>2, EndChapterSound
<1>2. CASE RestoreRecord(c)
  <2>1. /\ EndChapter(c, "send")
        /\ action' = [action EXCEPT ![c][job[c]] = Record(action[c][job[c]], old[c])]
        /\ UNCHANGED <<server, text, first, edit, todo, failed, request>>
    BY <1>2 DEF RestoreRecord
  <2>2. Record(action[c][job[c]], old[c]) \in Maybe \union {NoAction}
    BY DEF TypeOK, Record
  <2>3. /\ todo' \in [Client -> SUBSET Chapter] /\ failed' \in [Client -> BOOLEAN]
        /\ action' \in [Client -> [Chapter -> Maybe \union {NoAction}]]
        /\ edit' \in [Client -> Edits \union {NoEdit}]
        /\ \A d \in Client \ {c} : action'[d] = action[d]
    BY <2>1, <2>2 DEF TypeOK
  <2> QED BY <2>1, <2>3, EndChapterSound
<1>3. CASE NothingToReceive(c)
  <2>1. /\ EndChapter(c, "idle")
        /\ todo' = [todo EXCEPT ![c] = {}] /\ failed' = [failed EXCEPT ![c] = FALSE]
        /\ UNCHANGED <<server, text, action, first, edit, request>>
    BY <1>3 DEF NothingToReceive, EndTask, clientVars
  <2>2. /\ todo' \in [Client -> SUBSET Chapter] /\ failed' \in [Client -> BOOLEAN]
        /\ action' \in [Client -> [Chapter -> Maybe \union {NoAction}]]
        /\ edit' \in [Client -> Edits \union {NoEdit}]
        /\ \A d \in Client \ {c} : todo'[d] = todo[d] /\ failed'[d] = failed[d]
    BY <2>1 DEF TypeOK
  <2> QED BY <2>1, <2>2, EndChapterSound
<1>4. CASE Quit(c)
  <2>1. /\ EndChapter(c, "idle")
        /\ todo' = [todo EXCEPT ![c] = {}] /\ failed' = [failed EXCEPT ![c] = FALSE]
        /\ edit' = [edit EXCEPT ![c] = NoEdit]
        /\ UNCHANGED <<server, text, action, first, request>>
    BY <1>4 DEF Quit, EndTask
  <2>2. /\ todo' \in [Client -> SUBSET Chapter] /\ failed' \in [Client -> BOOLEAN]
        /\ action' \in [Client -> [Chapter -> Maybe \union {NoAction}]]
        /\ edit' \in [Client -> Edits \union {NoEdit}]
        /\ \A d \in Client \ {c} :
             todo'[d] = todo[d] /\ failed'[d] = failed[d] /\ edit'[d] = edit[d]
    BY <2>1 DEF TypeOK
  <2> QED BY <2>1, <2>2, EndChapterSound
<1> QED BY <1>1, <1>2, <1>3, <1>4

\* The chapter could not be sent, and its action is about to be restored: the
\* state stays sound.
LEMMA FailSound ==
  ASSUME SoundInv, NEW c \in Client, SendFails(c) \/ RestoreErase(c)
  PROVE  SoundInv' /\ \A d \in Client \ {c} : Bystander(d)
<1> USE DEF SoundInv
<1>1. /\ Underway(c)
      /\ \/ /\ pc' = [pc EXCEPT ![c] = "restore"] /\ failed' = [failed EXCEPT ![c] = TRUE]
            /\ UNCHANGED action
         \/ /\ pc[c] = "restore"
            /\ pc' = [pc EXCEPT ![c] = "record"] /\ UNCHANGED failed
            /\ action' = [action EXCEPT ![c][job[c]] = NoAction]
      /\ UNCHANGED <<server, text, first, edit, todo, job, old, new, got, request>>
  BY DEF SendFails, RestoreErase, Underway, clientVars
<1>2. TypeOK'
  <2>1. action' \in [Client -> [Chapter -> Maybe \union {NoAction}]]
    <3>1. CASE UNCHANGED action
      BY <3>1 DEF TypeOK
    <3>2. CASE action' = [action EXCEPT ![c][job[c]] = NoAction]
      BY <3>2 DEF TypeOK
    <3> QED BY <1>1, <3>1, <3>2
  <2>2. pc' \in [Client -> PC] /\ failed' \in [Client -> BOOLEAN]
    BY <1>1 DEF TypeOK, PC
  <2> QED BY <1>1, <2>1, <2>2 DEF TypeOK
<1>3. \A d \in Client \ {c} : Bystander(d)
  BY <1>1 DEF Bystander, Untouched, TypeOK
<1>4. pc'[c] \in {"restore", "record"} /\ failed'[c]
  BY <1>1 DEF TypeOK, Sound
<1>5. Sound(c)'
  BY <1>1, <1>4 DEF Sound, Getting, Underway
<1> QED BY <1>1, <1>2, <1>3, <1>5, SoundStep DEF ServerKeeps

\* All chapters are dealt with: the state stays sound.
LEMMA SendDoneSound ==
  ASSUME SoundInv, NEW c \in Client, SendDone(c)
  PROVE  SoundInv' /\ \A d \in Client \ {c} : Bystander(d)
<1> USE DEF SoundInv
<1>1. UNCHANGED <<server, text, action, first, edit, request>>
  BY DEF SendDone, clientVars
<1>2. CASE EndTask(c)
  <2>1. /\ EndChapter(c, "idle")
        /\ todo' = [todo EXCEPT ![c] = {}] /\ failed' = [failed EXCEPT ![c] = FALSE]
    BY <1>2 DEF EndTask
  <2>2. /\ todo' \in [Client -> SUBSET Chapter] /\ failed' \in [Client -> BOOLEAN]
        /\ action' \in [Client -> [Chapter -> Maybe \union {NoAction}]]
        /\ edit' \in [Client -> Edits \union {NoEdit}]
        /\ \A d \in Client \ {c} : todo'[d] = todo[d] /\ failed'[d] = failed[d]
    BY <2>1, <1>1 DEF TypeOK
  <2> QED BY <2>1, <2>2, <1>1, EndChapterSound
<1>3. CASE pc' = [pc EXCEPT ![c] = "list"] /\ UNCHANGED <<todo, failed, job, old, new, got>>
  <2>1. TypeOK'
    BY <1>1, <1>3 DEF TypeOK, PC
  <2>2. \A d \in Client \ {c} : Bystander(d)
    BY <1>1, <1>3 DEF Bystander, Untouched, TypeOK
  <2>3. Sound(c)'
    BY <1>1, <1>3 DEF Sound, Getting, Underway, TypeOK
  <2> QED BY <1>1, <2>1, <2>2, <2>3, SoundStep DEF ServerKeeps
<1> QED BY <1>2, <1>3 DEF SendDone

\* The server reads its chapter, or refuses: the state stays sound.
LEMMA ReceiveSound ==
  ASSUME SoundInv, NEW c \in Client, Receive(c)
  PROVE  SoundInv' /\ \A d \in Client \ {c} : Bystander(d)
<1> USE DEF SoundInv
<1> DEFINE ch == job[c]
           r == [chapter |-> ch, old |-> old[c], new |-> new[c], seen |-> server[ch]]
<1>1. /\ pc[c] = "post" /\ request[c] = NoRequest
      /\ UNCHANGED <<server, text, action, first, edit, todo, failed, job, old, new, got>>
      /\ \/ /\ request' = [request EXCEPT ![c] = r]
            /\ pc' = [pc EXCEPT ![c] = "wait"]
         \/ /\ pc' = [pc EXCEPT ![c] = "ack"]
            /\ UNCHANGED request
  BY DEF Receive, AbandonedIsHandled, clientVars
<1>2. new[c] \in Text
  BY <1>1 DEF Sound, Underway, TypeOK, Maybe
<1>3. r \in Requests /\ r.chapter = ch /\ r.seen = server[ch]
  BY <1>2 DEF TypeOK, Requests
<1>4. r # NoRequest
  BY <1>3, BibleSyncAssumption DEF Requests, Maybe
<1> HIDE DEF r
<1>5. TypeOK'
  <2>1. request' \in [Client -> Requests \union {NoRequest}]
    BY <1>1, <1>3 DEF TypeOK
  <2>2. pc' \in [Client -> PC]
    BY <1>1 DEF TypeOK, PC
  <2> QED BY <1>1, <2>1, <2>2 DEF TypeOK
<1>6. \A d \in Client \ {c} : Bystander(d)
  BY <1>1 DEF Bystander, Untouched, TypeOK
<1>7. \/ pc'[c] = "wait" /\ request'[c] = r
      \/ pc'[c] = "ack" /\ request'[c] = NoRequest
  BY <1>1 DEF TypeOK
<1>8. Sound(c)'
  BY <1>1, <1>2, <1>3, <1>4, <1>7, NoTextAssumption DEF Sound, Getting, Underway
<1> QED BY <1>1, <1>5, <1>6, <1>8, SoundStep DEF ServerKeeps

\* The server stores a chapter, never an empty one: the state stays sound.
LEMMA StoreReceivedSound ==
  ASSUME SoundInv, NEW c \in Client, StoreReceived(c)
  PROVE  /\ SoundInv' /\ \A d \in Client \ {c} : Bystander(d)
         /\ ServerKeeps
         /\ request[c].chapter \in Chapter
         /\ server'[request[c].chapter] # NoText
<1> USE DEF SoundInv
<1> DEFINE r == request[c]
<1>1. /\ r # NoRequest
      /\ IF r.new = r.seen THEN server' = server
         ELSE server' = [server EXCEPT ![r.chapter] = Outcome(r)]
      /\ request' = [request EXCEPT ![c] = NoRequest]
      /\ pc' = [pc EXCEPT ![c] = IF pc[c] = "wait" THEN "ack" ELSE pc[c]]
      /\ UNCHANGED <<text, action, first, edit, todo, failed, job, old, new, got>>
  BY DEF StoreReceived, clientVars
<1>2. r \in Requests
  BY <1>1 DEF TypeOK
<1>3. r.chapter \in Chapter /\ r.new \in Text /\ r.seen \in Maybe
  BY <1>2 DEF Requests
<1>4. Outcome(r) \in Text
  <2>1. CASE r.seen = NoText
    BY <2>1, <1>3 DEF Outcome
  <2>2. CASE r.seen # NoText
    <3>1. r.seen \in Text /\ r.new \in Text \union {NoText}
      BY <2>2, <1>3 DEF Maybe
    <3> HIDE DEF r
    <3> QED BY <3>1, <2>2, MergeType DEF Outcome
  <2> QED BY <2>1, <2>2
<1>5. \A ch \in Chapter :
        server'[ch] = IF r.new # r.seen /\ ch = r.chapter THEN Outcome(r) ELSE server[ch]
  BY <1>1, <1>3 DEF TypeOK
<1>6. r.new # NoText /\ Outcome(r) # NoText
  BY <1>3, <1>4, NoTextAssumption
<1>7. server'[r.chapter] # NoText
  <2>1. r.new = r.seen => server[r.chapter] # NoText
    BY <1>1, <1>6 DEF Sound
  <2> QED BY <2>1, <1>3, <1>5, <1>6
<1>8. ServerKeeps
  BY <1>5, <1>6 DEF ServerKeeps
<1> HIDE DEF r
<1>9. TypeOK'
  <2>1. server' \in [Chapter -> Maybe]
    BY <1>1, <1>3, <1>4 DEF TypeOK, Maybe
  <2>2. /\ request' \in [Client -> Requests \union {NoRequest}]
        /\ pc' \in [Client -> PC]
    BY <1>1 DEF TypeOK, PC
  <2> QED BY <1>1, <2>1, <2>2 DEF TypeOK
<1>10. \A d \in Client \ {c} : Bystander(d)
  BY <1>1 DEF Bystander, Untouched, TypeOK
<1>11. Sound(c)'
  <2>1. /\ request'[c] = NoRequest /\ pc'[c] # "wait"
        /\ Getting(c)' = Getting(c) /\ Underway(c)' = Underway(c)
        /\ (pc'[c] = "walk") = (pc[c] = "walk")
    BY <1>1 DEF TypeOK, Getting, Underway
  <2>2. todo[c] \subseteq Chapter /\ job[c] \in Chapter
    BY DEF TypeOK
  <2> QED BY <2>1, <2>2, <1>1, <1>8 DEF Sound, ServerKeeps
<1> QED BY <1>3, <1>7, <1>8, <1>9, <1>10, <1>11, SoundStep DEF r

\* The client goes through the server's chapters: the state stays sound.
LEMMA ListChaptersSound ==
  ASSUME SoundInv, NEW c \in Client, ListChapters(c)
  PROVE  SoundInv' /\ \A d \in Client \ {c} : Bystander(d)
<1> USE DEF SoundInv
<1> DEFINE surplus == OnlyOnClient(c)
           recorded == [ch \in Chapter |->
             IF ch \in surplus THEN Record(action[c][ch], NoText) ELSE action[c][ch]]
<1>1. /\ todo' = [todo EXCEPT ![c] = {ch \in Chapter : server[ch] # NoText}]
      /\ \/ action' = [action EXCEPT ![c] = recorded] /\ UNCHANGED text
         \/ UNCHANGED <<text, action>>
         \/ UNCHANGED action /\ \E ch \in Chapter : text' = [text EXCEPT ![c][ch] = NoText]
      /\ pc' = [pc EXCEPT ![c] = "walk"]
      /\ UNCHANGED <<server, first, edit, failed, job, old, new, got, request>>
  BY DEF ListChapters, OnlyOnClient
<1>2. recorded \in [Chapter -> Maybe \union {NoAction}]
  BY DEF TypeOK, Record, Maybe
<1> HIDE DEF recorded
<1>3. TypeOK'
  <2>1. action' \in [Client -> [Chapter -> Maybe \union {NoAction}]]
    BY <1>1, <1>2 DEF TypeOK
  <2>2. text' \in [Client -> [Chapter -> Maybe]]
    BY <1>1 DEF TypeOK, Maybe
  <2> QED BY <1>1, <2>1, <2>2 DEF TypeOK, PC
<1>4. \A d \in Client \ {c} : Bystander(d)
  BY <1>1 DEF Bystander, Untouched, TypeOK
<1>5. pc'[c] = "walk" /\ todo'[c] = {ch \in Chapter : server[ch] # NoText}
  BY <1>1 DEF TypeOK
<1>6. Sound(c)'
  BY <1>1, <1>5 DEF Sound, Getting, Underway
<1> QED BY <1>1, <1>3, <1>4, <1>6, SoundStep DEF ServerKeeps

\* A chapter needs nothing: the state stays sound.
LEMMA SkipChapterSound ==
  ASSUME SoundInv, NEW c \in Client, SkipChapter(c)
  PROVE  SoundInv' /\ \A d \in Client \ {c} : Bystander(d)
<1> USE DEF SoundInv
<1>1. /\ pc[c] = "walk"
      /\ \E ch \in todo[c] : todo' = [todo EXCEPT ![c] = todo[c] \ {ch}]
      /\ UNCHANGED failed \/ failed' = [failed EXCEPT ![c] = TRUE]
      /\ UNCHANGED <<server, text, action, first, edit, pc, job, old, new, got, request>>
  BY DEF SkipChapter, clientVars
<1>2. TypeOK'
  <2>1. todo' \in [Client -> SUBSET Chapter]
    BY <1>1 DEF TypeOK
  <2>2. failed' \in [Client -> BOOLEAN]
    BY <1>1 DEF TypeOK
  <2> QED BY <1>1, <2>1, <2>2 DEF TypeOK
<1>3. \A d \in Client \ {c} : Bystander(d)
  BY <1>1 DEF Bystander, Untouched, TypeOK
<1>4. todo'[c] \subseteq todo[c]
  BY <1>1 DEF TypeOK
<1>5. Sound(c)'
  BY <1>1, <1>4 DEF Sound, Getting, Underway
<1> QED BY <1>1, <1>2, <1>3, <1>5, SoundStep DEF ServerKeeps

\* The client downloads a chapter: the state stays sound.
LEMMA GetChapterSound ==
  ASSUME SoundInv, NEW c \in Client, GetChapter(c)
  PROVE  SoundInv' /\ \A d \in Client \ {c} : Bystander(d)
<1> USE DEF SoundInv
<1>1. pc[c] = "walk"
  BY DEF GetChapter
<1>2. PICK ch \in todo[c] :
        /\ job' = [job EXCEPT ![c] = ch]
        /\ todo' = [todo EXCEPT ![c] = todo[c] \ {ch}]
        /\ got' = [got EXCEPT ![c] = server[ch]]
        /\ pc' = [pc EXCEPT ![c] = "check"]
        /\ UNCHANGED <<server, text, action, first, edit, failed, old, new, request>>
  BY DEF GetChapter, clientVars
<1>3. ch \in Chapter /\ server[ch] \in Maybe
  BY DEF TypeOK
<1>4. TypeOK'
  BY <1>2, <1>3 DEF TypeOK, PC
<1>5. \A d \in Client \ {c} : Bystander(d)
  BY <1>2 DEF Bystander, Untouched, TypeOK
<1>6. /\ pc'[c] = "check" /\ job'[c] = ch /\ got'[c] = server[ch]
      /\ todo'[c] \subseteq todo[c]
  BY <1>2 DEF TypeOK
<1>7. Sound(c)'
  BY <1>1, <1>2, <1>6 DEF Sound, Getting, Underway
<1> QED BY <1>2, <1>4, <1>5, <1>7, SoundStep DEF ServerKeeps

\* The client looks for an action, or reads its own chapter again: the state
\* stays sound.
LEMMA LookSound ==
  ASSUME SoundInv, NEW c \in Client, CheckAction(c) \/ ReadMine(c)
  PROVE  SoundInv' /\ \A d \in Client \ {c} : Bystander(d)
<1> USE DEF SoundInv
<1> DEFINE base == Base(action[c][job[c]])
<1>1. /\ Getting(c)
      /\ \E next \in {"store", "read", "merge"} : pc' = [pc EXCEPT ![c] = next]
      /\ \/ old' = [old EXCEPT ![c] = base] /\ UNCHANGED new
         \/ new' = [new EXCEPT ![c] = text[c][job[c]]] /\ UNCHANGED old
      /\ UNCHANGED <<server, text, action, first, edit, todo, failed, job, got, request>>
  BY DEF CheckAction, ReadMine, Getting, clientVars
<1>2. base \in Maybe /\ text[c][job[c]] \in Maybe
  BY DEF TypeOK, Base, Maybe
<1> HIDE DEF base
<1>3. TypeOK'
  <2>1. old' \in [Client -> Maybe] /\ new' \in [Client -> Maybe]
    <3>1. CASE old' = [old EXCEPT ![c] = base] /\ UNCHANGED new
      BY <3>1, <1>2 DEF TypeOK
    <3>2. CASE new' = [new EXCEPT ![c] = text[c][job[c]]] /\ UNCHANGED old
      BY <3>2, <1>2 DEF TypeOK
    <3> QED BY <1>1, <3>1, <3>2
  <2>2. pc' \in [Client -> PC]
    BY <1>1 DEF TypeOK, PC
  <2> QED BY <1>1, <2>1, <2>2 DEF TypeOK
<1>4. \A d \in Client \ {c} : Bystander(d)
  BY <1>1 DEF Bystander, Untouched, TypeOK
<1>5. pc'[c] \in {"store", "read", "merge"}
  BY <1>1 DEF TypeOK
<1>6. Sound(c)'
  BY <1>1, <1>5 DEF Sound, Getting, Underway
<1> QED BY <1>1, <1>3, <1>4, <1>6, SoundStep DEF ServerKeeps

\* The client records the action for the merged chapter: the state stays sound.
LEMMA RecordMergedSound ==
  ASSUME SoundInv, NEW c \in Client, RecordMerged(c)
  PROVE  SoundInv' /\ \A d \in Client \ {c} : Bystander(d)
<1> USE DEF SoundInv
<1> DEFINE base == Record(action[c][job[c]], text[c][job[c]])
<1>1. /\ Getting(c)
      /\ action' = [action EXCEPT ![c][job[c]] = base]
      /\ pc' = [pc EXCEPT ![c] = "put"]
      /\ UNCHANGED <<server, text, first, edit, todo, failed, job, old, new, got, request>>
  BY DEF RecordMerged, Getting
<1>2. base \in Maybe \union {NoAction}
  BY DEF TypeOK, Record
<1> HIDE DEF base
<1>3. TypeOK'
  <2>1. action' \in [Client -> [Chapter -> Maybe \union {NoAction}]]
    BY <1>1, <1>2 DEF TypeOK
  <2>2. pc' \in [Client -> PC]
    BY <1>1 DEF TypeOK, PC
  <2> QED BY <1>1, <2>1, <2>2 DEF TypeOK
<1>4. \A d \in Client \ {c} : Bystander(d)
  BY <1>1 DEF Bystander, Untouched, TypeOK
<1>5. pc'[c] = "put"
  BY <1>1 DEF TypeOK
<1>6. Sound(c)'
  BY <1>1, <1>5 DEF Sound, Getting, Underway
<1> QED BY <1>1, <1>3, <1>4, <1>6, SoundStep DEF ServerKeeps

\* The client stores the server's chapter, or the merged one: the state stays sound.
LEMMA StoreSound ==
  ASSUME SoundInv, NEW c \in Client, StoreServer(c) \/ StoreMerged(c)
  PROVE  SoundInv' /\ \A d \in Client \ {c} : Bystander(d)
<1> USE DEF SoundInv
<1> DEFINE ch == job[c]
           merged == Merge(old[c], new[c], got[c])
<1>1. /\ Getting(c)
      /\ \/ text' = [text EXCEPT ![c][ch] = got[c]]
         \/ text' = [text EXCEPT ![c][ch] = merged]
      /\ pc' = [pc EXCEPT ![c] = "walk"]
      /\ old' = [old EXCEPT ![c] = NoText]
      /\ new' = [new EXCEPT ![c] = NoText]
      /\ got' = [got EXCEPT ![c] = NoText]
      /\ UNCHANGED <<server, action, first, edit, todo, failed, job, request>>
  BY DEF StoreServer, StoreMerged, Getting, EndChapter
<1>2. got[c] \in Text /\ new[c] \in Text \union {NoText} /\ ch \in Chapter
  BY <1>1 DEF Sound, TypeOK, Maybe
<1>3. merged \in Text
  BY <1>2, MergeType DEF TypeOK
<1> HIDE DEF merged
<1>4. TypeOK'
  <2> DEFINE Stored(x) == text' = [text EXCEPT ![c][ch] = x]
  <2>1. \E x \in Text : Stored(x)
    BY <1>1, <1>2, <1>3
  <2>2. text' \in [Client -> [Chapter -> Maybe]]
    BY <2>1 DEF TypeOK, Maybe
  <2>3. /\ old' \in [Client -> Maybe] /\ new' \in [Client -> Maybe]
        /\ got' \in [Client -> Maybe] /\ pc' \in [Client -> PC]
    BY <1>1 DEF TypeOK, Maybe, PC
  <2> QED BY <1>1, <2>2, <2>3 DEF TypeOK
<1>5. \A d \in Client \ {c} : Bystander(d)
  BY <1>1 DEF Bystander, Untouched, TypeOK
<1>6. pc'[c] = "walk"
  BY <1>1 DEF TypeOK
<1>7. Sound(c)'
  BY <1>1, <1>6 DEF Sound, Getting, Underway
<1> QED BY <1>1, <1>4, <1>5, <1>7, SoundStep DEF ServerKeeps

\* All is received: the state stays sound.
LEMMA ReceiveDoneSound ==
  ASSUME SoundInv, NEW c \in Client, ReceiveDone(c)
  PROVE  SoundInv' /\ \A d \in Client \ {c} : Bystander(d)
<1> USE DEF SoundInv
<1>1. /\ first' = [first EXCEPT ![c] = first[c] /\ failed[c]]
      /\ pc' = [pc EXCEPT ![c] = "idle"]
      /\ old' = [old EXCEPT ![c] = NoText]
      /\ new' = [new EXCEPT ![c] = NoText]
      /\ got' = [got EXCEPT ![c] = NoText]
      /\ todo' = [todo EXCEPT ![c] = {}]
      /\ failed' = [failed EXCEPT ![c] = FALSE]
      /\ UNCHANGED <<server, text, action, edit, job, request>>
  BY DEF ReceiveDone, EndTask, EndChapter
<1>2. TypeOK'
  BY <1>1 DEF TypeOK, PC, Maybe
<1>3. \A d \in Client \ {c} : Bystander(d)
  BY <1>1 DEF Bystander, Untouched, TypeOK
<1>4. pc'[c] = "idle"
  BY <1>1 DEF TypeOK
<1>5. Sound(c)'
  BY <1>1, <1>4 DEF Sound, Getting, Underway
<1> QED BY <1>1, <1>2, <1>3, <1>5, SoundStep DEF ServerKeeps

\* The server stops: the state stays sound.
LEMMA RestartSound ==
  ASSUME SoundInv, Restart
  PROVE  SoundInv'
<1> USE DEF SoundInv
<1>1. /\ request' = [c \in Client |-> NoRequest]
      /\ pc' = [c \in Client |-> IF pc[c] = "wait" THEN "restore" ELSE pc[c]]
      /\ failed' = [c \in Client |-> failed[c] \/ pc[c] = "wait"]
      /\ UNCHANGED <<server, text, action, first, edit, todo, job, old, new, got>>
  BY DEF Restart, clientVars
<1>2. TypeOK'
  BY <1>1 DEF TypeOK, PC
<1>3. ASSUME NEW c \in Client PROVE Sound(c)'
  <2>1. /\ request'[c] = NoRequest /\ pc'[c] # "wait"
        /\ Getting(c)' = Getting(c) /\ Underway(c)' = Underway(c)
        /\ (pc'[c] = "walk") = (pc[c] = "walk")
    BY <1>1 DEF Getting, Underway
  <2> QED BY <2>1, <1>1 DEF Sound
<1> QED BY <1>2, <1>3

\* At the start the state is sound.
LEMMA InitSound ==
  ASSUME Init
  PROVE  SoundInv
<1>1. StartText \in Text
  BY DEF StartText, Text
<1>2. \A c \in Client : LocalText(c) \in Text
  BY DEF LocalText, Text, Blank
<1>3. TypeOK
  <2>1. (CHOOSE ch \in Chapter : TRUE) \in Chapter
    BY BibleSyncAssumption
  <2>2. text \in [Client -> [Chapter -> Maybe]]
    BY <1>1, <1>2 DEF Init, Maybe
  <2>3. server \in [Chapter -> Maybe]
    BY <1>1 DEF Init, Maybe
  <2> QED BY <2>1, <2>2, <2>3 DEF Init, TypeOK, Maybe, PC
<1>4. ASSUME NEW c \in Client PROVE Sound(c)
  BY DEF Init, Sound, Getting, Underway
<1> QED BY <1>3, <1>4 DEF SoundInv

\* Every step keeps the state sound.
LEMMA SoundHolds ==
  ASSUME SoundInv, [Next]_vars
  PROVE  SoundInv'
<1>1. CASE UNCHANGED vars
  BY <1>1 DEF SoundInv, TypeOK, Sound, Getting, Underway, vars, clientVars, taskVars
<1>2. CASE Restart
  BY <1>2, RestartSound
<1>3. ASSUME NEW c \in Client, Save(c) PROVE SoundInv'
  BY <1>3, ComposeSound, RecordEditSound, StoreEditSound DEF Save
<1>4. ASSUME NEW c \in Client, Send(c) PROVE SoundInv'
  BY <1>4, StartSound, ReadChapterSound, ClearActionSound, OverSound, FailSound,
     SendDoneSound DEF Send
<1>5. ASSUME NEW c \in Client, Handle(c) PROVE SoundInv'
  BY <1>5, ReceiveSound, StoreReceivedSound DEF Handle
<1>6. ASSUME NEW c \in Client, Fetch(c) PROVE SoundInv'
  BY <1>6, OverSound, ListChaptersSound, SkipChapterSound, GetChapterSound, LookSound,
     RecordMergedSound, StoreSound, ReceiveDoneSound DEF Fetch
<1>7. ASSUME NEW c \in Client, Quit(c) PROVE SoundInv'
  BY <1>7, OverSound
<1> QED BY <1>1, <1>2, <1>3, <1>4, <1>5, <1>6, <1>7 DEF Next

\* Whatever the surroundings do, the state is always well-typed: no merge, no
\* record of a Bible action and no request (bibles.cpp on both sides) ever deals
\* with anything but a chapter, and the server never stores an empty one.
THEOREM TypeCorrect == Spec => []TypeOK
<1>1. Init => SoundInv
  BY InitSound
<1>2. SoundInv /\ [Next]_vars => SoundInv'
  BY SoundHolds
<1>3. SoundInv => TypeOK
  BY DEF SoundInv
<1> QED BY <1>1, <1>2, <1>3, PTL DEF Spec

-----------------------------------------------------------------------------
(* The chapters that a client brings along *)

LEMMA SameIsNotAfter ==
  ASSUME NEW a \in Text
  PROVE  NotAfter(a, a)
  BY DEF NotAfter, Text

LEMMA NotAfterIsTransitive ==
  ASSUME NEW a \in Text, NEW b \in Text, NEW z \in Text, NotAfter(a, b), NotAfter(b, z)
  PROVE  NotAfter(a, z)
<1>1. ASSUME NEW v \in Verse PROVE a[v] <= z[v]
  <2>1. a[v] \in Nat /\ b[v] \in Nat /\ z[v] \in Nat
    BY DEF Text
  <2>2. a[v] <= b[v] /\ b[v] <= z[v]
    BY DEF NotAfter
  <2> QED BY <2>1, <2>2
<1> QED BY <1>1 DEF NotAfter

\* What is older than a wording is older than each later one.
LEMMA OlderStays ==
  ASSUME NEW a \in Text \union {NoText}, NEW b \in Text, NEW z \in Text,
         Older(a, b), NotAfter(b, z)
  PROVE  Older(a, z)
<1>1. CASE a = NoText
  BY <1>1 DEF Older
<1>2. CASE a # NoText
  <2>1. a \in Text /\ a # b /\ NotAfter(a, b)
    BY <1>2 DEF Older
  <2>2. PICK v \in Verse : a[v] # b[v]
    BY <2>1 DEF Text
  <2>3. a[v] <= b[v] /\ b[v] <= z[v] /\ a[v] \in Nat /\ b[v] \in Nat /\ z[v] \in Nat
    BY <2>1 DEF NotAfter, Text
  <2>4. a # z
    BY <2>2, <2>3
  <2> QED BY <2>1, <2>4, NotAfterIsTransitive DEF Older
<1> QED BY <1>1, <1>2

\* A step of somebody else leaves a chapter that a client brought.
LEMMA BroughtElsewhere ==
  ASSUME NEW d \in Client, NEW ch \in Chapter, Brought(d, ch), Bystander(d), ServerKeeps
  PROVE  Brought(d, ch)'
  BY DEF Brought, OnItsWay, Bystander, Untouched, ServerKeeps, Storing, Holding, Underway,
     Getting, Carried

\* A user's save of an earlier wording is excluded: composing leaves the chapter
\* with something to send.
LEMMA ComposeBrought ==
  ASSUME SoundInv, Undisturbed, NEW c \in Client, NEW ch \in Chapter, Brought(c, ch),
         Compose(c)
  PROVE  Brought(c, ch)'
<1> USE DEF SoundInv
<1> DEFINE current(x) == IF text[c][x] = NoText THEN BlankChapter ELSE text[c][x]
           new_text(x, v, word) == [current(x) EXCEPT ![v] = word]
<1>1. PICK x \in Chapter, v \in Verse, word \in 0..MaxWord :
        /\ word > current(x)[v]
        /\ edit' = [edit EXCEPT ![c] =
             [chapter |-> x, text |-> new_text(x, v, word), recorded |-> FALSE]]
  BY DEF Compose, Undisturbed
<1>2. /\ edit[c] = NoEdit
      /\ UNCHANGED <<server, text, action, first, pc, todo, failed, job, old, new, got, request>>
  BY DEF Compose, taskVars
<1>3. /\ edit'[c].chapter = x /\ ~edit'[c].recorded
      /\ edit'[c].text = new_text(x, v, word)
  BY <1>1 DEF TypeOK
<1>4. x = ch => Older(text[c][ch], new_text(x, v, word))
  <2> SUFFICES ASSUME x = ch PROVE Older(text[c][ch], new_text(x, v, word))
    OBVIOUS
  <2>1. text[c][ch] \in Text /\ current(x) = text[c][ch]
    BY DEF Brought, TypeOK, Maybe
  <2>2. word \in Nat
    BY BibleSyncAssumption
  <2>3. new_text(x, v, word)[v] = word
        /\ \A u \in Verse : u # v => new_text(x, v, word)[u] = text[c][ch][u]
    BY <2>1 DEF Text
  <2> HIDE DEF current, new_text
  <2>4. word > text[c][ch][v]
    BY <1>1, <2>1
  <2>5. \A u \in Verse : text[c][ch][u] \in Nat
    BY <2>1 DEF Text
  <2>6. text[c][ch] # new_text(x, v, word)
    BY <2>2, <2>3, <2>4, <2>5
  <2>7. NotAfter(text[c][ch], new_text(x, v, word))
    BY <2>2, <2>3, <2>4, <2>5 DEF NotAfter
  <2> QED BY <2>6, <2>7 DEF Older
<1> HIDE DEF current, new_text
<1> QED BY <1>2, <1>3, <1>4 DEF Brought, OnItsWay, Storing, Holding, Underway, Getting, Carried

\* The recorded base is what the client has.
LEMMA RecordEditBrought ==
  ASSUME SoundInv, NEW c \in Client, NEW ch \in Chapter, Brought(c, ch), RecordEdit(c)
  PROVE  Brought(c, ch)'
<1> USE DEF SoundInv
<1> DEFINE x == edit[c].chapter
<1>1. /\ edit[c] # NoEdit /\ ~edit[c].recorded
      /\ action' = [action EXCEPT ![c][x] = Record(action[c][x], text[c][x])]
      /\ edit' = [edit EXCEPT ![c].recorded = TRUE]
      /\ UNCHANGED <<server, text, first, pc, todo, failed, job, old, new, got, request>>
  BY DEF RecordEdit, taskVars
<1>2. edit[c] \in Edits /\ x \in Chapter
  BY <1>1 DEF TypeOK, Edits
<1>3. edit'[c] # NoEdit /\ edit'[c].chapter = x /\ edit'[c].recorded /\ edit'[c].text = edit[c].text
  <2>1. [edit[c] EXCEPT !.recorded = TRUE] \in Edits
    BY <1>2 DEF Edits
  <2>2. edit' = [edit EXCEPT ![c] = [edit[c] EXCEPT !.recorded = TRUE]]
    BY <1>1
  <2>3. edit'[c] = [edit[c] EXCEPT !.recorded = TRUE]
    BY <2>2 DEF TypeOK
  <2> QED BY <2>1, <2>3, <1>2, BibleSyncAssumption DEF Edits
<1>4. /\ action[c][ch] # NoAction => action'[c][ch] = action[c][ch]
      /\ action'[c][ch] # action[c][ch] => x = ch /\ action'[c][ch] = text[c][ch]
  BY <1>1, <1>2 DEF TypeOK, Record
<1> HIDE DEF x
<1> QED BY <1>1, <1>3, <1>4 DEF Brought, OnItsWay, Storing, Holding, Underway, Getting, Carried, x

\* The text that the user stores is later than the base.
LEMMA StoreEditBrought ==
  ASSUME SoundInv, NEW c \in Client, NEW ch \in Chapter, Brought(c, ch), StoreEdit(c)
  PROVE  Brought(c, ch)'
<1> USE DEF SoundInv
<1> DEFINE x == edit[c].chapter
           E == edit[c].text
<1>1. /\ edit[c] # NoEdit
      /\ text' = [text EXCEPT ![c][x] = E]
      /\ edit' = [edit EXCEPT ![c] = NoEdit]
      /\ UNCHANGED <<server, action, first, pc, todo, failed, job, old, new, got, request>>
  BY DEF StoreEdit, taskVars
<1>2. x \in Chapter /\ E \in Text /\ E # NoText
  BY <1>1, NoTextAssumption DEF TypeOK, Edits
<1>3. edit'[c] = NoEdit /\ text'[c][ch] = IF x = ch THEN E ELSE text[c][ch]
  BY <1>1, <1>2 DEF TypeOK
<1>4. text[c][ch] \in Text
  BY DEF Brought, TypeOK, Maybe
<1>5. CASE server[ch] # NoText
  BY <1>1, <1>2, <1>3, <1>4, <1>5 DEF Brought
<1>6. CASE server[ch] = NoText /\ x # ch
  BY <1>1, <1>3, <1>6 DEF Brought, OnItsWay, Storing, Holding, Underway, Getting, Carried
<1>7. CASE server[ch] = NoText /\ x = ch
  <2>1. OnItsWay(c, ch) /\ text[c][ch] # NoText
    BY <1>7 DEF Brought
  <2>2. Older(text[c][ch], E) /\ NotAfter(text[c][ch], E)
    BY <2>1, <1>1, <1>7 DEF OnItsWay, Older
  <2>3. action[c][ch] # NoAction => Older(action[c][ch], E)
    <3>1. CASE action[c][ch] = text[c][ch]
      BY <2>2, <3>1
    <3>2. CASE action[c][ch] # NoAction /\ Older(action[c][ch], text[c][ch])
      <4>1. action[c][ch] \in Text \union {NoText}
        BY <3>2 DEF TypeOK, Maybe
      <4> QED BY <4>1, <3>2, <2>2, <1>2, <1>4, OlderStays
    <3> QED BY <3>1, <3>2, <2>1 DEF OnItsWay
  <2>4. Holding(c) /\ job[c] = ch => NotAfter(new[c], E)
    <3> SUFFICES ASSUME Holding(c), job[c] = ch PROVE NotAfter(new[c], E)
      OBVIOUS
    <3>1. new[c] \in Text /\ NotAfter(new[c], text[c][ch])
      BY <2>1 DEF OnItsWay, TypeOK, Maybe
    <3> QED BY <3>1, <2>2, <1>2, <1>4, NotAfterIsTransitive
  <2>5. text'[c][ch] = E
    BY <1>3, <1>7
  <2> HIDE DEF x, E
  <2>6. OnItsWay(c, ch)'
    BY <1>1, <1>3, <2>1, <2>3, <2>4, <2>5
    DEF OnItsWay, Storing, Holding, Underway, Getting, Carried
  <2> QED BY <2>5, <2>6, <1>2 DEF Brought
<1> QED BY <1>5, <1>6, <1>7

\* The task takes up all chapters with an action.
LEMMA StartBrought ==
  ASSUME SoundInv, NEW c \in Client, NEW ch \in Chapter, Brought(c, ch), Start(c)
  PROVE  Brought(c, ch)'
<1> USE DEF SoundInv
<1>1. /\ pc[c] = "idle"
      /\ pc' = [pc EXCEPT ![c] = "send"]
      /\ todo' = [todo EXCEPT ![c] = {x \in Chapter : action[c][x] # NoAction}]
      /\ UNCHANGED <<server, text, action, first, edit, failed, job, old, new, got, request>>
  BY DEF Start, clientVars
<1>2. pc'[c] = "send" /\ todo'[c] = {x \in Chapter : action[c][x] # NoAction}
  BY <1>1 DEF TypeOK
<1> QED BY <1>1, <1>2 DEF Brought, OnItsWay, Storing, Holding, Underway, Getting, Carried

\* Nobody is between the record and the store: what the task reads is later
\* than the base that it reads.
LEMMA ReadChapterBrought ==
  ASSUME SoundInv, Undisturbed, NEW c \in Client, NEW ch \in Chapter, Brought(c, ch),
         ReadChapter(c)
  PROVE  Brought(c, ch)'
<1> USE DEF SoundInv
<1>1. PICK x \in todo[c] :
        /\ ~Storing(c, x)
        /\ job' = [job EXCEPT ![c] = x]
        /\ todo' = [todo EXCEPT ![c] = todo[c] \ {x}]
        /\ old' = [old EXCEPT ![c] = Base(action[c][x])]
        /\ new' = [new EXCEPT ![c] = text[c][x]]
  BY DEF ReadChapter, Undisturbed
<1>2. /\ pc[c] = "send"
      /\ pc' = [pc EXCEPT ![c] = "clear"]
      /\ UNCHANGED <<server, text, action, first, edit, failed, got, request>>
  BY DEF ReadChapter, clientVars
<1>3. /\ pc'[c] = "clear" /\ job'[c] = x /\ todo'[c] = todo[c] \ {x}
      /\ old'[c] = Base(action[c][x]) /\ new'[c] = text[c][x]
  BY <1>1, <1>2 DEF TypeOK
<1>4. CASE server[ch] # NoText
  BY <1>2, <1>4 DEF Brought
<1>5. CASE server[ch] = NoText
  <2>1. OnItsWay(c, ch) /\ text[c][ch] \in Text /\ text[c][ch] # NoText
    BY <1>5 DEF Brought, TypeOK, Maybe
  <2>2. NotAfter(text[c][ch], text[c][ch])
    BY <2>1, SameIsNotAfter
  <2>3. x = ch => Older(old'[c], new'[c])
    BY <1>1, <1>3, <2>1 DEF OnItsWay, Base, Older
  <2>4. OnItsWay(c, ch)'
    BY <1>2, <1>3, <2>1, <2>2, <2>3
    DEF OnItsWay, Storing, Holding, Underway, Getting, Carried
  <2> QED BY <2>1, <2>4, <1>2 DEF Brought
<1> QED BY <1>4, <1>5

\* A chapter that the server lacks differs from its base, so that it is sent.
LEMMA ClearActionBrought ==
  ASSUME SoundInv, NEW c \in Client, NEW ch \in Chapter, Brought(c, ch), ClearAction(c)
  PROVE  Brought(c, ch)'
<1> USE DEF SoundInv
<1>1. /\ pc[c] = "clear"
      /\ action' = [action EXCEPT ![c][job[c]] = NoAction]
      /\ UNCHANGED <<server, text, first, edit, todo, failed, job, request>>
      /\ \/ UNCHANGED <<old, new, got>> /\ pc' = [pc EXCEPT ![c] = "post"]
         \/ new[c] \in {old[c], NoText} /\ pc' = [pc EXCEPT ![c] = "send"]
  BY DEF ClearAction, EndChapter
<1>2. \/ pc'[c] = "post" /\ old'[c] = old[c] /\ new'[c] = new[c]
      \/ pc'[c] = "send" /\ new[c] \in {old[c], NoText}
  BY <1>1 DEF TypeOK
<1>3. action'[c][ch] = IF job[c] = ch THEN NoAction ELSE action[c][ch]
  BY <1>1 DEF TypeOK
<1>4. server[ch] = NoText /\ job[c] = ch => new[c] \notin {old[c], NoText}
  BY <1>1 DEF Brought, OnItsWay, Holding, Older
<1> QED BY <1>1, <1>2, <1>3, <1>4
    DEF Brought, OnItsWay, Storing, Holding, Underway, Getting, Carried

\* What is confirmed is another chapter: the server has that one.
LEMMA ConfirmedBrought ==
  ASSUME SoundInv, NEW c \in Client, NEW ch \in Chapter, Brought(c, ch), Confirmed(c)
  PROVE  Brought(c, ch)'
<1> USE DEF SoundInv
<1>1. /\ pc[c] = "ack" /\ pc' = [pc EXCEPT ![c] = "send"]
      /\ UNCHANGED <<server, text, action, first, edit, todo, failed, job, request>>
  BY DEF Confirmed, EndChapter, clientVars
<1>2. pc'[c] = "send"
  BY <1>1 DEF TypeOK
<1> QED BY <1>1, <1>2 DEF Brought, OnItsWay, Storing, Holding, Underway, Getting, Carried

LEMMA SendFailsBrought ==
  ASSUME SoundInv, NEW c \in Client, NEW ch \in Chapter, Brought(c, ch), SendFails(c)
  PROVE  Brought(c, ch)'
<1> USE DEF SoundInv
<1>1. /\ pc[c] \in {"post", "wait", "ack"}
      /\ pc' = [pc EXCEPT ![c] = "restore"] /\ failed' = [failed EXCEPT ![c] = TRUE]
      /\ UNCHANGED <<server, text, action, first, edit, todo, job, old, new, got, request>>
  BY DEF SendFails, clientVars
<1>2. pc'[c] = "restore" /\ failed'[c]
  BY <1>1 DEF TypeOK
<1> QED BY <1>1, <1>2 DEF Brought, OnItsWay, Storing, Holding, Underway, Getting, Carried

LEMMA RestoreEraseBrought ==
  ASSUME SoundInv, NEW c \in Client, NEW ch \in Chapter, Brought(c, ch), RestoreErase(c)
  PROVE  Brought(c, ch)'
<1> USE DEF SoundInv
<1>1. /\ pc[c] = "restore" /\ pc' = [pc EXCEPT ![c] = "record"]
      /\ action' = [action EXCEPT ![c][job[c]] = NoAction]
      /\ UNCHANGED <<server, text, first, edit, todo, failed, job, old, new, got, request>>
  BY DEF RestoreErase
<1>2. /\ pc'[c] = "record"
      /\ action'[c][ch] = IF job[c] = ch THEN NoAction ELSE action[c][ch]
  BY <1>1 DEF TypeOK
<1> QED BY <1>1, <1>2 DEF Brought, OnItsWay, Storing, Holding, Underway, Getting, Carried

\* What could not be sent is recorded again, with the base that is older.
LEMMA RestoreRecordBrought ==
  ASSUME SoundInv, NEW c \in Client, NEW ch \in Chapter, Brought(c, ch), RestoreRecord(c)
  PROVE  Brought(c, ch)'
<1> USE DEF SoundInv
<1>1. /\ pc[c] = "record" /\ pc' = [pc EXCEPT ![c] = "send"]
      /\ action' = [action EXCEPT ![c][job[c]] = Record(action[c][job[c]], old[c])]
      /\ UNCHANGED <<server, text, first, edit, todo, failed, job, request>>
  BY DEF RestoreRecord, EndChapter
<1>2. /\ pc'[c] = "send" /\ failed[c]
      /\ action'[c][ch] = IF job[c] = ch /\ action[c][ch] = NoAction
                          THEN old[c] ELSE action[c][ch]
  BY <1>1 DEF TypeOK, Record, Sound
<1>3. old[c] # NoAction
  BY BibleSyncAssumption DEF TypeOK, Maybe
<1>4. server[ch] = NoText /\ job[c] = ch => Older(old[c], text[c][ch])
  <2> SUFFICES ASSUME server[ch] = NoText, job[c] = ch PROVE Older(old[c], text[c][ch])
    OBVIOUS
  <2>1. new[c] # NoText /\ Older(old[c], new[c]) /\ NotAfter(new[c], text[c][ch])
    BY <1>1 DEF Brought, OnItsWay, Holding, Underway
  <2>2. new[c] \in Text /\ text[c][ch] \in Text /\ old[c] \in Text \union {NoText}
    BY <2>1 DEF Brought, TypeOK, Maybe
  <2> QED BY <2>1, <2>2, OlderStays
<1> QED BY <1>1, <1>2, <1>3, <1>4
    DEF Brought, OnItsWay, Storing, Holding, Underway, Getting, Carried

\* The task goes on to receive with everything sent, unless it just connected.
LEMMA SendDoneBrought ==
  ASSUME SoundInv, NEW c \in Client, NEW ch \in Chapter, Brought(c, ch), SendDone(c)
  PROVE  Brought(c, ch)'
<1> USE DEF SoundInv
<1>1. /\ pc[c] = "send" /\ todo[c] = {}
      /\ UNCHANGED <<server, text, action, first, edit, job, request>>
      /\ \/ pc' = [pc EXCEPT ![c] = "idle"]
         \/ ~failed[c] /\ pc' = [pc EXCEPT ![c] = "list"]
  BY DEF SendDone, EndTask, EndChapter, clientVars
<1>2. pc'[c] = "idle" \/ (~failed[c] /\ pc'[c] = "list")
  BY <1>1 DEF TypeOK
<1> QED BY <1>1, <1>2 DEF Brought, OnItsWay, Storing, Holding, Underway, Getting, Carried

\* The server takes the chapter of a client with write access.
LEMMA ReceiveBrought ==
  ASSUME SoundInv, NEW c \in Writer, c \in Client, NEW ch \in Chapter, Brought(c, ch),
         Receive(c)
  PROVE  Brought(c, ch)'
<1> USE DEF SoundInv
<1>1. /\ pc[c] = "post" /\ pc' = [pc EXCEPT ![c] = "wait"]
      /\ UNCHANGED <<server, text, action, first, edit, todo, failed, job, old, new, got>>
  BY DEF Receive, AbandonedIsHandled, clientVars
<1>2. pc'[c] = "wait"
  BY <1>1 DEF TypeOK
<1> QED BY <1>1, <1>2 DEF Brought, OnItsWay, Storing, Holding, Underway, Getting, Carried

\* Once the server confirms the chapter, it has it.
LEMMA StoreReceivedBrought ==
  ASSUME SoundInv, NEW c \in Client, NEW ch \in Chapter, Brought(c, ch), StoreReceived(c)
  PROVE  Brought(c, ch)'
<1> USE DEF SoundInv
<1>1. /\ pc' = [pc EXCEPT ![c] = IF pc[c] = "wait" THEN "ack" ELSE pc[c]]
      /\ UNCHANGED <<text, action, first, edit, todo, failed, job, old, new, got>>
  BY DEF StoreReceived, clientVars
<1>2. pc'[c] = IF pc[c] = "wait" THEN "ack" ELSE pc[c]
  BY <1>1 DEF TypeOK
<1>3. /\ server[ch] # NoText => server'[ch] # NoText
      /\ pc[c] = "wait" /\ job[c] = ch => server'[ch] # NoText
  BY StoreReceivedSound DEF ServerKeeps, Sound
<1> QED BY <1>1, <1>2, <1>3
    DEF Brought, OnItsWay, Storing, Holding, Underway, Getting, Carried

LEMMA NothingToReceiveBrought ==
  ASSUME SoundInv, NEW c \in Client, NEW ch \in Chapter, Brought(c, ch), NothingToReceive(c)
  PROVE  Brought(c, ch)'
<1> USE DEF SoundInv
<1>1. /\ pc[c] = "list" /\ pc' = [pc EXCEPT ![c] = "idle"]
      /\ UNCHANGED <<server, text, action, first, edit>>
  BY DEF NothingToReceive, EndTask, EndChapter, clientVars
<1>2. pc'[c] = "idle"
  BY <1>1 DEF TypeOK
<1> QED BY <1>1, <1>2 DEF Brought, OnItsWay, Storing, Holding, Underway, Getting, Carried

\* A client that just connected records what the server lacks, and removes it
\* no more than one that did not: the latter has everything on the server.
LEMMA ListChaptersBrought ==
  ASSUME SoundInv, NEW c \in Client, NEW ch \in Chapter, Brought(c, ch), ListChapters(c)
  PROVE  Brought(c, ch)'
<1> USE DEF SoundInv
<1>1. /\ pc[c] = "list" /\ pc' = [pc EXCEPT ![c] = "walk"]
      /\ UNCHANGED <<server, first, edit, failed, job, old, new, got, request>>
  BY DEF ListChapters
<1>2. pc'[c] = "walk"
  BY <1>1 DEF TypeOK
<1>3. CASE server[ch] = NoText
  <2>1. text[c][ch] # NoText /\ OnItsWay(c, ch) /\ first[c]
    BY <1>1, <1>3 DEF Brought, OnItsWay
  <2>2. /\ text' = text
        /\ action' = [action EXCEPT ![c] = [x \in Chapter |->
             IF x \in OnlyOnClient(c) THEN Record(action[c][x], NoText) ELSE action[c][x]]]
    BY <2>1 DEF ListChapters
  <2>3. action'[c][ch] = Record(action[c][ch], NoText)
    BY <2>1, <2>2, <1>3 DEF TypeOK, OnlyOnClient
  <2>4. NoText # NoAction
    BY BibleSyncAssumption
  <2>5. /\ action'[c][ch] # NoAction
        /\ action'[c][ch] = NoText \/ action'[c][ch] = action[c][ch]
    BY <2>3, <2>4 DEF Record
  <2> QED BY <2>1, <2>2, <2>5, <1>1, <1>2
      DEF Brought, OnItsWay, Storing, Holding, Underway, Getting, Carried, Older
<1>4. CASE server[ch] # NoText
  <2>1. text' = text \/ \E x \in OnlyOnClient(c) : text' = [text EXCEPT ![c][x] = NoText]
    BY DEF ListChapters
  <2>2. ch \notin OnlyOnClient(c) /\ OnlyOnClient(c) \subseteq Chapter
    BY <1>4 DEF OnlyOnClient
  <2>3. text'[c][ch] = text[c][ch]
    BY <2>1, <2>2 DEF TypeOK
  <2> QED BY <2>3, <1>1, <1>4 DEF Brought
<1> QED BY <1>3, <1>4

LEMMA SkipChapterBrought ==
  ASSUME NEW c \in Client, NEW ch \in Chapter, Brought(c, ch), SkipChapter(c)
  PROVE  Brought(c, ch)'
<1>1. /\ pc[c] = "walk"
      /\ UNCHANGED <<server, text, action, first, edit, pc, job, old, new>>
  BY DEF SkipChapter, clientVars
<1> QED BY <1>1 DEF Brought, OnItsWay, Storing, Holding, Underway, Getting, Carried

\* What is received from the server for one chapter leaves the action of the
\* others.
LEMMA LookBrought ==
  ASSUME SoundInv, NEW c \in Client, NEW ch \in Chapter, Brought(c, ch),
         GetChapter(c) \/ CheckAction(c) \/ ReadMine(c)
  PROVE  Brought(c, ch)'
<1> USE DEF SoundInv
<1>1. /\ pc[c] = "walk" \/ Getting(c)
      /\ \E next \in {"check", "store", "read", "merge"} : pc' = [pc EXCEPT ![c] = next]
      /\ UNCHANGED <<server, text, action, first, edit>>
  BY DEF GetChapter, CheckAction, ReadMine, Getting, clientVars
<1>2. pc'[c] \in {"check", "store", "read", "merge"}
  BY <1>1 DEF TypeOK
<1> QED BY <1>1, <1>2 DEF Brought, OnItsWay, Storing, Holding, Underway, Getting, Carried

\* The action that the client records for a merge is of a chapter that the
\* server has.
LEMMA RecordMergedBrought ==
  ASSUME SoundInv, NEW c \in Client, NEW ch \in Chapter, Brought(c, ch), RecordMerged(c)
  PROVE  Brought(c, ch)'
<1> USE DEF SoundInv
<1> DEFINE x == job[c]
<1>1. /\ Getting(c)
      /\ action' = [action EXCEPT ![c][x] = Record(action[c][x], text[c][x])]
      /\ pc' = [pc EXCEPT ![c] = "put"]
      /\ UNCHANGED <<server, text, first, edit, todo, failed, job, old, new, got, request>>
  BY DEF RecordMerged, Getting
<1>2. x \in Chapter /\ server[x] # NoText
  BY <1>1 DEF Sound, TypeOK
<1>3. pc'[c] = "put"
  BY <1>1 DEF TypeOK
<1>4. CASE x = ch
  BY <1>1, <1>2, <1>4 DEF Brought
<1>5. CASE x # ch
  <2>1. action'[c][ch] = action[c][ch]
    BY <1>1, <1>5 DEF TypeOK
  <2> HIDE DEF x
  <2> QED BY <2>1, <1>1, <1>3
      DEF Brought, OnItsWay, Storing, Holding, Underway, Getting, Carried
<1> QED BY <1>4, <1>5

\* A chapter that the client stores from the server, the server has.
LEMMA StoreBrought ==
  ASSUME SoundInv, NEW c \in Client, NEW ch \in Chapter, Brought(c, ch),
         StoreServer(c) \/ StoreMerged(c)
  PROVE  Brought(c, ch)'
<1> USE DEF SoundInv
<1> DEFINE x == job[c]
<1>1. /\ Getting(c)
      /\ \/ text' = [text EXCEPT ![c][x] = got[c]]
         \/ text' = [text EXCEPT ![c][x] = Merge(old[c], new[c], got[c])]
      /\ pc' = [pc EXCEPT ![c] = "walk"]
      /\ UNCHANGED <<server, action, first, edit, todo, failed, job, request>>
  BY DEF StoreServer, StoreMerged, Getting, EndChapter
<1>2. x \in Chapter /\ server[x] # NoText
  BY <1>1 DEF Sound, TypeOK
<1>3. pc'[c] = "walk"
  BY <1>1 DEF TypeOK
<1>4. CASE x = ch
  <2>1. got[c] \in Text /\ new[c] \in Text \union {NoText}
    BY <1>1 DEF Sound, TypeOK, Maybe
  <2>2. Merge(old[c], new[c], got[c]) \in Text
    BY <2>1, MergeType
  <2>3. text'[c][ch] = got[c] \/ text'[c][ch] = Merge(old[c], new[c], got[c])
    BY <1>1, <1>4 DEF TypeOK
  <2>4. text'[c][ch] # NoText
    BY <2>1, <2>2, <2>3, NoTextAssumption
  <2> QED BY <2>4, <1>1, <1>2, <1>4 DEF Brought
<1>5. CASE x # ch
  <2>1. text'[c][ch] = text[c][ch]
    BY <1>1, <1>5 DEF TypeOK
  <2> HIDE DEF x
  <2> QED BY <2>1, <1>1, <1>3
      DEF Brought, OnItsWay, Storing, Holding, Underway, Getting, Carried
<1> QED BY <1>4, <1>5

\* The flag that the client just connected goes when all that the server lacks
\* has an action.
LEMMA ReceiveDoneBrought ==
  ASSUME SoundInv, NEW c \in Client, NEW ch \in Chapter, Brought(c, ch), ReceiveDone(c)
  PROVE  Brought(c, ch)'
<1> USE DEF SoundInv
<1>1. /\ pc[c] = "walk" /\ pc' = [pc EXCEPT ![c] = "idle"]
      /\ UNCHANGED <<server, text, action, edit>>
  BY DEF ReceiveDone, EndTask, EndChapter
<1>2. pc'[c] = "idle"
  BY <1>1 DEF TypeOK
<1> QED BY <1>1, <1>2 DEF Brought, OnItsWay, Storing, Holding, Underway, Getting, Carried

\* The clients whose answer gets lost restore their action.
LEMMA RestartBrought ==
  ASSUME SoundInv, NEW c \in Client, NEW ch \in Chapter, Brought(c, ch), Restart
  PROVE  Brought(c, ch)'
<1>1. /\ pc' = [d \in Client |-> IF pc[d] = "wait" THEN "restore" ELSE pc[d]]
      /\ failed' = [d \in Client |-> failed[d] \/ pc[d] = "wait"]
      /\ UNCHANGED <<server, text, action, first, edit, todo, job, old, new, got>>
  BY DEF Restart, clientVars
<1>2. /\ pc'[c] = pc[c] \/ (pc[c] = "wait" /\ pc'[c] = "restore")
      /\ failed[c] => failed'[c]
  BY <1>1
<1> QED BY <1>1, <1>2 DEF Brought, OnItsWay, Storing, Holding, Underway, Getting, Carried

\* Every step of a client keeps the chapters that it brought along, and every
\* step leaves those of the others.
LEMMA StepOfClient ==
  ASSUME SoundInv, Undisturbed, NEW c \in Client,
         Save(c) \/ Send(c) \/ Handle(c) \/ Fetch(c) \/ Quit(c)
  PROVE  /\ \A d \in Client \ {c} : Bystander(d)
         /\ ServerKeeps
         /\ c \in Writer => \A ch \in Chapter : Brought(c, ch) => Brought(c, ch)'
<1>1. \A d \in Client \ {c} : Bystander(d)
  <2>1. CASE Save(c)
    BY <2>1, ComposeSound, RecordEditSound, StoreEditSound DEF Save
  <2>2. CASE Send(c)
    BY <2>2, StartSound, ReadChapterSound, ClearActionSound, OverSound, FailSound,
       SendDoneSound DEF Send
  <2>3. CASE Handle(c)
    BY <2>3, ReceiveSound, StoreReceivedSound DEF Handle
  <2>4. CASE Fetch(c)
    BY <2>4, OverSound, ListChaptersSound, SkipChapterSound, GetChapterSound, LookSound,
       RecordMergedSound, StoreSound, ReceiveDoneSound DEF Fetch
  <2>5. CASE Quit(c)
    BY <2>5, OverSound
  <2> QED BY <2>1, <2>2, <2>3, <2>4, <2>5
<1>2. ServerKeeps
  <2>1. CASE Save(c)
    BY <2>1 DEF Save, Compose, RecordEdit, StoreEdit, ServerKeeps
  <2>2. CASE Send(c)
    BY <2>2 DEF Send, Start, ReadChapter, ClearAction, Confirmed, SendFails, RestoreErase,
       RestoreRecord, SendDone, ServerKeeps
  <2>3. CASE Receive(c)
    BY <2>3 DEF Receive, ServerKeeps
  <2>4. CASE StoreReceived(c)
    BY <2>4, StoreReceivedSound
  <2>5. CASE Fetch(c)
    BY <2>5 DEF Fetch, NothingToReceive, ListChapters, SkipChapter, GetChapter, CheckAction,
       StoreServer, ReadMine, RecordMerged, StoreMerged, ReceiveDone, ServerKeeps
  <2>6. CASE Quit(c)
    BY <2>6 DEF Quit, ServerKeeps
  <2> QED BY <2>1, <2>2, <2>3, <2>4, <2>5, <2>6 DEF Handle
<1>3. ASSUME c \in Writer, NEW ch \in Chapter, Brought(c, ch) PROVE Brought(c, ch)'
  <2>1. CASE Save(c)
    BY <2>1, <1>3, ComposeBrought, RecordEditBrought, StoreEditBrought DEF Save
  <2>2. CASE Send(c)
    BY <2>2, <1>3, StartBrought, ReadChapterBrought, ClearActionBrought, ConfirmedBrought,
       SendFailsBrought, RestoreEraseBrought, RestoreRecordBrought, SendDoneBrought DEF Send
  <2>3. CASE Handle(c)
    BY <2>3, <1>3, ReceiveBrought, StoreReceivedBrought DEF Handle
  <2>4. CASE Fetch(c)
    BY <2>4, <1>3, NothingToReceiveBrought, ListChaptersBrought, SkipChapterBrought,
       LookBrought, RecordMergedBrought, StoreBrought, ReceiveDoneBrought DEF Fetch
  <2>5. ~Quit(c)
    BY DEF Quit, Undisturbed
  <2> QED BY <2>1, <2>2, <2>3, <2>4, <2>5
<1> QED BY <1>1, <1>2, <1>3

\* The chapters that a client brings along when it connects to the Cloud stay
\* on it, whatever the server has and whoever shares the book: through its first
\* synchronization, failed sends, a server that stops, and the user's saves
\* beside all that (the surplus chapters in bibles.cpp).
THEOREM BroughtAlong ==
  ASSUME Undisturbed
  PROVE  Spec => []BroughtAlongStays
<1>1. Init => BroughtInv
  <2> SUFFICES ASSUME Init PROVE BroughtInv
    OBVIOUS
  <2>1. SoundInv
    BY InitSound
  <2>2. ASSUME NEW c \in Connecting, NEW ch \in OnClient[c] PROVE Brought(c, ch)
    <3>1. c \in Client /\ ch \in Chapter
      BY BibleSyncAssumption
    <3>2. StartText \in Text /\ LocalText(c) \in Text
      BY DEF StartText, LocalText, Text, Blank
    <3>3. text[c][ch] # NoText
      BY <3>1, <3>2, NoTextAssumption DEF Init
    <3>4. action[c][ch] = NoAction /\ first[c] /\ edit[c] = NoEdit /\ pc[c] = "idle"
      BY <3>1 DEF Init
    <3> QED BY <3>3, <3>4 DEF Brought, OnItsWay, Holding, Underway, Getting
  <2> QED BY <2>1, <2>2 DEF BroughtInv
<1>2. BroughtInv /\ [Next]_vars => BroughtInv'
  <2> SUFFICES ASSUME BroughtInv, [Next]_vars PROVE BroughtInv'
    OBVIOUS
  <2>1. SoundInv /\ SoundInv'
    BY SoundHolds DEF BroughtInv
  <2>2. ASSUME NEW c \in Connecting, NEW ch \in OnClient[c] PROVE Brought(c, ch)'
    <3>1. c \in Client /\ c \in Writer /\ ch \in Chapter /\ Brought(c, ch)
      BY BibleSyncAssumption DEF BroughtInv, Undisturbed
    <3>2. CASE UNCHANGED vars
      <4>1. Bystander(c) /\ ServerKeeps
        BY <3>2 DEF Bystander, Untouched, ServerKeeps, vars, clientVars, taskVars
      <4> QED BY <4>1, <3>1, BroughtElsewhere
    <3>3. CASE Restart
      BY <3>1, <3>3, <2>1, RestartBrought
    <3>4. ASSUME NEW d \in Client, Save(d) \/ Send(d) \/ Handle(d) \/ Fetch(d) \/ Quit(d)
          PROVE  Brought(c, ch)'
      <4>1. CASE d = c
        BY <4>1, <3>1, <3>4, <2>1, StepOfClient
      <4>2. CASE d # c
        <5>1. Bystander(c) /\ ServerKeeps
          BY <4>2, <3>1, <3>4, <2>1, StepOfClient
        <5> QED BY <5>1, <3>1, BroughtElsewhere
      <4> QED BY <4>1, <4>2
    <3> QED BY <3>2, <3>3, <3>4 DEF Next
  <2> QED BY <2>1, <2>2 DEF BroughtInv
<1>3. BroughtInv => BroughtAlongStays
  BY DEF BroughtInv, Brought, BroughtAlongStays
<1> QED BY <1>1, <1>2, <1>3, PTL DEF Spec
=============================================================================
