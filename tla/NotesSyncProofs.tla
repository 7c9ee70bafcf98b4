--------------------------- MODULE NotesSyncProofs ---------------------------
(***************************************************************************)
(* What NotesSync promises, proved for any clients, any users' operations  *)
(* and any number of changes, each promise with the hazards it bears.      *)
(*                                                                         *)
(* The rows of a client have numbers of their own, and what its task has   *)
(* still to send is among them (Numbered); this holds whatever happens.    *)
(* Where the task looks for actions in time it stores or erases a note     *)
(* only if nothing is to be sent (Guarded).  Where the server handles one  *)
(* request at a time, a handler has read the note as it is (Current).  In  *)
(* a discussion, where the note stays and no answer gets lost, the row, or *)
(* the change, of a comment says whether the server has the comment        *)
(* (Counted).                                                              *)
(***************************************************************************)
EXTENDS NotesSync, WellFoundedInduction, TLAPS

Bounded(rows) == \E n \in Nat : \A r \in rows : r.row <= n
Unique(rows) == \A r, q \in rows : r.row = q.row => r = q

Numbered(c) == Bounded(actions[c]) /\ Unique(actions[c]) /\ batch[c] \subseteq actions[c]

Basic == TypeOK /\ \A c \in Client : Numbered(c)

-----------------------------------------------------------------------------
(* Rows *)

\* A bounded set of rows that has any has one with the highest number.
LEMMA HighestRow ==
  ASSUME NEW rows \in SUBSET Row, rows # {}, Bounded(rows)
  PROVE  \E r \in rows : \A q \in rows : q.row <= r.row
<1>1. PICK n \in Nat : \A r \in rows : r.row <= n
  BY DEF Bounded
<1> DEFINE T == {n - r.row : r \in rows}
<1>2. T \subseteq Nat /\ T # {}
  <2>1. \A r \in rows : n - r.row \in Nat
    BY <1>1 DEF Row
  <2>2. PICK r \in rows : TRUE
    OBVIOUS
  <2> QED BY <2>1, <2>2
<1>3. PICK t \in T : \A u \in T : <<u, t>> \notin OpToRel(<, Nat)
  BY <1>2, WFMin, NatLessThanWellFounded
<1>4. PICK r \in rows : t = n - r.row
  BY <1>3
<1>5. \A q \in rows : q.row <= r.row
  <2> TAKE q \in rows
  <2>1. n - q.row \in T /\ n - q.row \in Nat /\ t \in Nat
    BY <1>2
  <2>2. ~(n - q.row < t)
    BY <1>3, <2>1 DEF OpToRel
  <2> HIDE DEF T
  <2>3. q.row \in Nat /\ r.row \in Nat
    BY DEF Row
  <2> QED BY <1>4, <2>1, <2>2, <2>3
<1> QED BY <1>5

\* The number of a new row is above all others.
LEMMA NextRowIsFree ==
  ASSUME NEW rows \in SUBSET Row, Bounded(rows)
  PROVE  NextRow(rows) \in Nat /\ \A q \in rows : q.row < NextRow(rows)
<1>1. CASE rows = {}
  BY <1>1 DEF NextRow
<1>2. CASE rows # {}
  <2> DEFINE r == CHOOSE r \in rows : \A q \in rows : q.row <= r.row
  <2>1. r \in rows /\ \A q \in rows : q.row <= r.row
    BY <1>2, HighestRow
  <2>2. NextRow(rows) = 1 + r.row
    BY <1>2 DEF NextRow
  <2>3. \A q \in rows : q.row \in Nat
    BY DEF Row
  <2> HIDE DEF r
  <2> QED BY <2>1, <2>2, <2>3
<1> QED BY <1>1, <1>2

\* A recorded row is one more.
LEMMA RecordAddsRow ==
  ASSUME NEW rows \in SUBSET Row, Bounded(rows), Unique(rows),
         NEW kind \in Kind, NEW content \in Contents
  PROVE  \E row \in Row :
           /\ row \notin rows /\ row.kind = kind /\ row.content = content
           /\ Record(rows, kind, content) = rows \union {row}
           /\ Bounded(rows \union {row}) /\ Unique(rows \union {row})
<1> DEFINE row == [row |-> NextRow(rows), kind |-> kind, content |-> content]
<1>1. NextRow(rows) \in Nat /\ \A q \in rows : q.row < NextRow(rows)
  BY NextRowIsFree
<1>2. row \in Row /\ row.row = NextRow(rows) /\ row.kind = kind /\ row.content = content
  BY <1>1 DEF Row
<1>3. Record(rows, kind, content) = rows \union {row}
  BY DEF Record
<1>4. \A q \in rows : q.row \in Nat /\ q.row < row.row
  BY <1>1, <1>2 DEF Row
<1> HIDE DEF row
<1>5. Bounded(rows \union {row})
  <2>1. row.row \in Nat /\ \A q \in rows \union {row} : q.row <= row.row
    BY <1>1, <1>2, <1>4
  <2> QED BY <2>1 DEF Bounded
<1>6. Unique(rows \union {row}) /\ row \notin rows
  <2>1. row.row \in Nat
    BY <1>1, <1>2
  <2> QED BY <1>4, <2>1 DEF Unique
<1> QED BY <1>2, <1>3, <1>5, <1>6

\* The first row is one of the rows.
LEMMA FirstRowIsThere ==
  ASSUME NEW rows \in SUBSET Row, rows # {}
  PROVE  FirstRow(rows) \in rows
<1> DEFINE T == {r.row : r \in rows}
<1>1. T \subseteq Nat /\ T # {}
  BY DEF Row
<1>2. PICK t \in T : \A u \in T : <<u, t>> \notin OpToRel(<, Nat)
  BY <1>1, WFMin, NatLessThanWellFounded
<1>3. PICK r \in rows : t = r.row
  BY <1>2
<1>4. \A q \in rows : r.row <= q.row
  <2> TAKE q \in rows
  <2>1. q.row \in T /\ q.row \in Nat /\ t \in Nat
    BY <1>1
  <2>2. ~(q.row < t)
    BY <1>2, <2>1 DEF OpToRel
  <2> QED BY <1>3, <2>1, <2>2
<1> QED BY <1>4 DEF FirstRow

\* Fewer rows are as good.
LEMMA FewerRows ==
  ASSUME NEW rows, NEW fewer \in SUBSET rows, Bounded(rows), Unique(rows)
  PROVE  Bounded(fewer) /\ Unique(fewer)
BY DEF Bounded, Unique

-----------------------------------------------------------------------------
(* Fields *)

\* The comments of a new note.
LEMMA NoneTyped == NoComments \in Contents
BY DEF NoComments, Contents

\* A single comment.
LEMMA JustTyped ==
  ASSUME NEW k \in Comment
  PROVE  /\ Just(k) \in Contents
         /\ Just(k)[k] = 1
         /\ \A q \in Comment \ {k} : Just(k)[q] = 0
BY DEF Just, NoComments, Contents

\* Comments, whatever they are.
LEMMA JustContents == \A k : Just(k) \in Contents
BY DEF Just, NoComments, Contents

\* Another comment.
LEMMA PlusTyped ==
  ASSUME NEW contents \in Contents, NEW k \in Comment
  PROVE  PlusComment(contents, k) \in Contents
BY DEF PlusComment, Contents

\* Fields with a part replaced are fields.
LEMMA FieldsTyped ==
  ASSUME NEW f \in Fields
  PROVE  /\ f.contents \in Contents /\ f.status \in Status
         /\ f.passages \in Passages \union {Nothing}
         /\ \A x \in Contents : [f EXCEPT !.contents = x] \in Fields
         /\ \A x \in Status : [f EXCEPT !.status = x] \in Fields
         /\ \A x \in Passages \union {Nothing} : [f EXCEPT !.passages = x] \in Fields
BY DEF Fields

\* The fields of a note that is gone, and of a new one.
LEMMA StartTyped ==
  EmptyFields \in Fields /\ NewFields \in Fields /\ Gone \in Note
<1>1. 0 \in Passages
  BY NotesSyncAssumption DEF Passages
<1>2. EmptyFields \in Fields /\ NewFields \in Fields
  BY NoneTyped, <1>1 DEF EmptyFields, NewFields, Fields, Status, Chosen
<1> QED BY <1>2 DEF Gone, Note

\* What a handler writes.
LEMMA PutTyped ==
  ASSUME NEW f \in Fields, NEW kind \in Kind \union {"made", "reopen"},
         NEW content \in Fields
  PROVE  /\ Put(f, kind, content) \in Fields
         /\ kind \in {"contents", "comment", "status", "reopen"} =>
              Put(f, kind, content).passages = f.passages
         /\ kind \in {"status", "passages", "reopen"} =>
              Put(f, kind, content).contents = f.contents
         /\ kind = "comment" =>
              \A k \in Comment :
                Put(f, kind, content).contents[k] = f.contents[k] + content.contents[k]
         /\ kind = "passages" => Put(f, kind, content).passages = content.passages
         /\ kind = "delete" => Put(f, kind, content).passages = Nothing
         /\ kind = "status" => Put(f, kind, content).status = content.status
         /\ kind \in {"contents", "comment", "passages"} =>
              Put(f, kind, content).status = f.status
         /\ kind = "reopen" => Put(f, kind, content).status = "Reopened"
<1>1. /\ f.contents \in Contents /\ f.status \in Status
      /\ f.passages \in Passages \union {Nothing}
      /\ content.contents \in Contents /\ content.status \in Status
      /\ content.passages \in Passages \union {Nothing}
  BY FieldsTyped
<1>2. CASE kind = "made"
  BY <1>2, StartTyped DEF Put
<1>3. CASE kind = "contents"
  BY <1>1, <1>3 DEF Put, Fields
<1>4. CASE kind = "comment"
  <2> DEFINE all == [k \in Comment |-> f.contents[k] + content.contents[k]]
  <2>1. all \in Contents /\ \A k \in Comment : all[k] = f.contents[k] + content.contents[k]
    BY <1>1 DEF Contents
  <2>2. Put(f, kind, content) = [f EXCEPT !.contents = all]
    BY <1>4 DEF Put
  <2> HIDE DEF all
  <2> QED BY <1>4, <2>1, <2>2 DEF Fields
<1>5. CASE kind = "status"
  BY <1>1, <1>5 DEF Put, Fields
<1>6. CASE kind = "passages"
  BY <1>1, <1>6 DEF Put, Fields
<1>7. CASE kind \in {"create", "delete"}
  BY <1>7, StartTyped DEF Put, EmptyFields
<1>8. CASE kind = "reopen"
  BY <1>1, <1>8 DEF Put, Fields, Status
<1> QED BY <1>2, <1>3, <1>4, <1>5, <1>6, <1>7, <1>8 DEF Kind

-----------------------------------------------------------------------------
(* Types and rows *)

\* They are right at the start.
LEMMA InitIsBasic == Init => Basic
<1> SUFFICES ASSUME Init PROVE Basic
  OBVIOUS
<1> DEFINE start == IF Creator = {} THEN [listed |-> TRUE, fields |-> NewFields] ELSE Gone
<1>1. start \in Note /\ start.fields \in Fields
  BY StartTyped DEF Note
<1>2. /\ server = start /\ note = [c \in Client |-> start] /\ cache = NoSum
      /\ sum = IF start.listed THEN start.fields ELSE NoSum
  BY DEF Init
<1> HIDE DEF start
<1>3. server \in Note /\ note \in [Client -> Note] /\ sum \in Sum
  BY <1>1, <1>2 DEF Sum
<1>4. /\ actions \in [Client -> SUBSET Row] /\ batch \in [Client -> SUBSET Row]
      /\ edit \in [Client -> {"comment", "status", "passages", "create", "contents", Nothing}]
      /\ pc \in [Client -> PC] /\ heard \in [Client -> SUBSET Sum]
      /\ got \in [Client -> Fields] /\ request \in [Client -> Request \union {NoRequest}]
  BY StartTyped DEF Init, PC
<1>5. made \in [Client -> Seq(Operations \union {"create"})]
  BY DEF Init
<1>6. TypeOK
  BY <1>2, <1>3, <1>4, <1>5 DEF TypeOK
<1>7. \A c \in Client : Numbered(c)
  <2> TAKE c \in Client
  <2>1. actions[c] = {} /\ batch[c] = {}
    BY DEF Init
  <2> QED BY <2>1 DEF Numbered, Bounded, Unique
<1> QED BY <1>6, <1>7 DEF Basic

\* Rows that stay as they are, or are fewer on the task's list only.
LEMMA NumberedKept ==
  ASSUME Basic, NEW c \in Client, actions' = actions,
         \A d \in Client : batch'[d] \subseteq actions[d]
  PROVE  \A d \in Client : Numbered(d)'
BY DEF Basic, Numbered, Bounded, Unique

\* A change of the note.
LEMMA ChangeIsBasic ==
  ASSUME Basic, NEW c \in Client, NEW kind \in {"comment", "status", "passages"},
         NEW fields \in Fields, Change(c, kind, fields)
  PROVE  Basic'
<1>1. note' \in [Client -> Note]
  BY DEF Basic, TypeOK, Change, Note
<1>2. edit' \in [Client -> {"comment", "status", "passages", "create", "contents", Nothing}]
  BY DEF Basic, TypeOK, Change
<1>3. made' \in [Client -> Seq(Operations \union {"create"})]
  BY DEF Basic, TypeOK, Change, Operations
<1>4. UNCHANGED <<server, sum, cache, actions, pc, batch, heard, got, request>>
  BY DEF Change, serverVars, taskVars
<1>5. TypeOK'
  BY <1>1, <1>2, <1>3, <1>4 DEF Basic, TypeOK
<1>6. \A d \in Client : Numbered(d)'
  BY <1>4 DEF Basic, Numbered
<1> QED BY <1>5, <1>6 DEF Basic

\* A comment, a status or passages.
LEMMA FieldChangeIsBasic ==
  ASSUME Basic, NEW c \in Client, AddComment(c) \/ SetStatus(c) \/ SetPassages(c)
  PROVE  Basic'
<1>1. note[c].fields \in Fields /\ Len(made[c]) \in Nat /\ MaxEdits \in Nat
  BY NotesSyncAssumption DEF Basic, TypeOK, Note
<1>2. CASE AddComment(c)
  <2> DEFINE k == <<c, Len(made[c]) + 1>>
             plus == PlusComment(note[c].fields.contents, k)
  <2>1. k \in Comment
    BY <1>1, <1>2 DEF AddComment, Comment
  <2>2. plus \in Contents
    BY <1>1, <2>1, FieldsTyped, PlusTyped
  <2>3. [note[c].fields EXCEPT !.contents = plus] \in Fields
    BY <1>1, <2>2, FieldsTyped
  <2>4. Change(c, "comment", [note[c].fields EXCEPT !.contents = plus])
    BY <1>2 DEF AddComment
  <2> QED BY <2>3, <2>4, ChangeIsBasic
<1>3. CASE SetStatus(c)
  <2>1. PICK status \in Chosen :
          Change(c, "status", [note[c].fields EXCEPT !.status = status])
    BY <1>3 DEF SetStatus
  <2>2. [note[c].fields EXCEPT !.status = status] \in Fields
    BY <1>1, FieldsTyped DEF Status
  <2> QED BY <2>1, <2>2, ChangeIsBasic
<1>4. CASE SetPassages(c)
  <2>1. Len(made[c]) + 1 \in Passages
    BY <1>1, <1>4 DEF SetPassages, Change, Passages
  <2>2. [note[c].fields EXCEPT !.passages = Len(made[c]) + 1] \in Fields
    BY <1>1, <2>1, FieldsTyped
  <2> QED BY <1>4, <2>2, ChangeIsBasic DEF SetPassages
<1> QED BY <1>2, <1>3, <1>4

\* A new note.
LEMMA CreateIsBasic ==
  ASSUME Basic, NEW c \in Client, CreateNote(c)
  PROVE  Basic'
<1>1. <<c, 1>> \in Comment
  BY NotesSyncAssumption DEF CreateNote, Comment
<1>2. [NewFields EXCEPT !.contents = Just(<<c, 1>>)] \in Fields
  BY <1>1, StartTyped, FieldsTyped, JustTyped
<1>3. note' \in [Client -> Note]
  BY <1>2 DEF Basic, TypeOK, CreateNote, Note
<1>4. edit' \in [Client -> {"comment", "status", "passages", "create", "contents", Nothing}]
  BY DEF Basic, TypeOK, CreateNote
<1>5. made' \in [Client -> Seq(Operations \union {"create"})]
  BY DEF Basic, TypeOK, CreateNote
<1>6. UNCHANGED <<server, sum, cache, actions, pc, batch, heard, got, request>>
  BY DEF CreateNote, serverVars, taskVars
<1>7. TypeOK'
  BY <1>3, <1>4, <1>5, <1>6 DEF Basic, TypeOK
<1>8. \A d \in Client : Numbered(d)'
  BY <1>6 DEF Basic, Numbered
<1> QED BY <1>7, <1>8 DEF Basic

\* The rows of one client grow.
LEMMA GrownIsNumbered ==
  ASSUME Basic, NEW c \in Client, NEW rows \in SUBSET Row,
         actions[c] \subseteq rows, Bounded(rows), Unique(rows),
         actions' = [actions EXCEPT ![c] = rows], batch' = batch
  PROVE  actions' \in [Client -> SUBSET Row] /\ \A d \in Client : Numbered(d)'
<1>1. actions' \in [Client -> SUBSET Row]
  BY DEF Basic, TypeOK
<1>2. ASSUME NEW d \in Client PROVE Numbered(d)'
  <2>1. CASE d = c
    <3>1. actions'[c] = rows /\ batch'[c] \subseteq rows
      BY DEF Basic, TypeOK, Numbered
    <3> QED BY <2>1, <3>1 DEF Numbered
  <2>2. CASE d # c
    <3>1. actions'[d] = actions[d] /\ batch'[d] = batch[d]
      BY <2>2 DEF Basic, TypeOK
    <3> QED BY <3>1 DEF Basic, Numbered
  <2> QED BY <2>1, <2>2
<1> QED BY <1>1, <1>2

\* What a recording adds: a row of the kind of the change.
LEMMA RecordedRows ==
  ASSUME Basic, NEW c \in Client, RecordAction(c)
  PROVE  \E row \in Row :
           /\ row \notin actions[c] /\ row.kind = edit[c] /\ row.content = Recorded(c)
           /\ actions' = [actions EXCEPT ![c] = actions[c] \union {row}]
           /\ actions[c] \union {row} \in SUBSET Row
           /\ Bounded(actions[c] \union {row}) /\ Unique(actions[c] \union {row})
<1>1. actions[c] \in SUBSET Row /\ Bounded(actions[c]) /\ Unique(actions[c])
  BY DEF Basic, TypeOK, Numbered
<1>2. note[c].fields.contents \in Contents
  BY FieldsTyped DEF Basic, TypeOK, Note
<1>3. Recorded(c) \in Contents
  BY <1>2, JustContents, NoneTyped DEF Recorded
<1>4. edit[c] \in Kind
  BY DEF RecordAction, Basic, TypeOK, Kind
<1>5. PICK row \in Row :
        /\ row \notin actions[c] /\ row.kind = edit[c] /\ row.content = Recorded(c)
        /\ Record(actions[c], edit[c], Recorded(c)) = actions[c] \union {row}
        /\ Bounded(actions[c] \union {row}) /\ Unique(actions[c] \union {row})
  BY <1>1, <1>3, <1>4, RecordAddsRow
<1>6. actions' = [actions EXCEPT ![c] = actions[c] \union {row}]
  BY <1>5 DEF RecordAction
<1> QED BY <1>1, <1>5, <1>6

\* What is recorded next.
LEMMA NextEditTyped ==
  ASSUME NEW kind
  PROVE  /\ NextEdit(kind) \in {"contents", "passages", Nothing}
         /\ kind \in {"comment", "status", "passages"} => NextEdit(kind) = Nothing
         /\ kind \notin {"create", "contents"} => NextEdit(kind) = Nothing
BY DEF NextEdit

LEMMA RecordIsBasic ==
  ASSUME Basic, NEW c \in Client, RecordAction(c)
  PROVE  Basic'
<1>1. PICK rows \in SUBSET Row :
        /\ actions' = [actions EXCEPT ![c] = rows]
        /\ actions[c] \subseteq rows /\ Bounded(rows) /\ Unique(rows)
  BY RecordedRows
<1>2. UNCHANGED <<server, sum, cache, note, made, pc, batch, heard, got, request>>
      /\ edit' = [edit EXCEPT ![c] = NextEdit(edit[c])]
  BY DEF RecordAction, serverVars, taskVars
<1>3. actions' \in [Client -> SUBSET Row] /\ \A d \in Client : Numbered(d)'
  BY <1>1, <1>2, GrownIsNumbered
<1>4. edit' \in [Client -> {"comment", "status", "passages", "create", "contents", Nothing}]
  BY <1>2, NextEditTyped DEF Basic, TypeOK
<1>5. TypeOK'
  BY <1>2, <1>3, <1>4 DEF Basic, TypeOK
<1> QED BY <1>3, <1>5 DEF Basic

\* An erasure records its row.
LEMMA ErasedRows ==
  ASSUME Basic, NEW c \in Client, EraseNote(c)
  PROVE  \E rows \in SUBSET Row :
           /\ actions' = [actions EXCEPT ![c] = rows]
           /\ actions[c] \subseteq rows /\ Bounded(rows) /\ Unique(rows)
           /\ \A r \in rows \ actions[c] : r.kind = "delete"
<1>1. actions[c] \in SUBSET Row /\ Bounded(actions[c]) /\ Unique(actions[c])
  BY DEF Basic, TypeOK, Numbered
<1>2. PICK row \in Row :
        /\ row.kind = "delete"
        /\ Record(actions[c], "delete", NoComments) = actions[c] \union {row}
        /\ Bounded(actions[c] \union {row}) /\ Unique(actions[c] \union {row})
  BY <1>1, NoneTyped, RecordAddsRow DEF Kind
<1>3. actions[c] \union {row} \in SUBSET Row
  BY <1>1
<1> QED BY <1>2, <1>3 DEF EraseNote

LEMMA EraseIsBasic ==
  ASSUME Basic, NEW c \in Client, EraseNote(c)
  PROVE  Basic'
<1>1. PICK rows \in SUBSET Row :
        /\ actions' = [actions EXCEPT ![c] = rows]
        /\ actions[c] \subseteq rows /\ Bounded(rows) /\ Unique(rows)
  BY ErasedRows
<1>2. UNCHANGED <<server, sum, cache, edit, pc, batch, heard, got, request>>
  BY DEF EraseNote, serverVars, taskVars
<1>3. actions' \in [Client -> SUBSET Row] /\ \A d \in Client : Numbered(d)'
  BY <1>1, <1>2, GrownIsNumbered
<1>4. note' \in [Client -> Note]
  BY StartTyped DEF Basic, TypeOK, EraseNote
<1>5. made' \in [Client -> Seq(Operations \union {"create"})]
  BY DEF Basic, TypeOK, EraseNote, Operations
<1>6. TypeOK'
  BY <1>2, <1>3, <1>4, <1>5 DEF Basic, TypeOK
<1> QED BY <1>3, <1>6 DEF Basic

\* The end of a task.
LEMMA EndTyped ==
  ASSUME Basic, NEW c \in Client, EndTask(c)
  PROVE  /\ pc' \in [Client -> PC] /\ batch' \in [Client -> SUBSET Row]
         /\ heard' \in [Client -> SUBSET Sum] /\ got' \in [Client -> Fields]
         /\ \A d \in Client : batch'[d] \subseteq actions[d]
         /\ pc'[c] = "idle" /\ \A d \in Client \ {c} : pc'[d] = pc[d]
         /\ \A d \in Client : pc'[d] \notin {"idle"} =>
              pc'[d] = pc[d] /\ batch'[d] = batch[d] /\ got'[d] = got[d]
<1>1. EmptyFields \in Fields
  BY StartTyped
<1> QED BY <1>1 DEF Basic, TypeOK, EndTask, Numbered, PC

\* The uploading task.
LEMMA SendingIsBasic ==
  ASSUME Basic, NEW c \in Client,
         Start(c) \/ SendFails(c) \/ AllSent(c) \/ DownloadFails(c)
  PROVE  Basic'
<1>1. UNCHANGED <<server, sum, cache, note, actions, edit, made, request>>
  BY DEF Start, SendFails, AllSent, DownloadFails, serverVars, userVars
<1>2. /\ pc' \in [Client -> PC] /\ batch' \in [Client -> SUBSET Row]
      /\ heard' \in [Client -> SUBSET Sum] /\ got' \in [Client -> Fields]
      /\ \A d \in Client : batch'[d] \subseteq actions[d]
  <2>1. CASE Start(c)
    BY <2>1 DEF Start, Basic, TypeOK, Numbered, PC
  <2>2. CASE AllSent(c)
    BY <2>2 DEF AllSent, Basic, TypeOK, Numbered, PC
  <2>3. CASE SendFails(c) \/ DownloadFails(c)
    BY <2>3, EndTyped DEF SendFails, DownloadFails
  <2> QED BY <2>1, <2>2, <2>3
<1>3. TypeOK'
  BY <1>1, <1>2 DEF Basic, TypeOK
<1> QED BY <1>1, <1>2, <1>3, NumberedKept DEF Basic

\* Where a row has been dealt with, that row goes, and no other.
LEMMA ConfirmedRows ==
  ASSUME Basic, NEW c \in Client, Confirm(c), batch[c] # {}
  PROVE  LET r == FirstRow(batch[c])
         IN /\ r \in batch[c] /\ r \in actions[c]
            /\ actions'[c] = actions[c] \ {r} /\ batch'[c] = batch[c] \ {r}
            /\ \A d \in Client \ {c} : actions'[d] = actions[d] /\ batch'[d] = batch[d]
<1> DEFINE r == FirstRow(batch[c])
<1>1. batch[c] \in SUBSET Row /\ batch[c] \subseteq actions[c] /\ Unique(actions[c])
  BY DEF Basic, TypeOK, Numbered
<1>2. r \in batch[c]
  BY <1>1, FirstRowIsThere
<1>3. /\ actions' = [actions EXCEPT ![c] = {q \in actions[c] : q.row # r.row}]
      /\ batch' = [batch EXCEPT ![c] = batch[c] \ {r}]
  BY DEF Confirm
<1> HIDE DEF r
<1>4. {q \in actions[c] : q.row # r.row} = actions[c] \ {r}
  BY <1>1, <1>2 DEF Unique
<1>5. /\ actions'[c] = actions[c] \ {r} /\ batch'[c] = batch[c] \ {r}
      /\ \A d \in Client \ {c} : actions'[d] = actions[d] /\ batch'[d] = batch[d]
  BY <1>3, <1>4 DEF Basic, TypeOK
<1> QED BY <1>1, <1>2, <1>5 DEF r

LEMMA ConfirmIsBasic ==
  ASSUME Basic, NEW c \in Client, Confirm(c)
  PROVE  Basic'
<1> DEFINE r == FirstRow(batch[c])
           left == {q \in actions[c] : q.row # r.row}
<1>1. UNCHANGED <<server, sum, cache, note, edit, made, heard, got, request>>
  BY DEF Confirm, serverVars
<1>2. /\ actions' = [actions EXCEPT ![c] = left]
      /\ batch' = [batch EXCEPT ![c] = batch[c] \ {r}]
  BY DEF Confirm
<1>3. batch[c] \ {r} \subseteq left
  <2>1. CASE batch[c] = {}
    BY <2>1
  <2>2. CASE batch[c] # {}
    <3>1. actions'[c] = actions[c] \ {r}
      BY <2>2, ConfirmedRows
    <3>2. actions'[c] = left
      BY <1>2 DEF Basic, TypeOK
    <3>3. batch[c] \subseteq actions[c]
      BY DEF Basic, Numbered
    <3> QED BY <3>1, <3>2, <3>3
  <2> QED BY <2>1, <2>2
<1>4. left \in SUBSET actions[c] /\ Bounded(left) /\ Unique(left)
  <2>1. left \in SUBSET actions[c]
    OBVIOUS
  <2> HIDE DEF left
  <2> QED BY <2>1, FewerRows DEF Basic, Numbered
<1> HIDE DEF r, left
<1>5. actions' \in [Client -> SUBSET Row] /\ batch' \in [Client -> SUBSET Row]
  BY <1>2, <1>4 DEF Basic, TypeOK
<1>6. pc' \in [Client -> PC]
  BY DEF Confirm, Basic, TypeOK, PC
<1>7. TypeOK'
  BY <1>1, <1>5, <1>6 DEF Basic, TypeOK
<1>8. ASSUME NEW d \in Client PROVE Numbered(d)'
  <2>1. CASE d = c
    <3>1. actions'[c] = left /\ batch'[c] = batch[c] \ {r}
      BY <1>2 DEF Basic, TypeOK
    <3> QED BY <1>3, <1>4, <2>1, <3>1 DEF Numbered
  <2>2. CASE d # c
    <3>1. actions'[d] = actions[d] /\ batch'[d] = batch[d]
      BY <1>2, <2>2 DEF Basic, TypeOK
    <3> QED BY <3>1 DEF Basic, Numbered
  <2> QED BY <2>1, <2>2
<1> QED BY <1>7, <1>8 DEF Basic

\* A handler's and the indexing's checksums.
LEMMA ChecksumTyped ==
  ASSUME Basic, NEW fields \in Fields, SetChecksum(fields)
  PROVE  sum' \in Sum /\ (cache' # NoSum => cache' \in SUBSET Sum)
BY DEF Basic, TypeOK, SetChecksum, Sum

\* The task gets the parts of the note.
LEMMA RefreshIsBasic ==
  ASSUME Basic, NEW c \in Client, Refresh(c) \/ GetContents(c) \/ KeepContents(c)
  PROVE  Basic'
<1>1. UNCHANGED <<server, actions, edit, made, batch, heard, request>>
  BY DEF Refresh, GetContents, KeepContents, serverVars, userVars
<1>2. pc' \in [Client -> PC]
  BY DEF Refresh, GetContents, KeepContents, Basic, TypeOK, PC
<1>3. server.fields \in Fields
  BY DEF Basic, TypeOK, Note
<1>4. CASE Refresh(c)
  <2>1. sum' \in Sum /\ (cache' # NoSum => cache' \in SUBSET Sum)
    BY <1>3, <1>4, ChecksumTyped DEF Refresh, Basic, TypeOK
  <2>2. UNCHANGED <<note, got>>
    BY <1>4 DEF Refresh, userVars
  <2>3. TypeOK'
    BY <1>1, <1>2, <2>1, <2>2 DEF Basic, TypeOK
  <2> QED BY <1>1, <2>3 DEF Basic, Numbered
<1>5. CASE GetContents(c)
  <2>1. UNCHANGED <<sum, cache, note>>
    BY <1>5 DEF GetContents, serverVars, userVars
  <2>2. got' \in [Client -> Fields]
    BY <1>3, <1>5 DEF GetContents, Basic, TypeOK
  <2>3. TypeOK'
    BY <1>1, <1>2, <2>1, <2>2 DEF Basic, TypeOK
  <2> QED BY <1>1, <2>3 DEF Basic, Numbered
<1>6. CASE KeepContents(c)
  <2>1. UNCHANGED <<sum, cache>>
    BY <1>6 DEF KeepContents, serverVars
  <2>2. got' \in [Client -> Fields]
    BY <1>6, StartTyped DEF KeepContents, Basic, TypeOK
  <2>3. got[c].contents \in Contents /\ note[c] \in Note
    BY FieldsTyped DEF Basic, TypeOK
  <2>4. [note[c] EXCEPT !.fields.contents = got[c].contents] \in Note
    BY <2>3, FieldsTyped DEF Note
  <2>5. note' \in [Client -> Note]
    BY <1>6, <2>4 DEF KeepContents, Basic, TypeOK
  <2>6. TypeOK'
    BY <1>1, <1>2, <2>1, <2>2, <2>5 DEF Basic, TypeOK
  <2> QED BY <1>1, <2>6 DEF Basic, Numbered
<1> QED BY <1>4, <1>5, <1>6

\* A request arrives.
LEMMA Received ==
  ASSUME Basic, NEW c \in Client, Receive(c)
  PROVE  LET r == FirstRow(batch[c])
         IN /\ batch[c] # {} /\ r \in batch[c] /\ r \in actions[c] /\ r \in Row
            /\ request'[c] = [kind |-> r.kind, content |-> Posted(c, r), seen |-> server]
            /\ request'[c] \in Request
            /\ request' \in [Client -> Request \union {NoRequest}]
            /\ \A d \in Client \ {c} : request'[d] = request[d]
            /\ Posted(c, r).contents = r.content
            /\ Posted(c, r).status = note[c].fields.status
            /\ Posted(c, r).passages = note[c].fields.passages
<1> DEFINE r == FirstRow(batch[c])
<1>1. r \in batch[c] /\ r \in actions[c] /\ r \in Row /\ batch[c] # {}
  BY FirstRowIsThere DEF Basic, TypeOK, Numbered, Receive
<1>2. /\ request' = [request EXCEPT ![c] =
           [kind |-> r.kind, content |-> Posted(c, r), seen |-> server]]
  BY DEF Receive
<1> HIDE DEF r
<1>3. r.kind \in Kind /\ r.content \in Contents /\ note[c].fields \in Fields
  BY <1>1 DEF Row, Basic, TypeOK, Note
<1>4. /\ Posted(c, r) \in Fields /\ Posted(c, r).contents = r.content
      /\ Posted(c, r).status = note[c].fields.status
      /\ Posted(c, r).passages = note[c].fields.passages
  BY <1>3, FieldsTyped DEF Posted, Fields
<1>5. [kind |-> r.kind, content |-> Posted(c, r), seen |-> server] \in Request
  BY <1>3, <1>4 DEF Request, Basic, TypeOK
<1> QED BY <1>1, <1>2, <1>4, <1>5 DEF Basic, TypeOK, r

LEMMA ReceiveIsBasic ==
  ASSUME Basic, NEW c \in Client, Receive(c)
  PROVE  Basic'
<1>1. UNCHANGED <<server, sum, cache, note, actions, edit, made, batch, heard, got>>
  BY DEF Receive, serverVars, userVars
<1>2. pc' \in [Client -> PC]
  BY DEF Receive, Basic, TypeOK, PC
<1>3. TypeOK'
  BY <1>1, <1>2, Received DEF Basic, TypeOK
<1> QED BY <1>1, <1>3 DEF Basic, Numbered

\* The handler answers, or goes on.
LEMMA AnsweredTyped ==
  ASSUME Basic, NEW c \in Client, Answered(c)
  PROVE  /\ request' \in [Client -> Request \union {NoRequest}]
         /\ request'[c] = NoRequest
         /\ \A d \in Client \ {c} : request'[d] = request[d] /\ pc'[d] = pc[d]
         /\ pc' \in [Client -> PC]
         /\ pc'[c] = IF pc[c] = "wait" THEN "ack" ELSE pc[c]
BY DEF Answered, Basic, TypeOK, PC

LEMMA GoesOnTyped ==
  ASSUME Basic, NEW c \in Client, NEW phase \in Phase, server' \in Note, GoesOn(c, phase)
  PROVE  /\ request' \in [Client -> Request \union {NoRequest}]
         /\ request'[c] \in Request
         /\ request'[c].kind = phase /\ request'[c].seen = server'
         /\ \A d \in Client \ {c} : request'[d] = request[d]
         /\ pc' = pc
<1> DEFINE r == [kind |-> phase, content |-> EmptyFields, seen |-> server']
<1>1. r \in Request /\ r.kind = phase /\ r.seen = server'
  BY StartTyped DEF Request
<1>2. request' = [request EXCEPT ![c] = r] /\ pc' = pc
  BY DEF GoesOn
<1> HIDE DEF r
<1> QED BY <1>1, <1>2 DEF Basic, TypeOK

\* What is left for the handler of a request to do.
HandlesOnTo(c, kind) ==
  \/ /\ kind \in {"passages", "delete"}
     /\ request'[c] = NoRequest
     /\ pc'[c] = IF pc[c] = "wait" THEN "ack" ELSE pc[c]
  \/ /\ request'[c] \in Request /\ request'[c].seen = server' /\ pc'[c] = pc[c]
     /\ \/ kind = "create" /\ request'[c].kind = "made"
        \/ kind = "comment" /\ request'[c].kind = "commented"
        \/ kind \in {"made", "contents", "status", "reopen"} /\ request'[c].kind = "sum"

LEMMA HandlesOnTyped ==
  ASSUME Basic, NEW c \in Client, NEW kind, server' \in Note, HandlesOn(c, kind)
  PROVE  /\ request' \in [Client -> Request \union {NoRequest}]
         /\ HandlesOnTo(c, kind)
         /\ \A d \in Client \ {c} : request'[d] = request[d] /\ pc'[d] = pc[d]
         /\ pc' \in [Client -> PC]
<1>0. pc \in [Client -> PC]
  BY DEF Basic, TypeOK
<1>1. CASE kind = "create" /\ GoesOn(c, "made")
  BY <1>0, <1>1, GoesOnTyped DEF HandlesOnTo, Phase
<1>2. CASE kind = "comment" /\ GoesOn(c, "commented")
  BY <1>0, <1>2, GoesOnTyped DEF HandlesOnTo, Phase
<1>3. CASE kind \in {"made", "contents", "status", "reopen"} /\ GoesOn(c, "sum")
  BY <1>0, <1>3, GoesOnTyped DEF HandlesOnTo, Phase
<1>4. CASE kind \in {"passages", "delete"} /\ Answered(c)
  BY <1>4, AnsweredTyped DEF HandlesOnTo
<1> QED BY <1>1, <1>2, <1>3, <1>4 DEF HandlesOn

\* The server handles it.
LEMMA Handled ==
  ASSUME Basic, NEW c \in Client, Handle(c)
  PROVE  LET r == request[c]
             fields == Put(r.seen.fields, r.kind, r.content)
         IN /\ r \in Request /\ r.seen.fields \in Fields
            /\ r.kind \in Kind \union {"made", "reopen"} /\ r.content \in Fields
            /\ fields \in Fields
            /\ server'.fields = fields
            /\ server'.listed = ((server.listed \/ r.kind = "made")
                                  /\ r.kind \notin {"create", "delete"})
            /\ server' \in Note
            /\ sum' \in Sum /\ (cache' # NoSum => cache' \in SUBSET Sum)
            /\ request' \in [Client -> Request \union {NoRequest}]
            /\ HandlesOnTo(c, r.kind)
            /\ \A d \in Client \ {c} : request'[d] = request[d] /\ pc'[d] = pc[d]
            /\ pc' \in [Client -> PC]
<1> DEFINE r == request[c]
           fields == Put(r.seen.fields, r.kind, r.content)
<1>1. r \in Request
  BY DEF Basic, TypeOK, Handle
<1>2. /\ r.seen.fields \in Fields /\ r.content \in Fields
      /\ r.kind \in Kind \union {"made", "reopen"}
  BY <1>1 DEF Request, Note, Handle, Phase
<1>3. fields \in Fields
  BY <1>2, PutTyped
<1>4. /\ server' = [listed |-> (server.listed \/ r.kind = "made")
                                  /\ r.kind \notin {"create", "delete"},
                    fields |-> fields]
      /\ HandlesOn(c, r.kind)
  BY DEF Handle
<1>5. \/ UNCHANGED <<sum, cache>>
      \/ sum' = NoSum /\ cache' = NoSum
  BY DEF Handle
<1> HIDE DEF fields
<1>6. sum' \in Sum /\ (cache' # NoSum => cache' \in SUBSET Sum)
  BY <1>5 DEF Basic, TypeOK, Sum
<1>7. server' \in Note
  BY <1>3, <1>4 DEF Note, Basic, TypeOK
<1>8. /\ request' \in [Client -> Request \union {NoRequest}] /\ HandlesOnTo(c, r.kind)
      /\ \A d \in Client \ {c} : request'[d] = request[d] /\ pc'[d] = pc[d]
      /\ pc' \in [Client -> PC]
  BY <1>4, <1>7, HandlesOnTyped
<1> QED BY <1>1, <1>2, <1>3, <1>4, <1>6, <1>7, <1>8 DEF fields

\* Then the server refreshes the checksum.
LEMMA Updated ==
  ASSUME Basic, NEW c \in Client, UpdateChecksum(c)
  PROVE  /\ server' = server
         /\ request[c] # NoRequest /\ request[c].kind \in {"commented", "sum"}
         /\ sum' \in Sum /\ (cache' # NoSum => cache' \in SUBSET Sum)
         /\ request' \in [Client -> Request \union {NoRequest}]
         /\ \A d \in Client \ {c} : request'[d] = request[d] /\ pc'[d] = pc[d]
         /\ pc' \in [Client -> PC]
         /\ \/ /\ request'[c] = NoRequest
               /\ pc'[c] = IF pc[c] = "wait" THEN "ack" ELSE pc[c]
            \/ /\ request'[c] \in Request /\ request'[c].seen = server'
               /\ request[c].kind = "commented" /\ request'[c].kind = "reopen"
               /\ pc'[c] = pc[c]
<1>1. server' = server /\ server' \in Note /\ server.fields \in Fields
  BY DEF UpdateChecksum, Basic, TypeOK, Note
<1>2. sum' \in Sum /\ (cache' # NoSum => cache' \in SUBSET Sum)
  BY <1>1, ChecksumTyped DEF UpdateChecksum
<1>3. pc \in [Client -> PC]
  BY DEF Basic, TypeOK
<1>4. CASE Answered(c)
  BY <1>1, <1>2, <1>4, AnsweredTyped DEF UpdateChecksum
<1>5. CASE GoesOn(c, "reopen") /\ request[c].kind = "commented"
  BY <1>1, <1>2, <1>3, <1>5, GoesOnTyped DEF UpdateChecksum, Phase
<1> QED BY <1>4, <1>5 DEF UpdateChecksum

LEMMA HandleIsBasic ==
  ASSUME Basic, NEW c \in Client, Handle(c) \/ UpdateChecksum(c)
  PROVE  Basic'
<1>1. UNCHANGED <<note, actions, edit, made, batch, heard, got>>
  BY DEF Handle, UpdateChecksum, userVars
<1>2. CASE Handle(c)
  BY <1>1, <1>2, Handled DEF Basic, TypeOK, Numbered
<1>3. CASE UpdateChecksum(c)
  BY <1>1, <1>3, Updated DEF Basic, TypeOK, Numbered
<1> QED BY <1>2, <1>3

\* The checksum of a range.
LEMMA CompareTyped ==
  ASSUME Basic, NEW c \in Client, NEW listed, NEW total, Compare(c, listed, total)
  PROVE  /\ pc' \in [Client -> PC] /\ batch' \in [Client -> SUBSET Row]
         /\ heard' \in [Client -> SUBSET Sum] /\ got' \in [Client -> Fields]
         /\ \A d \in Client : batch'[d] \subseteq actions[d]
         /\ pc'[c] \in {"idle", "identifiers"}
         /\ \A d \in Client \ {c} :
              pc'[d] = pc[d] /\ batch'[d] = batch[d] /\ got'[d] = got[d]
<1>1. CASE EndTask(c)
  <2>1. EmptyFields \in Fields
    BY StartTyped
  <2> QED BY <1>1, <2>1 DEF Basic, TypeOK, EndTask, Numbered, PC
<1>2. CASE ~EndTask(c)
  <2>1. /\ pc' = [pc EXCEPT ![c] = "identifiers"] /\ heard' = [heard EXCEPT ![c] = {}]
        /\ UNCHANGED <<batch, got>>
    BY <1>2 DEF Compare
  <2> QED BY <2>1 DEF Basic, TypeOK, Numbered, PC
<1> QED BY <1>1, <1>2

LEMMA TotalIsBasic ==
  ASSUME Basic, NEW c \in Client, AskTotal(c) \/ CacheTotal(c)
  PROVE  /\ Basic'
         /\ pc'[c] \in {"idle", "identifiers", "cache"}
         /\ \A d \in Client \ {c} :
              pc'[d] = pc[d] /\ batch'[d] = batch[d] /\ got'[d] = got[d]
<1> DEFINE total == IF cache = NoSum THEN RangeSum(server.listed, sum) ELSE cache
<1>1. UNCHANGED <<server, sum, note, actions, edit, made, request>>
  BY DEF AskTotal, CacheTotal, userVars
<1>2. total \in SUBSET Sum /\ heard[c] \in SUBSET Sum
  BY DEF Basic, TypeOK, RangeSum
<1>3. \/ /\ heard' = [heard EXCEPT ![c] = total] /\ pc' = [pc EXCEPT ![c] = "cache"]
         /\ UNCHANGED <<cache, batch, got>>
      \/ cache' = total /\ Compare(c, server.listed, total)
      \/ cache' = heard[c] /\ Compare(c, heard[c] # {}, heard[c])
  BY DEF AskTotal, CacheTotal
<1> HIDE DEF total
<1>4. /\ pc' \in [Client -> PC] /\ batch' \in [Client -> SUBSET Row]
      /\ heard' \in [Client -> SUBSET Sum] /\ got' \in [Client -> Fields]
      /\ \A d \in Client : batch'[d] \subseteq actions[d]
      /\ cache' # NoSum => cache' \in SUBSET Sum
      /\ pc'[c] \in {"idle", "identifiers", "cache"}
      /\ \A d \in Client \ {c} :
           pc'[d] = pc[d] /\ batch'[d] = batch[d] /\ got'[d] = got[d]
  <2>1. CASE /\ heard' = [heard EXCEPT ![c] = total] /\ pc' = [pc EXCEPT ![c] = "cache"]
             /\ UNCHANGED <<cache, batch, got>>
    BY <1>2, <2>1 DEF Basic, TypeOK, Numbered, PC
  <2>2. CASE cache' = total /\ Compare(c, server.listed, total)
    BY <1>2, <2>2, CompareTyped
  <2>3. CASE cache' = heard[c] /\ Compare(c, heard[c] # {}, heard[c])
    BY <1>2, <2>3, CompareTyped
  <2> QED BY <1>3, <2>1, <2>2, <2>3
<1>5. TypeOK'
  BY <1>1, <1>4 DEF Basic, TypeOK
<1> QED BY <1>1, <1>4, <1>5, NumberedKept DEF Basic

\* What the task does about the note.
LEMMA Identified ==
  ASSUME Basic, NEW c \in Client, AskIdentifiers(c)
  PROVE  \/ /\ pc' = [pc EXCEPT ![c] = "erase"] /\ UNCHANGED <<batch, heard, got>>
            /\ actions[c] = {} /\ ~server.listed
         \/ /\ pc' = [pc EXCEPT ![c] = "bulk"] /\ UNCHANGED <<batch, heard, got>>
            /\ actions[c] = {} /\ server.listed
         \/ EndTask(c)
BY DEF AskIdentifiers

LEMMA IdentifiersIsBasic ==
  ASSUME Basic, NEW c \in Client, AskIdentifiers(c)
  PROVE  Basic'
<1>1. UNCHANGED <<server, sum, cache, note, actions, edit, made, request>>
  BY DEF AskIdentifiers, serverVars, userVars
<1>2. /\ pc' \in [Client -> PC] /\ batch' \in [Client -> SUBSET Row]
      /\ heard' \in [Client -> SUBSET Sum] /\ got' \in [Client -> Fields]
      /\ \A d \in Client : batch'[d] \subseteq actions[d]
  <2>1. CASE /\ pc' \in {[pc EXCEPT ![c] = "erase"], [pc EXCEPT ![c] = "bulk"]}
             /\ UNCHANGED <<batch, heard, got>>
    BY <2>1 DEF Basic, TypeOK, Numbered, PC
  <2>2. CASE EndTask(c)
    BY <2>2, EndTyped
  <2> QED BY <2>1, <2>2, Identified
<1>3. TypeOK'
  BY <1>1, <1>2 DEF Basic, TypeOK
<1> QED BY <1>1, <1>2, <1>3, NumberedKept DEF Basic

\* The task erases or stores the note.
LEMMA StoreIsBasic ==
  ASSUME Basic, NEW c \in Client, EraseLocal(c) \/ SetBulk(c)
  PROVE  Basic'
<1>1. UNCHANGED <<server, sum, cache, actions, edit, made, request>> /\ EndTask(c)
  BY DEF EraseLocal, SetBulk, serverVars
<1>2. got[c] \in Fields /\ Gone \in Note
  BY StartTyped DEF Basic, TypeOK
<1>3. [listed |-> TRUE, fields |-> got[c]] \in Note
  BY <1>2 DEF Note
<1>4. note' \in [Client -> Note]
  BY <1>2, <1>3 DEF Basic, TypeOK, EraseLocal, SetBulk
<1>5. TypeOK'
  BY <1>1, <1>4, EndTyped DEF Basic, TypeOK
<1> QED BY <1>1, <1>5, EndTyped, NumberedKept DEF Basic

LEMMA BulkIsBasic ==
  ASSUME Basic, NEW c \in Client, GetBulk(c)
  PROVE  Basic'
<1>1. UNCHANGED <<server, sum, cache, note, actions, edit, made, batch, heard, request>>
  BY DEF GetBulk, serverVars, userVars
<1>2. got' \in [Client -> Fields] /\ pc' \in [Client -> PC]
  BY DEF GetBulk, Basic, TypeOK, Note, PC
<1>3. TypeOK'
  BY <1>1, <1>2 DEF Basic, TypeOK
<1> QED BY <1>1, <1>3 DEF Basic, Numbered

LEMMA QuitIsBasic ==
  ASSUME Basic, NEW c \in Client, Quit(c)
  PROVE  Basic'
<1>1. UNCHANGED <<server, sum, cache, note, actions, made, request>> /\ EndTask(c)
  BY DEF Quit, serverVars
<1>2. edit' \in [Client -> {"comment", "status", "passages", "create", "contents", Nothing}]
  BY DEF Basic, TypeOK, Quit
<1>3. TypeOK'
  BY <1>1, <1>2, EndTyped DEF Basic, TypeOK
<1> QED BY <1>1, <1>3, EndTyped, NumberedKept DEF Basic

\* The nightly indexing.
LEMMA ReindexIsBasic ==
  ASSUME Basic, Reindex
  PROVE  Basic'
<1>1. UNCHANGED <<note, actions, edit, made, pc, batch, heard, got, request>>
  BY DEF Reindex, userVars, taskVars
<1>2. server.fields \in Fields /\ Gone \in Note
  BY StartTyped DEF Basic, TypeOK, Note
<1>3. server' \in Note /\ sum' \in Sum /\ (cache' # NoSum => cache' \in SUBSET Sum)
  <2>1. CASE server.fields.passages # Nothing
    <3>1. server' \in Note
      BY <2>1 DEF Reindex, Basic, TypeOK, Note
    <3> QED BY <1>2, <2>1, <3>1, ChecksumTyped DEF Reindex
  <2>2. CASE server.fields.passages = Nothing
    BY <1>2, <2>2 DEF Reindex, Basic, TypeOK, Sum
  <2> QED BY <2>1, <2>2
<1>4. TypeOK'
  BY <1>1, <1>3 DEF Basic, TypeOK
<1> QED BY <1>1, <1>4 DEF Basic, Numbered

\* Types and rows stay right.
LEMMA StepIsBasic == Basic /\ [Next]_vars => Basic'
<1> SUFFICES ASSUME Basic, [Next]_vars PROVE Basic'
  OBVIOUS
<1>1. ASSUME NEW c \in Client, User(c) PROVE Basic'
  BY <1>1, FieldChangeIsBasic, CreateIsBasic, EraseIsBasic, RecordIsBasic DEF User
<1>2. ASSUME NEW c \in Client, Upload(c) PROVE Basic'
  BY <1>2, SendingIsBasic, ConfirmIsBasic, RefreshIsBasic DEF Upload
<1>3. ASSUME NEW c \in Client, Receive(c) \/ Handle(c) \/ UpdateChecksum(c)
      PROVE  Basic'
  BY <1>3, ReceiveIsBasic, HandleIsBasic
<1>4. ASSUME NEW c \in Client, Download(c) PROVE Basic'
  BY <1>4, SendingIsBasic, TotalIsBasic, IdentifiersIsBasic, StoreIsBasic, BulkIsBasic
  DEF Download
<1>5. CASE UNCHANGED vars
  <2>1. TypeOK'
    BY <1>5 DEF Basic, TypeOK, vars, serverVars, userVars, taskVars
  <2> QED BY <1>5, <2>1 DEF Basic, Numbered, vars, userVars, taskVars
<1> QED BY <1>1, <1>2, <1>3, <1>4, <1>5, QuitIsBasic, ReindexIsBasic DEF Next

\* The state of the client and of the server has its types, whatever the
\* surroundings do.
THEOREM TypeCorrect == Spec => []TypeOK
<1>1. Init => Basic
  BY InitIsBasic
<1>2. Basic /\ [Next]_vars => Basic'
  BY StepIsBasic
<1>3. Basic => TypeOK
  BY DEF Basic
<1> QED BY <1>1, <1>2, <1>3, PTL DEF Spec

-----------------------------------------------------------------------------
(* Who touches what *)

Storing == {"erase", "bulk", "save"}

LEMMA AppendIsSome ==
  ASSUME NEW S, NEW x \in Seq(S), NEW e \in S
  PROVE  Append(x, e) # <<>>
<1>1. Len(Append(x, e)) = Len(x) + 1 /\ Len(x) \in Nat
  OBVIOUS
<1>2. Len(<<>>) = 0
  OBVIOUS
<1> QED BY <1>1, <1>2

\* A user touches nothing but the own client's note and what is recorded of it.
LEMMA UserFrame ==
  ASSUME Basic, NEW c \in Client, User(c)
  PROVE  /\ UNCHANGED <<server, sum, cache, pc, batch, heard, got, request>>
         /\ \A d \in Client \ {c} : /\ note'[d] = note[d] /\ actions'[d] = actions[d]
                                    /\ edit'[d] = edit[d] /\ made'[d] = made[d]
         /\ \/ RecordAction(c) /\ edit[c] # Nothing /\ UNCHANGED <<note, made>>
            \/ MayChange(c) /\ edit[c] = Nothing /\ made'[c] # <<>>
            \/ CreateNote(c)
<1>1. made[c] \in Seq(Operations \union {"create"})
  BY DEF Basic, TypeOK
<1>2. ASSUME NEW kind \in {"comment", "status", "passages"}, NEW fields,
             Change(c, kind, fields)
      PROVE  /\ UNCHANGED <<server, sum, cache, pc, batch, heard, got, request>>
             /\ \A d \in Client \ {c} : /\ note'[d] = note[d] /\ actions'[d] = actions[d]
                                        /\ edit'[d] = edit[d] /\ made'[d] = made[d]
             /\ MayChange(c) /\ edit[c] = Nothing /\ made'[c] # <<>>
  <2>1. Append(made[c], kind) # <<>>
    BY <1>1, AppendIsSome DEF Operations
  <2> QED BY <1>2, <2>1 DEF Basic, TypeOK, Change, serverVars, taskVars
<1>3. CASE AddComment(c) \/ SetStatus(c) \/ SetPassages(c)
  BY <1>2, <1>3 DEF AddComment, SetStatus, SetPassages
<1>4. CASE CreateNote(c)
  BY <1>4 DEF Basic, TypeOK, CreateNote, serverVars, taskVars
<1>5. CASE EraseNote(c)
  <2>1. Append(made[c], "delete") # <<>>
    BY <1>1, AppendIsSome DEF Operations
  <2>2. PICK rows \in SUBSET Row : actions' = [actions EXCEPT ![c] = rows]
    BY <1>5, ErasedRows
  <2>3. /\ note' = [note EXCEPT ![c] = Gone]
        /\ made' = [made EXCEPT ![c] = Append(made[c], "delete")]
        /\ MayChange(c) /\ edit[c] = Nothing
        /\ UNCHANGED <<serverVars, edit, taskVars, request>>
    BY <1>5 DEF EraseNote
  <2> QED BY <2>1, <2>2, <2>3 DEF Basic, TypeOK, serverVars, taskVars
<1>6. CASE RecordAction(c)
  <2>1. PICK rows \in SUBSET Row : actions' = [actions EXCEPT ![c] = rows]
    BY <1>6, RecordedRows
  <2>2. /\ edit[c] # Nothing /\ edit' = [edit EXCEPT ![c] = NextEdit(edit[c])]
        /\ UNCHANGED <<serverVars, note, made, taskVars, request>>
    BY <1>6 DEF RecordAction
  <2> QED BY <1>6, <2>1, <2>2 DEF Basic, TypeOK, serverVars, taskVars
<1> QED BY <1>3, <1>4, <1>5, <1>6 DEF User

Task(c) ==
  Upload(c) \/ Receive(c) \/ Handle(c) \/ UpdateChecksum(c) \/ Download(c) \/ Quit(c)

\* A task, or the server for it, touches no other client, and makes no rows.
LEMMA TaskFrame ==
  ASSUME Basic, NEW c \in Client, Task(c)
  PROVE  /\ made' = made
         /\ actions'[c] \subseteq actions[c] /\ edit'[c] \in {edit[c], Nothing}
         /\ \A d \in Client \ {c} :
              /\ note'[d] = note[d] /\ actions'[d] = actions[d] /\ edit'[d] = edit[d]
              /\ pc'[d] = pc[d] /\ batch'[d] = batch[d] /\ got'[d] = got[d]
         /\ pc'[c] \in Storing => pc[c] \in Storing \/ AskIdentifiers(c)
<1>1. CASE Start(c) \/ SendFails(c) \/ AllSent(c) \/ DownloadFails(c)
  BY <1>1 DEF Start, SendFails, AllSent, DownloadFails, EndTask, userVars, Basic, TypeOK, Storing
<1>2. CASE Confirm(c)
  <2>1. /\ UNCHANGED <<note, edit, made, got>>
        /\ actions' = [actions EXCEPT ![c] =
             {q \in actions[c] : q.row # FirstRow(batch[c]).row}]
        /\ batch' = [batch EXCEPT ![c] = batch[c] \ {FirstRow(batch[c])}]
        /\ pc' = [pc EXCEPT ![c] = "send"]
    BY <1>2 DEF Confirm
  <2> QED BY <2>1 DEF Basic, TypeOK, Storing
<1>3. CASE Refresh(c) \/ GetContents(c) \/ KeepContents(c)
  BY <1>3 DEF Refresh, GetContents, KeepContents, userVars, Basic, TypeOK, Storing
<1>4. CASE Receive(c)
  BY <1>4 DEF Receive, userVars, Basic, TypeOK, Storing
<1>5. CASE Handle(c) \/ UpdateChecksum(c)
  <2>1. UNCHANGED <<note, actions, edit, made, batch, got>>
    BY <1>5 DEF Handle, UpdateChecksum, userVars
  <2>2. /\ \A d \in Client \ {c} : pc'[d] = pc[d]
        /\ pc'[c] \in {"ack", pc[c]}
    BY <1>5, Handled, Updated DEF HandlesOnTo
  <2> QED BY <2>1, <2>2 DEF Storing
<1>6. CASE AskTotal(c) \/ CacheTotal(c)
  <2>1. UNCHANGED <<note, actions, edit, made>>
    BY <1>6 DEF AskTotal, CacheTotal, userVars
  <2> QED BY <1>6, <2>1, TotalIsBasic DEF Storing
<1>7. CASE AskIdentifiers(c)
  <2>1. UNCHANGED <<note, actions, edit, made>>
    BY <1>7 DEF AskIdentifiers, userVars
  <2>2. /\ batch' \in {batch, [batch EXCEPT ![c] = {}]}
        /\ got' \in {got, [got EXCEPT ![c] = EmptyFields]}
        /\ \E x : pc' = [pc EXCEPT ![c] = x]
    BY <1>7, Identified DEF EndTask
  <2> QED BY <1>7, <2>1, <2>2 DEF Basic, TypeOK
<1>8. CASE EraseLocal(c) \/ SetBulk(c)
  BY <1>8 DEF EraseLocal, SetBulk, EndTask, Basic, TypeOK, Storing
<1>9. CASE GetBulk(c)
  BY <1>9 DEF GetBulk, userVars, Basic, TypeOK, Storing
<1>10. CASE Quit(c)
  BY <1>10 DEF Quit, EndTask, Basic, TypeOK, Storing
<1> QED BY <1>1, <1>2, <1>3, <1>4, <1>5, <1>6, <1>7, <1>8, <1>9, <1>10
        DEF Task, Upload, Download

LEMMA ReindexFrame ==
  ASSUME Reindex
  PROVE  UNCHANGED <<note, actions, edit, made, pc, batch, heard, got, request>>
BY DEF Reindex, userVars, taskVars

\* Every step is one of a user, of a task, or of the indexing.
LEMMA Steps ==
  ASSUME [Next]_vars
  PROVE  \/ \E c \in Client : User(c)
         \/ \E c \in Client : Task(c)
         \/ Reindex
         \/ UNCHANGED <<server, sum, cache, note, actions, edit, made,
                        pc, batch, heard, got, request>>
BY DEF Next, Task, vars, serverVars, userVars, taskVars

-----------------------------------------------------------------------------
(* What is still to be sent *)

\* The task stores or erases a note only if nothing is to be sent.
Guarded(c) == pc[c] \in Storing => actions[c] = {} /\ edit[c] = Nothing

\* Who has made no change has nothing to send.
Fresh(c) == made[c] = <<>> => actions[c] = {} /\ edit[c] = Nothing

Minded == \A c \in Client : Guarded(c) /\ Fresh(c)

LEMMA InitIsMinded == Init => Minded
BY DEF Init, Minded, Guarded, Fresh, Storing

LEMMA StepIsMinded ==
  ASSUME Basic, Minded, [Next]_vars, "check" \notin Hazard, "late" \notin Hazard
  PROVE  Minded'
<1>1. ASSUME NEW c \in Client, User(c) PROVE Minded'
  <2>1. pc[c] \notin Storing
    <3> SUFFICES ASSUME pc[c] \in Storing PROVE FALSE
      OBVIOUS
    <3>1. ~MayChange(c)
      BY DEF MayChange, Storing
    <3>2. edit[c] = Nothing
      BY DEF Minded, Guarded
    <3> QED BY <1>1, <3>1, <3>2, UserFrame DEF CreateNote
  <2>2. made'[c] # <<>>
    <3>1. CASE RecordAction(c)
      BY <3>1 DEF RecordAction, Minded, Fresh
    <3>2. CASE CreateNote(c)
      BY <3>2 DEF CreateNote, Basic, TypeOK
    <3> QED BY <1>1, <3>1, <3>2, UserFrame
  <2>3. ASSUME NEW d \in Client PROVE Guarded(d)' /\ Fresh(d)'
    <3>1. CASE d = c
      BY <1>1, <2>1, <2>2, <3>1, UserFrame DEF Guarded, Fresh
    <3>2. CASE d # c
      BY <1>1, <3>2, UserFrame DEF Minded, Guarded, Fresh
    <3> QED BY <3>1, <3>2
  <2> QED BY <2>3 DEF Minded
<1>2. ASSUME NEW c \in Client, Task(c) PROVE Minded'
  <2>1. Fresh(c)'
    BY <1>2, TaskFrame DEF Minded, Fresh
  <2>2. Guarded(c)'
    <3>1. CASE pc[c] \in Storing
      BY <1>2, <3>1, TaskFrame DEF Minded, Guarded
    <3>2. CASE AskIdentifiers(c)
      <4>1. edit[c] = Nothing /\ UNCHANGED <<actions, edit>>
        BY <3>2 DEF AskIdentifiers, userVars
      <4>2. actions[c] = {} \/ pc'[c] \notin Storing
        BY <3>2, Identified DEF EndTask, Basic, TypeOK, Storing
      <4> QED BY <4>1, <4>2 DEF Guarded
    <3> QED BY <1>2, <3>1, <3>2, TaskFrame DEF Guarded
  <2>3. ASSUME NEW d \in Client \ {c} PROVE Guarded(d)' /\ Fresh(d)'
    BY <1>2, TaskFrame DEF Minded, Guarded, Fresh
  <2> QED BY <2>1, <2>2, <2>3 DEF Minded
<1>3. CASE Reindex
  BY <1>3, ReindexFrame DEF Minded, Guarded, Fresh
<1>4. CASE UNCHANGED <<server, sum, cache, note, actions, edit, made,
                       pc, batch, heard, got, request>>
  BY <1>4 DEF Minded, Guarded, Fresh
<1> QED BY <1>1, <1>2, <1>3, <1>4, Steps

\* What a task does to the note of its client.
LEMMA TaskOnNote ==
  ASSUME Basic, NEW c \in Client, Task(c)
  PROVE  \/ pc[c] \in Storing
         \/ /\ note'[c].listed = note[c].listed
            /\ note'[c].fields.status = note[c].fields.status
            /\ note'[c].fields.passages = note[c].fields.passages
<1>1. CASE EraseLocal(c) \/ SetBulk(c)
  BY <1>1 DEF EraseLocal, SetBulk, Storing
<1>2. CASE KeepContents(c)
  <2>1. note[c] \in Note
    BY DEF Basic, TypeOK
  <2>2. note'[c] = [note[c] EXCEPT !.fields.contents = got[c].contents]
    BY <1>2 DEF KeepContents, Basic, TypeOK
  <2> QED BY <2>1, <2>2 DEF Note, Fields
<1>3. CASE ~(EraseLocal(c) \/ SetBulk(c) \/ KeepContents(c))
  <2>1. note' = note
    BY <1>3 DEF Task, Upload, Download, Start, Confirm, SendFails, AllSent, Refresh,
       GetContents, Receive, Handle, UpdateChecksum, DownloadFails, AskTotal, CacheTotal,
       AskIdentifiers, GetBulk, Quit, userVars
  <2> QED BY <2>1
<1> QED BY <1>1, <1>2, <1>3

\* No step takes a note from a client that is still to send something about it.
LEMMA StepLeavesUnsent ==
  ASSUME Basic, Minded, [Next]_vars, NEW c \in Client,
         note[c].listed, actions[c] # {}
  PROVE  note'[c].listed \/ EraseNote(c)
<1>1. ASSUME NEW d \in Client, User(d) PROVE note'[c].listed \/ EraseNote(c)
  <2>1. CASE d # c
    BY <1>1, <2>1, UserFrame
  <2>2. CASE d = c
    <3>1. ASSUME NEW kind, NEW fields, Change(c, kind, fields) PROVE note'[c].listed
      BY <3>1 DEF Change, Basic, TypeOK, Note
    <3>2. CASE RecordAction(c)
      BY <3>2 DEF RecordAction
    <3>3. CASE CreateNote(c)
      BY <3>3 DEF CreateNote, Basic, TypeOK
    <3> QED BY <1>1, <2>2, <3>1, <3>2, <3>3 DEF User, AddComment, SetStatus, SetPassages
  <2> QED BY <2>1, <2>2
<1>2. ASSUME NEW d \in Client, Task(d) PROVE note'[c].listed
  <2>1. CASE d # c
    BY <1>2, <2>1, TaskFrame
  <2>2. CASE d = c
    BY <1>2, <2>2, TaskOnNote DEF Minded, Guarded
  <2> QED BY <2>1, <2>2
<1> QED BY <1>1, <1>2, Steps, ReindexFrame

\* Where the user keeps out of the window between the task's look for actions
\* and its store, a note is not erased from a client that is still to send it,
\* or anything about it, but by its user.
THEOREM UnsentKept ==
  ASSUME "check" \notin Hazard, "late" \notin Hazard
  PROVE  Spec => UnsentStays
<1>1. Init => Basic /\ Minded
  BY InitIsBasic, InitIsMinded
<1>2. Basic /\ Minded /\ [Next]_vars => Basic' /\ Minded'
  BY StepIsBasic, StepIsMinded
<1> DEFINE Left ==
      \A c \in Client :
        note[c].listed /\ actions[c] # {} => note'[c].listed \/ EraseNote(c)
<1>3. Basic /\ Minded /\ [Next]_vars => Left
  BY StepLeavesUnsent
<1> HIDE DEF Left
<1>4. Basic /\ Minded /\ [Next]_vars => [Left]_vars
  BY <1>3
<1>5. Spec => [][Left]_vars
  BY <1>1, <1>2, <1>4, PTL DEF Spec
<1> QED BY <1>5 DEF UnsentStays, Left

\* No step but one of its user changes a status that is still to be sent.
LEMMA StepLeavesStatus ==
  ASSUME Basic, Minded, [Next]_vars, NEW c \in Client, StatusPending(c)
  PROVE  note'[c].fields.status = note[c].fields.status \/ SetStatus(c) \/ EraseNote(c)
<1>1. actions[c] # {} \/ edit[c] # Nothing
  BY NotesSyncAssumption DEF StatusPending, Kind
<1>2. made[c] # <<>> /\ pc[c] \notin Storing
  BY <1>1 DEF Minded, Guarded, Fresh
<1>3. ASSUME NEW d \in Client, User(d)
      PROVE  note'[c].fields.status = note[c].fields.status \/ SetStatus(c) \/ EraseNote(c)
  <2>1. CASE d # c
    BY <1>3, <2>1, UserFrame
  <2>2. CASE d = c
    <3>1. CASE AddComment(c) \/ SetPassages(c)
      <4>1. note[c].fields \in Fields
        BY DEF Basic, TypeOK, Note
      <4>2. ASSUME NEW x PROVE
              /\ [note[c].fields EXCEPT !.contents = x].status = note[c].fields.status
              /\ [note[c].fields EXCEPT !.passages = x].status = note[c].fields.status
        BY <4>1 DEF Fields
      <4>3. ASSUME NEW kind, NEW fields, Change(c, kind, fields)
            PROVE  note'[c].fields = fields
        BY <4>3 DEF Change, Basic, TypeOK, Note
      <4>4. CASE AddComment(c)
        BY <4>2, <4>3, <4>4 DEF AddComment
      <4>5. CASE SetPassages(c)
        BY <4>2, <4>3, <4>5 DEF SetPassages
      <4> QED BY <3>1, <4>4, <4>5
    <3>2. CASE RecordAction(c)
      BY <3>2 DEF RecordAction
    <3> QED BY <1>2, <1>3, <2>2, <3>1, <3>2 DEF User, CreateNote
  <2> QED BY <2>1, <2>2
<1>4. ASSUME NEW d \in Client, Task(d)
      PROVE  note'[c].fields.status = note[c].fields.status
  <2>1. CASE d # c
    BY <1>4, <2>1, TaskFrame
  <2>2. CASE d = c
    BY <1>2, <1>4, <2>2, TaskOnNote
  <2> QED BY <2>1, <2>2
<1> QED BY <1>3, <1>4, Steps, ReindexFrame

\* Neither does the task change the status of a note then while the status is
\* still to be sent, so that what is sent in the end is what the user chose.
THEOREM StatusKept ==
  ASSUME "check" \notin Hazard, "late" \notin Hazard
  PROVE  Spec => StatusStays
<1>1. Init => Basic /\ Minded
  BY InitIsBasic, InitIsMinded
<1>2. Basic /\ Minded /\ [Next]_vars => Basic' /\ Minded'
  BY StepIsBasic, StepIsMinded
<1> DEFINE Left ==
      \A c \in Client :
        \/ StatusPending(c) => note'[c].fields.status = note[c].fields.status
        \/ SetStatus(c) \/ EraseNote(c)
<1>3. Basic /\ Minded /\ [Next]_vars => Left
  BY StepLeavesStatus
<1> HIDE DEF Left
<1>4. Basic /\ Minded /\ [Next]_vars => [Left]_vars
  BY <1>3
<1>5. Spec => [][Left]_vars
  BY <1>1, <1>2, <1>4, PTL DEF Spec
<1> QED BY <1>5 DEF StatusStays, Left

-----------------------------------------------------------------------------
(* One request at a time *)

\* The note that a handler has read is the one it is going to replace; where
\* the nightly indexing came between, that did not touch the passages.
Current(c) ==
  request[c] # NoRequest =>
    /\ request[c].seen.fields.passages = server.fields.passages
    /\ server.fields.passages # Nothing => request[c].seen.fields = server.fields
    /\ \A d \in Client \ {c} : request[d] = NoRequest

Orderly == \A c \in Client : Current(c)

LEMMA InitIsOrderly == Init => Orderly
BY DEF Init, Orderly, Current

LEMMA ServerFrame ==
  ASSUME NEW c \in Client, Task(c)
  PROVE  Receive(c) \/ Handle(c) \/ UpdateChecksum(c) \/ UNCHANGED <<server, request>>
BY DEF Task, Upload, Download, Start, Confirm, SendFails, AllSent, Refresh,
   GetContents, KeepContents, DownloadFails, AskTotal, CacheTotal, AskIdentifiers,
   EraseLocal, GetBulk, SetBulk, Quit, serverVars

LEMMA ReindexOnServer ==
  ASSUME Basic, Reindex
  PROVE  /\ server'.fields.passages = server.fields.passages
         /\ server.fields.passages # Nothing =>
              server'.fields = server.fields /\ server'.listed
         /\ server.fields.passages = Nothing => ~server'.listed
<1>1. CASE server.fields.passages # Nothing
  BY <1>1 DEF Reindex, Basic, TypeOK, Note
<1>2. CASE server.fields.passages = Nothing
  BY <1>2 DEF Reindex, Basic, TypeOK, Note, Gone, EmptyFields
<1> QED BY <1>1, <1>2

LEMMA StepIsOrderly ==
  ASSUME Basic, Orderly, [Next]_vars, "server" \notin Hazard
  PROVE  Orderly'
<1>1. CASE UNCHANGED <<server, request>>
  BY <1>1 DEF Orderly, Current
<1>2. ASSUME NEW c \in Client, Receive(c) PROVE Orderly'
  <2>1. server' = server
    BY <1>2 DEF Receive, serverVars
  <2>2. \A d \in Client : request[d] = NoRequest
    BY <1>2 DEF Receive
  <2>3. request'[c].seen = server /\ \A d \in Client \ {c} : request'[d] = NoRequest
    <3> DEFINE r == FirstRow(batch[c])
    <3>1. /\ request'[c] = [kind |-> r.kind, content |-> Posted(c, r), seen |-> server]
          /\ \A d \in Client \ {c} : request'[d] = request[d]
      BY <1>2, Received
    <3> HIDE DEF r
    <3> QED BY <2>2, <3>1
  <2> QED BY <2>1, <2>3 DEF Orderly, Current
<1>3. ASSUME NEW c \in Client, Handle(c) \/ UpdateChecksum(c) PROVE Orderly'
  <2>1. \A d \in Client \ {c} : request'[d] = NoRequest
    BY <1>3, Handled, Updated DEF Orderly, Current, Handle
  <2>2. request'[c] = NoRequest \/ request'[c].seen = server'
    BY <1>3, Handled, Updated DEF HandlesOnTo
  <2> QED BY <2>1, <2>2 DEF Orderly, Current
<1>4. CASE Reindex
  BY <1>4, ReindexOnServer, ReindexFrame DEF Orderly, Current
<1>5. ASSUME NEW c \in Client, User(c) PROVE UNCHANGED <<server, request>>
  BY <1>5, UserFrame
<1> QED BY <1>1, <1>2, <1>3, <1>4, <1>5, Steps, ServerFrame

\* Neither a task nor a handler brings a note back that nothing brings back.
LEMMA TaskLeavesGone ==
  ASSUME Basic, Orderly, ~server.listed, ~Reviving, NEW c \in Client, Task(c)
  PROVE  ~server'.listed /\ ~Reviving'
<1>1. server.fields.passages = Nothing
  BY DEF Reviving
<1>2. \A d \in Client :
        /\ ~(d \in Creator /\ made[d] = <<>>) /\ edit[d] \notin {"create", "contents", "passages"}
        /\ \A r \in actions[d] : r.kind \notin {"create", "passages"}
        /\ request[d] # NoRequest => request[d].kind \notin {"create", "made", "passages"}
  BY DEF Reviving
<1>3. \A d \in Client :
        /\ ~(d \in Creator /\ made'[d] = <<>>) /\ edit'[d] \notin {"create", "contents", "passages"}
        /\ \A r \in actions'[d] : r.kind \notin {"create", "passages"}
  <2> TAKE d \in Client
  <2>1. made' = made /\ actions'[d] \subseteq actions[d] /\ edit'[d] \in {edit[d], Nothing}
    BY TaskFrame
  <2>2. Nothing \notin {"create", "contents", "passages"}
    BY NotesSyncAssumption DEF Kind
  <2> QED BY <1>2, <2>1, <2>2
<1>4. /\ server'.fields.passages = Nothing /\ ~server'.listed
      /\ \A d \in Client :
           request'[d] # NoRequest => request'[d].kind \notin {"create", "made", "passages"}
  <2>1. CASE UNCHANGED <<server, request>>
    BY <1>1, <1>2, <2>1
  <2>2. CASE Receive(c)
    <3>1. server' = server
      BY <2>2 DEF Receive, serverVars
    <3>2. request'[c].kind \notin {"create", "made", "passages"}
      <4> DEFINE r == FirstRow(batch[c])
      <4>1. /\ request'[c] = [kind |-> r.kind, content |-> Posted(c, r), seen |-> server]
            /\ r \in actions[c] /\ r.kind \in Kind
        BY <2>2, Received DEF Row
      <4> HIDE DEF r
      <4> QED BY <1>2, <4>1 DEF Kind
    <3> QED BY <1>1, <1>2, <2>2, <3>1, <3>2, Received
  <2>3. CASE Handle(c)
    <3> DEFINE r == request[c]
               fields == Put(r.seen.fields, r.kind, r.content)
    <3>1. /\ r.seen.fields \in Fields /\ r.content \in Fields
          /\ r.kind \in Kind \union {"made", "reopen"}
          /\ server'.fields = fields
          /\ server'.listed = ((server.listed \/ r.kind = "made")
                                /\ r.kind \notin {"create", "delete"})
          /\ HandlesOnTo(c, r.kind) /\ \A d \in Client \ {c} : request'[d] = request[d]
      BY <2>3, Handled
    <3>2. r # NoRequest /\ r.seen.fields.passages = Nothing
      BY <1>1, <2>3 DEF Handle, Orderly, Current
    <3>3. r.kind \in {"contents", "comment", "status", "reopen", "delete"}
      BY <1>2, <3>1, <3>2 DEF Kind
    <3>4. /\ r.kind \in {"contents", "comment", "status", "reopen"} =>
               fields.passages = r.seen.fields.passages
          /\ r.kind = "delete" => fields.passages = Nothing
      BY <3>1, PutTyped
    <3>5. request'[c] # NoRequest => request'[c].kind \notin {"create", "made", "passages"}
      BY <3>1, <3>3 DEF HandlesOnTo
    <3> HIDE DEF r, fields
    <3> QED BY <1>2, <3>1, <3>2, <3>3, <3>4, <3>5
  <2>4. CASE UpdateChecksum(c)
    BY <1>1, <1>2, <2>4, Updated
  <2> QED BY <2>1, <2>2, <2>3, <2>4, ServerFrame
<1> QED BY <1>3, <1>4 DEF Reviving

\* A user may bring it back only by a change of the passages.
LEMMA UserLeavesGone ==
  ASSUME Basic, ~server.listed, ~Reviving, NEW c \in Client, User(c)
  PROVE  ~server'.listed /\ (~Reviving' \/ SetPassages(c))
<1>1. /\ server.fields.passages = Nothing
      /\ \A d \in Client :
        /\ ~(d \in Creator /\ made[d] = <<>>) /\ edit[d] \notin {"create", "contents", "passages"}
        /\ \A r \in actions[d] : r.kind \notin {"create", "passages"}
        /\ request[d] # NoRequest => request[d].kind \notin {"create", "made", "passages"}
  BY DEF Reviving
<1>2. UNCHANGED <<server, request>>
  BY UserFrame
<1>3. Nothing \notin {"create", "contents", "passages"}
  BY NotesSyncAssumption DEF Kind
<1>4. \/ SetPassages(c)
      \/ /\ ~(c \in Creator /\ made'[c] = <<>>)
         /\ edit'[c] \notin {"create", "contents", "passages"}
         /\ \A r \in actions'[c] : r.kind \notin {"create", "passages"}
  <2>1. ASSUME NEW kind \in {"comment", "status"}, NEW fields, Change(c, kind, fields)
        PROVE  edit'[c] = kind /\ actions' = actions /\ ~RecordAction(c)
    BY <2>1, <1>3, NotesSyncAssumption DEF Change, RecordAction, Basic, TypeOK
  <2>2. CASE AddComment(c) \/ SetStatus(c)
    <3>1. edit'[c] \in {"comment", "status"} /\ actions' = actions /\ ~RecordAction(c)
      BY <2>1, <2>2 DEF AddComment, SetStatus
    <3> QED BY <1>1, <3>1, UserFrame DEF CreateNote
  <2>3. CASE CreateNote(c)
    BY <1>1, <2>3 DEF CreateNote
  <2>4. CASE EraseNote(c)
    <3>1. PICK rows : /\ actions' = [actions EXCEPT ![c] = rows]
                      /\ \A r \in rows \ actions[c] : r.kind = "delete"
      BY <2>4, ErasedRows
    <3>2. edit' = edit /\ made'[c] # <<>>
      <4>1. edit' = edit /\ edit[c] = Nothing
        BY <2>4 DEF EraseNote
      <4> QED BY <1>1, <2>4, <4>1, UserFrame DEF CreateNote
    <3>3. actions'[c] = rows
      BY <3>1 DEF Basic, TypeOK
    <3> QED BY <1>1, <3>1, <3>2, <3>3
  <2>5. CASE RecordAction(c)
    <3>1. PICK row :
            /\ row.kind = edit[c]
            /\ actions' = [actions EXCEPT ![c] = actions[c] \union {row}]
      BY <2>5, RecordedRows
    <3>2. /\ actions'[c] = actions[c] \union {row}
          /\ edit'[c] = Nothing /\ made' = made
      <4>1. edit[c] \notin {"create", "contents", "passages"}
        BY <1>1
      <4> QED BY <2>5, <3>1, <4>1, NextEditTyped DEF RecordAction, Basic, TypeOK
    <3> QED BY <1>1, <1>3, <3>1, <3>2
  <2> QED BY <2>2, <2>3, <2>4, <2>5 DEF User
<1>5. \A d \in Client \ {c} :
        made'[d] = made[d] /\ edit'[d] = edit[d] /\ actions'[d] = actions[d]
  BY UserFrame
<1> QED BY <1>1, <1>2, <1>4, <1>5 DEF Reviving

LEMMA StepLeavesGone ==
  ASSUME Basic, Orderly, [Next]_vars, ~server.listed, ~Reviving
  PROVE  ~server'.listed /\ (~Reviving' \/ \E c \in Client : SetPassages(c))
<1>1. CASE Reindex
  <2>1. server.fields.passages = Nothing
    BY DEF Reviving
  <2> QED BY <1>1, <2>1, ReindexOnServer, ReindexFrame DEF Reviving
<1>2. CASE UNCHANGED <<server, sum, cache, note, actions, edit, made,
                       pc, batch, heard, got, request>>
  BY <1>2 DEF Reviving
<1> QED BY <1>1, <1>2, Steps, TaskLeavesGone, UserLeavesGone

\* Where the server handles one request at a time, a note that it erased does
\* not come back, whatever the clients still send about it, however often, and
\* whichever answers get lost, unless it is created or its passages are changed.
THEOREM DeletionStays ==
  ASSUME "server" \notin Hazard
  PROVE  Spec => DeletionIsFinal
<1>1. Init => Basic /\ Orderly
  BY InitIsBasic, InitIsOrderly
<1>2. Basic /\ Orderly /\ [Next]_vars => Basic' /\ Orderly'
  BY StepIsBasic, StepIsOrderly
<1> DEFINE Left ==
      ~server.listed /\ ~Reviving =>
        ~server'.listed /\ (~Reviving' \/ \E c \in Client : SetPassages(c))
<1>3. Basic /\ Orderly /\ [Next]_vars => Left
  BY StepLeavesGone
<1> HIDE DEF Left
<1>4. Basic /\ Orderly /\ [Next]_vars => [Left]_vars
  BY <1>3
<1>5. Spec => [][Left]_vars
  BY <1>1, <1>2, <1>4, PTL DEF Spec
<1> QED BY <1>5 DEF DeletionIsFinal, Left

-----------------------------------------------------------------------------
(* A discussion *)

\* The note is there from the start, nobody erases it, and no answer gets lost.
Discussion ==
  /\ Creator = {}
  /\ \A c \in Client : "delete" \notin Ops[c]
  /\ Hazard \subseteq {"check", "cache", "quit"}

\* The note is on the server, and stays there.
There == server.listed /\ server.fields.passages # Nothing

\* Only these are sent, and with a status only those who set it.
Kinds(c) ==
  /\ \A r \in actions[c] :
       /\ r.kind \in {"comment", "status", "passages"}
       /\ r.kind = "status" => "status" \in Ops[c]
       /\ r.kind # "comment" => r.content = NoComments
  /\ edit[c] \notin {"create", "contents"}
  /\ edit[c] = "status" => "status" \in Ops[c]

\* The note is on the client, and stays there.
Held(c) ==
  /\ note[c].fields.passages # Nothing
  /\ pc[c] # "erase"
  /\ pc[c] = "save" => got[c].passages # Nothing

\* The server handles what the task waits for.
Asked(c) ==
  /\ request[c] # NoRequest => pc[c] = "wait" /\ batch[c] # {}
  /\ request[c] # NoRequest /\ request[c].kind \in Kind =>
       /\ request[c].kind = FirstRow(batch[c]).kind
       /\ request[c].content.contents = FirstRow(batch[c]).content
       /\ request[c].content.passages # Nothing
  /\ request[c] # NoRequest /\ request[c].kind \notin Kind =>
       request[c].kind # "made"
  /\ pc[c] = "ack" => batch[c] # {}

\* A row is about a comment of its own.
Written(c) ==
  /\ Len(made[c]) <= MaxEdits
  /\ \A r \in actions[c] : r.kind = "comment" =>
       \E i \in 1..Len(made[c]) :
         /\ made[c][i] = "comment" /\ r.content = Just(<<c, i>>)
         /\ edit[c] = "comment" => i # Len(made[c])
  /\ \A r, q \in actions[c] :
       r.kind = "comment" /\ q.kind = "comment" /\ r.content = q.content => r = q
  /\ edit[c] = "comment" => Len(made[c]) > 0 /\ made[c][Len(made[c])] = "comment"

Local(c) == Kinds(c) /\ Held(c) /\ Asked(c) /\ Written(c)

\* The server has the comments that were made, once, but those that wait.
Counted(k) ==
  server.fields.contents[k] =
    IF MadeComment(k) /\ (Waiting(k) => Delivered(k)) THEN 1 ELSE 0

\* Another status is to be sent than the one of the row that is underway.
PendingBesides(c) ==
  \/ \E r \in actions[c] : r.kind = "status" /\ r # FirstRow(batch[c])
  \/ edit[c] = "status"

\* Of one who alone sets the status: what is being sent, was sent or was got
\* is what the client has, or else another status is to be sent.
Heeded(c) ==
  (\A d \in Client : "status" \in Ops[d] => d = c) =>
    /\ \/ server.fields.status \in {"Reopened", note[c].fields.status}
       \/ StatusPending(c)
    /\ request[c] # NoRequest /\ request[c].kind = "status" =>
         request[c].content.status = note[c].fields.status \/ PendingBesides(c)
    /\ Taken(c) /\ FirstRow(batch[c]).kind = "status" =>
         \/ server.fields.status \in {"Reopened", note[c].fields.status}
         \/ PendingBesides(c)
    /\ pc[c] = "save" => server.fields.status \in {"Reopened", got[c].status}

Talk ==
  /\ There
  /\ \A c \in Client : Local(c) /\ Heeded(c)
  /\ \A k \in Comment : Counted(k)

\* A comment's name.
LEMMA JustSays ==
  ASSUME NEW k \in Comment, NEW q \in Comment
  PROVE  Just(k) # NoComments /\ (Just(k) = Just(q) => k = q)
<1>1. NoComments[k] = 0 /\ Just(k)[k] = 1
  BY JustTyped DEF NoComments
<1>2. q # k => Just(q)[k] = 0
  BY JustTyped
<1> QED BY <1>1, <1>2

LEMMA InitIsTalk ==
  ASSUME Init, Discussion
  PROVE  Talk
<1>1. server = [listed |-> TRUE, fields |-> NewFields] /\ \A c \in Client : note[c] = server
  BY DEF Init, Discussion
<1>2. NewFields.passages # Nothing
  BY NotesSyncAssumption DEF NewFields, Passages
<1>3. There
  BY <1>1, <1>2 DEF There
<1>4. \A c \in Client : /\ actions[c] = {} /\ edit[c] = Nothing /\ made[c] = <<>>
                        /\ pc[c] = "idle" /\ request[c] = NoRequest
  BY DEF Init
<1>5. Nothing \notin Kind
  BY NotesSyncAssumption
<1>6. ASSUME NEW c \in Client PROVE Kinds(c) /\ Held(c) /\ Asked(c) /\ Heeded(c)
  BY <1>1, <1>2, <1>4, <1>5 DEF Kinds, Held, Asked, Heeded, Taken, Kind
<1>7. ASSUME NEW c \in Client PROVE Written(c)
  <2>1. Len(made[c]) = 0 /\ 0 <= MaxEdits
    BY <1>4, NotesSyncAssumption
  <2> QED BY <1>4, <1>5, <2>1 DEF Written, Kind
<1>8. ASSUME NEW k \in Comment PROVE Counted(k)
  <2>1. k[1] \in Client /\ k[2] \in Nat /\ k[2] > 0
    BY NotesSyncAssumption DEF Comment
  <2>2. ~MadeComment(k)
    BY <1>4, <2>1 DEF MadeComment
  <2> QED BY <1>1, <2>2 DEF Counted, NewFields, NoComments
<1> QED BY <1>3, <1>6, <1>7, <1>8 DEF Talk, Local

\* What does not touch a client leaves its part of the discussion, and the
\* server may reopen the note.
LEMMA Elsewhere ==
  ASSUME NEW c \in Client, Local(c), Heeded(c),
         note'[c] = note[c], actions'[c] = actions[c], edit'[c] = edit[c],
         made'[c] = made[c], pc'[c] = pc[c], batch'[c] = batch[c], got'[c] = got[c],
         request'[c] = request[c],
         server'.fields.status \in {server.fields.status, "Reopened"}
  PROVE  Local(c)' /\ Heeded(c)'
<1>1. Kinds(c)' /\ Held(c)' /\ Asked(c)'
  BY DEF Local, Kinds, Held, Asked
<1>2. Written(c)'
  BY DEF Local, Written
<1>3. Heeded(c)'
  BY DEF Heeded, Taken, StatusPending, PendingBesides
<1> QED BY <1>1, <1>2, <1>3 DEF Local

LEMMA CountedElsewhere ==
  ASSUME NEW k \in Comment, NEW c \in Client, c = k[1], Counted(k),
         actions'[c] = actions[c], edit'[c] = edit[c], made'[c] = made[c],
         batch'[c] = batch[c], Taken(c)' <=> Taken(c),
         server'.fields.contents[k] = server.fields.contents[k]
  PROVE  Counted(k)'
<1>1. MadeComment(k)' <=> MadeComment(k)
  BY DEF MadeComment
<1>2. (Waiting(k)' <=> Waiting(k)) /\ (Delivered(k)' <=> Delivered(k))
  BY DEF Waiting, Delivered
<1> QED BY <1>1, <1>2 DEF Counted

\* What a user can do in a discussion.
LEMMA ChangeInTalk ==
  ASSUME Basic, Discussion, NEW c \in Client, User(c), ~RecordAction(c),
         note[c].fields.passages # Nothing
  PROVE  \E kind \in {"comment", "status", "passages"} :
           /\ kind \in Ops[c] /\ edit[c] = Nothing /\ edit'[c] = kind
           /\ made'[c] = Append(made[c], kind) /\ Len(made[c]) < MaxEdits
           /\ actions'[c] = actions[c] /\ note'[c].fields.passages # Nothing
           /\ kind # "status" => note'[c].fields.status = note[c].fields.status
<1>1. note[c].fields \in Fields /\ Len(made[c]) \in Nat /\ MaxEdits \in Nat
  BY NotesSyncAssumption DEF Basic, TypeOK, Note
<1>2. ASSUME NEW kind \in {"comment", "status", "passages"}, NEW fields,
             Change(c, kind, fields)
      PROVE  /\ kind \in Ops[c] /\ edit[c] = Nothing /\ edit'[c] = kind
             /\ made'[c] = Append(made[c], kind) /\ Len(made[c]) < MaxEdits
             /\ actions'[c] = actions[c] /\ note'[c].fields = fields
  BY <1>2 DEF Change, Basic, TypeOK, Note
<1>3. ASSUME NEW x
      PROVE  /\ [note[c].fields EXCEPT !.contents = x].status = note[c].fields.status
             /\ [note[c].fields EXCEPT !.contents = x].passages = note[c].fields.passages
             /\ [note[c].fields EXCEPT !.status = x].passages = note[c].fields.passages
             /\ [note[c].fields EXCEPT !.passages = x].status = note[c].fields.status
             /\ [note[c].fields EXCEPT !.passages = x].passages = x
  BY <1>1 DEF Fields
<1> DEFINE Result(kind, fields) ==
             /\ kind \in Ops[c] /\ edit[c] = Nothing /\ edit'[c] = kind
             /\ made'[c] = Append(made[c], kind) /\ Len(made[c]) < MaxEdits
             /\ actions'[c] = actions[c] /\ note'[c].fields = fields
<1>4. CASE AddComment(c)
  <2>1. PICK x : Change(c, "comment", [note[c].fields EXCEPT !.contents = x])
    BY <1>4 DEF AddComment
  <2>2. Result("comment", [note[c].fields EXCEPT !.contents = x])
    BY <1>2, <2>1
  <2>3. /\ note'[c].fields.passages # Nothing
        /\ note'[c].fields.status = note[c].fields.status
    BY <1>3, <2>2
  <2> QED BY <2>2, <2>3
<1>5. CASE SetStatus(c)
  <2>1. PICK x : Change(c, "status", [note[c].fields EXCEPT !.status = x])
    BY <1>5 DEF SetStatus
  <2>2. Result("status", [note[c].fields EXCEPT !.status = x])
    BY <1>2, <2>1
  <2>3. note'[c].fields.passages # Nothing
    BY <1>3, <2>2
  <2> QED BY <2>2, <2>3
<1>6. CASE SetPassages(c)
  <2>1. Change(c, "passages", [note[c].fields EXCEPT !.passages = Len(made[c]) + 1])
    BY <1>6 DEF SetPassages
  <2>2. Len(made[c]) + 1 \in Passages
    BY <1>1, <1>2, <2>1 DEF Passages
  <2>3. Len(made[c]) + 1 # Nothing
    BY <2>2, NotesSyncAssumption
  <2>4. Result("passages", [note[c].fields EXCEPT !.passages = Len(made[c]) + 1])
    BY <1>2, <2>1
  <2>5. /\ note'[c].fields.passages # Nothing
        /\ note'[c].fields.status = note[c].fields.status
    BY <1>3, <2>3, <2>4
  <2> QED BY <2>4, <2>5
<1> QED BY <1>4, <1>5, <1>6 DEF User, Discussion, CreateNote, EraseNote

\* A user's change leaves the discussion right.
LEMMA ChangeTalks ==
  ASSUME Basic, Discussion, Talk, NEW c \in Client, User(c), ~RecordAction(c)
  PROVE  Local(c)' /\ Heeded(c)' /\ \A k \in Comment : k[1] = c => Counted(k)'
<1>1. Local(c) /\ Heeded(c) /\ note[c].fields.passages # Nothing
  BY DEF Talk, Local, Held
<1>2. PICK kind \in {"comment", "status", "passages"} :
        /\ kind \in Ops[c] /\ edit[c] = Nothing /\ edit'[c] = kind
        /\ made'[c] = Append(made[c], kind) /\ Len(made[c]) < MaxEdits
        /\ actions'[c] = actions[c] /\ note'[c].fields.passages # Nothing
        /\ kind # "status" => note'[c].fields.status = note[c].fields.status
  BY <1>1, ChangeInTalk
<1>3. UNCHANGED <<server, pc, batch, got, request>>
  BY UserFrame
<1>4. /\ Len(made[c]) \in Nat /\ Len(made'[c]) = Len(made[c]) + 1
      /\ \A i \in 1..Len(made[c]) : made'[c][i] = made[c][i]
      /\ made'[c][Len(made[c]) + 1] = kind
  <2>1. made[c] \in Seq(Operations \union {"create"}) /\ kind \in Operations \union {"create"}
    BY DEF Basic, TypeOK, Operations
  <2> QED BY <1>2, <2>1
<1>5. Kinds(c)' /\ Held(c)' /\ Asked(c)'
  BY <1>1, <1>2, <1>3 DEF Local, Kinds, Held, Asked
<1>6. Written(c)'
  <2>1. Len(made[c]) + 1 <= MaxEdits
    BY <1>2, <1>4, NotesSyncAssumption
  <2>2. ASSUME NEW r \in actions[c], r.kind = "comment"
        PROVE  \E i \in 1..Len(made'[c]) :
                 /\ made'[c][i] = "comment" /\ r.content = Just(<<c, i>>)
                 /\ i # Len(made'[c])
    <3>1. PICK i \in 1..Len(made[c]) : made[c][i] = "comment" /\ r.content = Just(<<c, i>>)
      BY <1>1, <2>2 DEF Local, Written
    <3> QED BY <1>4, <3>1
  <2>3. edit'[c] = "comment" => Len(made'[c]) > 0 /\ made'[c][Len(made'[c])] = "comment"
    BY <1>2, <1>4
  <2> QED BY <1>1, <1>2, <1>4, <2>1, <2>2, <2>3 DEF Local, Written
<1>7. Heeded(c)'
  <2>1. CASE kind = "status"
    <3>1. StatusPending(c)' /\ PendingBesides(c)' /\ pc'[c] = pc[c]
      BY <1>2, <1>3, <2>1 DEF StatusPending, PendingBesides
    <3> QED BY <1>1, <1>3, <3>1 DEF Heeded, Taken
  <2>2. CASE kind # "status"
    <3>1. edit[c] # "status"
      BY <1>2, NotesSyncAssumption DEF Kind
    <3>2. (StatusPending(c)' <=> StatusPending(c)) /\ (PendingBesides(c)' <=> PendingBesides(c))
      BY <1>2, <1>3, <2>2, <3>1 DEF StatusPending, PendingBesides
    <3> QED BY <1>1, <1>2, <1>3, <2>2, <3>2 DEF Heeded, Taken
  <2> QED BY <2>1, <2>2
<1>8. ASSUME NEW k \in Comment, k[1] = c PROVE Counted(k)'
  <2>1. k[2] \in Nat /\ k[2] > 0 /\ k = <<c, k[2]>>
    BY <1>8, NotesSyncAssumption DEF Comment
  <2>2. edit[c] # "comment"
    BY <1>2, NotesSyncAssumption DEF Kind
  <2>3. CASE k[2] = Len(made[c]) + 1
    <3>1. ~MadeComment(k)
      BY <1>4, <1>8, <2>3 DEF MadeComment
    <3>2. server'.fields.contents[k] = 0
      BY <1>3, <3>1 DEF Talk, Counted
    <3>3. MadeComment(k)' => Waiting(k)'
      BY <1>2, <1>4, <1>8, <2>3 DEF MadeComment, Waiting
    <3>4. ~Delivered(k)'
      <4> SUFFICES ASSUME Taken(c), FirstRow(batch[c]).content = Just(k) PROVE FALSE
        BY <1>3, <1>8 DEF Delivered, Taken
      <4> DEFINE r == FirstRow(batch[c])
      <4>1. r \in batch[c] /\ batch[c] \subseteq actions[c]
        BY <1>1, FirstRowIsThere DEF Local, Asked, Taken, Basic, TypeOK, Numbered
      <4> HIDE DEF r
      <4>2. r.content = Just(k)
        BY DEF r
      <4>3. r.kind = "comment"
        BY <1>1, <4>1, <4>2, JustSays DEF Local, Kinds
      <4>4. PICK i \in 1..Len(made[c]) : r.content = Just(<<c, i>>)
        BY <1>1, <4>1, <4>3 DEF Local, Written
      <4>5. <<c, i>> \in Comment
        BY <1>2, <1>4, NotesSyncAssumption DEF Comment
      <4>6. k = <<c, i>>
        BY <4>2, <4>4, <4>5, JustSays
      <4> QED BY <1>4, <2>1, <2>3, <4>6
    <3> QED BY <3>2, <3>3, <3>4 DEF Counted
  <2>4. CASE k[2] # Len(made[c]) + 1
    <3>1. MadeComment(k)' <=> MadeComment(k)
      BY <1>4, <1>8, <2>1, <2>4 DEF MadeComment
    <3>2. Waiting(k)' <=> Waiting(k)
      BY <1>2, <1>4, <1>8, <2>2, <2>4 DEF Waiting
    <3>3. Delivered(k)' <=> Delivered(k)
      BY <1>3 DEF Delivered, Taken
    <3> QED BY <1>3, <3>1, <3>2, <3>3 DEF Talk, Counted
  <2> QED BY <2>3, <2>4
<1> QED BY <1>5, <1>6, <1>7, <1>8 DEF Local

\* The task's next row.
LEMMA NextToSend ==
  ASSUME Basic, NEW c \in Client, batch[c] # {}
  PROVE  FirstRow(batch[c]) \in batch[c] /\ FirstRow(batch[c]) \in actions[c]
BY FirstRowIsThere DEF Basic, TypeOK, Numbered

\* The record of a change leaves the discussion right.
LEMMA RecordTalks ==
  ASSUME Basic, Discussion, Talk, NEW c \in Client, RecordAction(c)
  PROVE  Local(c)' /\ Heeded(c)' /\ \A k \in Comment : k[1] = c => Counted(k)'
<1>1. Local(c) /\ Heeded(c)
  BY DEF Talk
<1>2. PICK row \in Row :
        /\ row \notin actions[c] /\ actions' = [actions EXCEPT ![c] = actions[c] \union {row}]
        /\ row.kind = edit[c]
        /\ row.content =
             IF edit[c] = "comment" THEN Just(<<c, Len(made[c])>>) ELSE NoComments
  BY <1>1, RecordedRows DEF Local, Kinds, Recorded
<1>3. /\ edit[c] # Nothing /\ edit[c] \in {"comment", "status", "passages"}
      /\ Nothing \notin Kind
  BY <1>1, NotesSyncAssumption DEF RecordAction, Basic, TypeOK, Local, Kinds
<1>4. /\ actions'[c] = actions[c] \union {row} /\ edit'[c] = Nothing /\ edit[c] # Nothing
      /\ UNCHANGED <<server, note, made, pc, batch, got, request>>
  <2>1. edit' = [edit EXCEPT ![c] = NextEdit(edit[c])]
    BY DEF RecordAction
  <2>2. UNCHANGED <<server, note, made, pc, batch, got, request>>
    BY DEF RecordAction, serverVars, taskVars
  <2> QED BY <1>2, <1>3, <2>1, <2>2, NextEditTyped DEF Basic, TypeOK
<1>5. Kinds(c)' /\ Held(c)' /\ Asked(c)'
  BY <1>1, <1>2, <1>4, <1>3 DEF Local, Kinds, Held, Asked, Kind
<1>6. ASSUME NEW r \in actions[c], r.kind = "comment", edit[c] = "comment"
      PROVE  r.content # row.content
  <2>1. PICK i \in 1..Len(made[c]) : r.content = Just(<<c, i>>) /\ i # Len(made[c])
    BY <1>1, <1>6 DEF Local, Written
  <2>2. Len(made[c]) \in 1..MaxEdits /\ i \in 1..MaxEdits
    BY <1>1, <1>6, NotesSyncAssumption DEF Local, Written, Basic, TypeOK
  <2>3. <<c, i>> \in Comment /\ <<c, Len(made[c])>> \in Comment
    BY <2>2 DEF Comment
  <2> QED BY <1>2, <1>6, <2>1, <2>3, JustSays
<1>7. Written(c)'
  <2>1. ASSUME NEW r \in actions'[c], r.kind = "comment"
        PROVE  \E i \in 1..Len(made[c]) : made[c][i] = "comment" /\ r.content = Just(<<c, i>>)
    <3>1. CASE r = row
      <4>1. edit[c] = "comment" /\ r.content = Just(<<c, Len(made[c])>>)
        BY <1>2, <2>1, <3>1
      <4>2. Len(made[c]) \in 1..Len(made[c]) /\ made[c][Len(made[c])] = "comment"
        BY <1>1, <4>1 DEF Local, Written, Basic, TypeOK
      <4> QED BY <4>1, <4>2
    <3>2. CASE r \in actions[c]
      BY <1>1, <2>1, <3>2 DEF Local, Written
    <3> QED BY <1>4, <3>1, <3>2
  <2>2. ASSUME NEW r \in actions'[c], NEW q \in actions'[c],
               r.kind = "comment", q.kind = "comment", r.content = q.content
        PROVE  r = q
    <3>1. r = row \/ q = row => edit[c] = "comment"
      BY <1>2, <2>2
    <3> QED BY <1>1, <1>4, <1>6, <2>2, <3>1 DEF Local, Written
  <2>3. edit'[c] # "comment"
    BY <1>4, <1>3 DEF Kind
  <2> QED BY <1>1, <1>4, <2>1, <2>2, <2>3 DEF Local, Written
<1>8. Heeded(c)'
  <2>1. StatusPending(c) => StatusPending(c)'
    BY <1>2, <1>4 DEF StatusPending
  <2>2. batch[c] # {} => row # FirstRow(batch[c])
    BY <1>2, NextToSend
  <2>3. batch[c] # {} /\ PendingBesides(c) => PendingBesides(c)'
    BY <1>2, <1>4, <2>2 DEF PendingBesides
  <2>4. request[c] # NoRequest \/ pc[c] = "ack" => batch[c] # {}
    BY <1>1 DEF Local, Asked
  <2> QED BY <1>1, <1>4, <2>1, <2>3, <2>4 DEF Heeded, Taken
<1>9. ASSUME NEW k \in Comment, k[1] = c PROVE Counted(k)'
  <2>1. (MadeComment(k)' <=> MadeComment(k)) /\ (Delivered(k)' <=> Delivered(k))
    BY <1>4 DEF MadeComment, Delivered, Taken
  <2>2. k[2] \in Nat /\ k[2] > 0 /\ k = <<c, k[2]>>
    BY <1>9, NotesSyncAssumption DEF Comment
  <2>3. edit[c] = "comment" => <<c, Len(made[c])>> \in Comment
    BY <1>1, NotesSyncAssumption DEF Local, Written, Basic, TypeOK, Comment
  <2>4. row.kind = "comment" /\ row.content = Just(k) <=>
          edit[c] = "comment" /\ k[2] = Len(made[c])
    BY <1>2, <2>2, <2>3, JustSays
  <2>5. edit'[c] # "comment"
    BY <1>4, <1>3 DEF Kind
  <2>6. Waiting(k)' <=> Waiting(k)
    BY <1>4, <1>9, <2>4, <2>5 DEF Waiting
  <2> QED BY <1>4, <2>1, <2>6 DEF Talk, Counted
<1> QED BY <1>5, <1>7, <1>8, <1>9 DEF Local

\* What leaves the rows and the server alone, and does not wait for an answer.
LEMMA QuietTalks ==
  ASSUME Talk, NEW c \in Client,
         UNCHANGED <<server, request, actions, edit, made>>,
         note'[c].fields.status = note[c].fields.status,
         note'[c].fields.passages = note[c].fields.passages,
         pc[c] \notin {"wait", "ack"}, pc'[c] \notin {"wait", "ack", "save", "erase"}
  PROVE  Local(c)' /\ Heeded(c)' /\ \A k \in Comment : k[1] = c => Counted(k)'
<1>1. Local(c) /\ Heeded(c)
  BY DEF Talk
<1>2. request'[c] = NoRequest
  BY <1>1 DEF Local, Asked
<1>3. Kinds(c)' /\ Held(c)' /\ Asked(c)' /\ Written(c)'
  BY <1>1, <1>2 DEF Local, Kinds, Held, Asked, Written
<1>4. Heeded(c)'
  <2>1. StatusPending(c)' <=> StatusPending(c)
    BY DEF StatusPending
  <2> QED BY <1>1, <1>2, <2>1 DEF Heeded, Taken
<1>5. ASSUME NEW k \in Comment, k[1] = c PROVE Counted(k)'
  <2>1. (MadeComment(k)' <=> MadeComment(k)) /\ (Waiting(k)' <=> Waiting(k))
    BY DEF MadeComment, Waiting
  <2>2. ~Delivered(k) /\ ~Delivered(k)'
    BY <1>5 DEF Delivered, Taken
  <2> QED BY <2>1, <2>2 DEF Talk, Counted
<1> QED BY <1>3, <1>4, <1>5 DEF Local

LEMMA QuietTasks ==
  ASSUME Basic, Discussion, Talk, NEW c \in Client, Task(c),
         ~(Receive(c) \/ Handle(c) \/ UpdateChecksum(c)),
         ~(Confirm(c) \/ GetBulk(c) \/ SetBulk(c))
  PROVE  /\ UNCHANGED <<server, request, actions, edit, made>>
         /\ note'[c].fields.status = note[c].fields.status
         /\ note'[c].fields.passages = note[c].fields.passages
         /\ pc[c] \notin {"wait", "ack"} /\ pc'[c] \notin {"wait", "ack", "save", "erase"}
<1>1. "reply" \notin Hazard /\ "late" \notin Hazard
  BY DEF Discussion
<1>2. CASE Start(c) \/ SendFails(c) \/ AllSent(c) \/ DownloadFails(c)
  BY <1>1, <1>2 DEF Start, SendFails, AllSent, DownloadFails, EndTask, serverVars, userVars,
     Basic, TypeOK
<1>3. CASE Refresh(c) \/ GetContents(c)
  BY <1>3 DEF Refresh, GetContents, serverVars, userVars, Basic, TypeOK
<1>4. CASE KeepContents(c)
  <2>1. pc[c] = "keep" /\ pc'[c] = "total"
        /\ UNCHANGED <<server, request, actions, edit, made>>
    BY <1>4 DEF KeepContents, serverVars, Basic, TypeOK
  <2> QED BY <1>4, <2>1, TaskOnNote DEF Storing
<1>5. CASE AskTotal(c) \/ CacheTotal(c)
  <2>1. UNCHANGED <<server, request, note, actions, edit, made>> /\ pc[c] \in {"total", "cache"}
    BY <1>5 DEF AskTotal, CacheTotal, userVars
  <2> QED BY <1>5, <2>1, TotalIsBasic
<1>6. CASE AskIdentifiers(c)
  <2>1. UNCHANGED <<server, request, note, actions, edit, made>> /\ pc[c] = "identifiers"
    BY <1>6 DEF AskIdentifiers, serverVars, userVars
  <2>2. server.listed
    BY DEF Talk, There
  <2>3. pc'[c] \in {"bulk", "idle"}
    BY <1>6, <2>2, Identified DEF EndTask, Basic, TypeOK
  <2> QED BY <2>1, <2>3
<1>7. ~EraseLocal(c)
  BY DEF EraseLocal, Talk, Local, Held
<1>8. CASE Quit(c)
  <2>1. UNCHANGED <<server, request, note, actions, edit, made>> /\ EndTask(c)
        /\ pc[c] \notin {"wait", "ack"}
    BY <1>1, <1>8 DEF Quit, serverVars
  <2> QED BY <2>1 DEF EndTask, Basic, TypeOK
<1> QED BY <1>2, <1>3, <1>4, <1>5, <1>6, <1>7, <1>8 DEF Task, Upload, Download

\* The download, too, leaves the discussion right.
LEMMA StoreTalks ==
  ASSUME Basic, Discussion, Talk, NEW c \in Client, GetBulk(c) \/ SetBulk(c)
  PROVE  Local(c)' /\ Heeded(c)' /\ \A k \in Comment : k[1] = c => Counted(k)'
<1>1. Local(c) /\ Heeded(c) /\ There
  BY DEF Talk
<1>2. /\ UNCHANGED <<server, request, actions, edit, made>>
      /\ pc[c] \in {"bulk", "save"}
  BY DEF GetBulk, SetBulk, serverVars, userVars
<1>3. request'[c] = NoRequest
  BY <1>1, <1>2 DEF Local, Asked
<1>4. ASSUME GetBulk(c) PROVE Local(c)' /\ Heeded(c)'
  <2>1. note' = note /\ pc'[c] = "save" /\ got'[c] = server.fields
    BY <1>4 DEF GetBulk, userVars, Basic, TypeOK
  <2>2. StatusPending(c)' <=> StatusPending(c)
    BY <1>2 DEF StatusPending
  <2>3. Kinds(c)' /\ Held(c)' /\ Asked(c)'
    BY <1>1, <1>2, <1>3, <2>1 DEF Local, Kinds, Held, Asked, There
  <2>4. Written(c)'
    BY <1>1, <1>2 DEF Local, Written
  <2>5. Heeded(c)'
    <3> SUFFICES ASSUME \A d \in Client : "status" \in Ops[d] => d = c
                 PROVE  \/ server.fields.status \in {"Reopened", note[c].fields.status}
                        \/ StatusPending(c)
      BY <1>2, <1>3, <2>1, <2>2 DEF Heeded, Taken
    <3> QED BY <1>1 DEF Heeded
  <2> QED BY <2>3, <2>4, <2>5 DEF Local
<1>5. ASSUME SetBulk(c) PROVE Local(c)' /\ Heeded(c)'
  <2>1. note'[c].fields = got[c] /\ pc[c] = "save" /\ pc'[c] = "idle"
    BY <1>5 DEF SetBulk, EndTask, Basic, TypeOK
  <2>2. Kinds(c)' /\ Held(c)' /\ Asked(c)'
    BY <1>1, <1>2, <1>3, <2>1 DEF Local, Kinds, Held, Asked
  <2>3. Written(c)'
    BY <1>1, <1>2 DEF Local, Written
  <2>4. Heeded(c)'
    <3> SUFFICES ASSUME \A d \in Client : "status" \in Ops[d] => d = c
                 PROVE  server.fields.status \in {"Reopened", got[c].status}
      BY <1>2, <1>3, <2>1 DEF Heeded, Taken
    <3> QED BY <1>1, <2>1 DEF Heeded
  <2> QED BY <2>2, <2>3, <2>4 DEF Local
<1>6. ASSUME NEW k \in Comment, k[1] = c PROVE Counted(k)'
  <2>1. (MadeComment(k)' <=> MadeComment(k)) /\ (Waiting(k)' <=> Waiting(k))
    BY <1>2 DEF MadeComment, Waiting
  <2>2. pc'[c] # "ack"
    BY DEF GetBulk, SetBulk, EndTask, Basic, TypeOK
  <2>3. ~Delivered(k) /\ ~Delivered(k)'
    BY <1>2, <1>3, <1>6, <2>2 DEF Delivered, Taken
  <2> QED BY <1>2, <2>1, <2>3 DEF Talk, Counted
<1> QED BY <1>4, <1>5, <1>6

\* A request leaves it right.
LEMMA ReceiveTalks ==
  ASSUME Basic, Discussion, Talk, NEW c \in Client, Receive(c)
  PROVE  Local(c)' /\ Heeded(c)' /\ \A k \in Comment : k[1] = c => Counted(k)'
<1> DEFINE r == FirstRow(batch[c])
<1>1. Local(c) /\ Heeded(c)
  BY DEF Talk
<1>2. /\ UNCHANGED <<server, note, actions, edit, made, batch, got>>
      /\ pc[c] = "send" /\ pc'[c] = "wait"
  BY DEF Receive, serverVars, userVars, Basic, TypeOK
<1>3. /\ batch[c] # {} /\ r.kind \in Kind
      /\ request'[c] = [kind |-> r.kind, content |-> Posted(c, r), seen |-> server]
      /\ Posted(c, r).contents = r.content
      /\ Posted(c, r).status = note[c].fields.status
      /\ Posted(c, r).passages = note[c].fields.passages
  BY Received DEF Row
<1> HIDE DEF r
<1>4. /\ request'[c].kind = r.kind /\ request'[c].content.contents = r.content
      /\ request'[c].content.passages = note[c].fields.passages
      /\ request'[c].content.status = note[c].fields.status
      /\ request'[c].kind \in Kind /\ ~Taken(c) /\ ~Taken(c)'
  <2>1. request[c] = NoRequest
    BY DEF Receive, AbandonedIsHandled
  <2> QED BY <1>2, <1>3, <2>1 DEF Taken, Kind, Phase
<1>5. Kinds(c)' /\ Held(c)' /\ Asked(c)' /\ Written(c)'
  <2>1. Asked(c)'
    BY <1>1, <1>2, <1>3, <1>4 DEF Asked, Local, Held, r
  <2> QED BY <1>1, <1>2, <1>3, <2>1 DEF Local, Kinds, Held, Written
<1>6. Heeded(c)'
  <2>1. StatusPending(c)' <=> StatusPending(c)
    BY <1>2 DEF StatusPending
  <2> QED BY <1>1, <1>2, <1>4, <2>1 DEF Heeded
<1>7. ASSUME NEW k \in Comment, k[1] = c PROVE Counted(k)'
  BY <1>2, <1>4, <1>7, CountedElsewhere DEF Talk
<1> QED BY <1>5, <1>6, <1>7 DEF Local

\* So does the deletion of a row.
LEMMA ConfirmTalks ==
  ASSUME Basic, Discussion, Talk, NEW c \in Client, Confirm(c)
  PROVE  Local(c)' /\ Heeded(c)' /\ \A k \in Comment : k[1] = c => Counted(k)'
<1> DEFINE r == FirstRow(batch[c])
<1>1. Local(c) /\ Heeded(c)
  BY DEF Talk
<1>2. /\ UNCHANGED <<server, note, edit, made, got, request>>
      /\ pc[c] = "ack" /\ pc'[c] = "send"
  BY DEF Confirm, serverVars, Basic, TypeOK
<1>3. batch[c] # {} /\ request[c] = NoRequest
  BY <1>1, <1>2 DEF Local, Asked
<1>4. r \in actions[c] /\ actions'[c] = actions[c] \ {r}
  BY <1>3, ConfirmedRows
<1>5. Kinds(c)' /\ Held(c)' /\ Asked(c)'
  BY <1>1, <1>2, <1>3, <1>4 DEF Local, Kinds, Held, Asked
<1>6. Written(c)'
  BY <1>1, <1>2, <1>4 DEF Local, Written
<1>7. Heeded(c)'
  <2> SUFFICES ASSUME \A d \in Client : "status" \in Ops[d] => d = c,
                      server.fields.status \notin {"Reopened", note[c].fields.status}
               PROVE  StatusPending(c)'
    BY <1>2, <1>3 DEF Heeded, Taken
  <2>1. PendingBesides(c) => StatusPending(c)'
    BY <1>2, <1>4 DEF PendingBesides, StatusPending
  <2>2. CASE r.kind = "status"
    BY <1>1, <1>2, <2>1, <2>2 DEF Heeded, Taken
  <2>3. CASE r.kind # "status"
    <3>1. StatusPending(c)
      BY <1>1 DEF Heeded, Taken
    <3> QED BY <1>2, <1>4, <2>3, <3>1 DEF StatusPending
  <2> QED BY <2>2, <2>3
<1>8. ASSUME NEW k \in Comment, k[1] = c PROVE Counted(k)'
  <2>1. MadeComment(k)' <=> MadeComment(k)
    BY <1>2 DEF MadeComment
  <2>2. ~Delivered(k)'
    BY <1>2, <1>8 DEF Delivered, Taken
  <2>3. CASE r.content = Just(k)
    <3>1. Delivered(k)
      BY <1>2, <1>8, <2>3 DEF Delivered, Taken
    <3>2. r.kind = "comment"
      BY <1>1, <1>4, <2>3, JustSays DEF Local, Kinds
    <3>3. \A q \in actions'[c] : q.kind = "comment" => q.content # Just(k)
      BY <1>1, <1>4, <2>3, <3>2 DEF Local, Written
    <3>4. ~(edit[c] = "comment" /\ k[2] = Len(made[c]))
      <4> SUFFICES ASSUME edit[c] = "comment", k[2] = Len(made[c]) PROVE FALSE
        OBVIOUS
      <4>1. PICK i \in 1..Len(made[c]) : r.content = Just(<<c, i>>) /\ i # Len(made[c])
        BY <1>1, <1>4, <3>2 DEF Local, Written
      <4>2. <<c, i>> \in Comment
        BY <1>1, NotesSyncAssumption DEF Local, Written, Basic, TypeOK, Comment
      <4>3. k = <<c, i>>
        BY <2>3, <4>1, <4>2, JustSays
      <4> QED BY <4>1, <4>3
    <3>5. ~Waiting(k)'
      BY <1>2, <1>8, <3>3, <3>4 DEF Waiting
    <3> QED BY <1>2, <2>1, <3>1, <3>5 DEF Talk, Counted
  <2>4. CASE r.content # Just(k)
    <3>1. ~Delivered(k)
      BY <1>8, <2>4 DEF Delivered
    <3>2. Waiting(k)' <=> Waiting(k)
      BY <1>2, <1>4, <1>8, <2>4 DEF Waiting
    <3> QED BY <1>2, <2>1, <2>2, <3>1, <3>2 DEF Talk, Counted
  <2> QED BY <2>3, <2>4
<1> QED BY <1>5, <1>6, <1>7, <1>8 DEF Local

\* What the server makes of a request in a discussion.
LEMMA HandledInTalk ==
  ASSUME Basic, Discussion, Talk, Orderly, NEW c \in Client, Handle(c),
         request[c].kind \in Kind
  PROVE  /\ There'
         /\ ~Taken(c) /\ Taken(c)' /\ Asked(c)'
         /\ request'[c] # NoRequest => request'[c].kind # "status"
         /\ FirstRow(batch[c]) \in actions[c]
         /\ FirstRow(batch[c]).kind = "status" =>
              /\ request[c].kind = "status"
              /\ server'.fields.status = request[c].content.status
         /\ FirstRow(batch[c]).kind # "status" =>
              server'.fields.status = server.fields.status
         /\ FirstRow(batch[c]).kind = "comment" =>
              \A k \in Comment : server'.fields.contents[k] =
                server.fields.contents[k] + FirstRow(batch[c]).content[k]
         /\ FirstRow(batch[c]).kind # "comment" =>
              server'.fields.contents = server.fields.contents
<1> DEFINE r == request[c]
           row == FirstRow(batch[c])
           fields == Put(r.seen.fields, r.kind, r.content)
<1>1. r # NoRequest
  BY DEF Handle
<1>2. Local(c) /\ There
  BY DEF Talk
<1>3. /\ pc[c] = "wait" /\ batch[c] # {} /\ r.kind = row.kind
      /\ r.content.contents = row.content /\ r.content.passages # Nothing
  BY <1>1, <1>2 DEF Local, Asked
<1>4. row \in actions[c]
  BY <1>3, NextToSend
<1>5. row.kind \in {"comment", "status", "passages"}
  BY <1>2, <1>4 DEF Local, Kinds
<1>6. r.seen.fields = server.fields
  BY <1>1, <1>2 DEF Orderly, Current, There
<1>7. /\ r.seen.fields \in Fields /\ r.kind \in Kind /\ r.content \in Fields
      /\ server'.fields = fields
      /\ server'.listed = ((server.listed \/ r.kind = "made")
                            /\ r.kind \notin {"create", "delete"})
      /\ HandlesOnTo(c, r.kind)
  BY Handled
<1>8. /\ r.kind \in {"comment", "status"} => fields.passages = server.fields.passages
      /\ r.kind = "passages" => fields.passages = r.content.passages
      /\ r.kind = "status" => fields.status = r.content.status
      /\ r.kind \in {"comment", "passages"} => fields.status = server.fields.status
      /\ r.kind \in {"status", "passages"} => fields.contents = server.fields.contents
      /\ r.kind = "comment" => \A k \in Comment :
           fields.contents[k] = server.fields.contents[k] + r.content.contents[k]
  BY <1>6, <1>7, PutTyped
<1>9. ~Taken(c)
  BY <1>3, <1>5 DEF Taken, Phase
<1> HIDE DEF fields, r, row
<1>10. There'
  BY <1>2, <1>3, <1>5, <1>7, <1>8 DEF There
<1>11. /\ batch'[c] # {}
       /\ \/ request'[c] = NoRequest /\ pc'[c] = "ack"
          \/ /\ request'[c] # NoRequest /\ request'[c].kind \in {"commented", "sum"}
             /\ pc'[c] = "wait"
  <2>1. batch' = batch
    BY DEF Handle
  <2>2. request'[c] \in Request => request'[c] # NoRequest
    BY NotesSyncAssumption
  <2> QED BY <1>3, <1>5, <1>7, <2>1, <2>2 DEF HandlesOnTo
<1>12. Taken(c)' /\ Asked(c)' /\ (request'[c] # NoRequest => request'[c].kind # "status")
  BY <1>11 DEF Taken, Asked, Phase, Kind
<1>13. /\ row \in actions[c]
       /\ row.kind = "status" => r.kind = "status" /\ server'.fields.status = r.content.status
       /\ row.kind # "status" => server'.fields.status = server.fields.status
  BY <1>3, <1>4, <1>5, <1>7, <1>8
<1>14. /\ row.kind = "comment" => \A k \in Comment :
            server'.fields.contents[k] = server.fields.contents[k] + row.content[k]
       /\ row.kind # "comment" => server'.fields.contents = server.fields.contents
  BY <1>3, <1>5, <1>7, <1>8
<1> QED BY <1>10, <1>13, <1>14, <1>9, <1>12 DEF r, row

LEMMA HandleTalks ==
  ASSUME Basic, Discussion, Talk, Orderly, NEW c \in Client, Handle(c),
         request[c].kind \in Kind
  PROVE  Talk'
<1> DEFINE row == FirstRow(batch[c])
<1>1. /\ There'
      /\ ~Taken(c) /\ Taken(c)' /\ Asked(c)'
      /\ request'[c] # NoRequest => request'[c].kind # "status"
      /\ row \in actions[c]
      /\ row.kind = "status" =>
           request[c].kind = "status" /\ server'.fields.status = request[c].content.status
      /\ row.kind # "status" => server'.fields.status = server.fields.status
      /\ row.kind = "comment" => \A k \in Comment :
           server'.fields.contents[k] = server.fields.contents[k] + row.content[k]
      /\ row.kind # "comment" => server'.fields.contents = server.fields.contents
  BY HandledInTalk
<1>2. UNCHANGED <<note, actions, edit, made, batch, got>>
  BY DEF Handle, userVars
<1>3. Local(c) /\ Heeded(c) /\ request[c] # NoRequest /\ batch[c] # {}
  BY DEF Talk, Handle, Local, Asked
<1>4. \A d \in Client \ {c} : request'[d] = request[d] /\ pc'[d] = pc[d]
  BY Handled
<1> HIDE DEF row
<1>5. Kinds(c)' /\ Held(c)' /\ Asked(c)' /\ Written(c)'
  <2>1. pc'[c] \notin {"erase", "save"}
    BY <1>1, <1>2 DEF Taken
  <2> QED BY <1>1, <1>2, <1>3, <2>1 DEF Local, Kinds, Held, Written
<1>6. Heeded(c)'
  <2> SUFFICES ASSUME \A d \in Client : "status" \in Ops[d] => d = c
               PROVE  /\ \/ server'.fields.status \in {"Reopened", note[c].fields.status}
                         \/ StatusPending(c)
                      /\ row.kind = "status" =>
                           \/ server'.fields.status \in {"Reopened", note[c].fields.status}
                           \/ PendingBesides(c)
    <3>1. pc'[c] # "save"
      BY <1>1 DEF Taken
    <3> QED BY <1>1, <1>2, <3>1 DEF Heeded, StatusPending, PendingBesides, row
  <2>1. PendingBesides(c) => StatusPending(c)
    BY DEF PendingBesides, StatusPending
  <2> QED BY <1>1, <1>3, <2>1 DEF Heeded
<1>7. ASSUME NEW d \in Client \ {c} PROVE Local(d)' /\ Heeded(d)'
  <2>1. CASE row.kind # "status"
    BY <1>1, <1>2, <1>4, <1>7, <2>1, Elsewhere DEF Talk
  <2>2. CASE row.kind = "status"
    <3>1. "status" \in Ops[c]
      BY <1>1, <1>3, <2>2 DEF Local, Kinds
    <3>2. Heeded(d)'
      BY <1>7, <3>1 DEF Heeded
    <3>3. Kinds(d)' /\ Held(d)' /\ Asked(d)' /\ Written(d)'
      <4>1. Local(d) /\ request'[d] = request[d] /\ pc'[d] = pc[d]
        BY <1>4, <1>7 DEF Talk
      <4>2. Written(d)'
        BY <1>2, <4>1 DEF Local, Written
      <4>3. Kinds(d)' /\ Held(d)'
        BY <1>2, <4>1 DEF Local, Kinds, Held
      <4>4. Asked(d)'
        BY <1>2, <4>1 DEF Local, Asked
      <4> QED BY <4>2, <4>3, <4>4
    <3> QED BY <3>2, <3>3 DEF Local
  <2> QED BY <2>1, <2>2
<1>8. ASSUME NEW k \in Comment PROVE Counted(k)'
  <2>1. (MadeComment(k)' <=> MadeComment(k)) /\ (Waiting(k)' <=> Waiting(k))
    BY <1>2 DEF MadeComment, Waiting
  <2>2. k[1] \in Client /\ k = <<k[1], k[2]>>
    BY DEF Comment
  <2>3. CASE row.kind = "comment" /\ row.content = Just(k)
    <3>1. PICK i \in 1..Len(made[c]) :
            /\ made[c][i] = "comment" /\ row.content = Just(<<c, i>>)
            /\ edit[c] = "comment" => i # Len(made[c])
      BY <1>1, <1>3, <2>3 DEF Local, Written
    <3>2. <<c, i>> \in Comment /\ i <= Len(made[c])
      BY <1>3, NotesSyncAssumption DEF Local, Written, Basic, TypeOK, Comment
    <3>3. k = <<c, i>>
      BY <2>3, <3>1, <3>2, JustSays
    <3>4. MadeComment(k) /\ Waiting(k)
      BY <1>1, <2>3, <3>1, <3>2, <3>3 DEF MadeComment, Waiting
    <3>5. ~Delivered(k) /\ Delivered(k)'
      BY <1>1, <1>2, <2>3, <3>3 DEF Delivered, row
    <3>6. server'.fields.contents[k] = server.fields.contents[k] + 1
      BY <1>1, <2>3, JustTyped
    <3>7. server.fields.contents[k] = 0
      BY <3>4, <3>5 DEF Talk, Counted
    <3> QED BY <2>1, <3>4, <3>5, <3>6, <3>7 DEF Counted
  <2>4. CASE ~(row.kind = "comment" /\ row.content = Just(k))
    <3>1. server'.fields.contents[k] = server.fields.contents[k]
      <4>1. CASE row.kind # "comment"
        BY <1>1, <4>1
      <4>2. CASE row.kind = "comment"
        <5>1. PICK i \in 1..Len(made[c]) : row.content = Just(<<c, i>>)
          BY <1>1, <1>3, <4>2 DEF Local, Written
        <5>2. <<c, i>> \in Comment
          BY <1>3, NotesSyncAssumption DEF Local, Written, Basic, TypeOK, Comment
        <5>3. row.content[k] = 0
          BY <2>4, <4>2, <5>1, <5>2, JustTyped
        <5>4. server.fields.contents[k] \in Nat
          BY DEF Talk, Counted
        <5> QED BY <1>1, <4>2, <5>3, <5>4
      <4> QED BY <4>1, <4>2
    <3>2. Delivered(k)' <=> Delivered(k)
      <4>1. CASE k[1] # c
        BY <1>2, <1>4, <2>2, <4>1 DEF Delivered, Taken
      <4>2. CASE k[1] = c
        <5>1. row.content # Just(k)
          BY <1>1, <1>3, <2>4, JustSays DEF Local, Kinds
        <5> QED BY <1>1, <1>2, <4>2, <5>1 DEF Delivered, row
      <4> QED BY <4>1, <4>2
    <3> QED BY <2>1, <3>1, <3>2 DEF Talk, Counted
  <2> QED BY <2>3, <2>4
<1> QED BY <1>1, <1>5, <1>6, <1>7, <1>8 DEF Talk, Local

\* The rest of the handler leaves the discussion right: the row underway is in
\* the note, and the note may be reopened.
LEMMA GoingOnTalks ==
  ASSUME Basic, Discussion, Talk, Orderly, NEW c \in Client,
         UpdateChecksum(c) \/ (Handle(c) /\ request[c].kind \notin Kind)
  PROVE  Talk'
<1>1. /\ Local(c) /\ Heeded(c) /\ There
      /\ request[c] # NoRequest /\ request[c].kind \in {"reopen", "commented", "sum"}
  BY Updated, Handled DEF Talk, Local, Asked, Handle
<1>2. /\ server'.listed
      /\ server'.fields.contents = server.fields.contents
      /\ server'.fields.passages = server.fields.passages
      /\ server'.fields.status \in {server.fields.status, "Reopened"}
  <2>1. CASE UpdateChecksum(c)
    BY <1>1, <2>1, Updated DEF There
  <2>2. CASE Handle(c) /\ request[c].kind \notin Kind
    <3> DEFINE r == request[c]
               fields == Put(r.seen.fields, r.kind, r.content)
    <3>1. r.seen.fields = server.fields
      BY <1>1 DEF Orderly, Current, There
    <3>2. /\ r.seen.fields \in Fields /\ r.content \in Fields
          /\ r.kind \in Kind \union {"made", "reopen"}
          /\ server'.fields = fields
          /\ server'.listed = ((server.listed \/ r.kind = "made")
                                /\ r.kind \notin {"create", "delete"})
      BY <2>2, Handled
    <3>3. r.kind = "reopen"
      BY <1>1, <2>2, <3>2
    <3>4. /\ fields.passages = r.seen.fields.passages
          /\ fields.contents = r.seen.fields.contents
          /\ fields.status = "Reopened"
      BY <3>2, <3>3, PutTyped
    <3> HIDE DEF r, fields
    <3> QED BY <1>1, <3>1, <3>2, <3>3, <3>4 DEF There
  <2> QED BY <2>1, <2>2
<1>3. UNCHANGED <<note, actions, edit, made, batch, got>>
  BY DEF Handle, UpdateChecksum, userVars
<1>4. pc[c] = "wait" /\ batch[c] # {} /\ Taken(c)
  BY <1>1 DEF Local, Asked, Taken, Phase
<1>5. \/ request'[c] = NoRequest /\ pc'[c] = "ack"
      \/ /\ request'[c] # NoRequest /\ request'[c].kind \in {"reopen", "sum"}
         /\ pc'[c] = "wait"
  <2>1. request'[c] \in Request => request'[c] # NoRequest
    BY NotesSyncAssumption
  <2>2. CASE UpdateChecksum(c)
    BY <1>4, <2>1, <2>2, Updated
  <2>3. CASE Handle(c) /\ request[c].kind \notin Kind
    BY <1>1, <1>4, <2>1, <2>3, Handled DEF HandlesOnTo
  <2> QED BY <2>2, <2>3
<1>6. /\ \A d \in Client \ {c} : request'[d] = request[d] /\ pc'[d] = pc[d]
      /\ Taken(c)' /\ Asked(c)' /\ (request'[c] # NoRequest => request'[c].kind # "status")
  BY <1>3, <1>4, <1>5, Updated, Handled DEF Taken, Asked, Phase, Kind
<1>7. Local(c)' /\ Heeded(c)'
  <2>1. Kinds(c)' /\ Held(c)' /\ Written(c)'
    BY <1>1, <1>3, <1>5 DEF Local, Kinds, Held, Written
  <2>2. Heeded(c)'
    BY <1>1, <1>2, <1>3, <1>4, <1>5, <1>6 DEF Heeded, StatusPending, PendingBesides
  <2> QED BY <1>6, <2>1, <2>2 DEF Local
<1>8. \A d \in Client \ {c} : Local(d)' /\ Heeded(d)'
  BY <1>2, <1>3, <1>6, Elsewhere DEF Talk
<1>9. ASSUME NEW k \in Comment PROVE Counted(k)'
  <2>1. k[1] \in Client /\ (Taken(k[1])' <=> Taken(k[1]))
    BY <1>4, <1>6 DEF Comment, Taken
  <2> QED BY <1>2, <1>3, <2>1, CountedElsewhere DEF Talk
<1> QED BY <1>1, <1>2, <1>7, <1>8, <1>9 DEF Talk, There

\* The discussion goes on.
LEMMA StepTalks ==
  ASSUME Basic, Orderly, Talk, [Next]_vars, Discussion
  PROVE  Talk'
<1>1. \A k \in Comment : k[1] \in Client
  BY DEF Comment
<1>2. ASSUME NEW c \in Client, server' = server,
             Local(c)', Heeded(c)', \A k \in Comment : k[1] = c => Counted(k)',
             \A d \in Client \ {c} :
               /\ note'[d] = note[d] /\ actions'[d] = actions[d] /\ edit'[d] = edit[d]
               /\ made'[d] = made[d] /\ pc'[d] = pc[d] /\ batch'[d] = batch[d]
               /\ got'[d] = got[d] /\ request'[d] = request[d]
      PROVE  Talk'
  <2>1. \A d \in Client \ {c} : Local(d)' /\ Heeded(d)'
    BY <1>2, Elsewhere DEF Talk
  <2>2. ASSUME NEW k \in Comment, k[1] # c PROVE Counted(k)'
    <3>1. k[1] \in Client /\ (Taken(k[1])' <=> Taken(k[1]))
      BY <1>1, <1>2, <2>2 DEF Taken
    <3> QED BY <1>2, <2>2, <3>1, CountedElsewhere DEF Talk
  <2> QED BY <1>2, <2>1, <2>2 DEF Talk, There
<1>3. ASSUME NEW c \in Client, User(c) PROVE Talk'
  BY <1>2, <1>3, UserFrame, ChangeTalks, RecordTalks
<1>4. ASSUME NEW c \in Client, Task(c) PROVE Talk'
  <2>1. CASE Handle(c) \/ UpdateChecksum(c)
    BY <2>1, HandleTalks, GoingOnTalks
  <2>2. CASE Receive(c)
    <3>1. server' = server
      BY <2>2 DEF Receive, serverVars
    <3>2. \A d \in Client \ {c} : request'[d] = request[d]
      BY <2>2, Received
    <3> QED BY <1>2, <1>4, <2>2, <3>1, <3>2, TaskFrame, ReceiveTalks
  <2>3. CASE Confirm(c) \/ GetBulk(c) \/ SetBulk(c)
    <3>1. server' = server /\ request' = request
      BY <2>3 DEF Confirm, GetBulk, SetBulk, serverVars
    <3> QED BY <1>2, <1>4, <2>3, <3>1, TaskFrame, ConfirmTalks, StoreTalks
  <2>4. CASE /\ ~(Receive(c) \/ Handle(c) \/ UpdateChecksum(c))
              /\ ~(Confirm(c) \/ GetBulk(c) \/ SetBulk(c))
    <3>1. /\ UNCHANGED <<server, request, actions, edit, made>>
          /\ note'[c].fields.status = note[c].fields.status
          /\ note'[c].fields.passages = note[c].fields.passages
          /\ pc[c] \notin {"wait", "ack"} /\ pc'[c] \notin {"wait", "ack", "save", "erase"}
      BY <1>4, <2>4, QuietTasks
    <3>2. Local(c)' /\ Heeded(c)' /\ \A k \in Comment : k[1] = c => Counted(k)'
      BY <3>1, QuietTalks
    <3> QED BY <1>2, <1>4, <3>1, <3>2, TaskFrame
  <2> QED BY <2>1, <2>2, <2>3, <2>4
<1>5. ASSUME server'.fields = server.fields, There',
             UNCHANGED <<note, actions, edit, made, pc, batch, got, request>>
      PROVE  Talk'
  <2>1. \A d \in Client : Local(d)' /\ Heeded(d)'
    BY <1>5, Elsewhere DEF Talk
  <2>2. ASSUME NEW k \in Comment PROVE Counted(k)'
    <3>1. k[1] \in Client /\ (Taken(k[1])' <=> Taken(k[1]))
      BY <1>1, <1>5 DEF Taken
    <3> QED BY <1>5, <3>1, CountedElsewhere DEF Talk
  <2> QED BY <1>5, <2>1, <2>2 DEF Talk
<1>6. CASE Reindex
  BY <1>5, <1>6, ReindexFrame, ReindexOnServer DEF Talk, There
<1> QED BY <1>3, <1>4, <1>5, <1>6, Steps DEF Talk, There

\* In a discussion every comment gets to the server once: its row, or the
\* change that is just being made, says whether it is still to come.
THEOREM CommentsArriveOnce == ASSUME Discussion PROVE Spec => []CommentsOnce
<1>1. "server" \notin Hazard
  BY DEF Discussion
<1>2. Init => Basic /\ Orderly /\ Talk
  BY InitIsBasic, InitIsOrderly, InitIsTalk
<1>3. Basic /\ Orderly /\ Talk /\ [Next]_vars => Basic' /\ Orderly' /\ Talk'
  BY <1>1, StepIsBasic, StepIsOrderly, StepTalks
<1>4. Talk => CommentsOnce
  BY DEF Talk, Counted, CommentsOnce
<1> QED BY <1>2, <1>3, <1>4, PTL DEF Spec

\* And where one user sets the status, the server has it, or has reopened the
\* note, or it is to be sent, also if the user sets it while the task stores
\* what it downloaded.
THEOREM StatusComes == ASSUME Discussion PROVE Spec => []StatusArrives
<1>1. "server" \notin Hazard
  BY DEF Discussion
<1>2. Init => Basic /\ Orderly /\ Talk
  BY InitIsBasic, InitIsOrderly, InitIsTalk
<1>3. Basic /\ Orderly /\ Talk /\ [Next]_vars => Basic' /\ Orderly' /\ Talk'
  BY <1>1, StepIsBasic, StepIsOrderly, StepTalks
<1>4. Talk => StatusArrives
  BY DEF Talk, Heeded, StatusArrives
<1> QED BY <1>2, <1>3, <1>4, PTL DEF Spec
=============================================================================
