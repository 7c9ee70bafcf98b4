----------------------------- MODULE SharedBible -----------------------------
(***************************************************************************)
(* What send/receive of Bibles promises its users, without the tasks,      *)
(* requests and recorded actions by which it does so.  There is one shared *)
(* Bible, and everyone has a copy of it.  Each verse has one translator,   *)
(* whose later wordings have higher numbers.                               *)
(*                                                                         *)
(* A translator's own verses only move forward: in the copy when the       *)
(* translator saves, and then in the shared Bible, to a wording that the   *)
(* translator did save.  The verses of the others come from the shared     *)
(* Bible.  Nothing else ever happens to any verse.                         *)
(***************************************************************************)
EXTENDS Integers

CONSTANTS
  Client,   \* The clients, each with its sole user.
  Chapter,  \* The chapters of a book.
  Verse,    \* The verses that have one translator.
  Mine,     \* For each client the verses of its user.
  Absent    \* The wording of a verse in a chapter that is not there.

VARIABLES
  shared,  \* The shared Bible: the wording of each verse of a chapter.
  copy     \* Each client's copy of it.

vars == <<shared, copy>>

Init ==
  \A c \in Client, ch \in Chapter, v \in Verse :
    copy[c][ch][v] \in {Absent, shared[ch][v]}

\* Nothing else changes than this chapter of this client's copy.
ChangesCopy(c, ch) ==
  /\ \A d \in Client, other \in Chapter :
       <<d, other>> # <<c, ch>> => copy'[d][other] = copy[d][other]
  /\ UNCHANGED shared

\* The user saves a chapter, with what the editor had of the others' verses.
Edit(c, ch) ==
  /\ ChangesCopy(c, ch)
  /\ \A v \in Mine[c] : copy'[c][ch][v] >= copy[c][ch][v]
  /\ \A v \in Verse \ Mine[c] : copy'[c][ch][v] <= shared[ch][v]

\* The user's own verses of a chapter get to the shared Bible.
Publish(c, ch) ==
  /\ \A other \in Chapter \ {ch} : shared'[other] = shared[other]
  /\ \A v \in Mine[c] : shared'[ch][v] \in shared[ch][v]..copy[c][ch][v]
  /\ \A v \in Verse \ Mine[c] : shared'[ch][v] = shared[ch][v]
  /\ UNCHANGED copy

\* The others' verses of a chapter get to the client's copy, and if the chapter
\* was not there, its user's own too.
Fetch(c, ch) ==
  /\ ChangesCopy(c, ch)
  /\ \A v \in Mine[c] :
       copy'[c][ch][v] = IF copy[c][ch][v] = Absent THEN shared[ch][v] ELSE copy[c][ch][v]
  /\ \A v \in Verse \ Mine[c] : copy'[c][ch][v] \in copy[c][ch][v]..shared[ch][v]

Next ==
  \E c \in Client, ch \in Chapter : Edit(c, ch) \/ Publish(c, ch) \/ Fetch(c, ch)

Spec == Init /\ [][Next]_vars
=============================================================================
