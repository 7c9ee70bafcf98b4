---------------------------- MODULE ChapterMerge ----------------------------
(***************************************************************************)
(* The text of one Bible chapter, and the three-way merge that client and  *)
(* server run on it (kernel/filter/merge.cpp).                             *)
(*                                                                         *)
(* A chapter is the function from its verses to what stands in each verse. *)
(* The words of a verse are abstracted to a number: 0 is a verse that is   *)
(* there without any text, a larger number is a later wording.  NoText is  *)
(* the empty string, which the code reads as "there is no such chapter".   *)
(*                                                                         *)
(* The code merges lines, then words, then graphemes, and only on a        *)
(* conflict in all three goes verse by verse.  Edits of two different      *)
(* verses have unchanged text between them ("\v 2") and never conflict;    *)
(* two different edits of one verse are taken to conflict at every grain.  *)
(***************************************************************************)
EXTENDS Integers

CONSTANTS Verse, NoText

Text == [Verse -> Nat]

ASSUME NoTextAssumption == NoText \notin Text

Blank == 0
Absent == -1

\* The chapter as it stands before anybody translated anything.
BlankChapter == [v \in Verse |-> Blank]

\* The text of a verse: nothing if there is no chapter to take it from.
VerseText(text, v) == IF text = NoText THEN Absent ELSE text[v]

\* The two changes of this verse contradict each other.
VerseConflict(base, change, prio, v) ==
  /\ VerseText(change, v) # VerseText(base, v)
  /\ VerseText(prio, v) # VerseText(base, v)
  /\ VerseText(change, v) # VerseText(prio, v)

\* The lines, words and graphemes failed to merge: the clever routine runs.
Clever(base, change, prio) ==
  \E v \in Verse : VerseConflict(base, change, prio, v)

\* The clever routine takes the change where the prioritized text lost its verse.
Prioritized(base, change, prio, v) ==
  IF /\ Clever(base, change, prio)
     /\ prio[v] = Blank
     /\ VerseText(base, v) > Blank
     /\ VerseText(change, v) > Blank
  THEN change[v]
  ELSE prio[v]

(***************************************************************************)
(* The merge of 'change' into 'prio', which wins a conflict.  The callers  *)
(* pass a prioritized text that is not empty.  The clever routine goes     *)
(* over the verses of 'change', so an empty change leaves but the header.  *)
(***************************************************************************)
Merge(base, change, prio) ==
  IF change = NoText
  THEN BlankChapter
  ELSE [v \in Verse |->
          IF VerseText(base, v) = Prioritized(base, change, prio, v)
          THEN change[v]
          ELSE Prioritized(base, change, prio, v)]
=============================================================================
