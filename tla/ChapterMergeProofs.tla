------------------------- MODULE ChapterMergeProofs -------------------------
(***************************************************************************)
(* What the three-way merge of a chapter promises, verse by verse, for any *)
(* chapter and any wordings.                                               *)
(***************************************************************************)
EXTENDS ChapterMerge, TLAPS

\* The result of filter_merge_run (kernel/filter/merge.cpp) is a chapter, with
\* all verses, whatever the base is and even if one side is empty.
THEOREM MergeType ==
  ASSUME NEW base, NEW change \in Text \union {NoText}, NEW prio \in Text
  PROVE  Merge(base, change, prio) \in Text
<1>1. BlankChapter \in Text
  BY DEF BlankChapter, Blank, Text
<1>2. CASE change = NoText
  BY <1>1, <1>2 DEF Merge
<1>3. CASE change # NoText
  <2>1. \A v \in Verse : Prioritized(base, change, prio, v) \in Nat
    BY <1>3 DEF Prioritized, Text
  <2> QED BY <2>1, <1>3 DEF Merge, Text
<1> QED BY <1>2, <1>3

\* Where the two sides do not contradict each other in any verse, the merge has
\* the changes of both: none of two translators' work is lost.
THEOREM MergeHasBoth ==
  ASSUME NEW base \in Text, NEW change \in Text, NEW prio \in Text,
         \A v \in Verse : ~VerseConflict(base, change, prio, v),
         NEW v \in Verse
  PROVE  Merge(base, change, prio)[v] = IF change[v] # base[v] THEN change[v] ELSE prio[v]
<1>1. base # NoText /\ change # NoText /\ prio # NoText
  BY NoTextAssumption
<1>2. Prioritized(base, change, prio, v) = prio[v]
  BY DEF Prioritized, Clever
<1>3. ~VerseConflict(base, change, prio, v)
  OBVIOUS
<1> QED BY <1>1, <1>2, <1>3 DEF Merge, VerseConflict, VerseText

\* In a conflict the prioritized side wins, unless it lost the verse's text.
THEOREM MergePrioritizes ==
  ASSUME NEW base \in Text, NEW change \in Text, NEW prio \in Text,
         NEW v \in Verse, VerseConflict(base, change, prio, v),
         prio[v] # Blank
  PROVE  Merge(base, change, prio)[v] = prio[v]
<1>1. base # NoText /\ change # NoText /\ prio # NoText
  BY NoTextAssumption
<1>2. Prioritized(base, change, prio, v) = prio[v]
  BY DEF Prioritized
<1> QED BY <1>1, <1>2 DEF Merge, VerseConflict, VerseText

\* A verse that the prioritized side did not touch gets the change, whatever
\* conflicts there are in other verses.
THEOREM MergeTakesChange ==
  ASSUME NEW base \in Text, NEW change \in Text, NEW prio \in Text,
         NEW v \in Verse, base[v] = prio[v]
  PROVE  Merge(base, change, prio)[v] = change[v]
<1>1. base # NoText /\ change # NoText
  BY NoTextAssumption
<1>2. base[v] \in Nat /\ prio[v] \in Nat
  BY DEF Text
<1>3. Prioritized(base, change, prio, v) = prio[v]
  BY <1>1, <1>2 DEF Prioritized, VerseText, Blank
<1> QED BY <1>1, <1>3 DEF Merge, VerseText

\* A verse of which the prioritized side has the latest wording keeps it,
\* whatever conflicts there are in other verses.
THEOREM MergeKeepsLatest ==
  ASSUME NEW base \in Text, NEW change \in Text, NEW prio \in Text,
         NEW v \in Verse, base[v] <= change[v], change[v] <= prio[v]
  PROVE  Merge(base, change, prio)[v] = prio[v]
<1>1. base # NoText /\ change # NoText
  BY NoTextAssumption
<1>2. base[v] \in Nat /\ change[v] \in Nat /\ prio[v] \in Nat
  BY DEF Text
<1>3. Prioritized(base, change, prio, v) = prio[v]
  BY <1>1, <1>2 DEF Prioritized, VerseText, Blank
<1> QED BY <1>1, <1>2, <1>3 DEF Merge, VerseText
=============================================================================
