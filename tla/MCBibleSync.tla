---------------------------- MODULE MCBibleSync ----------------------------
(***************************************************************************)
(* Instances of BibleSync for TLC: two translators on a client each, who   *)
(* share a Bible book through the Cloud.                                   *)
(***************************************************************************)
EXTENDS BibleSyncInv, TLC

CONSTANTS ann, bob

AnnAndBob == {ann, bob}
JustAnn == {ann}
Nobody == {}

TwoVerses == {1, 2}

\* Each translator has a verse, both have both, or Ann has both.
AuthorEach == (1 :> {ann}) @@ (2 :> {bob})
AuthorAnn == [v \in TwoVerses |-> {ann}]

OneChapter == {1}
TwoChapters == {1, 2}
AllOnClient == [c \in Client |-> Chapter]
OneOnClient == [c \in Client |-> {1}]
=============================================================================
