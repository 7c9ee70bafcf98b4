---------------------------- MODULE MCNotesSync ----------------------------
(***************************************************************************)
(* Instances of NotesSync for TLC: Ann and Bob discuss a note, each on a   *)
(* client.                                                                 *)
(***************************************************************************)
EXTENDS NotesSync, TLC

CONSTANTS ann, bob

AnnAndBob == {ann, bob}
JustAnn == {ann}
Nobody == {}

\* Ann minds the status, and both comment on the note.
Discuss == (ann :> {"comment", "status"}) @@ (bob :> {"comment"})

\* Ann changes the passages, Bob changes the status or erases the note.
Various == (ann :> {"passages"}) @@ (bob :> {"status", "delete"})
Statuses == [c \in Client |-> {"status"}]

\* Ann creates the note and minds its status and passages, Bob erases it.
Lifetime == (ann :> {"status", "passages"}) @@ (bob :> {"delete"})
=============================================================================
