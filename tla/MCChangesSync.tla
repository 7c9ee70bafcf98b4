---------------------------- MODULE MCChangesSync ----------------------------
(***************************************************************************)
(* An instance of ChangesSync for TLC: a user with a desktop.              *)
(***************************************************************************)
EXTENDS ChangesSync

CONSTANTS desktop

JustDesktop == {desktop}
=============================================================================
