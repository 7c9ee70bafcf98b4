--------------------------- MODULE MCSettingsSync ---------------------------
(***************************************************************************)
(* An instance of SettingsSync for TLC: a user with a desktop and a phone. *)
(***************************************************************************)
EXTENDS SettingsSync

CONSTANTS desktop, phone

DesktopAndPhone == {desktop, phone}
JustDesktop == {desktop}

\* The workspace and the resources, and a font that comes from the Cloud.
TwoSettings == {1, 2}
ThreeSettings == {1, 2, 3}
Own == {1}
OwnTwo == {1, 2}
=============================================================================
