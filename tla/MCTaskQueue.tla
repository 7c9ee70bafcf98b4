---------------------------- MODULE MCTaskQueue ----------------------------
(***************************************************************************)
(* An instance of TaskQueue for TLC: the timer queues the synchronization  *)
(* of Bibles and of resources, and a web request queues a mail.            *)
(***************************************************************************)
EXTENDS TaskQueue

CONSTANTS timer, web, t1, t2, t3

OneWeb == {web}
ThreeThreads == {t1, t2, t3}

Kinds == {"bibles", "resources", "mail"}
Bibles == {"bibles"}
Resources == {"resources"}
AllButResources == {"bibles", "mail"}

AsksEach == (timer :> <<"bibles", "resources">>) @@ (web :> <<"mail">>)
=============================================================================
