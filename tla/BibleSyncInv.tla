----------------------------- MODULE BibleSyncInv -----------------------------
(***************************************************************************)
(* The inductive invariant of BibleSync.  It holds where none of the       *)
(* windows is hit and no answer gets lost (Calm), for a book of which the  *)
(* server has all chapters (AllOnServer).  It is why the properties of     *)
(* BibleSync hold there, and BibleSyncProofs proves so.                    *)
(*                                                                         *)
(* SoundInv holds with every hazard.  BroughtInv is why the chapters that  *)
(* a client brings along stay on it, whatever the server has.              *)
(***************************************************************************)
EXTENDS BibleSync

Calm == Hazard \subseteq {"quit", "restart"}
AllOnServer == OnServer = Chapter

\* The verses that somebody else alone edits.
Theirs(c) == {v \in Verse : \E d \in Client \ {c} : Author[v] = {d}}

\* The task is dealing with an action that it read: till it is cleared,
\* the send confirmed, or the action restored.
Holding(c) == pc[c] = "clear" \/ Underway(c)
Getting(c) == pc[c] \in {"check", "store", "read", "merge", "put"}

\* Which texts are there, and no base is ever empty.
Present ==
  /\ TypeOK
  /\ server \in [Chapter -> Text]
  /\ \A c \in Client :
       /\ \A ch \in Chapter :
            /\ action[c][ch] # NoText
            /\ action[c][ch] # NoAction => text[c][ch] # NoText
       /\ edit[c] # NoEdit => text[c][edit[c].chapter] # NoText
       /\ Holding(c) => /\ text[c][job[c]] # NoText
                        /\ old[c] # NoText
                        /\ new[c] # NoText
       /\ Getting(c) => got[c] # NoText

\* What the task remembers while others may write.
Remembers(c) ==
  /\ pc[c] = "send" \/ Holding(c) => \A ch \in todo[c] : action[c][ch] # NoAction
  /\ Holding(c) => job[c] \notin todo[c]
  /\ pc[c] = "clear" => /\ action[c][job[c]] = old[c]
                        /\ text[c][job[c]] = new[c]
                        /\ ~Storing(c, job[c])
  /\ pc[c] = "record" => action[c][job[c]] = NoAction
  /\ pc[c] \in {"read", "merge", "put"} => /\ action[c][job[c]] = old[c]
                                           /\ old[c] # NoText
  /\ pc[c] \in {"merge", "put"} => new[c] = text[c][job[c]]
  /\ edit[c] # NoEdit /\ edit[c].recorded =>
       \/ action[c][edit[c].chapter] # NoAction
       \/ pc[c] = "record" /\ job[c] = edit[c].chapter

\* The server is handling what the client waits for, each chapter once.
Handled(c) ==
  /\ pc[c] = "wait" <=> request[c] # NoRequest
  /\ request[c] # NoRequest =>
       /\ request[c] = [chapter |-> job[c], old |-> old[c], new |-> new[c],
                        seen |-> server[job[c]]]
       /\ c \in Writer
       /\ \A d \in Client \ {c} : request[d] # NoRequest => job[d] # job[c]

\* The base of a chapter is not newer than what the client has.
Ordered(c, v) ==
  /\ \A ch \in Chapter : action[c][ch] # NoAction => action[c][ch][v] <= text[c][ch][v]
  /\ edit[c] # NoEdit =>
       IF edit[c].recorded
       THEN action[c][edit[c].chapter] # NoAction =>
              action[c][edit[c].chapter][v] <= edit[c].text[v]
       ELSE text[c][edit[c].chapter][v] <= edit[c].text[v]
  /\ Holding(c) =>
       /\ old[c][v] <= new[c][v]
       /\ old[c][v] <= text[c][job[c]][v]
       /\ edit[c] # NoEdit /\ edit[c].chapter = job[c] => old[c][v] <= edit[c].text[v]

\* Nobody has a newer wording of another's verse than the server.
Behind(c, v) ==
  /\ \A ch \in Chapter : text[c][ch] # NoText => text[c][ch][v] <= server[ch][v]
  /\ edit[c] # NoEdit => edit[c].text[v] <= server[edit[c].chapter][v]
  /\ Holding(c) => new[c][v] <= server[job[c]][v]
  /\ Getting(c) =>
       /\ got[c][v] <= server[job[c]][v]
       /\ text[c][job[c]] # NoText => text[c][job[c]][v] <= got[c][v]
       /\ edit[c] # NoEdit /\ edit[c].chapter = job[c] => edit[c].text[v] <= got[c][v]

\* The server has the wording of one's own verse that the base says it has.
Known(c, v) ==
  /\ \A ch \in Chapter : text[c][ch] # NoText /\ ~(Underway(c) /\ job[c] = ch) =>
       IF action[c][ch] = NoAction
       THEN text[c][ch][v] = server[ch][v]
       ELSE action[c][ch][v] = server[ch][v]
  /\ pc[c] \in {"post", "wait", "restore", "record"} => old[c][v] = server[job[c]][v]
  /\ pc[c] = "ack" => new[c][v] = server[job[c]][v]
  /\ pc[c] \in {"post", "wait", "ack"} =>
       IF action[c][job[c]] = NoAction
       THEN text[c][job[c]][v] = new[c][v]
       ELSE action[c][job[c]][v] = new[c][v]
  /\ Getting(c) => got[c][v] = server[job[c]][v]
  /\ pc[c] = "store" /\ text[c][job[c]] # NoText => text[c][job[c]][v] = got[c][v]

IInv ==
  /\ Present
  /\ \A c \in Client :
       /\ Remembers(c)
       /\ Handled(c)
       /\ \A v \in Own(c) \union Theirs(c) : Ordered(c, v)
       /\ \A v \in Theirs(c) : Behind(c, v)
       /\ \A v \in Own(c) : Known(c, v)
-----------------------------------------------------------------------------
(* What holds whatever the surroundings do: a task is never given a chapter *)
(* that is not there, and what the server has it keeps.                     *)

Sound(c) ==
  /\ pc[c] = "walk" \/ Getting(c) => \A ch \in todo[c] : server[ch] # NoText
  /\ Getting(c) => server[job[c]] # NoText /\ got[c] # NoText
  /\ Underway(c) => new[c] # NoText
  /\ pc[c] \in {"restore", "record"} => failed[c]
  /\ pc[c] = "wait" => request[c] # NoRequest /\ request[c].chapter = job[c]
  /\ request[c] # NoRequest /\ request[c].seen # NoText =>
       server[request[c].chapter] # NoText

SoundInv ==
  /\ TypeOK
  /\ \A c \in Client : Sound(c)
-----------------------------------------------------------------------------
(* The chapters that a client brings along: until the server has one, each  *)
(* of its wordings leaves something to send, and the flag that the client   *)
(* just connected does not go before all of that is sent.                   *)

\* There was nothing, or an earlier wording.
NotAfter(a, b) == \A v \in Verse : a[v] <= b[v]
Older(a, b) == a = NoText \/ (a # b /\ NotAfter(a, b))

OnItsWay(c, ch) ==
  /\ action[c][ch] # NoAction =>
       \/ Older(action[c][ch], text[c][ch])
       \/ Storing(c, ch) /\ action[c][ch] = text[c][ch]
  /\ edit[c] # NoEdit /\ edit[c].chapter = ch => Older(text[c][ch], edit[c].text)
  /\ Holding(c) /\ job[c] = ch =>
       /\ pc[c] # "ack"
       /\ new[c] # NoText /\ Older(old[c], new[c]) /\ NotAfter(new[c], text[c][ch])
  /\ pc[c] = "walk" \/ Getting(c) => first[c] /\ action[c][ch] # NoAction
  /\ ~first[c] =>
       /\ Carried(c, ch)
       /\ pc[c] # "list"
       /\ pc[c] = "send" \/ Holding(c) =>
            ch \in todo[c] \/ failed[c] \/ (Holding(c) /\ job[c] = ch)

Brought(c, ch) ==
  /\ text[c][ch] # NoText
  /\ server[ch] = NoText => OnItsWay(c, ch)

\* No save hits the window in which an action is cleared, or puts an earlier
\* wording back, the clients are not stopped, and the server accepts what those
\* who connect send.
Undisturbed ==
  /\ Hazard \intersect {"clear", "revert", "quit", "crash"} = {}
  /\ Connecting \subseteq Writer

BroughtInv ==
  /\ SoundInv
  /\ \A c \in Connecting : \A ch \in OnClient[c] : Brought(c, ch)
-----------------------------------------------------------------------------
(* What send/receive does to the verses that have one translator, seen     *)
(* without its tasks, requests and actions.                                *)

OwnVerses == UNION {Own(c) : c \in Client}

SharedText(ch) == [v \in OwnVerses |-> VerseText(server[ch], v)]
CopyText(c, ch) == [v \in OwnVerses |-> VerseText(text[c][ch], v)]

Shared == INSTANCE SharedBible WITH
  Verse <- OwnVerses,
  Mine <- [c \in Client |-> Own(c)],
  shared <- [ch \in Chapter |-> SharedText(ch)],
  copy <- [c \in Client |-> [ch \in Chapter |-> CopyText(c, ch)]]

\* Send/receive implements the shared Bible: whatever its steps, the verses of
\* a translator only change as that says.
ImplementsSharedBible == Shared!Spec

\* What the implementation rests on beside IInv: a user's save never takes an
\* own verse back, and what is being sent is not ahead of the client.
Forward(c, v) ==
  /\ edit[c] # NoEdit => text[c][edit[c].chapter][v] <= edit[c].text[v]
  /\ Holding(c) => new[c][v] <= text[c][job[c]][v]

IInvForward == IInv /\ \A c \in Client : \A v \in Own(c) : Forward(c, v)
=============================================================================
