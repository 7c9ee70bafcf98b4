-------------------------- MODULE ChangesSyncProofs --------------------------
(***************************************************************************)
(* What ChangesSync promises outside of its windows, proved for any        *)
(* clients and bounds.                                                     *)
(*                                                                         *)
(* Clients speak of a notification by its identifier, which may be given   *)
(* once more.  A notification that got a used identifier is hit; hence for *)
(* all others the identifier says which one it is, as long as whatever     *)
(* anybody has written down is at most the highest identifier ever given.  *)
(* Given and Genuine say that; Complete says that every list of removals   *)
(* that somebody has read, and will write, has all dismissals.             *)
(***************************************************************************)
EXTENDS ChangesSync, WellFoundedInduction, TLAPS

\* Dismissed on the client, and still on the server.
Lacking(c) == {id \in Id : cloud[id] \in gone[c] \ hit}

\* All identifiers that somebody takes for dismissed ones.
Dismissed(c) ==
  removed[c]
  \union Dismissing(c) \union (IF edit[c] = NoEdit THEN {} ELSE edit[c].seen)
  \union (IF pc[c] \in {"send", "ack", "unlist"} THEN todo[c] ELSE {})
  \union (IF pc[c] = "unlist" THEN seen[c] ELSE {})

\* Identifiers and notifications that were given, and one for each.  What has an
\* identifier that another user was given is another user's, gone, or hit.
Given ==
  /\ \A id \in Id : cloud[id] # None => id <= top /\ cloud[id] <= made
  /\ \A i, j \in Id : cloud[i] = cloud[j] /\ cloud[i] # None => i = j
  /\ \A n \in others : n <= made
  /\ \A id \in lent : id <= top /\ cloud[id] \in {None} \union others \union hit

\* A client has under an identifier what the server has, unless that is hit.
Coherent(c) ==
  /\ \A id \in Id : note[c][id] # None => id <= top
  /\ \A id \in news[c] : id <= top
  /\ \A i \in Id : note[c][i] \in Note =>
       note[c][i] <= made /\ \A j \in Id : note[c][i] = cloud[j] => i = j
  /\ \A id \in Id : note[c][id] # None /\ cloud[id] # None =>
       note[c][id] = cloud[id] \/ cloud[id] \in hit

\* What is taken for dismissed is so, or gone, or hit.
Genuine(c) ==
  /\ \A n \in gone[c] : n <= made
  /\ \A id \in Dismissed(c) : id <= top /\ cloud[id] \in {None} \union hit \union gone[c]
  /\ pc[c] \in {"ack", "unlist"} => /\ job[c] \in Id /\ job[c] <= top
                                    /\ cloud[job[c]] \in {None} \union hit

\* Each list that somebody has, or will write, has the dismissals.
Complete(c) ==
  /\ Lacking(c) \subseteq removed[c] \union Dismissing(c)
  /\ edit[c] # NoEdit /\ edit[c].step = "write" =>
       Lacking(c) \subseteq edit[c].seen \union {edit[c].id}
  /\ pc[c] = "unlist" => Lacking(c) \subseteq seen[c] \union Dismissing(c)

Local(c) == Coherent(c) /\ Genuine(c) /\ Complete(c)

\* A checksum that was calculated after the last change is true.
Due == due \subseteq {Mine}

IInv == TypeOK /\ Given /\ Due /\ SumIsTrue /\ \A c \in Client : Local(c)

-----------------------------------------------------------------------------
(* The next identifier *)

\* A bounded set of numbers has a greatest one.
LEMMA MaxIsGreatest ==
  ASSUME NEW n \in Nat, NEW S \in SUBSET (0..n), S # {}
  PROVE  Max(S) \in S /\ \A y \in S : y <= Max(S)
<1> DEFINE T == {n - x : x \in S}
<1>1. T \subseteq Nat /\ T # {}
  <2>1. \A x \in S : n - x \in Nat
    OBVIOUS
  <2>2. PICK x \in S : TRUE
    OBVIOUS
  <2> QED BY <2>1, <2>2
<1>2. PICK t \in T : \A u \in T : <<u, t>> \notin OpToRel(<, Nat)
  BY <1>1, WFMin, NatLessThanWellFounded
<1>3. PICK x \in S : t = n - x
  BY <1>2
<1>4. \A y \in S : y <= x
  <2> TAKE y \in S
  <2>1. n - y \in T /\ n - y \in Nat /\ t \in Nat
    BY <1>1
  <2>2. ~(n - y < t)
    BY <1>2, <2>1 DEF OpToRel
  <2> QED BY <1>3, <2>2
<1> HIDE DEF T
<1> QED BY <1>4 DEF Max

\* It is above all that are in use, and at most one above all that ever were.
LEMMA NextIsFree ==
  ASSUME TypeOK, Given
  PROVE  /\ NextIdentifier \in 1..(top + 1)
         /\ \A id \in Ids(cloud) : id < NextIdentifier
<1>1. top \in Nat /\ Ids(cloud) \union {0} \in SUBSET (0..top)
  BY ChangesSyncAssumption DEF TypeOK, Given, Ids, Id
<1>2. /\ Max(Ids(cloud) \union {0}) \in 0..top
      /\ \A y \in Ids(cloud) : y <= Max(Ids(cloud) \union {0})
  BY <1>1, MaxIsGreatest
<1>3. \A y \in Ids(cloud) : y \in Nat
  BY <1>1
<1> QED BY <1>1, <1>2, <1>3 DEF NextIdentifier

\* The highest identifier follows the next one, as long as there are any.
LEMMA TopFollows ==
  ASSUME TypeOK, Given, made + quits < MaxEvents
  PROVE  /\ NextIdentifier \in Id
         /\ Max({top, NextIdentifier}) \in 0..(made + 1)
         /\ top <= Max({top, NextIdentifier}) /\ NextIdentifier <= Max({top, NextIdentifier})
<1>1. top \in Nat /\ made \in Nat /\ top <= made /\ MaxEvents \in Nat /\ quits \in Nat
  BY ChangesSyncAssumption DEF TypeOK
<1>2. NextIdentifier \in 1..(top + 1)
  BY NextIsFree
<1>3. {top, NextIdentifier} \in SUBSET (0..(top + 1)) /\ top + 1 \in Nat
  BY <1>1, <1>2
<1>4. /\ Max({top, NextIdentifier}) \in {top, NextIdentifier}
      /\ \A y \in {top, NextIdentifier} : y <= Max({top, NextIdentifier})
  BY <1>3, MaxIsGreatest
<1> QED BY <1>1, <1>2, <1>4 DEF Id

-----------------------------------------------------------------------------
(* Types *)

\* The types hold at the start.
LEMMA InitIsTyped == Init => TypeOK
<1> SUFFICES ASSUME Init PROVE TypeOK
  OBVIOUS
<1>1. /\ cloud \in [Id -> {None} \union Note] /\ sum \in (SUBSET Id) \union {NoSum}
      /\ clearing \subseteq Id /\ due \subseteq SUBSET Id /\ old \subseteq SUBSET Id
      /\ late \in BOOLEAN /\ torn \subseteq Client
  BY DEF Init
<1>2. /\ note \in [Client -> [Id -> {None, Blank} \union Note]]
      /\ own \in [Client -> (SUBSET Id) \union {NoSum}]
      /\ removed \in [Client -> SUBSET Id] /\ edit \in [Client -> Edits \union {NoEdit}]
  BY DEF Init
<1>3. /\ pc \in [Client -> PC] /\ todo \in [Client -> SUBSET Id]
      /\ news \in [Client -> SUBSET Id] /\ job \in [Client -> Id \union {0}]
      /\ seen \in [Client -> SUBSET Id] /\ answer \in [Client -> SUBSET Id]
      /\ failed \in [Client -> BOOLEAN]
  BY DEF Init, PC
<1>4. /\ made \in 0..MaxEvents /\ top \in 0..made /\ quits \in 0..(MaxEvents - made)
      /\ others \subseteq Note /\ lent \subseteq Id
      /\ gone \in [Client -> SUBSET Note] /\ hit \subseteq Note
  BY ChangesSyncAssumption DEF Init
<1> QED BY <1>1, <1>2, <1>3, <1>4 DEF TypeOK

\* What a dismissal has written down are identifiers.
LEMMA EditIsTyped ==
  ASSUME TypeOK, NEW c \in Client, edit[c] # NoEdit
  PROVE  /\ edit[c] \in Edits /\ edit[c].seen \subseteq Id
         /\ edit[c].step \in {"read", "write", "clear"}
         /\ edit[c].step # "clear" => edit[c].id \in Id
<1>1. edit[c] \in Edits
  BY DEF TypeOK
<1> QED BY <1>1 DEF Edits

\* The end of a task leaves values of the right types.
LEMMA EndIsTyped ==
  ASSUME TypeOK, NEW c \in Client, EndTask(c)
  PROVE  /\ pc' \in [Client -> PC] /\ todo' \in [Client -> SUBSET Id]
         /\ news' \in [Client -> SUBSET Id] /\ job' \in [Client -> Id \union {0}]
         /\ seen' \in [Client -> SUBSET Id] /\ answer' \in [Client -> SUBSET Id]
         /\ failed' \in [Client -> BOOLEAN]
BY DEF TypeOK, EndTask, To, PC

\* So does a removal on the server, ...
LEMMA RemovalIsTyped ==
  ASSUME TypeOK, NEW id \in Id, RemoveThere(id)
  PROVE  /\ cloud' \in [Id -> {None} \union Note] /\ clearing' \subseteq Id
         /\ due' \subseteq SUBSET Id /\ old' \subseteq SUBSET Id
BY DEF TypeOK, RemoveThere, Overtake

\* ... and an identifier is to be dismissed.
LEMMA DismissingIsTyped ==
  ASSUME TypeOK, NEW c \in Client
  PROVE  Dismissing(c) \subseteq Id
BY EditIsTyped DEF Dismissing

\* Every step keeps the types.
LEMMA StepIsTyped == ASSUME TypeOK, Given, [Next]_vars PROVE TypeOK'
<1>1. ASSUME NEW c \in Client, Dismiss(c) PROVE TypeOK'
  <2>1. PICK id \in Id :
          /\ note' = [note EXCEPT ![c][id] = None]
          /\ edit' = [edit EXCEPT ![c] = [id |-> id, seen |-> {}, step |-> "read"]]
          /\ gone' = [gone EXCEPT ![c] = @ \union ({note[c][id]} \intersect Note)]
    BY <1>1 DEF Dismiss, Ids
  <2>2. note' \in [Client -> [Id -> {None, Blank} \union Note]]
    BY <2>1 DEF TypeOK
  <2>3. edit' \in [Client -> Edits \union {NoEdit}] /\ gone' \in [Client -> SUBSET Note]
    BY <2>1 DEF TypeOK, Edits
  <2> QED BY <1>1, <2>2, <2>3 DEF Dismiss, TypeOK, cloudVars, taskVars, givenVars
<1>2. ASSUME NEW c \in Client, ReadRemoved(c) PROVE TypeOK'
  <2>1. edit[c] \in [id : Id, seen : SUBSET Id, step : {"read", "write"}]
        /\ removed[c] \subseteq Id
    BY <1>2, EditIsTyped DEF ReadRemoved, TypeOK, Edits
  <2>2. [edit[c] EXCEPT !.seen = removed[c], !.step = "write"] \in Edits
    BY <2>1 DEF Edits
  <2>3. edit' = [edit EXCEPT ![c] = [edit[c] EXCEPT !.seen = removed[c], !.step = "write"]]
    BY <1>2 DEF ReadRemoved
  <2>4. edit' \in [Client -> Edits \union {NoEdit}]
    BY <2>2, <2>3 DEF TypeOK
  <2> QED BY <1>2, <2>4 DEF ReadRemoved, TypeOK, cloudVars, taskVars, ghostVars, givenVars
<1>3. ASSUME NEW c \in Client, WriteRemoved(c) PROVE TypeOK'
  <2>1. /\ edit[c].seen \union {edit[c].id} \subseteq Id
        /\ {cloud[edit[c].id]} \ {None} \subseteq Note
    BY <1>3, EditIsTyped DEF WriteRemoved, TypeOK
  <2>2. removed' \in [Client -> SUBSET Id] /\ hit' \subseteq Note
    BY <1>3, <2>1 DEF WriteRemoved, TypeOK
  <2>3. edit' \in [Client -> Edits \union {NoEdit}]
    BY <1>3 DEF WriteRemoved, TypeOK, Edits
  <2> QED BY <1>3, <2>2, <2>3 DEF WriteRemoved, TypeOK, cloudVars, taskVars, givenVars
<1>4. ASSUME NEW c \in Client, ClearOwn(c) PROVE TypeOK'
  <2>1. /\ own' \in [Client -> (SUBSET Id) \union {NoSum}]
        /\ edit' \in [Client -> Edits \union {NoEdit}]
    BY <1>4 DEF ClearOwn, TypeOK
  <2> QED BY <1>4, <2>1 DEF ClearOwn, TypeOK, cloudVars, taskVars, ghostVars, givenVars
<1>5. ASSUME NEW c \in Client, Quit(c) PROVE TypeOK'
  <2>1. gone' \in [Client -> SUBSET Note]
    BY <1>5 DEF Quit, TypeOK
  <2>2. quits' \in 0..(MaxEvents - made) /\ torn' \subseteq Client
    BY <1>5, ChangesSyncAssumption DEF Quit, TypeOK
  <2>3. edit' \in [Client -> Edits \union {NoEdit}]
    BY <1>5 DEF Quit, TypeOK
  <2>4. /\ EndTask(c)
        /\ UNCHANGED <<cloud, sum, clearing, due, old, note, own, removed, made, others, lent,
                       top, hit, late>>
    BY <1>5 DEF Quit, cloudVars, givenVars
  <2>5. /\ pc' \in [Client -> PC] /\ todo' \in [Client -> SUBSET Id]
        /\ news' \in [Client -> SUBSET Id] /\ job' \in [Client -> Id \union {0}]
        /\ seen' \in [Client -> SUBSET Id] /\ answer' \in [Client -> SUBSET Id]
        /\ failed' \in [Client -> BOOLEAN]
    BY <2>4, EndIsTyped
  <2> QED BY <2>1, <2>2, <2>3, <2>4, <2>5 DEF TypeOK
<1>6. ASSUME NEW c \in Client, Start(c) PROVE TypeOK'
  BY <1>6, ChangesSyncAssumption DEF TypeOK, Start, To, PC, cloudVars, userVars, ghostVars, givenVars
<1>7. ASSUME NEW c \in Client, SendFails(c) PROVE TypeOK'
  <2>1. todo' \in [Client -> SUBSET Id] /\ job' \in [Client -> Id \union {0}]
    <3>1. CASE pc[c] = "send"
      <4>1. PICK id \in todo[c] : todo' = [todo EXCEPT ![c] = @ \ {id}]
        BY <1>7, <3>1 DEF SendFails
      <4> QED BY <1>7, <4>1 DEF SendFails, TypeOK
    <3>2. CASE UNCHANGED todo
      BY <1>7, <3>2 DEF SendFails, TypeOK
    <3> QED BY <1>7, <3>1, <3>2 DEF SendFails
  <2>2. failed' \in [Client -> BOOLEAN]
    BY <1>7 DEF SendFails, TypeOK
  <2>3. pc' \in [Client -> PC]
    BY <1>7 DEF SendFails, TypeOK, To, PC
  <2> QED BY <1>7, <2>1, <2>2, <2>3 DEF SendFails, TypeOK, cloudVars, userVars, ghostVars, givenVars
<1>8. ASSUME NEW c \in Client, Unlist(c) PROVE TypeOK'
  BY <1>8, ChangesSyncAssumption DEF TypeOK, Unlist, To, PC, cloudVars, ghostVars, givenVars
<1>9. ASSUME NEW c \in Client, SendDone(c) PROVE TypeOK'
  BY <1>9, ChangesSyncAssumption, EndIsTyped DEF TypeOK, SendDone, To, PC, cloudVars,
     userVars, ghostVars, givenVars
<1>10. ASSUME NEW c \in Client, ReceiveRemoval(c) PROVE TypeOK'
  <2>1. PICK id \in todo[c] : /\ RemoveThere(id) /\ job' = [job EXCEPT ![c] = id]
                             /\ todo' = [todo EXCEPT ![c] = @ \ {id}]
    BY <1>10 DEF ReceiveRemoval
  <2>2. id \in Id
    BY <2>1 DEF TypeOK
  <2>3. /\ cloud' \in [Id -> {None} \union Note] /\ clearing' \subseteq Id
        /\ due' \subseteq SUBSET Id /\ old' \subseteq SUBSET Id
    BY <2>1, <2>2, RemovalIsTyped
  <2>4. /\ job' \in [Client -> Id \union {0}] /\ todo' \in [Client -> SUBSET Id]
        /\ pc' \in [Client -> PC]
    BY <1>10, <2>1, <2>2 DEF ReceiveRemoval, TypeOK, To, PC
  <2> QED BY <1>10, <2>3, <2>4 DEF ReceiveRemoval, TypeOK, userVars, ghostVars, givenVars
<1>11. ASSUME NEW c \in Client, Confirmed(c) PROVE TypeOK'
  BY <1>11, ChangesSyncAssumption DEF TypeOK, Confirmed, To, PC, cloudVars, userVars, ghostVars, givenVars
<1>12. ASSUME NEW c \in Client, OwnSum(c) PROVE TypeOK'
  <2>1. pc' \in [Client -> PC]
    BY <1>12 DEF OwnSum, TypeOK, To, PC
  <2>2. seen' \in [Client -> SUBSET Id]
    <3>1. own[c] # NoSum => own[c] \subseteq Id
      BY DEF TypeOK
    <3> QED BY <1>12, <3>1 DEF OwnSum, TypeOK, Ids
  <2> QED BY <1>12, <2>1, <2>2 DEF OwnSum, TypeOK, cloudVars, userVars, ghostVars, givenVars
<1>13. ASSUME NEW c \in Client, CacheOwn(c) PROVE TypeOK'
  BY <1>13, ChangesSyncAssumption DEF TypeOK, CacheOwn, To, PC, cloudVars, ghostVars, givenVars
<1>14. ASSUME NEW c \in Client, SumArrives(c) PROVE TypeOK'
  <2>1. pc' \in [Client -> PC]
    BY <1>14 DEF SumArrives, TypeOK, To, PC
  <2> QED BY <1>14, <2>1 DEF SumArrives, TypeOK, cloudVars, userVars, ghostVars, givenVars
<1>15. ASSUME NEW c \in Client, Compare(c) PROVE TypeOK'
  <2>1. CASE EndTask(c)
    BY <1>15, <2>1, EndIsTyped DEF Compare, TypeOK, cloudVars, userVars, ghostVars, givenVars
  <2>2. CASE seen[c] # answer[c]
    <3>1. pc' \in [Client -> PC]
      BY <1>15, <2>2 DEF Compare, TypeOK, To, PC
    <3>2. Ids(note[c]) \in SUBSET Id
      BY DEF Ids
    <3>3. seen' \in [Client -> SUBSET Id]
      BY <1>15, <2>2, <3>2 DEF Compare, TypeOK
    <3>4. answer' \in [Client -> SUBSET Id]
      BY <1>15, <2>2 DEF Compare, TypeOK
    <3> QED BY <1>15, <2>2, <3>1, <3>3, <3>4 DEF Compare, TypeOK, cloudVars, userVars, ghostVars, givenVars
  <2> QED BY <1>15, <2>1, <2>2 DEF Compare
<1>16. ASSUME NEW c \in Client, RemoveHere(c) PROVE TypeOK'
  <2>1. note' \in [Client -> [Id -> {None, Blank} \union Note]]
    BY <1>16 DEF RemoveHere, TypeOK
  <2>2. todo' \in [Client -> SUBSET Id] /\ pc' \in [Client -> PC]
    BY <1>16 DEF RemoveHere, TypeOK, To, PC
  <2> QED BY <1>16, <2>1, <2>2 DEF RemoveHere, TypeOK, cloudVars, ghostVars, givenVars
<1>17. ASSUME NEW c \in Client, ReceiveDone(c) PROVE TypeOK'
  BY <1>17, ChangesSyncAssumption, EndIsTyped DEF TypeOK, ReceiveDone, cloudVars, userVars,
     ghostVars, givenVars
<1>18. ASSUME NEW c \in Client, AskSum(c) PROVE TypeOK'
  <2>1. pc' \in [Client -> PC]
    BY <1>18 DEF AskSum, TypeOK, To, PC
  <2>2. answer' \in [Client -> SUBSET Id] /\ due' \subseteq SUBSET Id
    <3>1. (sum # NoSum => sum \subseteq Id) /\ Mine \subseteq Id
      BY DEF TypeOK, Mine
    <3>2. \/ answer' = [answer EXCEPT ![c] = Mine] /\ due' = due \union {Mine}
          \/ sum # NoSum /\ answer' = [answer EXCEPT ![c] = sum] /\ due' = due
      BY <1>18 DEF AskSum
    <3>3. PICK s \in SUBSET Id :
            answer' = [answer EXCEPT ![c] = s] /\ due' \in {due, due \union {s}}
      BY <3>1, <3>2
    <3> QED BY <3>3 DEF TypeOK
  <2> QED BY <1>18, <2>1, <2>2 DEF AskSum, TypeOK, userVars, ghostVars, givenVars
<1>19. ASSUME NEW c \in Client, AskIds(c) PROVE TypeOK'
  BY <1>19, ChangesSyncAssumption DEF TypeOK, AskIds, To, PC, Mine, cloudVars, userVars,
     ghostVars, givenVars
<1>20. ASSUME NEW c \in Client, Downloads(c) PROVE TypeOK'
  <2>1. PICK id \in Id : Download(c, id)
    BY <1>20 DEF Downloads
  <2>2. note' \in [Client -> [Id -> {None, Blank} \union Note]]
    BY <2>1 DEF Download, TypeOK
  <2>3. news' \in [Client -> SUBSET Id] /\ pc' \in [Client -> PC]
    BY <2>1 DEF Download, TypeOK, To, PC
  <2> QED BY <2>1, <2>2, <2>3 DEF Download, TypeOK, cloudVars, ghostVars, givenVars
<1>21. ASSUME NEW c \in Client, Tidy(c) PROVE TypeOK'
  <2>1. /\ own' \in [Client -> (SUBSET Id) \union {NoSum}] /\ pc' \in [Client -> PC]
        /\ torn' \subseteq Client
    BY <1>21 DEF Tidy, TypeOK, To, PC
  <2> QED BY <1>21, <2>1 DEF Tidy, TypeOK, cloudVars, givenVars
<1>22. CASE DismissThere
  BY <1>22, RemovalIsTyped DEF DismissThere, Mine, TypeOK, userVars, taskVars, ghostVars, givenVars
<1>23. CASE ClearSum
  <2>1. sum' = NoSum /\ late' = FALSE /\ clearing' \subseteq Id
    BY <1>23 DEF ClearSum, TypeOK
  <2> QED BY <1>23, <2>1 DEF ClearSum, TypeOK, userVars, taskVars, givenVars
<1>24. CASE CacheSum
  <2>1. /\ sum' \in (SUBSET Id) \union {NoSum} /\ late' \in BOOLEAN
        /\ due' \subseteq SUBSET Id /\ old' \subseteq SUBSET Id
    BY <1>24 DEF CacheSum, TypeOK
  <2> QED BY <1>24, <2>1 DEF CacheSum, TypeOK, userVars, taskVars, givenVars
<1>25. CASE OthersDismiss
  <2>1. /\ cloud' \in [Id -> {None} \union Note] /\ late' \in BOOLEAN
        /\ due' \subseteq SUBSET Id /\ old' \subseteq SUBSET Id
    BY <1>25 DEF OthersDismiss, Overtake, TypeOK, Ids
  <2> QED BY <1>25, <2>1 DEF OthersDismiss, TypeOK, userVars, taskVars, givenVars
<1>26. CASE Restart
  <2>1. /\ quits' \in 0..(MaxEvents - made) /\ clearing' \subseteq Id /\ late' \in BOOLEAN
    BY <1>26, ChangesSyncAssumption DEF Restart, TypeOK
  <2>2. /\ pc' \in [Client -> PC] /\ failed' \in [Client -> BOOLEAN]
        /\ job' \in [Client -> Id \union {0}]
    BY <1>26 DEF Restart, TypeOK, PC
  <2> QED BY <1>26, <2>1, <2>2 DEF Restart, TypeOK, userVars, givenVars
<1>27. CASE Night
  <2>1. PICK expired \in SUBSET Ids(cloud), foreign \in BOOLEAN :
          \/ /\ made + quits < MaxEvents /\ made' = made + 1
             /\ cloud' = [Expire(cloud, expired) EXCEPT ![NextIdentifier] = made']
             /\ others' = IF foreign THEN others \union {made'} ELSE others
             /\ lent' = IF foreign THEN lent \union {NextIdentifier} ELSE lent
             /\ top' = Max({top, NextIdentifier})
             /\ hit' = IF NextIdentifier <= top THEN hit \union {made'} ELSE hit
          \/ cloud' = Expire(cloud, expired) /\ UNCHANGED <<made, others, lent, top, hit>>
    BY <1>27 DEF Night, givenVars
  <2>2. Expire(cloud, expired) \in [Id -> {None} \union Note]
    BY DEF Expire, TypeOK
  <2>3. /\ cloud' \in [Id -> {None} \union Note] /\ made' \in 0..MaxEvents
        /\ top' \in 0..made' /\ hit' \subseteq Note /\ quits \in 0..(MaxEvents - made')
        /\ others' \subseteq Note /\ lent' \subseteq Id
    <3>1. CASE made + quits < MaxEvents /\ made' = made + 1
      <4>1. /\ made' \in Note /\ made' \in 0..MaxEvents
            /\ quits \in 0..(MaxEvents - made')
        BY <3>1, ChangesSyncAssumption DEF Note, TypeOK
      <4>2. Max({top, NextIdentifier}) \in 0..made' /\ NextIdentifier \in Id
        BY <3>1, TopFollows
      <4>3. made' # made
        BY <3>1, ChangesSyncAssumption DEF TypeOK
      <4>4. /\ cloud' = [Expire(cloud, expired) EXCEPT ![NextIdentifier] = made']
            /\ top' = Max({top, NextIdentifier})
            /\ hit' = hit \/ hit' = hit \union {made'}
            /\ others' = others \/ others' = others \union {made'}
            /\ lent' = lent \/ lent' = lent \union {NextIdentifier}
        BY <2>1, <4>3
      <4> QED BY <2>2, <4>1, <4>2, <4>4 DEF TypeOK
    <3>2. CASE cloud' = Expire(cloud, expired) /\ UNCHANGED <<made, others, lent, top, hit>>
      BY <2>2, <3>2 DEF TypeOK
    <3> QED BY <2>1, <3>1, <3>2
  <2>4. /\ sum' = NoSum /\ late' = FALSE
        /\ UNCHANGED <<clearing, userVars, taskVars, quits, gone, torn>>
    BY <1>27 DEF Night
  <2>5. due' \subseteq SUBSET Id /\ old' \subseteq SUBSET Id
    BY <1>27 DEF Night, Overtake, TypeOK
  <2> QED BY <2>3, <2>4, <2>5 DEF TypeOK, userVars, taskVars
<1>28. CASE UNCHANGED vars
  BY <1>28 DEF TypeOK, vars, cloudVars, userVars, taskVars, ghostVars, givenVars
<1> QED BY <1>1, <1>2, <1>3, <1>4, <1>5, <1>6, <1>7, <1>8, <1>9, <1>10, <1>11, <1>12,
         <1>13, <1>14, <1>15, <1>16, <1>17, <1>18, <1>19, <1>20, <1>21, <1>22, <1>23,
         <1>24, <1>25, <1>26, <1>27, <1>28
         DEF Next, Save, Send, Fetch, Ask, Handle

-----------------------------------------------------------------------------
(* The server *)

\* What may become of an identifier: it keeps its notification, loses it, or
\* gets the next one.  In the last case either nobody has ever heard of it, or
\* the notification is hit.
Changed(id) ==
  \/ cloud'[id] = cloud[id]
  \/ cloud'[id] = None
  \/ /\ made' = made + 1 /\ cloud'[id] = made'
     /\ top < id \/ cloud'[id] \in hit'

\* And what is behind us stays so.
Onward ==
  /\ made <= made' /\ top <= top' /\ hit \subseteq hit'
  /\ \A id \in Id : Changed(id)

\* Steps that give no identifier.
LEMMA LosingGoesOnward ==
  ASSUME TypeOK, UNCHANGED <<made, top>>, hit \subseteq hit',
         cloud' = cloud \/ \E id \in Id : cloud' = [cloud EXCEPT ![id] = None]
  PROVE  Onward
BY ChangesSyncAssumption DEF TypeOK, Onward, Changed

\* The nightly run.
LEMMA NightGoesOnward ==
  ASSUME TypeOK, Given, Night
  PROVE  Onward /\ Given'
<1>1. PICK expired \in SUBSET Ids(cloud), foreign \in BOOLEAN :
        \/ /\ made + quits < MaxEvents /\ made' = made + 1
           /\ cloud' = [Expire(cloud, expired) EXCEPT ![NextIdentifier] = made']
           /\ others' = IF foreign THEN others \union {made'} ELSE others
           /\ lent' = IF foreign THEN lent \union {NextIdentifier} ELSE lent
           /\ top' = Max({top, NextIdentifier})
           /\ hit' = IF NextIdentifier <= top THEN hit \union {made'} ELSE hit
        \/ cloud' = Expire(cloud, expired) /\ UNCHANGED <<made, others, lent, top, hit>>
  BY DEF Night, givenVars
<1> DEFINE kept == Expire(cloud, expired)
<1>2. /\ made \in Nat /\ top \in Nat /\ top <= made
      /\ kept \in [Id -> {None} \union Note]
      /\ \A id \in Id : kept[id] = cloud[id] \/ kept[id] = None
      /\ \A n \in others : n \in Nat
      /\ others \subseteq Note /\ lent \subseteq Id
  BY ChangesSyncAssumption DEF Expire, TypeOK, Note
<1> HIDE DEF kept
<1>3. CASE /\ made + quits < MaxEvents /\ made' = made + 1
           /\ cloud' = [kept EXCEPT ![NextIdentifier] = made']
           /\ others' = IF foreign THEN others \union {made'} ELSE others
           /\ lent' = IF foreign THEN lent \union {NextIdentifier} ELSE lent
           /\ top' = Max({top, NextIdentifier})
           /\ hit' = IF NextIdentifier <= top THEN hit \union {made'} ELSE hit
  <2>1. /\ NextIdentifier \in Id /\ NextIdentifier \in Nat
        /\ top <= top' /\ NextIdentifier <= top' /\ top' \in Nat
    BY <1>2, <1>3, TopFollows DEF Id
  <2>2. \A id \in Id : cloud'[id] = IF id = NextIdentifier THEN made' ELSE kept[id]
    BY <1>2, <1>3, <2>1
  <2>3. \A id \in Id : id \in Nat
    BY DEF Id
  <2>4. Onward
    BY <1>2, <1>3, <2>1, <2>2, <2>3 DEF Onward, Changed
  <2>5. \A id \in Id : kept[id] # None => id <= top /\ kept[id] <= made /\ kept[id] \in Nat
    BY <1>2 DEF Given, None, Note
  <2>6. \A id \in Id : cloud'[id] # None => id <= top' /\ cloud'[id] <= made'
    BY <1>2, <1>3, <2>1, <2>2, <2>3, <2>5
  <2>7. \A i, j \in Id : cloud'[i] = cloud'[j] /\ cloud'[i] # None => i = j
    <3>1. \A i, j \in Id : kept[i] = kept[j] /\ kept[i] # None => i = j
      BY <1>2 DEF Given
    <3>2. \A id \in Id : kept[id] # made'
      BY <1>2, <1>3, <2>5 DEF None
    <3> QED BY <2>2, <3>1, <3>2
  <2>8. \A n \in others' : n <= made'
    BY <1>2, <1>3 DEF Given
  <2>9. ASSUME NEW id \in lent'
        PROVE  id <= top' /\ cloud'[id] \in {None} \union others' \union hit'
    <3>1. CASE id \in lent
      <4>1. id \in Id /\ id <= top /\ cloud[id] \in {None} \union others \union hit
        BY <1>2, <3>1 DEF Given
      <4>2. others \subseteq others' /\ hit \subseteq hit'
        BY <1>3
      <4>3. id <= top'
        BY <1>2, <2>1, <2>3, <4>1
      <4>4. CASE id = NextIdentifier
        BY <1>3, <2>2, <4>1, <4>3, <4>4
      <4>5. CASE id # NextIdentifier
        BY <1>2, <2>2, <4>1, <4>2, <4>3, <4>5
      <4> QED BY <4>4, <4>5
    <3>2. CASE id \notin lent
      BY <1>3, <2>1, <2>2, <2>9, <3>2
    <3> QED BY <3>1, <3>2
  <2> QED BY <2>4, <2>6, <2>7, <2>8, <2>9 DEF Given
<1>4. CASE cloud' = kept /\ UNCHANGED <<made, others, lent, top, hit>>
  BY <1>2, <1>4 DEF Onward, Changed, Given
<1> QED BY <1>1, <1>3, <1>4 DEF kept

\* The server keeps one notification to an identifier.
LEMMA LosingKeepsGiven ==
  ASSUME TypeOK, Given, UNCHANGED givenVars, hit \subseteq hit',
         cloud' = cloud \/ \E id \in Id : cloud' = [cloud EXCEPT ![id] = None]
  PROVE  Given'
BY DEF TypeOK, Given, givenVars

\* A client that does nothing meanwhile keeps its invariant.
LEMMA OnwardKeeps ==
  ASSUME TypeOK, TypeOK', Given, NEW c \in Client, Local(c), Onward,
         note'[c] = note[c], removed'[c] = removed[c], edit'[c] = edit[c],
         pc'[c] = pc[c], todo'[c] = todo[c], news'[c] = news[c], job'[c] = job[c],
         seen'[c] = seen[c], gone'[c] = gone[c]
  PROVE  Local(c)'
<1>1. /\ made \in Nat /\ top \in Nat /\ made' \in Nat /\ top' \in Nat
      /\ made <= made' /\ top <= top' /\ hit \subseteq hit'
      /\ \A id \in Id : id \in Nat
      /\ \A id \in Id : cloud[id] \in Nat /\ cloud'[id] \in Nat
  <2>1. \A id \in Id : id \in Nat
    BY DEF Id
  <2>2. \A n \in {None} \union Note : n \in Nat
    BY DEF Note, None
  <2>3. made \in Nat /\ top \in Nat /\ made' \in Nat /\ top' \in Nat
    BY ChangesSyncAssumption DEF TypeOK
  <2> QED BY <2>1, <2>2, <2>3 DEF TypeOK, Onward
<1>2. \A id \in Id : id <= top => \/ cloud'[id] = cloud[id] \/ cloud'[id] = None
                                  \/ cloud'[id] \in hit'
  BY <1>1 DEF Onward, Changed
<1>3. \A id \in Id : cloud'[id] <= made => cloud'[id] = cloud[id] \/ cloud'[id] = None
  BY <1>1 DEF Onward, Changed
<1>4. Coherent(c)'
  <2>1. \A id \in Id : note[c][id] # None => id <= top'
    BY <1>1 DEF Local, Coherent
  <2>2. \A id \in news[c] : id <= top'
    BY <1>1 DEF Local, Coherent, TypeOK
  <2>3. ASSUME NEW i \in Id, note[c][i] \in Note
        PROVE  note[c][i] <= made' /\ \A j \in Id : note[c][i] = cloud'[j] => i = j
    <3>1. note[c][i] <= made /\ note[c][i] \in Nat /\ note[c][i] # None
      BY <2>3 DEF Local, Coherent, Note, None
    <3> QED BY <1>1, <1>3, <2>3, <3>1 DEF Local, Coherent
  <2>4. ASSUME NEW id \in Id, note[c][id] # None, cloud'[id] # None
        PROVE  note[c][id] = cloud'[id] \/ cloud'[id] \in hit'
    BY <1>1, <1>2, <2>4 DEF Local, Coherent
  <2> QED BY <2>1, <2>2, <2>3, <2>4 DEF Coherent
<1>5. Dismissed(c)' = Dismissed(c) /\ Dismissing(c)' = Dismissing(c)
  BY DEF Dismissed, Dismissing
<1>6. Genuine(c)'
  <2>1. \A n \in gone[c] : n <= made'
    BY <1>1 DEF Local, Genuine, TypeOK, Note
  <2>2. Dismissed(c) \subseteq Id
    BY EditIsTyped, DismissingIsTyped DEF Dismissed, TypeOK
  <2>3. ASSUME NEW id \in Dismissed(c)
        PROVE  id <= top' /\ cloud'[id] \in {None} \union hit' \union gone[c]
    BY <1>1, <1>2, <2>2, <2>3 DEF Local, Genuine
  <2>4. pc[c] \in {"ack", "unlist"} => /\ job[c] \in Id /\ job[c] <= top'
                                       /\ cloud'[job[c]] \in {None} \union hit'
    BY <1>1, <1>2 DEF Local, Genuine
  <2> QED BY <1>5, <2>1, <2>3, <2>4 DEF Genuine
<1>7. Lacking(c)' \subseteq Lacking(c)
  <2> SUFFICES ASSUME NEW id \in Id, cloud'[id] \in gone[c], cloud'[id] \notin hit'
               PROVE  cloud[id] \in gone[c] /\ cloud[id] \notin hit
    BY DEF Lacking
  <2>1. cloud'[id] \in Note /\ cloud'[id] <= made
    BY DEF Local, Genuine, TypeOK
  <2> QED BY <1>1, <1>3, <2>1 DEF None, Note
<1>8. Complete(c)'
  BY <1>5, <1>7 DEF Local, Complete
<1> QED BY <1>4, <1>6, <1>8 DEF Local

\* So do the steps of other clients.
LEMMA OthersKeep ==
  ASSUME TypeOK, TypeOK', Given, NEW c \in Client, NEW d \in Client \ {c}, Local(c),
         \/ Dismiss(d) \/ Save(d) \/ Quit(d) \/ Send(d) \/ ReceiveRemoval(d)
         \/ Confirmed(d) \/ Fetch(d) \/ Ask(d)
  PROVE  Local(c)' 
<1> DEFINE Apart == /\ UNCHANGED <<made, top>> /\ hit \subseteq hit'
                    /\ cloud' = cloud \/ \E id \in Id : cloud' = [cloud EXCEPT ![id] = None]
                    /\ note'[c] = note[c] /\ removed'[c] = removed[c] /\ edit'[c] = edit[c]
                    /\ pc'[c] = pc[c] /\ todo'[c] = todo[c] /\ news'[c] = news[c]
                    /\ job'[c] = job[c] /\ seen'[c] = seen[c] /\ gone'[c] = gone[c]
<1>0. Apart => Local(c)'
  <2> SUFFICES ASSUME Apart PROVE Local(c)'
    OBVIOUS
  <2>1. Onward
    BY LosingGoesOnward
  <2> QED BY <2>1, OnwardKeeps
<1>1. Dismiss(d) => Apart
  BY DEF Dismiss, TypeOK, taskVars, cloudVars, givenVars
<1>2. ReadRemoved(d) => Apart
  BY DEF ReadRemoved, TypeOK, cloudVars, taskVars, ghostVars, givenVars
<1>3. WriteRemoved(d) => Apart
  BY DEF WriteRemoved, TypeOK, cloudVars, taskVars, givenVars
<1>4. ClearOwn(d) => Apart
  BY DEF ClearOwn, TypeOK, cloudVars, taskVars, givenVars
<1>5. Quit(d) => Apart
  BY DEF Quit, TypeOK, EndTask, To, cloudVars, givenVars
<1>6. Start(d) => Apart
  BY DEF Start, TypeOK, To, cloudVars, userVars, ghostVars, givenVars
<1>7. SendFails(d) => Apart
  BY DEF SendFails, TypeOK, To, cloudVars, userVars, ghostVars, givenVars
<1>8. Unlist(d) => Apart
  BY DEF Unlist, TypeOK, To, cloudVars, ghostVars, givenVars
<1>9. SendDone(d) => Apart
  BY DEF SendDone, TypeOK, EndTask, To, cloudVars, userVars, ghostVars, givenVars
<1>10. ReceiveRemoval(d) => Apart
  <2> SUFFICES ASSUME ReceiveRemoval(d) PROVE Apart
    OBVIOUS
  <2>1. PICK id \in todo[d] : /\ RemoveThere(id) /\ job' = [job EXCEPT ![d] = id]
                             /\ todo' = [todo EXCEPT ![d] = @ \ {id}]
    BY DEF ReceiveRemoval
  <2>2. id \in Id /\ cloud' = [cloud EXCEPT ![id] = None]
    BY <2>1 DEF TypeOK, RemoveThere
  <2>3. /\ pc'[c] = pc[c] /\ job'[c] = job[c] /\ todo'[c] = todo[c]
    BY <2>1 DEF ReceiveRemoval, TypeOK, To
  <2>4. /\ UNCHANGED <<made, top, hit, gone, note, removed, edit, news, seen>>
    BY DEF ReceiveRemoval, userVars, ghostVars, givenVars
  <2> QED BY <2>2, <2>3, <2>4
<1>11. Confirmed(d) => Apart
  BY DEF Confirmed, TypeOK, To, cloudVars, userVars, ghostVars, givenVars
<1>12. OwnSum(d) => Apart
  BY DEF OwnSum, TypeOK, To, cloudVars, userVars, ghostVars, givenVars
<1>13. CacheOwn(d) => Apart
  BY DEF CacheOwn, TypeOK, To, cloudVars, ghostVars, givenVars
<1>14. SumArrives(d) => Apart
  BY DEF SumArrives, TypeOK, To, cloudVars, userVars, ghostVars, givenVars
<1>15. Compare(d) => Apart
  BY DEF Compare, TypeOK, EndTask, To, cloudVars, userVars, ghostVars, givenVars
<1>16. RemoveHere(d) => Apart
  BY DEF RemoveHere, TypeOK, To, cloudVars, ghostVars, givenVars
<1>17. ReceiveDone(d) => Apart
  BY DEF ReceiveDone, TypeOK, EndTask, cloudVars, userVars, ghostVars, givenVars, To
<1>18. AskSum(d) => Apart
  BY DEF AskSum, TypeOK, To, userVars, ghostVars, givenVars
<1>19. AskIds(d) => Apart
  BY DEF AskIds, TypeOK, To, cloudVars, userVars, ghostVars, givenVars
<1>20. Downloads(d) => Apart
  BY DEF Downloads, TypeOK, Download, To, cloudVars, ghostVars, givenVars
<1>21. Tidy(d) => Apart
  BY DEF Tidy, TypeOK, To, cloudVars, givenVars
<1> HIDE DEF Apart
<1> QED BY <1>0, <1>1, <1>2, <1>3, <1>4, <1>5, <1>6, <1>7, <1>8, <1>9, <1>10, <1>11, <1>12,
         <1>13, <1>14, <1>15, <1>16, <1>17, <1>18, <1>19, <1>20, <1>21
         DEF Save, Send, Fetch, Ask

-----------------------------------------------------------------------------
(* One client *)

\* A dismissal is pending: it is written down on its own.
LEMMA DismissKeeps ==
  ASSUME TypeOK, TypeOK', Given, NEW c \in Client, Local(c), Dismiss(c)
  PROVE  Local(c)'
<1>1. PICK x \in Ids(note[c]) :
        /\ note' = [note EXCEPT ![c][x] = None]
        /\ edit' = [edit EXCEPT ![c] = [id |-> x, seen |-> {}, step |-> "read"]]
        /\ gone' = [gone EXCEPT ![c] = @ \union ({note[c][x]} \intersect Note)]
  BY DEF Dismiss
<1>2. /\ x \in Id /\ note[c][x] # None
      /\ note'[c] = [note[c] EXCEPT ![x] = None]
      /\ edit'[c] = [id |-> x, seen |-> {}, step |-> "read"]
      /\ gone'[c] = gone[c] \union ({note[c][x]} \intersect Note)
  BY <1>1 DEF TypeOK, Ids
<1>3. edit'[c] # NoEdit /\ edit'[c].id = x /\ edit'[c].seen = {} /\ edit'[c].step = "read"
  <2>1. edit'[c] \in Edits
    BY <1>2 DEF Edits
  <2>2. edit'[c] # NoEdit
    BY <2>1, ChangesSyncAssumption
  <2>3. edit'[c].id = x /\ edit'[c].seen = {} /\ edit'[c].step = "read"
    BY <1>2
  <2> QED BY <2>2, <2>3
<1>4. /\ UNCHANGED <<cloud, removed, pc, todo, news, job, seen, made, top, hit>>
      /\ edit[c] = NoEdit
  BY DEF Dismiss, cloudVars, taskVars, givenVars
<1>5. Coherent(c)'
  <2>1. \A id \in Id : note'[c][id] = IF id = x THEN None ELSE note[c][id]
    BY <1>2 DEF TypeOK
  <2> QED BY <1>4, <2>1 DEF Local, Coherent, None, Note
<1>6. Dismissed(c)' = Dismissed(c) \union {x} /\ Dismissing(c)' = {x}
  BY <1>3, <1>4 DEF Dismissed, Dismissing
<1>7. Genuine(c)'
  <2>1. x <= top /\ cloud[x] \in {None} \union hit \union gone'[c]
    BY <1>2 DEF Local, Coherent, TypeOK
  <2>2. \A n \in gone'[c] : n <= made
    BY <1>2 DEF Local, Coherent, Genuine
  <2>3. gone[c] \subseteq gone'[c]
    BY <1>2
  <2>4. \A id \in Dismissed(c)' :
          id <= top /\ cloud[id] \in {None} \union hit \union gone'[c]
    BY <1>6, <2>1, <2>3 DEF Local, Genuine
  <2> QED BY <1>4, <2>2, <2>4 DEF Local, Genuine
<1>8. Lacking(c)' \subseteq Lacking(c) \union {x}
  BY <1>2, <1>4 DEF Lacking, Local, Coherent
<1>9. Complete(c)'
  BY <1>3, <1>4, <1>6, <1>8 DEF Local, Complete, Dismissing
<1> QED BY <1>5, <1>7, <1>9 DEF Local

\* Whoever reads the list has the dismissals in it.
LEMMA ReadRemovedKeeps ==
  ASSUME TypeOK, TypeOK', Given, NEW c \in Client, Local(c), ReadRemoved(c)
  PROVE  Local(c)'
<1>1. /\ edit[c] # NoEdit /\ edit[c].step = "read"
      /\ edit[c] \in [id : Id, seen : SUBSET Id, step : {"read", "write"}]
      /\ removed[c] \subseteq Id
      /\ edit'[c] = [edit[c] EXCEPT !.seen = removed[c], !.step = "write"]
      /\ UNCHANGED <<cloud, note, removed, pc, todo, news, job, seen, made, top, gone, hit>>
  BY EditIsTyped DEF ReadRemoved, TypeOK, Edits, cloudVars, taskVars, ghostVars, givenVars
<1>2. edit'[c] # NoEdit /\ edit'[c].id = edit[c].id /\ edit'[c].seen = removed[c]
      /\ edit'[c].step = "write"
  <2>1. edit'[c] = [id |-> edit[c].id, seen |-> removed[c], step |-> "write"]
    BY <1>1 DEF Edits
  <2>2. edit'[c] \in Edits
    BY <1>1, <2>1 DEF Edits
  <2>3. edit'[c] # NoEdit
    BY <2>2, ChangesSyncAssumption
  <2>4. edit'[c].id = edit[c].id /\ edit'[c].seen = removed[c] /\ edit'[c].step = "write"
    BY <2>1
  <2> QED BY <2>3, <2>4
<1>3. Dismissed(c)' \subseteq Dismissed(c) /\ Dismissing(c)' = Dismissing(c)
      /\ Dismissing(c) = {edit[c].id} /\ Lacking(c)' = Lacking(c)
  BY <1>1, <1>2 DEF Dismissed, Dismissing, Lacking
<1>4. Coherent(c)'
  BY <1>1 DEF Local, Coherent
<1>5. Genuine(c)'
  BY <1>1, <1>3 DEF Local, Genuine
<1>6. Complete(c)'
  BY <1>1, <1>2, <1>3 DEF Local, Complete
<1> QED BY <1>4, <1>5, <1>6 DEF Local

\* The list that is written has the dismissal; if the task overwrites it, it is hit.
LEMMA WriteRemovedKeeps ==
  ASSUME TypeOK, TypeOK', Given, NEW c \in Client, Local(c), WriteRemoved(c)
  PROVE  Local(c)'
<1>1. /\ edit[c] # NoEdit /\ edit[c].step = "write" /\ edit[c].id \in Id
      /\ removed'[c] = edit[c].seen \union {edit[c].id}
      /\ edit'[c] = [id |-> 0, seen |-> {}, step |-> "clear"]
      /\ UNCHANGED <<cloud, note, pc, todo, news, job, seen, made, top, gone>>
  BY EditIsTyped DEF WriteRemoved, TypeOK, cloudVars, taskVars, givenVars
<1>2. /\ hit \subseteq hit'
      /\ pc[c] = "unlist" => hit' = hit \union ({cloud[edit[c].id]} \ {None})
  BY DEF WriteRemoved
<1>3. edit'[c] # NoEdit /\ edit'[c].seen = {} /\ edit'[c].step = "clear"
  <2>1. edit'[c] \in Edits
    BY <1>1 DEF Edits
  <2>2. edit'[c] # NoEdit
    BY <2>1, ChangesSyncAssumption
  <2>3. edit'[c].seen = {} /\ edit'[c].step = "clear"
    BY <1>1
  <2> QED BY <2>2, <2>3
<1>4. Dismissed(c)' \subseteq Dismissed(c) /\ Dismissing(c)' = {} /\ Dismissing(c) = {edit[c].id}
  BY <1>1, <1>3 DEF Dismissed, Dismissing
<1>5. Lacking(c)' \subseteq Lacking(c)
  BY <1>1, <1>2 DEF Lacking
<1>6. pc[c] = "unlist" => edit[c].id \notin Lacking(c)'
  <2>1. \A n \in gone[c] : n # None
    BY DEF TypeOK, Note, None
  <2> QED BY <1>1, <1>2, <2>1 DEF Lacking
<1>7. Coherent(c)'
  BY <1>1, <1>2 DEF Local, Coherent
<1>8. Genuine(c)'
  BY <1>1, <1>2, <1>4 DEF Local, Genuine
<1>9. Complete(c)'
  BY <1>1, <1>3, <1>4, <1>5, <1>6 DEF Local, Complete
<1> QED BY <1>7, <1>8, <1>9 DEF Local

\* The dismissal is listed by now.
LEMMA ClearOwnKeeps ==
  ASSUME TypeOK, TypeOK', Given, NEW c \in Client, Local(c), ClearOwn(c)
  PROVE  Local(c)'
BY EditIsTyped DEF ClearOwn, TypeOK, Local, Coherent, Genuine, Complete, Lacking, Dismissed,
   Dismissing, cloudVars, taskVars, givenVars

\* A dismissal that is not listed is none.
LEMMA QuitKeeps ==
  ASSUME TypeOK, TypeOK', Given, NEW c \in Client, Local(c), Quit(c)
  PROVE  Local(c)'
<1> DEFINE lost == {cloud[id] : id \in Dismissing(c) \ removed[c]}
<1>1. /\ edit'[c] = NoEdit /\ pc'[c] = "idle" /\ news'[c] = {}
      /\ UNCHANGED <<cloud, note, removed, made, top, hit>>
  BY DEF Quit, EndTask, To, TypeOK, cloudVars, givenVars
<1>2. gone'[c] = gone[c] \ lost
  BY DEF Quit, TypeOK
<1>3. Dismissed(c)' = removed[c] /\ Dismissing(c)' = {} /\ removed[c] \subseteq Dismissed(c)
  BY <1>1 DEF Dismissed, Dismissing
<1>4. Lacking(c)' \subseteq removed[c]
  <2> SUFFICES ASSUME NEW id \in Id, cloud[id] \in (gone[c] \ lost) \ hit
               PROVE  id \in removed[c]
    BY <1>1, <1>2 DEF Lacking
  <2>1. id \in removed[c] \union Dismissing(c)
    BY DEF Local, Complete, Lacking
  <2> QED BY <2>1
<1>5. ASSUME NEW id \in removed[c], cloud[id] \in gone[c] PROVE cloud[id] \notin lost
  <2>1. id \in Id /\ Dismissing(c) \subseteq Id /\ cloud[id] # None
    BY <1>5, DismissingIsTyped DEF TypeOK, Note, None
  <2>2. \A j \in Dismissing(c) : cloud[j] = cloud[id] => j = id
    BY <2>1 DEF Given
  <2> QED BY <2>2
<1> HIDE DEF lost
<1>6. Coherent(c)'
  BY <1>1 DEF Local, Coherent
<1>7. Genuine(c)'
  <2>1. \A n \in gone'[c] : n <= made
    BY <1>2 DEF Local, Genuine
  <2>2. \A id \in removed[c] : id <= top /\ cloud[id] \in {None} \union hit \union gone'[c]
    BY <1>2, <1>3, <1>5 DEF Local, Genuine
  <2> QED BY <1>1, <1>3, <2>1, <2>2 DEF Genuine
<1>8. Complete(c)'
  BY <1>1, <1>3, <1>4 DEF Complete
<1> QED BY <1>6, <1>7, <1>8 DEF Local

\* The task takes the list in hand.
LEMMA StartKeeps ==
  ASSUME TypeOK, TypeOK', Given, NEW c \in Client, Local(c), Start(c)
  PROVE  Local(c)'
BY EditIsTyped DEF Start, TypeOK, Local, Coherent, Genuine, Complete, Lacking, Dismissed,
   Dismissing, To, cloudVars, userVars, ghostVars, givenVars

\* What is not sent stays in the list.
LEMMA SendFailsKeeps ==
  ASSUME TypeOK, TypeOK', Given, NEW c \in Client, Local(c), SendFails(c)
  PROVE  Local(c)'
BY EditIsTyped DEF SendFails, TypeOK, Local, Coherent, Genuine, Complete, Lacking,
   Dismissed, Dismissing, To, cloudVars, userVars, ghostVars, givenVars

\* The task takes off what the server lost, and nothing else.
LEMMA UnlistKeeps ==
  ASSUME TypeOK, TypeOK', Given, NEW c \in Client, Local(c), Unlist(c)
  PROVE  Local(c)'
<1>1. /\ pc[c] = "unlist" /\ pc'[c] = "send" /\ removed'[c] = seen[c] \ {job[c]}
      /\ UNCHANGED <<cloud, note, edit, todo, news, made, top, gone, hit>>
  BY DEF Unlist, To, TypeOK, cloudVars, ghostVars, givenVars
<1>2. Dismissed(c)' \subseteq Dismissed(c) /\ Dismissing(c)' = Dismissing(c)
      /\ Lacking(c)' = Lacking(c)
  BY <1>1 DEF Dismissed, Dismissing, Lacking
<1>3. job[c] \notin Lacking(c)
  <2>1. \A n \in gone[c] : n # None
    BY DEF TypeOK, Note, None
  <2> QED BY <1>1, <2>1 DEF Lacking, Local, Genuine
<1>4. Coherent(c)'
  BY <1>1 DEF Local, Coherent
<1>5. Genuine(c)'
  BY <1>1, <1>2 DEF Local, Genuine
<1>6. Complete(c)'
  BY <1>1, <1>2, <1>3 DEF Local, Complete
<1> QED BY <1>4, <1>5, <1>6 DEF Local

\* The sending ends.
LEMMA SendDoneKeeps ==
  ASSUME TypeOK, TypeOK', Given, NEW c \in Client, Local(c), SendDone(c)
  PROVE  Local(c)'
BY EditIsTyped DEF SendDone, TypeOK, Local, Coherent, Genuine, Complete, Lacking, Dismissed,
   Dismissing, EndTask, To, cloudVars, userVars, ghostVars, givenVars

\* The server loses a notification that was dismissed.
LEMMA ReceiveRemovalKeeps ==
  ASSUME TypeOK, TypeOK', Given, NEW c \in Client, Local(c), ReceiveRemoval(c)
  PROVE  Local(c)'
<1>1. PICK x \in todo[c] : /\ cloud' = [cloud EXCEPT ![x] = None]
                           /\ job' = [job EXCEPT ![c] = x]
                           /\ todo' = [todo EXCEPT ![c] = @ \ {x}]
  BY DEF ReceiveRemoval, RemoveThere
<1>2. /\ pc[c] = "send" /\ pc'[c] = "ack" /\ job'[c] = x /\ todo'[c] = todo[c] \ {x}
      /\ x \in Id /\ \A id \in Id : cloud'[id] = IF id = x THEN None ELSE cloud[id]
      /\ UNCHANGED <<note, removed, edit, news, made, top, gone, hit>>
  BY <1>1 DEF ReceiveRemoval, To, TypeOK, userVars, ghostVars, givenVars
<1>3. Dismissed(c)' \subseteq Dismissed(c) /\ x \in Dismissed(c) /\ Dismissing(c)' = Dismissing(c)
      /\ Dismissed(c) \subseteq Id
  BY <1>2, EditIsTyped, DismissingIsTyped DEF Dismissed, Dismissing, TypeOK
<1>4. \A n \in gone[c] \union Note : n # None
  BY DEF TypeOK, Note, None
<1>5. Lacking(c)' \subseteq Lacking(c)
  BY <1>2, <1>4 DEF Lacking
<1>6. Coherent(c)'
  BY <1>2, <1>4 DEF Local, Coherent
<1>7. Genuine(c)'
  BY <1>2, <1>3 DEF Local, Genuine
<1>8. Complete(c)'
  BY <1>2, <1>3, <1>5 DEF Local, Complete
<1> QED BY <1>6, <1>7, <1>8 DEF Local

\* The task reads the list as it is.
LEMMA ConfirmedKeeps ==
  ASSUME TypeOK, TypeOK', Given, NEW c \in Client, Local(c), Confirmed(c)
  PROVE  Local(c)'
BY EditIsTyped DEF Confirmed, TypeOK, Local, Coherent, Genuine, Complete, Lacking,
   Dismissed, Dismissing, To, cloudVars, userVars, ghostVars, givenVars

\* The checksums concern no identifier ...
LEMMA OwnSumKeeps ==
  ASSUME TypeOK, TypeOK', Given, NEW c \in Client, Local(c), OwnSum(c)
  PROVE  Local(c)'
BY EditIsTyped DEF OwnSum, TypeOK, Local, Coherent, Genuine, Complete, Lacking, Dismissed,
   Dismissing, To, cloudVars, userVars, ghostVars, givenVars

\* ... and no list ...
LEMMA CacheOwnKeeps ==
  ASSUME TypeOK, TypeOK', Given, NEW c \in Client, Local(c), CacheOwn(c)
  PROVE  Local(c)'
BY EditIsTyped DEF CacheOwn, TypeOK, Local, Coherent, Genuine, Complete, Lacking, Dismissed,
   Dismissing, To, cloudVars, ghostVars, givenVars

\* ... nor does the one that the server answers ...
LEMMA SumArrivesKeeps ==
  ASSUME TypeOK, TypeOK', Given, NEW c \in Client, Local(c), SumArrives(c)
  PROVE  Local(c)'
BY EditIsTyped DEF SumArrives, TypeOK, Local, Coherent, Genuine, Complete, Lacking, Dismissed,
   Dismissing, To, cloudVars, userVars, ghostVars, givenVars

\* ... or the comparison.
LEMMA CompareKeeps ==
  ASSUME TypeOK, TypeOK', Given, NEW c \in Client, Local(c), Compare(c)
  PROVE  Local(c)'
BY EditIsTyped DEF Compare, TypeOK, Local, Coherent, Genuine, Complete, Lacking, Dismissed,
   Dismissing, EndTask, To, cloudVars, userVars, ghostVars, givenVars

\* The client has one notification less.
LEMMA RemoveHereKeeps ==
  ASSUME TypeOK, TypeOK', Given, NEW c \in Client, Local(c), RemoveHere(c)
  PROVE  Local(c)'
<1>1. PICK x \in todo[c] : note' = [note EXCEPT ![c][x] = None]
  BY DEF RemoveHere
<1>2. /\ pc[c] = "get" /\ pc'[c] = "tidy" /\ x \in Id
      /\ \A id \in Id : note'[c][id] = IF id = x THEN None ELSE note[c][id]
      /\ UNCHANGED <<cloud, removed, edit, news, job, seen, made, top, gone, hit>>
  BY <1>1 DEF RemoveHere, TypeOK, To, cloudVars, ghostVars, givenVars
<1>3. Dismissed(c)' = Dismissed(c) /\ Dismissing(c)' = Dismissing(c) /\ Lacking(c)' = Lacking(c)
  BY <1>2 DEF Dismissed, Dismissing, Lacking
<1>4. Coherent(c)'
  BY <1>2 DEF Local, Coherent, Note, None
<1>5. Genuine(c)' /\ Complete(c)'
  BY <1>2, <1>3 DEF Local, Genuine, Complete
<1> QED BY <1>4, <1>5 DEF Local

\* The client's own checksum concerns no list.
LEMMA TidyKeeps ==
  ASSUME TypeOK, TypeOK', Given, NEW c \in Client, Local(c), Tidy(c)
  PROVE  Local(c)'
BY EditIsTyped DEF Tidy, TypeOK, Local, Coherent, Genuine, Complete, Lacking, Dismissed,
   Dismissing, To, cloudVars, givenVars

\* The receiving ends.
LEMMA ReceiveDoneKeeps ==
  ASSUME TypeOK, TypeOK', Given, NEW c \in Client, Local(c), ReceiveDone(c)
  PROVE  Local(c)'
BY EditIsTyped DEF ReceiveDone, TypeOK, Local, Coherent, Genuine, Complete, Lacking,
   Dismissed, Dismissing, EndTask, cloudVars, userVars, ghostVars, givenVars, To

\* Nor does the server's.
LEMMA AskSumKeeps ==
  ASSUME TypeOK, TypeOK', Given, NEW c \in Client, Local(c), AskSum(c)
  PROVE  Local(c)'
BY EditIsTyped DEF AskSum, TypeOK, Local, Coherent, Genuine, Complete, Lacking, Dismissed,
   Dismissing, To, userVars, ghostVars, givenVars

\* The client is about to get identifiers that are in use.
LEMMA AskIdsKeeps ==
  ASSUME TypeOK, TypeOK', Given, NEW c \in Client, Local(c), AskIds(c)
  PROVE  Local(c)'
<1>1. /\ pc[c] = "ids" /\ pc'[c] = "get" /\ news'[c] = Mine \ seen[c]
      /\ UNCHANGED <<cloud, note, removed, edit, job, made, top, gone, hit>>
  BY DEF AskIds, To, TypeOK, cloudVars, userVars, ghostVars, givenVars
<1>2. Dismissed(c)' = Dismissed(c) /\ Dismissing(c)' = Dismissing(c) /\ Lacking(c)' = Lacking(c)
  BY <1>1 DEF Dismissed, Dismissing, Lacking
<1>3. Coherent(c)'
  BY <1>1 DEF Local, Coherent, Given, Mine
<1>4. Genuine(c)' /\ Complete(c)'
  BY <1>1, <1>2 DEF Local, Genuine, Complete
<1> QED BY <1>3, <1>4 DEF Local

\* The client gets what the server has, or a blank.
LEMMA DownloadsKeeps ==
  ASSUME TypeOK, TypeOK', Given, NEW c \in Client, Local(c), Downloads(c)
  PROVE  Local(c)'
<1>1. PICK x \in Id : Download(c, x)
  BY DEF Downloads
<1>2. /\ x \in news[c] /\ news'[c] = news[c] \ {x} /\ pc[c] = "get" /\ pc'[c] = "tidy"
      /\ \A id \in Id : note'[c][id] = IF id # x THEN note[c][id]
                                       ELSE IF cloud[x] = None THEN Blank ELSE cloud[x]
      /\ UNCHANGED <<cloud, removed, edit, todo, job, seen, made, top, gone, hit>>
  BY <1>1 DEF Download, TypeOK, To, cloudVars, ghostVars, givenVars
<1>3. Dismissed(c)' = Dismissed(c) /\ Dismissing(c)' = Dismissing(c) /\ Lacking(c)' = Lacking(c)
  BY <1>2 DEF Dismissed, Dismissing, Lacking
<1>4. Coherent(c)'
  <2>1. Blank \notin Note /\ None \notin Note
    BY ChangesSyncAssumption DEF Blank, Note, None
  <2>2. \A id \in Id : note'[c][id] # None => id <= top
    BY <1>2 DEF Local, Coherent
  <2>3. \A id \in news'[c] : id <= top
    BY <1>2 DEF Local, Coherent
  <2>4. ASSUME NEW i \in Id, note'[c][i] \in Note
        PROVE  note'[c][i] <= made /\ \A j \in Id : note'[c][i] = cloud[j] => i = j
    BY <1>2, <2>1, <2>4 DEF Local, Coherent, Given
  <2>5. \A id \in Id : note'[c][id] # None /\ cloud[id] # None =>
          note'[c][id] = cloud[id] \/ cloud[id] \in hit
    BY <1>2 DEF Local, Coherent
  <2> QED BY <1>2, <2>2, <2>3, <2>4, <2>5 DEF Coherent
<1>5. Genuine(c)' /\ Complete(c)'
  BY <1>2, <1>3 DEF Local, Genuine, Complete
<1> QED BY <1>4, <1>5 DEF Local

\* The server that stops answers nobody.
LEMMA RestartKeeps ==
  ASSUME TypeOK, TypeOK', Given, NEW c \in Client, Local(c), Restart
  PROVE  Local(c)'
<1>1. /\ UNCHANGED <<cloud, note, removed, edit, todo, news, seen, made, top, gone, hit>>
      /\ \/ pc'[c] = pc[c] /\ job'[c] = job[c]
         \/ pc[c] = "ack" /\ pc'[c] = "send"
  BY DEF Restart, TypeOK, userVars, givenVars
<1>2. Dismissed(c)' = Dismissed(c) /\ Dismissing(c)' = Dismissing(c) /\ Lacking(c)' = Lacking(c)
  BY <1>1 DEF Dismissed, Dismissing, Lacking
<1>3. Coherent(c)'
  BY <1>1 DEF Local, Coherent
<1>4. Genuine(c)' /\ Complete(c)'
  BY <1>1, <1>2 DEF Local, Genuine, Complete
<1> QED BY <1>3, <1>4 DEF Local

-----------------------------------------------------------------------------
(* The theorems *)

\* Nothing is given or listed at the start.
LEMMA InitInv == Init => IInv
<1> SUFFICES ASSUME Init PROVE IInv
  OBVIOUS
<1>1. TypeOK
  BY InitIsTyped
<1>2. Given /\ Due /\ SumIsTrue
  BY DEF Init, Given, Due, SumIsTrue
<1>3. ASSUME NEW c \in Client PROVE Local(c)
  <2>1. Dismissed(c) = {} /\ Lacking(c) = {}
    BY <1>3 DEF Init, Dismissed, Dismissing, Lacking
  <2>2. Coherent(c)
    BY <1>3 DEF Init, Coherent, None, Note
  <2>3. Genuine(c)
    BY <1>3, <2>1 DEF Init, Genuine
  <2>4. Complete(c)
    BY <1>3, <2>1 DEF Init, Complete
  <2> QED BY <2>2, <2>3, <2>4 DEF Local
<1> QED BY <1>1, <1>2, <1>3 DEF IInv

\* A change of the user's notifications makes what was calculated old, and has the
\* cached checksum cleared.
LEMMA SumStaysTrue ==
  ASSUME TypeOK, TypeOK', Given, Due, SumIsTrue, [Next]_vars
  PROVE  Due' /\ SumIsTrue'
<1>1. ASSUME UNCHANGED <<cloudVars, others, late>> PROVE Due' /\ SumIsTrue'
  BY <1>1 DEF cloudVars, Due, SumIsTrue, Mine
<1>2. ASSUME NEW id \in Id, RemoveThere(id) PROVE Due' /\ SumIsTrue'
  BY <1>2 DEF RemoveThere, Overtake, Due, SumIsTrue
<1>3. (\E d \in Client : ReceiveRemoval(d)) => \E id \in Id : RemoveThere(id)
  BY DEF ReceiveRemoval, TypeOK
<1>4. DismissThere => \E id \in Id : RemoveThere(id)
  BY DEF DismissThere, Mine
<1>5. ASSUME NEW d \in Client, AskSum(d) PROVE Due' /\ SumIsTrue'
  <2>1. Mine' = Mine
    BY <1>5 DEF AskSum, Mine, ghostVars, givenVars
  <2> QED BY <1>5, <2>1 DEF AskSum, Due, SumIsTrue, ghostVars
<1>6. CASE ClearSum
  BY <1>6 DEF ClearSum, Due, SumIsTrue, Mine, givenVars
<1>7. CASE CacheSum
  <2>1. Mine' = Mine
    BY <1>7 DEF CacheSum, Mine, givenVars
  <2> QED BY <1>7, <2>1 DEF CacheSum, Due, SumIsTrue
<1>8. CASE OthersDismiss
  <2>1. PICK id \in Id : cloud' = [cloud EXCEPT ![id] = None] /\ late' = (late \/ id \in Mine)
    BY <1>8 DEF OthersDismiss, Ids
  <2>2. id \notin Mine => Mine' = Mine
    BY <1>8, <2>1 DEF OthersDismiss, Mine, TypeOK, givenVars
  <2> QED BY <1>8, <2>1, <2>2 DEF OthersDismiss, Overtake, Due, SumIsTrue
<1>9. CASE Night
  <2>1. cloud' = cloud => UNCHANGED others
    <3>1. PICK expired \in SUBSET Ids(cloud), foreign \in BOOLEAN :
            \/ /\ made + quits < MaxEvents /\ made' = made + 1
               /\ cloud' = [Expire(cloud, expired) EXCEPT ![NextIdentifier] = made']
            \/ UNCHANGED others
      BY <1>9 DEF Night, givenVars
    <3>2. made + quits < MaxEvents => NextIdentifier \in Id
      BY TopFollows
    <3>3. \A id \in Id : cloud[id] # made + 1
      <4>1. made \in Nat /\ \A id \in Id : cloud[id] # None => cloud[id] <= made
        BY ChangesSyncAssumption DEF Given, TypeOK
      <4> QED BY <4>1 DEF None
    <3>4. \A v : [Expire(cloud, expired) EXCEPT ![NextIdentifier] = v]
                  = [id \in Id |-> IF id = NextIdentifier THEN v ELSE Expire(cloud, expired)[id]]
      BY DEF Expire
    <3> QED BY <3>1, <3>2, <3>3, <3>4
  <2>2. Due'
    BY <1>9, <2>1 DEF Night, Overtake, Due, Mine
  <2> QED BY <1>9, <2>2 DEF Night, SumIsTrue
<1>10. CASE Restart
  BY <1>10 DEF Restart, Due, SumIsTrue, Mine, givenVars
<1>11. ASSUME NEW d \in Client,
              \/ Dismiss(d) \/ Save(d) \/ Quit(d) \/ Send(d) \/ Confirmed(d) \/ Fetch(d)
              \/ SumArrives(d) \/ AskIds(d) \/ Downloads(d)
       PROVE  UNCHANGED <<cloudVars, others, late>>
  BY <1>11 DEF Dismiss, Save, ReadRemoved, WriteRemoved, ClearOwn, Quit, Send, Start, SendFails,
     Unlist, SendDone, Confirmed, Fetch, OwnSum, CacheOwn, Compare, RemoveHere, Tidy, ReceiveDone,
     SumArrives, AskIds, Downloads, Download, ghostVars, givenVars
<1>12. UNCHANGED vars => UNCHANGED <<cloudVars, others, late>>
  BY DEF vars, ghostVars, givenVars
<1> QED BY <1>1, <1>2, <1>3, <1>4, <1>5, <1>6, <1>7, <1>8, <1>9, <1>10, <1>11, <1>12
        DEF Next, Ask, Handle

\* Every step keeps the invariant.
LEMMA StepInv == IInv /\ [Next]_vars => IInv'
<1> SUFFICES ASSUME IInv, [Next]_vars PROVE IInv'
  OBVIOUS
<1>1. TypeOK /\ TypeOK' /\ Given /\ \A c \in Client : Local(c)
  BY StepIsTyped DEF IInv
<1>2. Due' /\ SumIsTrue'
  BY <1>1, SumStaysTrue DEF IInv
<1>3. ASSUME NEW d \in Client,
             \/ Dismiss(d) \/ Save(d) \/ Quit(d) \/ Send(d) \/ ReceiveRemoval(d)
             \/ Confirmed(d) \/ Fetch(d) \/ Ask(d)
      PROVE  IInv'
  <2>1. Given'
    <3>1. ASSUME ReceiveRemoval(d) PROVE Given'
      <4>1. /\ UNCHANGED givenVars /\ hit' = hit
            /\ \E id \in Id : cloud' = [cloud EXCEPT ![id] = None]
        BY <1>1, <3>1 DEF ReceiveRemoval, RemoveThere, TypeOK, ghostVars
      <4> QED BY <1>1, <4>1, LosingKeepsGiven
    <3>2. ASSUME UNCHANGED <<cloud, givenVars>>, hit \subseteq hit' PROVE Given'
      BY <1>1, <3>2, LosingKeepsGiven
    <3>3. ASSUME \/ Dismiss(d) \/ Save(d) \/ Quit(d) \/ Send(d)
                 \/ Confirmed(d) \/ Fetch(d) \/ Ask(d)
          PROVE  UNCHANGED <<cloud, givenVars>> /\ hit \subseteq hit'
      BY <3>3 DEF Dismiss, Save, ReadRemoved, WriteRemoved, ClearOwn, Quit,
         Send, Start, SendFails, Unlist, SendDone, Confirmed, Fetch, OwnSum, CacheOwn, Compare,
         RemoveHere, Tidy, ReceiveDone, Ask, AskSum, SumArrives, AskIds, Downloads, Download,
         cloudVars, ghostVars
    <3> QED BY <1>3, <3>1, <3>2, <3>3
  <2>2. ASSUME NEW c \in Client PROVE Local(c)'
    <3>1. CASE d # c
      <4>1. d \in Client \ {c}
        BY <3>1
      <4> QED BY <1>1, <1>3, <4>1, OthersKeep
    <3>2. CASE d = c
      <4>1. CASE Dismiss(c) \/ Quit(c) \/ ReceiveRemoval(c) \/ Confirmed(c)
        BY <1>1, <4>1, DismissKeeps, QuitKeeps, ReceiveRemovalKeeps, ConfirmedKeeps
      <4>2. CASE Save(c)
        BY <1>1, <4>2, ReadRemovedKeeps, WriteRemovedKeeps, ClearOwnKeeps DEF Save
      <4>3. CASE Send(c)
        BY <1>1, <4>3, StartKeeps, SendFailsKeeps, UnlistKeeps, SendDoneKeeps DEF Send
      <4>4. CASE Fetch(c)
        BY <1>1, <4>4, OwnSumKeeps, CacheOwnKeeps, CompareKeeps, RemoveHereKeeps, TidyKeeps,
           ReceiveDoneKeeps DEF Fetch
      <4>5. CASE Ask(c)
        BY <1>1, <4>5, AskSumKeeps, SumArrivesKeeps, AskIdsKeeps, DownloadsKeeps DEF Ask
      <4> QED BY <1>3, <3>2, <4>1, <4>2, <4>3, <4>4, <4>5
    <3> QED BY <3>1, <3>2
  <2> QED BY <1>1, <1>2, <2>1, <2>2 DEF IInv
<1>4. CASE DismissThere \/ OthersDismiss \/ Handle \/ Night \/ UNCHANGED vars
  <2>1. Onward /\ Given'
    <3>1. CASE Night
      BY <1>1, <3>1, NightGoesOnward
    <3>2. CASE DismissThere \/ OthersDismiss \/ Handle \/ UNCHANGED vars
      <4>1. /\ UNCHANGED givenVars /\ hit' = hit
            /\ cloud' = cloud \/ \E id \in Id : cloud' = [cloud EXCEPT ![id] = None]
        BY <3>2 DEF DismissThere, RemoveThere, OthersDismiss, Handle, ClearSum, CacheSum, Ids,
           Mine, vars, cloudVars, ghostVars
      <4>2. UNCHANGED <<made, top>>
        BY <4>1 DEF givenVars
      <4> QED BY <1>1, <4>1, <4>2, LosingGoesOnward, LosingKeepsGiven
    <3> QED BY <1>4, <3>1, <3>2
  <2>2. UNCHANGED <<userVars, taskVars, gone>>
    BY <1>4 DEF DismissThere, OthersDismiss, Handle, ClearSum, CacheSum, Night, vars, ghostVars
  <2>3. \A c \in Client : Local(c)'
    BY <1>1, <2>1, <2>2, OnwardKeeps DEF userVars, taskVars
  <2> QED BY <1>1, <1>2, <2>1, <2>3 DEF IInv
<1>5. CASE Restart
  <2>1. Given'
    BY <1>1, <1>5, LosingKeepsGiven DEF Restart
  <2>2. \A c \in Client : Local(c)'
    BY <1>1, <1>5, RestartKeeps
  <2> QED BY <1>1, <1>2, <2>1, <2>2 DEF IInv
<1> QED BY <1>3, <1>4, <1>5 DEF Next

\* Hence the invariant always holds.
LEMMA Invariance == Spec => []IInv
<1>1. Init => IInv
  BY InitInv
<1>2. IInv /\ [Next]_vars => IInv'
  BY StepInv
<1> QED BY <1>1, <1>2, PTL DEF Spec

\* Every variable keeps to its type: the server never runs out of identifiers
\* (getNextAvailableNotificationIdentifier of database/modifications.cpp).
THEOREM TypeCorrect == Spec => []TypeOK
<1>1. IInv => TypeOK
  BY DEF IInv
<1> QED BY <1>1, Invariance, PTL

\* Outside of the windows, what the user dismissed on a client is listed there
\* to be removed on the server, as long as the server has it.
THEOREM Listed == Spec => []DismissedIsListed
<1>1. IInv => DismissedIsListed
  <2> SUFFICES ASSUME IInv, NEW c \in Client, NEW id \in Id, cloud[id] \in gone[c] \ hit
               PROVE  id \in removed[c] \union Dismissing(c)
    BY DEF DismissedIsListed
  <2>1. id \in Lacking(c) /\ Lacking(c) \subseteq removed[c] \union Dismissing(c)
    BY DEF IInv, Local, Complete, Lacking
  <2> QED BY <2>1
<1> QED BY <1>1, Invariance, PTL

\* A checksum that the server keeps, none being about to be cleared, is the one of
\* the user's notifications, unless it was calculated before a change and cached
\* after it, or the server stopped between a removal and the clearing, or another
\* user's client took one away.
THEOREM CachedSum == Spec => []SumIsTrue
<1>1. IInv => SumIsTrue
  BY DEF IInv
<1> QED BY <1>1, Invariance, PTL

\* Other users' clients only take away what has an identifier of theirs.
LEMMA OthersTakeTheirs ==
  ASSUME TypeOK, Given, OthersDismiss, NEW id \in Id, cloud'[id] # cloud[id], cloud[id] # None
  PROVE  cloud[id] \in others \union hit
<1>1. PICK x \in lent : x \in Id /\ cloud' = [cloud EXCEPT ![x] = None]
  BY DEF OthersDismiss, TypeOK
<1>2. x = id
  BY <1>1 DEF TypeOK
<1> QED BY <1>1, <1>2 DEF Given

\* A client has nothing removed on the server but what was dismissed there.
LEMMA StepTakesDismissed ==
  ASSUME IInv, [Next]_vars, NEW id \in Id, cloud'[id] # cloud[id], cloud[id] # None
  PROVE  \/ cloud[id] \in hit \union UNION {gone[c] : c \in Client}
         \/ Night \/ (IF cloud[id] \in others THEN OthersDismiss ELSE DismissThere)
<1>1. TypeOK /\ Given /\ \A c \in Client : Local(c)
  BY DEF IInv
<1>2. ASSUME NEW d \in Client, ReceiveRemoval(d) PROVE cloud[id] \in hit \union gone[d]
  <2>1. PICK x \in todo[d] : cloud' = [cloud EXCEPT ![x] = None]
    BY <1>2 DEF ReceiveRemoval, RemoveThere
  <2>2. x = id
    BY <1>1, <2>1 DEF TypeOK
  <2>3. x \in Dismissed(d)
    BY <1>2, <2>1 DEF ReceiveRemoval, Dismissed
  <2> QED BY <1>1, <2>2, <2>3 DEF Local, Genuine
<1>3. ASSUME NEW d \in Client,
             Dismiss(d) \/ Save(d) \/ Quit(d) \/ Send(d) \/ Confirmed(d) \/ Fetch(d) \/ Ask(d)
      PROVE  FALSE
  BY <1>3 DEF Dismiss, Save, ReadRemoved, WriteRemoved, ClearOwn, Quit, Send, Start, SendFails,
     Unlist, SendDone, Confirmed, Fetch, OwnSum, CacheOwn, Compare, RemoveHere, Tidy,
     ReceiveDone, Ask, AskSum, SumArrives, AskIds, Downloads, Download, cloudVars
<1>4. ~UNCHANGED vars /\ ~Handle /\ ~Restart
  BY DEF vars, cloudVars, Handle, ClearSum, CacheSum, Restart
<1>5. DismissThere => cloud[id] \notin others
  <2> SUFFICES ASSUME DismissThere PROVE cloud[id] \notin others
    OBVIOUS
  <2>1. PICK x \in Mine : cloud' = [cloud EXCEPT ![x] = None]
    BY DEF DismissThere, RemoveThere
  <2>2. x = id
    BY <1>1, <2>1 DEF TypeOK, Mine
  <2> QED BY <2>2 DEF Mine
<1>6. OthersDismiss => cloud[id] \in others \union hit
  BY <1>1, OthersTakeTheirs
<1> QED BY <1>2, <1>3, <1>4, <1>5, <1>6 DEF Next

\* None of the user's notifications goes from the server that this user did not
\* dismiss and that did not expire, whatever identifiers any client has listed; nor
\* does a client of this user take those of others.
THEOREM OnlyDismissed == Spec => OnlyDismissedGo
<1>1. IInv /\ [Next]_vars =>
        [\A id \in Id :
           cloud'[id] # cloud[id] /\ cloud[id] # None =>
             \/ cloud[id] \in hit \union UNION {gone[c] : c \in Client}
             \/ Night \/ (IF cloud[id] \in others THEN OthersDismiss ELSE DismissThere)]_vars
  BY StepTakesDismissed
<1> QED BY <1>1, Invariance, PTL DEF Spec, OnlyDismissedGo
=============================================================================
