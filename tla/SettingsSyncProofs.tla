------------------------- MODULE SettingsSyncProofs -------------------------
(***************************************************************************)
(* What SettingsSync promises outside of its windows, proved for any       *)
(* clients, settings and bounds.                                           *)
(*                                                                         *)
(* A change that the server lacks is "open": it is fresh, and was not hit. *)
(* IInv says where an open change is written down while the user and the   *)
(* task are both halfway through: in the list of flags that either has     *)
(* read and will write (Recorded), and in what the task still has to send  *)
(* (Sent).  The other way round, whatever is written down in those places  *)
(* is a change of the user, or was hit (Genuine).                          *)
(***************************************************************************)
EXTENDS SettingsSync, WellFoundedInduction, TLAPS

\* The changes of a client that are still to be sent, and did not fall into a
\* window.
Open(c) == fresh[c] \ hit[c]

\* The setting of which the task waits for the answer, or deletes the flag.
Answered(c) == IF pc[c] \in {"ack", "unflag"} THEN {job[c]} ELSE {}

\* What the task still has in hand to send.
InHand(c) ==
  IF pc[c] = "send" THEN todo[c]
  ELSE IF pc[c] = "post" THEN todo[c] \union {job[c]}
  ELSE IF pc[c] \in {"ack", "unflag"} THEN todo[c]
  ELSE {}

\* Each list of flags that somebody has, or will write, has the open changes.
Recorded(c) ==
  /\ Open(c) \subseteq flags[c] \union Editing(c)
  /\ edit[c] # NoEdit /\ edit[c].read => Open(c) \subseteq edit[c].seen \union Editing(c)
  /\ pc[c] = "unflag" => Open(c) \subseteq seen[c] \union Editing(c)

\* A task that runs has the open changes in hand, and their values as they are.
Sent(c) ==
  /\ pc[c] # "idle" => Open(c) \subseteq InHand(c) /\ Editing(c) \subseteq hit[c]
  /\ pc[c] = "post" /\ job[c] \in Open(c) => hold[c] = value[c][job[c]]
  /\ Answered(c) \intersect Open(c) = {}
  /\ pc[c] \in {"post", "ack", "unflag"} => job[c] \notin todo[c]

\* Nothing is flagged, or about to be sent, but changes of the user.
Genuine(c) ==
  LET true == fresh[c] \union hit[c]
  IN /\ flags[c] \subseteq true \union Answered(c)
     /\ Editing(c) \subseteq true
     /\ edit[c] # NoEdit /\ edit[c].read => edit[c].seen \subseteq true \union Answered(c)
     /\ pc[c] = "unflag" => seen[c] \subseteq true \union Answered(c)
     /\ InHand(c) \subseteq true

Local(c) == Recorded(c) /\ Sent(c) /\ Genuine(c)

IInv == TypeOK /\ \A c \in Client : Local(c)

-----------------------------------------------------------------------------
(* Types *)

\* The least setting, which the task's job is at the start, is a setting.
LEMMA LeastIsSetting == Min(Setting) \in Setting
<1>1. Setting \subseteq Nat /\ Setting # {}
  BY SettingsSyncAssumption
<1>2. PICK x \in Setting : \A y \in Setting : <<y, x>> \notin OpToRel(<, Nat)
  BY <1>1, WFMin, NatLessThanWellFounded
<1>3. \A y \in Setting : x <= y
  <2> TAKE y \in Setting
  <2>1. x \in Nat /\ y \in Nat
    BY <1>1
  <2>2. ~(y < x)
    BY <1>2, <2>1 DEF OpToRel
  <2> QED BY <2>1, <2>2
<1> QED BY <1>3 DEF Min

\* The types hold at the start.
LEMMA InitIsTyped == Init => TypeOK
BY LeastIsSetting, SettingsSyncAssumption DEF Init, TypeOK, Same, Value, PC

\* What a change has written down are settings that clients send.
LEMMA EditIsTyped ==
  ASSUME TypeOK, NEW c \in Client
  PROVE  /\ Editing(c) \subseteq Sendable
         /\ edit[c] # NoEdit => edit[c] \in Edits /\ edit[c].seen \subseteq Sendable
                                /\ edit[c].setting \in Sendable
BY DEF TypeOK, Edits, Editing

\* The end of a task leaves values of the right types.
LEMMA EndIsTyped ==
  ASSUME TypeOK, NEW c \in Client, EndTask(c)
  PROVE  /\ pc' \in [Client -> PC] /\ todo' \in [Client -> SUBSET Setting]
         /\ job' \in [Client -> Setting] /\ hold' \in [Client -> Value]
         /\ seen' \in [Client -> SUBSET Sendable]
         /\ total' \in [Client -> [Setting -> Value]]
<1>1. Same \in [Setting -> Value] /\ 0 \in Value
  BY SettingsSyncAssumption DEF Same, Value
<1> QED BY <1>1, LeastIsSetting DEF TypeOK, EndTask, Forget, To, PC

\* Every step keeps the types.
LEMMA StepIsTyped == ASSUME TypeOK, [Next]_vars PROVE TypeOK'
<1> USE SettingsSyncAssumption, LeastIsSetting DEF TypeOK, Value, PC
<1>1. ASSUME NEW c \in Client, Change(c) PROVE TypeOK'
  BY <1>1 DEF Change, taskVars, Edits
<1>2. ASSUME NEW c \in Client, Connect(c) PROVE TypeOK'
  <2>1. PICK h \in SUBSET Setting : hit' = [hit EXCEPT ![c] = h]
    <3> DEFINE more == (IF edit[c] # NoEdit THEN edit[c].seen ELSE {})
                 \union (IF pc[c] = "send" THEN todo[c] ELSE {})
                 \union (IF Underway(c) THEN todo[c] \union {job[c]} ELSE {})
    <3>1. more \subseteq Setting
      BY EditIsTyped
    <3>2. hit' = [hit EXCEPT ![c] = (hit[c] \union seen[c]) \union more]
      <4>1. hit' = [hit EXCEPT ![c] = @ \union seen[c]
                     \union (IF edit[c] # NoEdit THEN edit[c].seen ELSE {})
                     \union (IF pc[c] = "send" THEN todo[c] ELSE {})
                     \union (IF Underway(c) THEN todo[c] \union {job[c]} ELSE {})]
        BY <1>2 DEF Connect
      <4>2. ((hit[c] \union seen[c]) \union (IF edit[c] # NoEdit THEN edit[c].seen ELSE {})
                     \union (IF pc[c] = "send" THEN todo[c] ELSE {})
                     \union (IF Underway(c) THEN todo[c] \union {job[c]} ELSE {}))
            = (hit[c] \union seen[c]) \union more
        OBVIOUS
      <4> QED BY <4>1, <4>2
    <3> QED BY <3>1, <3>2
  <2>2. UNCHANGED <<cloud, value, edit, taskVars, made, quits>>
        /\ flags' = [flags EXCEPT ![c] = {}]
        /\ fresh' = [fresh EXCEPT ![c] = @ \intersect Editing(c)]
    BY <1>2 DEF Connect
  <2>3. fresh' \in [Client -> SUBSET Sendable] /\ flags' \in [Client -> SUBSET Sendable]
        /\ hit' \in [Client -> SUBSET Setting]
    BY <2>1, <2>2
  <2> QED BY <2>2, <2>3 DEF taskVars
<1>3. ASSUME NEW c \in Client, ReadFlags(c) PROVE TypeOK'
  BY <1>3 DEF ReadFlags, taskVars, ghostVars, Edits
<1>4. ASSUME NEW c \in Client, WriteFlag(c) PROVE TypeOK'
  BY <1>4 DEF WriteFlag, taskVars, Edits
<1>5. ASSUME NEW c \in Client, Start(c) PROVE TypeOK'
  BY <1>5, EditIsTyped DEF Start, To, userVars, ghostVars
<1>6. ASSUME NEW c \in Client, ReadValue(c) PROVE TypeOK'
  BY <1>6 DEF ReadValue, To, userVars, ghostVars
<1>7. ASSUME NEW c \in Client, SendFails(c) PROVE TypeOK'
  BY <1>7 DEF SendFails, To, Forget, userVars, ghostVars
<1>8. ASSUME NEW c \in Client, Unflag(c) PROVE TypeOK'
  BY <1>8 DEF Unflag, To, Forget, userVars, ghostVars
<1>9. ASSUME NEW c \in Client, SendDone(c) PROVE TypeOK'
  BY <1>9 DEF SendDone, To, userVars, ghostVars
<1>10. ASSUME NEW c \in Client, Compare(c) PROVE TypeOK'
  <2>1. CASE EndTask(c)
    BY <1>10, <2>1, EndIsTyped DEF Compare, userVars, ghostVars
  <2>2. CASE Differs(c)
    <3>1. Same \in [Setting -> 0..MaxMade]
      BY DEF Same
    <3>2. total' = [total EXCEPT ![c] = Same] /\ To(c, "get")
          /\ todo' = [todo EXCEPT ![c] = Setting]
          /\ UNCHANGED <<cloud, userVars, job, hold, seen, ghostVars>>
      BY <1>10, <2>2 DEF Compare
    <3>3. total' \in [Client -> [Setting -> 0..MaxMade]]
      BY <3>1, <3>2
    <3> QED BY <3>2, <3>3 DEF To, userVars, ghostVars
  <2> QED BY <1>10, <2>1, <2>2 DEF Compare
<1>11. ASSUME NEW c \in Client, Store(c) PROVE TypeOK'
  BY <1>11 DEF Store, To, Forget, userVars, ghostVars
<1>12. ASSUME NEW c \in Client, ReceiveDone(c) PROVE TypeOK'
  BY <1>12, EndIsTyped DEF ReceiveDone, userVars, ghostVars
<1>13. ASSUME NEW c \in Client, Receive(c) PROVE TypeOK'
  BY <1>13 DEF Receive, To, userVars, ghostVars
<1>14. ASSUME NEW c \in Client, Confirmed(c) PROVE TypeOK'
  BY <1>14 DEF Confirmed, To, userVars, ghostVars
<1>15. ASSUME NEW c \in Client, AskTotal(c) PROVE TypeOK'
  BY <1>15 DEF AskTotal, To, userVars, ghostVars
<1>16. ASSUME NEW c \in Client, Quit(c) PROVE TypeOK'
  <2>1. quits' \in 0..MaxQuits
    BY <1>16 DEF Quit
  <2>2. hit' \in [Client -> SUBSET Setting]
    <3> DEFINE more == (IF Underway(c) THEN {job[c]} ELSE {}) \union Editing(c)
    <3>1. more \subseteq Setting
      BY EditIsTyped
    <3>2. hit' = [hit EXCEPT ![c] = hit[c] \union more]
      <4>1. (hit[c] \union (IF Underway(c) THEN {job[c]} ELSE {})) \union Editing(c)
            = hit[c] \union more
        OBVIOUS
      <4>2. hit' = [hit EXCEPT ![c] = (hit[c] \union (IF Underway(c) THEN {job[c]} ELSE {}))
                                      \union Editing(c)]
        BY <1>16 DEF Quit
      <4> QED BY <4>1, <4>2
    <3> HIDE DEF more
    <3> QED BY <3>1, <3>2
  <2>3. EndTask(c) /\ edit' \in [Client -> Edits \union {NoEdit}]
    BY <1>16 DEF Quit
  <2> QED BY <1>16, <2>1, <2>2, <2>3, EndIsTyped DEF Quit
<1>17. ASSUME NEW c \in Client, \E s \in Setting : GetSetting(c, s) PROVE TypeOK'
  BY <1>17 DEF GetSetting, To, userVars, ghostVars
<1>18. CASE ChangeCloud
  BY <1>18 DEF ChangeCloud, userVars, taskVars
<1>19. CASE UNCHANGED vars
  BY <1>19 DEF vars, userVars, taskVars, ghostVars
<1> QED BY <1>1, <1>2, <1>3, <1>4, <1>5, <1>6, <1>7, <1>8, <1>9, <1>10, <1>11, <1>12,
         <1>13, <1>14, <1>15, <1>16, <1>17, <1>18, <1>19 DEF Next, Save, Send, Fetch, Network

-----------------------------------------------------------------------------
(* One client *)

\* The invariant of a client only speaks of the client's own state.
LEMMA UntouchedKeeps ==
  ASSUME NEW c \in Client, Local(c),
         value'[c] = value[c], flags'[c] = flags[c], edit'[c] = edit[c],
         pc'[c] = pc[c], todo'[c] = todo[c], job'[c] = job[c], hold'[c] = hold[c],
         seen'[c] = seen[c], fresh'[c] = fresh[c], hit'[c] = hit[c]
  PROVE  Local(c)'
BY DEF Local, Recorded, Sent, Genuine, Open, Answered, InHand, Editing

\* The steps of another client leave it alone.
LEMMA OthersKeep ==
  ASSUME TypeOK, NEW c \in Client, NEW d \in Client \ {c}, Local(c),
         \/ Change(d) \/ Connect(d) \/ Save(d) \/ Send(d) \/ Fetch(d) \/ Network(d) \/ Quit(d)
  PROVE  Local(c)'
<1>1. CASE Change(d)
  BY <1>1, UntouchedKeeps DEF Change, TypeOK, taskVars
<1>2. CASE Connect(d)
  BY <1>2, UntouchedKeeps DEF Connect, TypeOK, taskVars
<1>3. CASE ReadFlags(d)
  BY <1>3, UntouchedKeeps DEF ReadFlags, TypeOK, taskVars, ghostVars
<1>4. CASE WriteFlag(d)
  BY <1>4, UntouchedKeeps DEF WriteFlag, TypeOK, taskVars
<1>5. CASE Start(d)
  BY <1>5, UntouchedKeeps DEF Start, TypeOK, To, userVars
<1>6. CASE ReadValue(d)
  BY <1>6, UntouchedKeeps DEF ReadValue, TypeOK, To, userVars, ghostVars
<1>7. CASE SendFails(d)
  BY <1>7, UntouchedKeeps DEF SendFails, TypeOK, To, Forget, userVars
<1>8. CASE Unflag(d)
  BY <1>8, UntouchedKeeps DEF Unflag, TypeOK, To, Forget
<1>9. CASE SendDone(d)
  BY <1>9, UntouchedKeeps DEF SendDone, TypeOK, To, userVars, ghostVars
<1>10. CASE Compare(d)
  BY <1>10, UntouchedKeeps DEF Compare, TypeOK, To, EndTask, Forget, userVars, ghostVars
<1>11. CASE Store(d)
  BY <1>11, UntouchedKeeps DEF Store, TypeOK, To, Forget, ghostVars
<1>12. CASE ReceiveDone(d)
  BY <1>12, UntouchedKeeps DEF ReceiveDone, TypeOK, To, EndTask, Forget, userVars, ghostVars
<1>13. CASE Receive(d)
  BY <1>13, UntouchedKeeps DEF Receive, TypeOK, To, userVars
<1>14. CASE Confirmed(d)
  BY <1>14, UntouchedKeeps DEF Confirmed, TypeOK, To, userVars, ghostVars
<1>15. CASE AskTotal(d)
  BY <1>15, UntouchedKeeps DEF AskTotal, TypeOK, To, userVars, ghostVars
<1>16. CASE Quit(d)
  BY <1>16, UntouchedKeeps DEF Quit, TypeOK, To, EndTask, Forget
<1>17. CASE \E s \in Setting : GetSetting(d, s)
  BY <1>17, UntouchedKeeps DEF GetSetting, TypeOK, To, userVars, ghostVars
<1> QED BY <1>1, <1>2, <1>3, <1>4, <1>5, <1>6, <1>7, <1>8, <1>9, <1>10, <1>11, <1>12,
         <1>13, <1>14, <1>15, <1>16, <1>17 DEF Save, Send, Fetch, Network

\* The user's change opens one more setting, whose flag is in the editing.
LEMMA ChangeKeeps ==
  ASSUME TypeOK, TypeOK', NEW c \in Client, Local(c), Change(c)
  PROVE  Local(c)'
<1>1. PICK t \in Sendable :
        /\ value' = [value EXCEPT ![c][t] = made']
        /\ edit' = [edit EXCEPT ![c] = [setting |-> t, seen |-> {}, read |-> FALSE]]
        /\ fresh' = [fresh EXCEPT ![c] = @ \union {t}]
        /\ hit' = IF pc[c] = "idle" THEN hit ELSE [hit EXCEPT ![c] = @ \union {t}]
  BY DEF Change
<1>2. /\ flags'[c] = flags[c] /\ pc'[c] = pc[c] /\ todo'[c] = todo[c]
      /\ job'[c] = job[c] /\ hold'[c] = hold[c] /\ seen'[c] = seen[c]
      /\ edit[c] = NoEdit
  BY DEF Change, taskVars
<1>3. /\ edit'[c] = [setting |-> t, seen |-> {}, read |-> FALSE]
      /\ fresh'[c] = fresh[c] \union {t}
      /\ hit'[c] = IF pc[c] = "idle" THEN hit[c] ELSE hit[c] \union {t}
      /\ \A u \in Setting : u # t => value'[c][u] = value[c][u]
      /\ job[c] \in Setting
  BY <1>1, SettingsSyncAssumption DEF TypeOK
<1>4. edit'[c] # NoEdit /\ edit'[c].setting = t /\ edit'[c].read = FALSE
  <2>1. edit'[c] \in Edits
    BY <1>3 DEF Edits
  <2>2. NoEdit \notin Edits
    BY SettingsSyncAssumption DEF Edits
  <2>3. edit'[c] # NoEdit
    BY <2>1, <2>2
  <2>4. edit'[c].setting = t /\ edit'[c].read = FALSE
    BY <1>3
  <2> QED BY <2>3, <2>4
<1>5. Editing(c) = {} /\ Editing(c)' = {t}
  BY <1>2, <1>4 DEF Editing
<1>6. Recorded(c)'
  BY <1>2, <1>3, <1>4, <1>5 DEF Local, Recorded, Open
<1>7. Sent(c)'
  BY <1>2, <1>3, <1>5 DEF Local, Sent, Open, Answered, InHand
<1>8. Genuine(c)'
  BY <1>2, <1>3, <1>4, <1>5 DEF Local, Genuine, Answered, InHand
<1> QED BY <1>6, <1>7, <1>8 DEF Local

\* Connecting clears the flags, and closes what was open.
LEMMA ConnectKeeps ==
  ASSUME TypeOK, TypeOK', NEW c \in Client, Local(c), Connect(c)
  PROVE  Local(c)'
BY DEF Connect, TypeOK, Local, Recorded, Sent, Genuine, Open, Answered, InHand, Editing,
   taskVars, Underway

\* Whoever reads the list has the open changes in it.
LEMMA ReadFlagsKeeps ==
  ASSUME TypeOK, TypeOK', NEW c \in Client, Local(c), ReadFlags(c)
  PROVE  Local(c)'
<1>1. edit[c] # NoEdit /\ edit[c] \in Edits
      /\ edit' = [edit EXCEPT ![c].seen = flags[c], ![c].read = TRUE]
  BY DEF ReadFlags, TypeOK
<1>2. edit'[c].setting = edit[c].setting /\ edit'[c].seen = flags[c] /\ edit'[c] # NoEdit
  <2>1. edit'[c] = [edit[c] EXCEPT !.seen = flags[c], !.read = TRUE]
    BY <1>1 DEF TypeOK
  <2>2. edit'[c] = [setting |-> edit[c].setting, seen |-> flags[c], read |-> TRUE]
    BY <1>1, <2>1 DEF Edits
  <2>3. edit'[c] \in Edits
    BY <1>1, <2>2 DEF TypeOK, Edits
  <2>4. NoEdit \notin Edits
    BY SettingsSyncAssumption DEF Edits
  <2>5. edit'[c] # NoEdit
    BY <2>3, <2>4
  <2>6. edit'[c].setting = edit[c].setting /\ edit'[c].seen = flags[c]
    BY <2>2
  <2> QED BY <2>5, <2>6
<1>3. UNCHANGED <<value, flags, pc, todo, job, hold, seen, fresh, hit>>
  BY DEF ReadFlags, taskVars, ghostVars
<1>4. Editing(c)' = Editing(c)
  BY <1>1, <1>2 DEF Editing
<1>5. Recorded(c)'
  BY <1>2, <1>3, <1>4 DEF Local, Recorded, Open
<1>6. Sent(c)'
  BY <1>3, <1>4 DEF Local, Sent, Open, Answered, InHand
<1>7. Genuine(c)'
  BY <1>2, <1>3, <1>4 DEF Local, Genuine, Answered, InHand
<1> QED BY <1>5, <1>6, <1>7 DEF Local

\* The list that is written is the list that was read, and one more.
LEMMA WriteFlagKeeps ==
  ASSUME TypeOK, TypeOK', NEW c \in Client, Local(c), WriteFlag(c)
  PROVE  Local(c)'
BY DEF WriteFlag, TypeOK, Local, Recorded, Sent, Genuine, Open, Answered, InHand, Editing,
   taskVars

\* The task takes all the flags in hand; a change without its flag is hit.
LEMMA StartKeeps ==
  ASSUME TypeOK, TypeOK', NEW c \in Client, Local(c), Start(c)
  PROVE  Local(c)'
BY DEF Start, TypeOK, Local, Recorded, Sent, Genuine, Open, Answered, InHand, Editing, To,
   userVars

\* The task takes up one setting, with its value as it is.
LEMMA ReadValueKeeps ==
  ASSUME TypeOK, TypeOK', NEW c \in Client, Local(c), ReadValue(c)
  PROVE  Local(c)'
BY DEF ReadValue, TypeOK, Local, Recorded, Sent, Genuine, Open, Answered, InHand, Editing,
   To, userVars, ghostVars

\* A setting that is not sent is hit.
LEMMA SendFailsKeeps ==
  ASSUME TypeOK, TypeOK', NEW c \in Client, Local(c), SendFails(c)
  PROVE  Local(c)'
BY DEF SendFails, TypeOK, Local, Recorded, Sent, Genuine, Open, Answered, InHand, Editing,
   To, userVars

\* The task takes off no flag but that of the setting that it sent.
LEMMA UnflagKeeps ==
  ASSUME TypeOK, TypeOK', NEW c \in Client, Local(c), Unflag(c)
  PROVE  Local(c)'
<1>1. /\ pc[c] = "unflag" /\ pc'[c] = "send" /\ flags'[c] = seen[c] \ {job[c]}
      /\ UNCHANGED <<value, edit, todo, fresh>>
  BY DEF Unflag, Forget, To, TypeOK
<1>2. hit'[c] = IF edit[c] # NoEdit /\ edit[c].read THEN hit[c] \union {job[c]} ELSE hit[c]
  BY DEF Unflag, TypeOK
<1>3. Editing(c)' = Editing(c) /\ Answered(c) = {job[c]} /\ Answered(c)' = {}
      /\ InHand(c) = todo[c] /\ InHand(c)' = todo[c]
  BY <1>1 DEF Editing, Answered, InHand
<1>4. Recorded(c)'
  BY <1>1, <1>2, <1>3 DEF Local, Recorded, Sent, Open
<1>5. Sent(c)'
  BY <1>1, <1>2, <1>3 DEF Local, Sent, Open
<1>6. Genuine(c)'
  BY <1>1, <1>2, <1>3 DEF Local, Genuine
<1> QED BY <1>4, <1>5, <1>6 DEF Local

\* Nothing is left in hand, hence nothing is open.
LEMMA SendDoneKeeps ==
  ASSUME TypeOK, TypeOK', NEW c \in Client, Local(c), SendDone(c)
  PROVE  Local(c)'
BY DEF SendDone, TypeOK, Local, Recorded, Sent, Genuine, Open, Answered, InHand, Editing,
   To, userVars, ghostVars

\* The download begins with nothing open ...
LEMMA CompareKeeps ==
  ASSUME TypeOK, TypeOK', NEW c \in Client, Local(c), Compare(c)
  PROVE  Local(c)'
BY DEF Compare, TypeOK, Local, Recorded, Sent, Genuine, Open, Answered, InHand, Editing, To,
   userVars, taskVars, ghostVars, EndTask, Forget, Underway

\* ... goes on so ...
LEMMA StoreKeeps ==
  ASSUME TypeOK, TypeOK', NEW c \in Client, Local(c), Store(c)
  PROVE  Local(c)'
BY DEF Store, TypeOK, Local, Recorded, Sent, Genuine, Open, Answered, InHand, Editing, To,
   Forget, ghostVars

\* ... and ends so.
LEMMA ReceiveDoneKeeps ==
  ASSUME TypeOK, TypeOK', NEW c \in Client, Local(c), ReceiveDone(c)
  PROVE  Local(c)'
BY DEF ReceiveDone, TypeOK, Local, Recorded, Sent, Genuine, Open, Answered, InHand, Editing,
   To, EndTask, Forget, userVars, ghostVars

\* The server gets the setting, so that its change is closed.
LEMMA ReceiveKeeps ==
  ASSUME TypeOK, TypeOK', NEW c \in Client, Local(c), Receive(c)
  PROVE  Local(c)'
<1>1. /\ pc[c] = "post" /\ pc'[c] = "ack"
      /\ UNCHANGED <<value, flags, edit, todo, job, hold, seen, hit>>
  BY DEF Receive, To, userVars, TypeOK
<1>2. fresh'[c] = IF value[c][job[c]] = hold[c] THEN fresh[c] \ {job[c]} ELSE fresh[c]
  BY DEF Receive, TypeOK
<1>3. Editing(c)' = Editing(c) /\ Answered(c) = {} /\ Answered(c)' = {job[c]}
      /\ InHand(c) = todo[c] \union {job[c]} /\ InHand(c)' = todo[c]
  BY <1>1 DEF Editing, Answered, InHand
<1>4. Recorded(c)'
  BY <1>1, <1>2, <1>3 DEF Local, Recorded, Open
<1>5. Sent(c)'
  BY <1>1, <1>2, <1>3 DEF Local, Sent, Open
<1>6. Genuine(c)'
  BY <1>1, <1>2, <1>3 DEF Local, Sent, Genuine
<1> QED BY <1>4, <1>5, <1>6 DEF Local

\* The task reads the list as it is.
LEMMA ConfirmedKeeps ==
  ASSUME TypeOK, TypeOK', NEW c \in Client, Local(c), Confirmed(c)
  PROVE  Local(c)'
BY DEF Confirmed, TypeOK, Local, Recorded, Sent, Genuine, Open, Answered, InHand, Editing,
   To, userVars, ghostVars

\* Asking for the total changes no setting.
LEMMA AskTotalKeeps ==
  ASSUME TypeOK, TypeOK', NEW c \in Client, Local(c), AskTotal(c)
  PROVE  Local(c)'
BY DEF AskTotal, TypeOK, Local, Recorded, Sent, Genuine, Open, Answered, InHand, Editing,
   To, userVars, ghostVars

\* What was underway, or had no flag yet, is hit.
LEMMA QuitKeeps ==
  ASSUME TypeOK, TypeOK', NEW c \in Client, Local(c), Quit(c)
  PROVE  Local(c)'
BY DEF Quit, TypeOK, Local, Recorded, Sent, Genuine, Open, Answered, InHand, Editing, To,
   EndTask, Forget, Underway

\* Getting a setting opens nothing.
LEMMA GetSettingKeeps ==
  ASSUME TypeOK, TypeOK', NEW c \in Client, Local(c), \E s \in Setting : GetSetting(c, s)
  PROVE  Local(c)'
BY DEF GetSetting, TypeOK, Local, Recorded, Sent, Genuine, Open, Answered, InHand, Editing,
   To, userVars, ghostVars

-----------------------------------------------------------------------------
(* The theorems *)

\* Nothing is open at the start.
LEMMA InitInv == Init => IInv
<1> SUFFICES ASSUME Init PROVE IInv
  OBVIOUS
<1>1. TypeOK
  BY InitIsTyped
<1>2. \A c \in Client : Local(c)
  BY DEF Init, Local, Recorded, Sent, Genuine, Open, Answered, InHand, Editing
<1> QED BY <1>1, <1>2 DEF IInv

\* Every step keeps the invariant: it concerns one client, or none.
LEMMA StepInv == IInv /\ [Next]_vars => IInv'
<1> SUFFICES ASSUME IInv, [Next]_vars PROVE IInv'
  OBVIOUS
<1>1. TypeOK /\ TypeOK' /\ \A c \in Client : Local(c)
  BY StepIsTyped DEF IInv
<1>2. ASSUME NEW d \in Client,
             \/ Change(d) \/ Connect(d) \/ Save(d) \/ Send(d) \/ Fetch(d) \/ Network(d) \/ Quit(d),
             NEW c \in Client
      PROVE  Local(c)'
  <2>1. CASE d # c
    <3>1. d \in Client \ {c}
      BY <2>1
    <3> QED BY <1>1, <1>2, <3>1, OthersKeep
  <2>2. CASE d = c
    <3>1. CASE Change(c) \/ Connect(c) \/ Quit(c)
      BY <1>1, <3>1, ChangeKeeps, ConnectKeeps, QuitKeeps
    <3>2. CASE Save(c)
      BY <1>1, <3>2, ReadFlagsKeeps, WriteFlagKeeps DEF Save
    <3>3. CASE Send(c)
      BY <1>1, <3>3, StartKeeps, ReadValueKeeps, SendFailsKeeps, UnflagKeeps, SendDoneKeeps
      DEF Send
    <3>4. CASE Fetch(c)
      BY <1>1, <3>4, CompareKeeps, StoreKeeps, ReceiveDoneKeeps DEF Fetch
    <3>5. CASE Network(c)
      BY <1>1, <3>5, ReceiveKeeps, ConfirmedKeeps, AskTotalKeeps, GetSettingKeeps DEF Network
    <3> QED BY <1>2, <2>2, <3>1, <3>2, <3>3, <3>4, <3>5
  <2> QED BY <2>1, <2>2
<1>3. CASE ChangeCloud \/ UNCHANGED vars
  <2>1. UNCHANGED <<userVars, taskVars, fresh, hit>>
    BY <1>3 DEF ChangeCloud, vars, ghostVars
  <2>2. \A c \in Client : Local(c)'
    BY <1>1, <2>1, UntouchedKeeps DEF userVars, TypeOK, taskVars
  <2> QED BY <1>1, <2>2 DEF IInv
<1>4. CASE \E d \in Client :
             \/ Change(d) \/ Connect(d) \/ Save(d) \/ Send(d) \/ Fetch(d) \/ Network(d) \/ Quit(d)
  BY <1>1, <1>2, <1>4 DEF IInv
<1> QED BY <1>3, <1>4 DEF Next

\* Hence the invariant always holds.
LEMMA Invariance == Spec => []IInv
<1>1. Init => IInv
  BY InitInv
<1>2. IInv /\ [Next]_vars => IInv'
  BY StepInv
<1> QED BY <1>1, <1>2, PTL DEF Spec

\* Every variable keeps to its type: only settings that clients send are ever
\* flagged (userVars of kernel/database/config/user.cpp).
THEOREM TypeCorrect == Spec => []TypeOK
<1>1. IInv => TypeOK
  BY DEF IInv
<1> QED BY <1>1, Invariance, PTL

\* Outside of the windows, a change that the server lacks is flagged, or about
\* to be, in whatever order the user and the task write the list of flags.
THEOREM Flagged == Spec => []UnsentIsFlagged
<1>1. IInv => UnsentIsFlagged
  BY DEF IInv, UnsentIsFlagged, Local, Recorded, Open
<1> QED BY <1>1, Invariance, PTL

\* The download stores no setting that has an open change: when it starts, all
\* of the task's settings are sent.
LEMMA StepKeeps ==
  ASSUME IInv, [Next]_vars, NEW c \in Client, NEW s \in fresh[c] \ hit[c]
  PROVE  value'[c][s] = value[c][s] \/ Change(c)
<1>1. TypeOK /\ s \in Setting /\ Local(c)
  BY SettingsSyncAssumption DEF IInv, TypeOK
<1>2. ASSUME NEW d \in Client, Change(d) PROVE value'[c][s] = value[c][s] \/ Change(c)
  BY <1>1, <1>2 DEF Change, TypeOK
<1>3. ASSUME NEW d \in Client, Store(d) PROVE value'[c][s] = value[c][s]
  <2>1. CASE d = c
    BY <1>1, <1>3, <2>1 DEF Local, Sent, Open, InHand, Store
  <2>2. CASE d # c
    BY <1>1, <1>3, <2>2 DEF Store, TypeOK
  <2> QED BY <2>1, <2>2
<1>4. CASE UNCHANGED value
  BY <1>4
<1>5. ASSUME NEW d \in Client, Connect(d) \/ Save(d) \/ Send(d) \/ Network(d) \/ Quit(d)
             \/ Compare(d) \/ ReceiveDone(d)
      PROVE  UNCHANGED value
  BY <1>5 DEF Connect, Save, ReadFlags, WriteFlag, Send, Start, ReadValue, SendFails, Unflag,
     SendDone, Network, Receive, Confirmed, AskTotal, GetSetting, Quit, Compare, ReceiveDone,
     userVars
<1>6. ChangeCloud => UNCHANGED value
  BY DEF ChangeCloud, userVars
<1>7. UNCHANGED vars => UNCHANGED value
  BY DEF vars, userVars
<1> QED BY <1>2, <1>3, <1>4, <1>5, <1>6, <1>7 DEF Next, Fetch

\* Outside of the windows, getting the settings takes no unsent change back.
THEOREM Kept == Spec => UnsentIsKept
<1>1. IInv /\ [Next]_vars =>
        [\A c \in Client : \A s \in fresh[c] \ hit[c] :
           value'[c][s] = value[c][s] \/ Change(c)]_vars
  BY StepKeeps
<1> QED BY <1>1, Invariance, PTL DEF Spec, UnsentIsKept

\* The server stores what a client sends, and nothing else that clients do.
LEMMA StepSendsChanges ==
  ASSUME IInv, [Next]_vars, NEW s \in Setting, cloud'[s] # cloud[s]
  PROVE  \/ ChangeCloud
         \/ \E c \in Client : Receive(c) /\ job[c] = s /\ (s \in fresh[c] \/ s \in hit[c])
<1>1. TypeOK /\ \A c \in Client : Local(c)
  BY DEF IInv
<1>2. ASSUME NEW d \in Client, Receive(d)
      PROVE  job[d] = s /\ (s \in fresh[d] \/ s \in hit[d])
  <2>1. job[d] = s
    BY <1>1, <1>2 DEF Receive, TypeOK
  <2>2. s \in InHand(d)
    BY <1>2, <2>1 DEF Receive, InHand
  <2> QED BY <1>1, <2>1, <2>2 DEF Local, Genuine
<1>3. ASSUME NEW d \in Client,
             Change(d) \/ Connect(d) \/ Save(d) \/ Send(d) \/ Fetch(d) \/ Quit(d)
             \/ Confirmed(d) \/ AskTotal(d) \/ \E t \in Setting : GetSetting(d, t)
      PROVE  FALSE
  BY <1>3 DEF Change, Connect, Save, ReadFlags, WriteFlag, Send, Start, ReadValue, SendFails,
     Unflag, SendDone, Fetch, Compare, Store, ReceiveDone, Confirmed, AskTotal, GetSetting, Quit
<1>4. ~UNCHANGED vars
  BY DEF vars
<1> QED BY <1>2, <1>3, <1>4 DEF Next, Network

\* No client ever sends a value that it only got from the server.
THEOREM OnlyChanges == Spec => OnlyChangesAreSent
<1>1. IInv /\ [Next]_vars =>
        [\A s \in Setting :
           cloud'[s] # cloud[s] =>
             \/ ChangeCloud
             \/ \E c \in Client : Receive(c) /\ job[c] = s /\ (s \in fresh[c] \/ s \in hit[c])]_vars
  BY StepSendsChanges
<1> QED BY <1>1, Invariance, PTL DEF Spec, OnlyChangesAreSent
=============================================================================
