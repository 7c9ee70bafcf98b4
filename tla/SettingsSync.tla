---------------------------- MODULE SettingsSync ----------------------------
(***************************************************************************)
(* Send/receive of the settings of a user who works on several clients and *)
(* on the Cloud's own site: the client's task                              *)
(* (kernel/sendreceive/settings.cpp), the server's handler                 *)
(* (kernel/sync/settings.cpp), and the list of the settings that changed   *)
(* on a client (kernel/database/config/user.cpp).                          *)
(*                                                                         *)
(* A change sets the value and flags the setting.  The task sends what is  *)
(* flagged, and then gets all settings if anything differs.  Where this    *)
(* may lose a change is recorded in 'hit', so that the properties can say  *)
(* what holds everywhere else:                                             *)
(*   - the user changes a setting while the task runs;                     *)
(*   - a setting is not sent, or its answer does not arrive, for the task  *)
(*     goes on to the download;                                            *)
(*   - the client stops while a setting is underway.                       *)
(***************************************************************************)
EXTENDS Integers, FiniteSets, FiniteSetsExt

CONSTANTS
  Client,    \* The clients of the user.
  Setting,   \* The settings, numbered in the order in which they are got.
  Sendable,  \* Those that clients send: the others are only received.
  MaxMade,   \* The bound on the changes the user makes.
  MaxQuits,  \* The bound on how often clients stop.
  NoEdit     \* The user is not changing a setting.

ASSUME SettingsSyncAssumption ==
  /\ Setting \subseteq Nat /\ Setting # {} /\ IsFiniteSet(Setting)
  /\ Sendable \subseteq Setting
  /\ MaxMade \in Nat /\ MaxQuits \in Nat
  /\ NoEdit \notin [setting : Sendable, seen : SUBSET Sendable, read : BOOLEAN]

VARIABLES
  cloud,    \* The settings on the server, and ...
  value,    \* ... on each client.  A value is the number of its change.
  flags,    \* The settings flagged as updated, per client.
  edit,     \* The user's change whose flag is not written yet.
  pc,       \* Where the client's task is.
  todo,     \* The settings it still has to send or to get.
  job,      \* The setting that it is sending or getting ...
  hold,     \* ... and its value.
  seen,     \* The list of flags that it read, to take one off.
  total,    \* The server's settings as its checksum has them.
  made,     \* History: the number of changes and ...
  quits,    \* ... of stops so far, ...
  fresh,    \* ... the changes that did not get to the server yet, ...
  hit       \* ... and the settings with a change that may get lost.

userVars == <<value, flags, edit>>
taskVars == <<pc, todo, job, hold, seen, total>>
ghostVars == <<made, quits, fresh, hit>>
vars == <<cloud, userVars, taskVars, ghostVars>>

Value == 0..MaxMade
Edits == [setting : Sendable, seen : SUBSET Sendable, read : BOOLEAN]
PC == {"idle", "send", "post", "ack", "unflag", "total", "compare", "get", "store"}

TypeOK ==
  /\ cloud \in [Setting -> Value]
  /\ value \in [Client -> [Setting -> Value]]
  /\ flags \in [Client -> SUBSET Sendable]
  /\ edit \in [Client -> Edits \union {NoEdit}]
  /\ pc \in [Client -> PC]
  /\ todo \in [Client -> SUBSET Setting]
  /\ job \in [Client -> Setting]
  /\ hold \in [Client -> Value]
  /\ seen \in [Client -> SUBSET Sendable]
  /\ total \in [Client -> [Setting -> Value]]
  /\ made \in 0..MaxMade
  /\ quits \in 0..MaxQuits
  /\ fresh \in [Client -> SUBSET Sendable]
  /\ hit \in [Client -> SUBSET Setting]

Same == [s \in Setting |-> 0]

Init ==
  /\ cloud = Same
  /\ value = [c \in Client |-> Same]
  /\ flags = [c \in Client |-> {}]
  /\ edit = [c \in Client |-> NoEdit]
  /\ pc = [c \in Client |-> "idle"]
  /\ todo = [c \in Client |-> {}]
  /\ job = [c \in Client |-> Min(Setting)]
  /\ hold = [c \in Client |-> 0]
  /\ seen = [c \in Client |-> {}]
  /\ total = [c \in Client |-> Same]
  /\ made = 0
  /\ quits = 0
  /\ fresh = [c \in Client |-> {}]
  /\ hit = [c \in Client |-> {}]

-----------------------------------------------------------------------------
(* The user *)

Editing(c) == IF edit[c] = NoEdit THEN {} ELSE {edit[c].setting}
Underway(c) == pc[c] \in {"post", "ack", "unflag"}

\* Mutant: settings that are not sent get flagged too.
ChangeAny(c) ==
  /\ edit[c] = NoEdit /\ made < MaxMade
  /\ made' = made + 1
  /\ \E s \in Setting :
       /\ value' = [value EXCEPT ![c][s] = made']
       /\ edit' = [edit EXCEPT ![c] = [setting |-> s, seen |-> {}, read |-> FALSE]]
       /\ fresh' = [fresh EXCEPT ![c] = @ \union {s}]
       /\ hit' = IF pc[c] = "idle" THEN hit ELSE [hit EXCEPT ![c] = @ \union {s}]
  /\ UNCHANGED <<cloud, flags, taskVars, quits>>

\* The user changes a setting on a client: first its value, ...
Change(c) ==
  /\ edit[c] = NoEdit /\ made < MaxMade
  /\ made' = made + 1
  /\ \E s \in Sendable :
       /\ value' = [value EXCEPT ![c][s] = made']
       /\ edit' = [edit EXCEPT ![c] = [setting |-> s, seen |-> {}, read |-> FALSE]]
       /\ fresh' = [fresh EXCEPT ![c] = @ \union {s}]
       /\ hit' = IF pc[c] = "idle" THEN hit ELSE [hit EXCEPT ![c] = @ \union {s}]
  /\ UNCHANGED <<cloud, flags, taskVars, quits>>

\* ... then the list of the flags, which is read ...
ReadFlags(c) ==
  /\ edit[c] # NoEdit /\ ~edit[c].read
  /\ edit' = [edit EXCEPT ![c].seen = flags[c], ![c].read = TRUE]
  /\ UNCHANGED <<cloud, value, flags, taskVars, ghostVars>>

\* Mutant: a change replaces the list.
WriteFlagOnly(c) ==
  /\ edit[c] # NoEdit /\ edit[c].read
  /\ flags' = [flags EXCEPT ![c] = {edit[c].setting}]
  /\ edit' = [edit EXCEPT ![c] = NoEdit]
  /\ hit' = IF pc[c] = "unflag" THEN [hit EXCEPT ![c] = @ \union {edit[c].setting}] ELSE hit
  /\ UNCHANGED <<cloud, value, taskVars, made, quits, fresh>>

\* ... and written.
WriteFlag(c) ==
  /\ edit[c] # NoEdit /\ edit[c].read
  /\ flags' = [flags EXCEPT ![c] = edit[c].seen \union {edit[c].setting}]
  /\ edit' = [edit EXCEPT ![c] = NoEdit]
  /\ hit' = IF pc[c] = "unflag" THEN [hit EXCEPT ![c] = @ \union {edit[c].setting}] ELSE hit
  /\ UNCHANGED <<cloud, value, taskVars, made, quits, fresh>>

\* The user, or for some settings the administrator, changes it on the Cloud.
ChangeCloud ==
  /\ made < MaxMade
  /\ made' = made + 1
  /\ \E s \in Setting : cloud' = [cloud EXCEPT ![s] = made']
  /\ UNCHANGED <<userVars, taskVars, quits, fresh, hit>>

\* The user connects the client to the Cloud once more.
Connect(c) ==
  /\ flags' = [flags EXCEPT ![c] = {}]
  /\ fresh' = [fresh EXCEPT ![c] = @ \intersect Editing(c)]
  /\ hit' = [hit EXCEPT ![c] = @ \union seen[c]
       \union (IF edit[c] # NoEdit THEN edit[c].seen ELSE {})
       \union (IF pc[c] = "send" THEN todo[c] ELSE {})
       \union (IF Underway(c) THEN todo[c] \union {job[c]} ELSE {})]
  /\ UNCHANGED <<cloud, value, edit, taskVars, made, quits>>

-----------------------------------------------------------------------------
(* The client sends the settings that are flagged. *)

To(c, where) == pc' = [pc EXCEPT ![c] = where]

\* The task's locals go out of scope.
Forget(c) ==
  /\ hold' = [hold EXCEPT ![c] = 0]
  /\ seen' = [seen EXCEPT ![c] = {}]
  /\ job' = [job EXCEPT ![c] = Min(Setting)]

EndTask(c) ==
  /\ To(c, "idle")
  /\ todo' = [todo EXCEPT ![c] = {}]
  /\ total' = [total EXCEPT ![c] = Same]
  /\ Forget(c)

\* An edit whose flag is not written yet is overlapped by the task.
Start(c) ==
  /\ pc[c] = "idle"
  /\ To(c, "send")
  /\ todo' = [todo EXCEPT ![c] = flags[c]]
  /\ hit' = [hit EXCEPT ![c] = @ \union Editing(c)]
  /\ UNCHANGED <<cloud, userVars, job, hold, seen, total, made, quits, fresh>>

ReadValue(c) ==
  /\ pc[c] = "send"
  /\ \E s \in todo[c] :
       /\ job' = [job EXCEPT ![c] = s]
       /\ todo' = [todo EXCEPT ![c] = @ \ {s}]
       /\ hold' = [hold EXCEPT ![c] = value[c][s]]
  /\ To(c, "post")
  /\ UNCHANGED <<cloud, userVars, seen, total, ghostVars>>

\* The server stores what it gets.
Receive(c) ==
  /\ pc[c] = "post"
  /\ cloud' = [cloud EXCEPT ![job[c]] = hold[c]]
  /\ fresh' = IF value[c][job[c]] = hold[c]
              THEN [fresh EXCEPT ![c] = @ \ {job[c]}] ELSE fresh
  /\ To(c, "ack")
  /\ UNCHANGED <<userVars, todo, job, hold, seen, total, made, quits, hit>>

\* An error: the flag stays.
SendFails(c) ==
  /\ pc[c] \in {"post", "ack"}
  /\ To(c, "send")
  /\ Forget(c)
  /\ hit' = [hit EXCEPT ![c] = @ \union {job[c]}]
  /\ UNCHANGED <<cloud, userVars, todo, total, made, quits, fresh>>

\* removeUpdatedSetting reads the list ...
Confirmed(c) ==
  /\ pc[c] = "ack"
  /\ seen' = [seen EXCEPT ![c] = flags[c]]
  /\ To(c, "unflag")
  /\ UNCHANGED <<cloud, userVars, todo, job, hold, total, ghostVars>>

\* Mutant: the flag stays.
UnflagNot(c) ==
  /\ pc[c] = "unflag"
  /\ To(c, "send")
  /\ Forget(c)
  /\ UNCHANGED <<cloud, userVars, todo, total, ghostVars>>

\* ... and writes it without this setting.
Unflag(c) ==
  /\ pc[c] = "unflag"
  /\ flags' = [flags EXCEPT ![c] = seen[c] \ {job[c]}]
  /\ To(c, "send")
  /\ Forget(c)
  /\ hit' = IF edit[c] # NoEdit /\ edit[c].read THEN [hit EXCEPT ![c] = @ \union {job[c]}] ELSE hit
  /\ UNCHANGED <<cloud, value, edit, todo, total, made, quits, fresh>>

\* Mutant: the first failure ends the sending.
SendDoneEarly(c) ==
  /\ pc[c] = "send"
  /\ To(c, "total")
  /\ todo' = [todo EXCEPT ![c] = {}]
  /\ UNCHANGED <<cloud, userVars, job, hold, seen, total, ghostVars>>

SendDone(c) ==
  /\ pc[c] = "send" /\ todo[c] = {}
  /\ To(c, "total")
  /\ UNCHANGED <<cloud, userVars, todo, job, hold, seen, total, ghostVars>>

-----------------------------------------------------------------------------
(* The client gets all settings if the totals differ. *)

AskTotal(c) ==
  /\ pc[c] = "total"
  /\ total' = [total EXCEPT ![c] = cloud]
  /\ To(c, "compare")
  /\ UNCHANGED <<cloud, userVars, todo, job, hold, seen, ghostVars>>

\* Mutant: settings that only come from the Cloud are not compared.
DiffersSendable(c) == \E s \in Sendable : total[c][s] # value[c][s]

Differs(c) == total[c] # value[c]

Compare(c) ==
  /\ pc[c] = "compare"
  /\ IF Differs(c)
     THEN /\ To(c, "get")
          /\ todo' = [todo EXCEPT ![c] = Setting]
          /\ total' = [total EXCEPT ![c] = Same]
          /\ UNCHANGED <<job, hold, seen>>
     ELSE EndTask(c)
  /\ UNCHANGED <<cloud, userVars, ghostVars>>

GetSetting(c, s) ==
  /\ pc[c] = "get" /\ s \in todo[c]
  /\ \A other \in todo[c] : s <= other
  /\ job' = [job EXCEPT ![c] = s]
  /\ hold' = [hold EXCEPT ![c] = cloud[s]]
  /\ todo' = [todo EXCEPT ![c] = @ \ {s}]
  /\ To(c, "store")
  /\ UNCHANGED <<cloud, userVars, seen, total, ghostVars>>

Store(c) ==
  /\ pc[c] = "store"
  /\ value' = [value EXCEPT ![c][job[c]] = hold[c]]
  /\ To(c, "get")
  /\ Forget(c)
  /\ UNCHANGED <<cloud, flags, edit, todo, total, ghostVars>>

\* All is received, or a request failed and the task returns.
ReceiveDone(c) ==
  /\ \/ pc[c] = "get"
     \/ pc[c] = "total"
  /\ EndTask(c)
  /\ UNCHANGED <<cloud, userVars, ghostVars>>

\* The client stops.  A change that is not flagged yet is one more window.
Quit(c) ==
  /\ pc[c] # "idle" \/ edit[c] # NoEdit
  /\ quits < MaxQuits /\ quits' = quits + 1
  /\ EndTask(c)
  /\ edit' = [edit EXCEPT ![c] = NoEdit]
  /\ hit' = [hit EXCEPT ![c] = @
       \union (IF Underway(c) THEN {job[c]} ELSE {}) \union Editing(c)]
  /\ UNCHANGED <<cloud, value, flags, made, fresh>>

-----------------------------------------------------------------------------
Save(c) == ReadFlags(c) \/ WriteFlag(c)
Send(c) ==
  \/ Start(c) \/ ReadValue(c) \/ SendFails(c) \/ Unflag(c) \/ SendDone(c)
Fetch(c) == Compare(c) \/ Store(c) \/ ReceiveDone(c)
Network(c) == Receive(c) \/ Confirmed(c) \/ AskTotal(c) \/ \E s \in Setting : GetSetting(c, s)

Next ==
  \/ \E c \in Client :
       Change(c) \/ Connect(c) \/ Save(c) \/ Send(c) \/ Fetch(c) \/ Network(c) \/ Quit(c)
  \/ ChangeCloud

Spec == Init /\ [][Next]_vars
-----------------------------------------------------------------------------
(* Properties *)

\* A change that the server has not got is flagged, or about to be: nothing
\* else would ever send it.
UnsentIsFlagged ==
  \A c \in Client : \A s \in fresh[c] \ hit[c] :
    s \in flags[c] \union Editing(c)

\* The download does not take back a change that was not sent.
UnsentIsKept ==
  [][\A c \in Client : \A s \in fresh[c] \ hit[c] :
       value'[c][s] = value[c][s] \/ Change(c)]_vars

\* The clients send the user's changes only, and never a value that they got
\* from the server themselves, which might put back an old one.
OnlyChangesAreSent ==
  [][\A s \in Setting :
       cloud'[s] # cloud[s] =>
         \/ ChangeCloud
         \/ \E c \in Client : Receive(c) /\ job[c] = s /\ (s \in fresh[c] \/ s \in hit[c])]_vars

Fairness ==
  \A c \in Client :
    /\ WF_vars(Save(c)) /\ WF_vars(Send(c)) /\ WF_vars(Fetch(c))
    /\ SF_vars(Receive(c)) /\ SF_vars(Confirmed(c)) /\ SF_vars(AskTotal(c))
    /\ \A s \in Setting : SF_vars(GetSetting(c, s))

FairSpec == Spec /\ Fairness

\* Whatever was hit: once the user rests, all clients get the Cloud's settings,
\* and nothing is left to send.
Resting == \A c \in Client : edit[c] = NoEdit
InStep == \A c \in Client : value[c] = cloud /\ flags[c] = {}

Convergence == <>[]Resting => <>[]InStep
=============================================================================
