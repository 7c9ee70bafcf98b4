----------------------------- MODULE TaskQueue -----------------------------
(***************************************************************************)
(* The background tasks of Bibledit: a folder with a file for each task    *)
(* (kernel/tasks/logic.cpp), the timer that starts the oldest one in a     *)
(* thread of its own (kernel/timer/index.cpp, kernel/tasks/run.cpp), the   *)
(* callers that queue tasks (kernel/sendreceive/logic.cpp), and the        *)
(* watchdogs that keep two synchronizations of a kind apart                *)
(* (kernel/sendreceive/{bibles,notes,settings,changes,resources}.cpp).     *)
(*                                                                         *)
(* There is no lock: a thread that looks at the folder goes over its files *)
(* one by one, and a file is created before it is filled.                  *)
(*                                                                         *)
(* Hazard names what the surroundings may do:                              *)
(*   "slow"  a thread takes more than a second to take its file and to set *)
(*           its watchdog, so that the timer looks at the folder meanwhile *)
(*   "half"  a thread reads a file that is created but not filled          *)
(*   "hang"  a synchronization does not kick its watchdog for 15 minutes   *)
(*   "exit"  the nightly restart comes between the start of a thread and   *)
(*           its count as a running task                                   *)
(***************************************************************************)
EXTENDS Integers, FiniteSets, Sequences, SequencesExt

CONSTANTS
  Timer,        \* The timer's thread.
  Web,          \* The threads of web requests that queue tasks.
  Thread,       \* The threads of tasks.
  Kind,         \* The commands of the tasks.
  Looked,       \* Those queued only if the caller does not see them queued.
  Prioritized,  \* The synchronizations with a watchdog, and ...
  Patient,      \* ... those that give way to the prioritized ones.
  Asks,         \* For each caller the tasks it queues in one go.
  MaxParallel,  \* MAX_PARALLEL_TASKS.
  MaxTasks,     \* The bound on the tasks that are there at the same time.
  MaxStops,     \* The bound on how often the program stops.
  Hazard,       \* What the surroundings may do.
  Nothing       \* A file that is gone or empty.

Caller == {Timer} \union Web
Sync == Prioritized \union Patient
Id == 1..MaxTasks

ASSUME TaskQueueAssumption ==
  /\ Caller \intersect Thread = {} /\ IsFiniteSet(Thread)
  /\ Looked \subseteq Kind /\ Sync \subseteq Kind
  /\ Prioritized \intersect Patient = {}
  /\ Asks \in [Caller -> Seq(Kind)]
  /\ MaxParallel \in Nat \ {0}
  /\ MaxTasks \in Nat /\ MaxStops \in Nat
  /\ Hazard \subseteq {"slow", "half", "hang", "exit"}
  /\ Nothing \notin Kind

VARIABLES
  folder,    \* The files of the tasks, the oldest first.
  phase,     \* Where the timer is in its loop.
  asks,      \* The tasks that somebody still has to queue, ...
  step,      \* ... where it is with the first of them, ...
  left,      \* ... the files it still has to look at, ...
  mine,      \* ... and the file it is writing.
  pc,        \* Where a thread is.
  task,      \* The file it was started for ...
  command,   \* ... and the command it read there.
  running,   \* The counter running_tasks.
  watchdog,  \* The watchdogs that are set.
  queued,    \* History: the tasks that were queued in full, ...
  ran,       \* ... how often each was executed, ...
  done,      \* ... those that are done, ...
  lost,      \* ... those in hand when the program stopped, ...
  stops      \* ... and how often it stopped.

askVars == <<asks, step, left, mine, queued>>
threadVars == <<pc, task, command, running, watchdog, ran, done>>
stopVars == <<lost, stops>>
vars == <<folder, phase, askVars, threadVars, stopVars>>

Files == [id : Id, kind : Kind, whole : BOOLEAN]
Asker == Caller \union Thread
Started == {"start", "read", "unlink", "look", "active", "kick"}
PC == Started \union {"free", "sync", "work", "postpone", "end"}

TypeOK ==
  /\ folder \in Seq(Files)
  /\ phase \in {"run", "queue", "exit", "restart"}
  /\ asks \in [Asker -> Seq(Kind)]
  /\ step \in [Asker -> {"scan", "look", "create", "write"}]
  /\ left \in [Asker -> Seq(Id)]
  /\ mine \in [Asker -> Id \union {0}]
  /\ pc \in [Thread -> PC]
  /\ task \in [Thread -> Id \union {0}]
  /\ command \in [Thread -> Kind \union {Nothing}]
  /\ running \in 0..Cardinality(Thread)
  /\ watchdog \subseteq Sync
  /\ queued \subseteq Id
  /\ ran \in [Id -> Nat]
  /\ done \subseteq Id
  /\ lost \subseteq Id
  /\ stops \in 0..MaxStops

Init ==
  /\ folder = <<>>
  /\ phase = "run"
  /\ asks = [p \in Asker |-> <<>>]
  /\ step = [p \in Asker |-> "scan"]
  /\ left = [p \in Asker |-> <<>>]
  /\ mine = [p \in Asker |-> 0]
  /\ pc = [t \in Thread |-> "free"]
  /\ task = [t \in Thread |-> 0]
  /\ command = [t \in Thread |-> Nothing]
  /\ running = 0
  /\ watchdog = {}
  /\ queued = {}
  /\ ran = [id \in Id |-> 0]
  /\ done = {}
  /\ lost = {}
  /\ stops = 0

-----------------------------------------------------------------------------
(* The folder *)

InFolder(id) == \E i \in DOMAIN folder : folder[i].id = id
Names == [i \in DOMAIN folder |-> folder[i].id]

\* What a file holds: nothing if it is gone, or not filled yet.
Contents(id) ==
  IF \E i \in DOMAIN folder : folder[i].id = id /\ folder[i].whole
  THEN (CHOOSE f \in ToSet(folder) : f.id = id).kind
  ELSE Nothing

\* The folder without this file; a name is there once.
Unlinked(id) ==
  IF InFolder(id)
  THEN RemoveAt(folder, CHOOSE i \in DOMAIN folder : folder[i].id = id)
  ELSE folder

-----------------------------------------------------------------------------
(* Queueing: sendreceive_queue_sync, tasks_logic_queued, tasks_logic_queue *)

\* The names that a new file may get: nobody deals with them any longer.
FreeIds ==
  {id \in Id : /\ ~InFolder(id)
               /\ \A q \in Asker : mine[q] # id
               /\ \A t \in Thread : task[t] # id}

\* There is room for all that is still to be queued.
Room(p) ==
  LET underway == FoldFunction(+, 0, [q \in Asker |-> Len(asks[q])])
  IN underway + Len(Asks[p]) <= Cardinality(FreeIds)

Begin(p) ==
  /\ asks[p] = <<>>
  /\ Room(p)
  /\ asks' = [asks EXCEPT ![p] = Asks[p]]

\* The user synchronizes manually, or sends a mail.
WebAsks(w) ==
  /\ Begin(w)
  /\ UNCHANGED <<folder, phase, step, left, mine, queued, threadVars, stopVars>>

\* Somebody is done with the first task that it has to queue.
Asked(p) ==
  /\ asks' = [asks EXCEPT ![p] = Tail(@)]
  /\ step' = [step EXCEPT ![p] = "scan"]
  /\ left' = [left EXCEPT ![p] = <<>>]

Scan(p) ==
  /\ asks[p] # <<>> /\ step[p] = "scan"
  /\ IF Head(asks[p]) \in Looked
     THEN /\ left' = [left EXCEPT ![p] = Names]
          /\ step' = [step EXCEPT ![p] = "look"]
     ELSE /\ step' = [step EXCEPT ![p] = "create"]
          /\ UNCHANGED left
  /\ UNCHANGED <<folder, phase, asks, mine, queued, threadVars, stopVars>>

\* A file that is gone or empty ends the search.
Look(p) ==
  /\ step[p] = "look"
  /\ IF left[p] = <<>> \/ Contents(Head(left[p])) = Nothing
     THEN /\ step' = [step EXCEPT ![p] = "create"]
          /\ left' = [left EXCEPT ![p] = <<>>]
          /\ UNCHANGED asks
     ELSE IF Contents(Head(left[p])) = Head(asks[p])
     THEN Asked(p)
     ELSE /\ left' = [left EXCEPT ![p] = Tail(@)]
          /\ UNCHANGED <<asks, step>>
  /\ UNCHANGED <<folder, phase, mine, queued, threadVars, stopVars>>

\* A name that is used again is another task.
Create(p) ==
  /\ step[p] = "create"
  /\ FreeIds # {}
  /\ LET id == Min(FreeIds)
     IN /\ folder' = Append(folder, [id |-> id, kind |-> Head(asks[p]), whole |-> FALSE])
        /\ mine' = [mine EXCEPT ![p] = id]
        /\ ran' = [ran EXCEPT ![id] = 0]
        /\ lost' = lost \ {id}
        /\ done' = done \ {id}
        /\ queued' = queued \ {id}
  /\ step' = [step EXCEPT ![p] = "write"]
  /\ UNCHANGED <<phase, asks, left, pc, task, command, running, watchdog, stops>>

\* What is written into a file that is gone is gone with it.
Write(p) ==
  /\ step[p] = "write"
  /\ folder' = [i \in DOMAIN folder |->
       IF folder[i].id = mine[p] THEN [folder[i] EXCEPT !.whole = TRUE] ELSE folder[i]]
  /\ queued' = queued \union {mine[p]}
  /\ mine' = [mine EXCEPT ![p] = 0]
  /\ Asked(p)
  /\ UNCHANGED <<phase, threadVars, stopVars>>

-----------------------------------------------------------------------------
(* The timer, once a second *)

Free == {t \in Thread : pc[t] = "free"}

\* Mutant: one task too many.
DueMore == folder # <<>> /\ running <= MaxParallel

\* The timer's look at the folder.
Due == folder # <<>> /\ running < MaxParallel

\* tasks_run_check
RunCheck ==
  /\ phase = "run"
  /\ "slow" \in Hazard \/ \A t \in Thread : pc[t] \notin Started
  /\ IF Due
     THEN LET t == CHOOSE t \in Free : TRUE
          IN /\ Free # {}
             /\ pc' = [pc EXCEPT ![t] = "start"]
             /\ task' = [task EXCEPT ![t] = Head(folder).id]
     ELSE UNCHANGED <<pc, task>>
  /\ phase' = "queue"
  /\ UNCHANGED <<folder, askVars, command, running, watchdog, ran, done, stopVars>>

\* It is time to queue something, or not.
TimerAsks ==
  /\ phase = "queue"
  /\ phase' = "exit"
  /\ Begin(Timer) \/ UNCHANGED asks
  /\ UNCHANGED <<folder, step, left, mine, queued, threadVars, stopVars>>

NextSecond ==
  /\ phase = "exit" /\ asks[Timer] = <<>>
  /\ phase' = "run"
  /\ UNCHANGED <<folder, askVars, threadVars, stopVars>>

-----------------------------------------------------------------------------
(* A task's thread: tasks_run_one *)

To(t, where) == pc' = [pc EXCEPT ![t] = where]

Count(t) ==
  /\ pc[t] = "start"
  /\ running' = running + 1
  /\ To(t, "read")
  /\ UNCHANGED <<folder, phase, askVars, task, command, watchdog, ran, done, stopVars>>

Read(t) ==
  /\ pc[t] = "read"
  /\ "half" \in Hazard \/ \A p \in Asker : mine[p] # task[t]
  /\ command' = [command EXCEPT ![t] = Contents(task[t])]
  /\ To(t, "unlink")
  /\ UNCHANGED <<folder, phase, askVars, task, running, watchdog, ran, done, stopVars>>

\* Mutant: the file of a task is left till the task is done.
UnlinkLate(t) ==
  /\ pc[t] = "unlink"
  /\ To(t, IF command[t] \in Sync THEN "look" ELSE "work")
  /\ ran' = IF command[t] = Nothing THEN ran ELSE [ran EXCEPT ![task[t]] = @ + 1]
  /\ UNCHANGED <<folder, phase, askVars, task, command, running, watchdog, done, stopVars>>

Unlink(t) ==
  /\ pc[t] = "unlink"
  /\ folder' = Unlinked(task[t])
  /\ IF command[t] = Nothing
     THEN To(t, "end") /\ UNCHANGED ran
     ELSE /\ To(t, IF command[t] \in Sync THEN "look" ELSE "work")
          /\ ran' = [ran EXCEPT ![task[t]] = @ + 1]
  /\ UNCHANGED <<phase, askVars, task, command, running, watchdog, done, stopVars>>

\* Mutant: no look at the watchdog.
NotBusy(t) == FALSE

\* The watchdog is set, and it has not timed out.
Busy(t) == command[t] \in watchdog

\* A task that hangs is one that lasts 15 minutes.
CheckWatchdog(t) ==
  /\ pc[t] = "look"
  /\ \/ Busy(t) /\ To(t, "end")
     \/ /\ ~Busy(t) \/ "hang" \in Hazard
        /\ To(t, IF command[t] \in Patient THEN "active" ELSE "kick")
  /\ UNCHANGED <<folder, phase, askVars, task, command, running, watchdog, ran, done, stopVars>>

\* The resources wait while the prioritized synchronizations are active, and
\* there may be none to get.
GiveWay(t) ==
  /\ pc[t] = "active"
  /\ IF watchdog \intersect Prioritized # {}
     THEN /\ watchdog' = watchdog \ {command[t]}
          /\ asks' = [asks EXCEPT ![t] = <<command[t]>>]
          /\ done' = done \union {task[t]}
          /\ task' = [task EXCEPT ![t] = 0]
          /\ To(t, "postpone")
     ELSE /\ To(t, "kick") \/ To(t, "end")
          /\ UNCHANGED <<watchdog, asks, done, task>>
  /\ UNCHANGED <<folder, phase, step, left, mine, queued, command, running, ran, stopVars>>

\* Mutant: a task that is postponed is taken off the count already.
PostponedUncounted(t) ==
  /\ pc[t] = "postpone" /\ asks[t] = <<>>
  /\ To(t, "end")
  /\ running' = running - 1
  /\ UNCHANGED <<folder, phase, askVars, task, command, watchdog, ran, done, stopVars>>

Postponed(t) ==
  /\ pc[t] = "postpone" /\ asks[t] = <<>>
  /\ To(t, "end")
  /\ UNCHANGED <<folder, phase, askVars, task, command, running, watchdog, ran, done, stopVars>>

Kick(t) ==
  /\ pc[t] = "kick"
  /\ watchdog' = watchdog \union {command[t]}
  /\ To(t, "sync")
  /\ UNCHANGED <<folder, phase, askVars, task, command, running, ran, done, stopVars>>

\* Mutant: a way out that forgets to reset the watchdog.
SynchronizedForgetful(t) ==
  /\ pc[t] = "sync"
  /\ watchdog' \in {watchdog, watchdog \ {command[t]}}
  /\ To(t, "end")
  /\ UNCHANGED <<folder, phase, askVars, task, command, running, ran, done, stopVars>>

\* Whichever way a synchronization ends, it resets its watchdog.
Synchronized(t) ==
  /\ pc[t] = "sync"
  /\ watchdog' = watchdog \ {command[t]}
  /\ To(t, "end")
  /\ UNCHANGED <<folder, phase, askVars, task, command, running, ran, done, stopVars>>

Worked(t) ==
  /\ pc[t] = "work"
  /\ To(t, "end")
  /\ UNCHANGED <<folder, phase, askVars, task, command, running, watchdog, ran, done, stopVars>>

\* Mutant: a task that was not executed stays counted.
EndUncounted(t) ==
  /\ pc[t] = "end"
  /\ running' = IF command[t] = Nothing THEN running ELSE running - 1
  /\ done' = IF command[t] = Nothing THEN done ELSE done \union ({task[t]} \ {0})
  /\ To(t, "free")
  /\ task' = [task EXCEPT ![t] = 0]
  /\ command' = [command EXCEPT ![t] = Nothing]
  /\ UNCHANGED <<folder, phase, askVars, watchdog, ran, stopVars>>

End(t) ==
  /\ pc[t] = "end"
  /\ running' = running - 1
  /\ done' = IF command[t] = Nothing THEN done ELSE done \union ({task[t]} \ {0})
  /\ To(t, "free")
  /\ task' = [task EXCEPT ![t] = 0]
  /\ command' = [command EXCEPT ![t] = Nothing]
  /\ UNCHANGED <<folder, phase, askVars, watchdog, ran, stopVars>>

-----------------------------------------------------------------------------
(* The program stops and starts again: the files are still there. *)

\* Tasks that are taken from the folder, but not done.
InHand == {task[t] : t \in {u \in Thread : pc[u] \notin {"free", "start", "read"}}} \ {0}

Stop ==
  /\ stops < MaxStops
  /\ stops' = stops + 1
  /\ phase' = "run"
  /\ asks' = [p \in Asker |-> <<>>]
  /\ step' = [p \in Asker |-> "scan"]
  /\ left' = [p \in Asker |-> <<>>]
  /\ mine' = [p \in Asker |-> 0]
  /\ pc' = [t \in Thread |-> "free"]
  /\ task' = [t \in Thread |-> 0]
  /\ command' = [t \in Thread |-> Nothing]
  /\ running' = 0
  /\ watchdog' = {}
  /\ UNCHANGED <<folder, queued, ran, done>>

\* The client is closed, or anything crashes.
Quit ==
  /\ Stop
  /\ lost' = lost \union InHand

\* Mutant: the Cloud restarts whether tasks are active or not.
RestartDueBlind ==
  /\ phase = "exit" /\ asks[Timer] = <<>> /\ stops < MaxStops
  /\ phase' = "restart"
  /\ UNCHANGED <<folder, askVars, threadVars, stopVars>>

\* Bibledit Cloud is due to restart itself at night, and no tasks are active ...
RestartDue ==
  /\ phase = "exit" /\ asks[Timer] = <<>> /\ stops < MaxStops
  /\ running = 0
  /\ "exit" \in Hazard \/ \A t \in Thread : pc[t] # "start"
  /\ phase' = "restart"
  /\ UNCHANGED <<folder, askVars, threadVars, stopVars>>

\* ... so that it exits.
Restart ==
  /\ phase = "restart"
  /\ Stop
  /\ UNCHANGED lost

-----------------------------------------------------------------------------
Ask(p) == Scan(p) \/ Look(p) \/ Create(p) \/ Write(p)
Tick == RunCheck \/ TimerAsks \/ NextSecond \/ Restart
Run(t) ==
  \/ Count(t) \/ Read(t) \/ Unlink(t) \/ CheckWatchdog(t) \/ GiveWay(t)
  \/ Postponed(t) \/ Kick(t) \/ Synchronized(t) \/ Worked(t) \/ End(t)

Next ==
  \/ \E w \in Web : WebAsks(w)
  \/ \E p \in Asker : Ask(p)
  \/ Tick
  \/ \E t \in Thread : Run(t)
  \/ Quit \/ RestartDue

Spec == Init /\ [][Next]_vars
-----------------------------------------------------------------------------
(* Properties *)

\* Two synchronizations of one kind never run beside each other, however many
\* of them are queued: the send/receive of Bibles and of notes rely on that.
Exclusive ==
  \A t, u \in Thread :
    pc[t] = "sync" /\ pc[u] = "sync" /\ command[t] = command[u] => t = u

\* A watchdog is set for a synchronization that runs, and not left behind: it
\* would keep the next ones from running ("Still busy").
WatchdogHeld ==
  \A k \in watchdog : \E t \in Thread : pc[t] = "sync" /\ command[t] = k

\* A task is executed once, though it is looked for every second.
RunsOnce == \A id \in Id : ran[id] <= 1

\* A task that is queued is waiting, was executed, or was in hand when the
\* program was closed.  The nightly restart loses none.
NothingLost ==
  \A id \in queued :
    \/ InFolder(id)
    \/ \E t \in Thread : task[t] = id
    \/ id \in done \union lost

\* No more tasks at a time than MAX_PARALLEL_TASKS.
Bounded == Cardinality(Thread \ Free) <= MaxParallel

\* Fairness: the operating system schedules the threads, and tasks end.
Fairness ==
  /\ WF_vars(Tick)
  /\ \A p \in Asker : WF_vars(Ask(p))
  /\ \A t \in Thread : WF_vars(Run(t))

FairSpec == Spec /\ Fairness

\* Every queued task is executed, if not the program stops with it in hand.
EveryTaskRuns ==
  \A id \in Id : id \in queued ~> id \in done \union lost
=============================================================================
