--------------------------- MODULE TaskQueueProofs ---------------------------
(***************************************************************************)
(* What TaskQueue promises, proved for any threads, callers, tasks and     *)
(* bounds.                                                                 *)
(*                                                                         *)
(* Basic holds whatever the surroundings do.  Steady says that one thread  *)
(* at a time deals with the folder and with its watchdog, which holds as   *)
(* long as threads are not slow; Apart then says that the watchdogs do     *)
(* their work, unless a synchronization hangs; and Kept follows a task     *)
(* from its file, through the thread that takes it, to its end.            *)
(***************************************************************************)
EXTENDS TaskQueue, SequenceTheorems, FiniteSetTheorems, WellFoundedInduction, TLAPS

\* The threads that are counted as running.
Counted == {t \in Thread : pc[t] \notin {"free", "start"}}

\* Threads whose command is one that synchronizes.
Syncing == {"look", "active", "kick", "postpone", "sync"}

\* Threads that still know their file.
Handling == Started \union {"sync", "work"}

\* Names are unique in the folder.
Distinct == \A i, j \in DOMAIN folder : folder[i].id = folder[j].id => i = j

Basic ==
  /\ TypeOK
  /\ running = Cardinality(Counted)
  /\ Distinct
  /\ \A p \in Asker : /\ step[p] # "scan" => asks[p] # <<>>
                      /\ step[p] = "write" <=> mine[p] # 0
  /\ \A t \in Thread : pc[t] \in Syncing => command[t] \in Sync
  /\ \A t \in Thread : pc[t] \in Handling => task[t] \in Id

\* One thread at a time deals with the folder and its watchdog; tasks in the
\* folder were not executed yet.
Steady ==
  /\ \A t, u \in Thread : pc[t] \in Started /\ pc[u] \in Started => t = u
  /\ \A t \in Thread : pc[t] \in {"start", "read", "unlink"} => InFolder(task[t])
  /\ \A id \in Id : InFolder(id) => ran[id] = 0
  /\ RunsOnce
  /\ Bounded

\* The watchdogs that are set are those of the synchronizations that run.
Apart ==
  /\ \A t \in Thread : pc[t] = "sync" => command[t] \in watchdog
  /\ \A t \in Thread : pc[t] \in {"active", "kick"} => command[t] \notin watchdog
  /\ WatchdogHeld
  /\ Exclusive

\* A thread that has read its file.
Taken == {"unlink", "look", "active", "kick", "sync", "work", "postpone", "end"}

\* Nobody takes a file before it is filled, nor counts a thread too late.
Kept ==
  /\ \A i \in DOMAIN folder : folder[i].id \in queued => folder[i].whole
  /\ \A p \in Asker : mine[p] # 0 => mine[p] \notin queued /\ InFolder(mine[p])
  /\ \A p, q \in Asker : mine[p] # 0 /\ mine[p] = mine[q] => p = q
  /\ \A t \in Thread : pc[t] = "free" => task[t] = 0
  /\ \A t \in Thread, p \in Asker : pc[t] \in Taken /\ mine[p] # 0 => mine[p] # task[t]
  /\ \A t \in Thread : pc[t] \in Taken /\ command[t] = Nothing => task[t] \in Id \ queued
  /\ phase = "restart" => \A t \in Thread : pc[t] = "free"
  /\ NothingLost

-----------------------------------------------------------------------------
(* The folder *)

\* A set of numbers has a least one.
LEMMA MinIsLeast ==
  ASSUME NEW S \in SUBSET Nat, S # {}
  PROVE  Min(S) \in S
<1>1. PICK x \in S : \A y \in S : <<y, x>> \notin OpToRel(<, Nat)
  BY WFMin, NatLessThanWellFounded
<1>2. \A y \in S : x <= y
  <2> TAKE y \in S
  <2>1. x \in Nat /\ y \in Nat
    OBVIOUS
  <2>2. ~(y < x)
    BY <1>1, <2>1 DEF OpToRel
  <2> QED BY <2>1, <2>2
<1> QED BY <1>2 DEF Min

\* Taking away one element of a sequence.
LEMMA RemoveAtFacts ==
  ASSUME NEW S, NEW q \in Seq(S), NEW k \in 1..Len(q)
  PROVE  /\ RemoveAt(q, k) \in Seq(S)
         /\ Len(RemoveAt(q, k)) = Len(q) - 1
         /\ \A i \in 1..(Len(q) - 1) : RemoveAt(q, k)[i] = IF i < k THEN q[i] ELSE q[i + 1]
<1>1. /\ SubSeq(q, 1, k - 1) \in Seq(S) /\ Len(SubSeq(q, 1, k - 1)) = k - 1
      /\ \A i \in 1..(k - 1) : SubSeq(q, 1, k - 1)[i] = q[i]
  BY SubSeqProperties
<1>2. /\ SubSeq(q, k + 1, Len(q)) \in Seq(S)
      /\ Len(SubSeq(q, k + 1, Len(q))) = Len(q) - k
      /\ \A i \in 1..(Len(q) - k) : SubSeq(q, k + 1, Len(q))[i] = q[k + i]
  BY SubSeqProperties
<1> DEFINE a == SubSeq(q, 1, k - 1)
           b == SubSeq(q, k + 1, Len(q))
<1>3. /\ a \o b \in Seq(S) /\ Len(a \o b) = Len(a) + Len(b)
      /\ \A i \in 1..(Len(a) + Len(b)) :
           (a \o b)[i] = IF i <= Len(a) THEN a[i] ELSE b[i - Len(a)]
  BY <1>1, <1>2, ConcatProperties
<1>4. RemoveAt(q, k) = a \o b /\ Len(q) \in Nat
  BY LenProperties DEF RemoveAt
<1>5. /\ Len(a) = k - 1 /\ Len(b) = Len(q) - k
      /\ \A i \in 1..(k - 1) : a[i] = q[i]
      /\ \A i \in 1..(Len(q) - k) : b[i] = q[k + i]
  BY <1>1, <1>2
<1> HIDE DEF a, b
<1>6. /\ Len(a \o b) = Len(q) - 1
      /\ \A i \in 1..(Len(q) - 1) :
           (a \o b)[i] = IF i <= k - 1 THEN a[i] ELSE b[i - (k - 1)]
  <2>1. Len(a) + Len(b) = Len(q) - 1
    BY <1>4, <1>5
  <2> QED BY <1>3, <1>5, <2>1
<1>7. ASSUME NEW i \in 1..(Len(q) - 1)
      PROVE  (a \o b)[i] = IF i < k THEN q[i] ELSE q[i + 1]
  <2>1. CASE i < k
    BY <1>4, <1>5, <1>6, <2>1
  <2>2. CASE ~(i < k)
    <3>1. i - (k - 1) \in 1..(Len(q) - k) /\ k + (i - (k - 1)) = i + 1
      BY <1>4, <2>2
    <3>2. b[i - (k - 1)] = q[k + (i - (k - 1))]
      <4> DEFINE j == i - (k - 1)
      <4>1. j \in 1..(Len(q) - k)
        BY <3>1
      <4> HIDE DEF j
      <4>2. b[j] = q[k + j]
        BY <1>5, <4>1
      <4> QED BY <4>2 DEF j
    <3>3. (a \o b)[i] = b[i - (k - 1)]
      BY <1>4, <1>6, <2>2
    <3> QED BY <2>2, <3>1, <3>2, <3>3
  <2> QED BY <2>1, <2>2
<1> QED BY <1>3, <1>4, <1>6, <1>7

\* The files and their names, as sets.
Present == {folder[i] : i \in DOMAIN folder}

LEMMA PresentTyped ==
  ASSUME folder \in Seq(Files)
  PROVE  /\ Present \subseteq Files
         /\ \A f \in Present : f.id \in Id /\ f.kind \in Kind /\ f.whole \in BOOLEAN
         /\ DOMAIN folder = 1..Len(folder) /\ Len(folder) \in Nat
         /\ \A i \in 1..Len(folder) : folder[i] \in Files
<1>1. DOMAIN folder = 1..Len(folder) /\ Len(folder) \in Nat
      /\ \A i \in 1..Len(folder) : folder[i] \in Files
  BY LenProperties, ElementOfSeq
<1>2. Present \subseteq Files
  BY <1>1 DEF Present
<1>3. \A f \in Files : f.id \in Id /\ f.kind \in Kind /\ f.whole \in BOOLEAN
  BY DEF Files
<1> QED BY <1>1, <1>2, <1>3

\* Unlinking takes the file of that name away, and no other.
LEMMA UnlinkedFacts ==
  ASSUME folder \in Seq(Files), Distinct, NEW id, folder' = Unlinked(id)
  PROVE  /\ folder' \in Seq(Files) /\ Distinct'
         /\ Present' = {f \in Present : f.id # id}
<1>1. CASE ~InFolder(id)
  BY <1>1 DEF Unlinked, InFolder, Distinct, Present
<1>2. CASE InFolder(id)
  <2>1. PICK k \in 1..Len(folder) : folder[k].id = id /\ folder' = RemoveAt(folder, k)
    BY <1>2, PresentTyped DEF InFolder, Unlinked
  <2>2. /\ folder' \in Seq(Files) /\ Len(folder') = Len(folder) - 1
        /\ \A i \in 1..(Len(folder) - 1) :
             folder'[i] = IF i < k THEN folder[i] ELSE folder[i + 1]
    BY <2>1, RemoveAtFacts
  <2>3. DOMAIN folder = 1..Len(folder) /\ DOMAIN folder' = 1..(Len(folder) - 1)
        /\ Len(folder) \in Nat
    BY <2>2, LenProperties
  <2>4. Distinct'
    <3> DEFINE old(i) == IF i < k THEN i ELSE i + 1
    <3>1. \A i \in DOMAIN folder' : old(i) \in DOMAIN folder /\ folder'[i] = folder[old(i)]
      BY <2>1, <2>2, <2>3
    <3>2. \A i, j \in DOMAIN folder' : old(i) = old(j) => i = j
      BY <2>1, <2>3
    <3> HIDE DEF old
    <3> QED BY <3>1, <3>2 DEF Distinct
  <2>5. \A i \in DOMAIN folder : folder[i].id # id => folder[i] \in Present'
    <3> SUFFICES ASSUME NEW i \in DOMAIN folder, folder[i].id # id
                 PROVE  \E j \in DOMAIN folder' : folder'[j] = folder[i]
      BY DEF Present
    <3>1. CASE i < k
      BY <2>1, <2>2, <2>3, <3>1
    <3>2. CASE i > k
      <4>1. i - 1 \in 1..(Len(folder) - 1) /\ ~(i - 1 < k) /\ (i - 1) + 1 = i
        BY <2>3, <3>2
      <4> QED BY <2>2, <2>3, <4>1
    <3> QED BY <2>1, <2>3, <3>1, <3>2
  <2>6. \A j \in DOMAIN folder' : folder'[j] \in Present /\ folder'[j].id # id
    <3> SUFFICES ASSUME NEW j \in DOMAIN folder'
                 PROVE  \E i \in DOMAIN folder : folder'[j] = folder[i] /\ i # k
      BY <2>1, <2>3 DEF Present, Distinct
    <3>1. CASE j < k
      BY <2>2, <2>3, <3>1
    <3>2. CASE ~(j < k)
      BY <2>2, <2>3, <3>2
    <3> QED BY <3>1, <3>2
  <2>7. Present' = {f \in Present : f.id # id}
    BY <2>5, <2>6 DEF Present
  <2> QED BY <2>2, <2>4, <2>7
<1> QED BY <1>1, <1>2

\* A new file is the last one.
LEMMA CreatedFacts ==
  ASSUME folder \in Seq(Files), Distinct, NEW f \in Files, ~InFolder(f.id),
         folder' = Append(folder, f)
  PROVE  /\ folder' \in Seq(Files) /\ Distinct'
         /\ Present' = Present \union {f}
<1>1. /\ folder' \in Seq(Files) /\ DOMAIN folder = 1..Len(folder) /\ Len(folder) \in Nat
      /\ DOMAIN folder' = 1..(Len(folder) + 1)
      /\ folder'[Len(folder) + 1] = f
      /\ \A i \in 1..Len(folder) : folder'[i] = folder[i]
  BY AppendProperties, LenProperties
<1>2. Distinct'
  BY <1>1 DEF Distinct, InFolder
<1>3. Present' = Present \union {f}
  BY <1>1 DEF Present
<1> QED BY <1>1, <1>2, <1>3

\* Filling a file changes no name.
LEMMA WrittenFacts ==
  ASSUME folder \in Seq(Files), Distinct, NEW id,
         folder' = [i \in DOMAIN folder |->
           IF folder[i].id = id THEN [folder[i] EXCEPT !.whole = TRUE] ELSE folder[i]]
  PROVE  /\ folder' \in Seq(Files) /\ Distinct' /\ DOMAIN folder' = DOMAIN folder
         /\ \A i \in DOMAIN folder : /\ folder'[i].id = folder[i].id
                                     /\ folder'[i].whole = (folder[i].whole \/ folder[i].id = id)
<1>1. DOMAIN folder = 1..Len(folder) /\ Len(folder) \in Nat /\ DOMAIN folder' = DOMAIN folder
      /\ \A i \in DOMAIN folder : folder[i] \in Files
  BY PresentTyped
<1>2. ASSUME NEW i \in DOMAIN folder
      PROVE  /\ folder'[i] \in Files /\ folder'[i].id = folder[i].id
             /\ folder'[i].whole = (folder[i].whole \/ folder[i].id = id)
  <2>1. CASE folder[i].id = id
    <3>1. folder'[i] = [id |-> folder[i].id, kind |-> folder[i].kind, whole |-> TRUE]
      BY <1>1, <2>1 DEF Files
    <3>2. folder'[i] \in Files
      BY <1>1, <3>1 DEF Files
    <3>3. folder'[i].id = folder[i].id /\ folder'[i].whole = TRUE
      BY <3>1
    <3> QED BY <2>1, <3>2, <3>3
  <2>2. CASE folder[i].id # id
    <3>1. folder'[i] = folder[i]
      BY <2>2
    <3>2. folder[i].whole \in BOOLEAN
      BY <1>1 DEF Files
    <3> QED BY <1>1, <2>2, <3>1, <3>2
  <2> QED BY <2>1, <2>2
<1>3. folder' \in Seq(Files)
  <2>1. folder' = [i \in 1..Len(folder) |-> folder'[i]]
    BY <1>1
  <2>2. [i \in 1..Len(folder) |-> folder'[i]] \in [1..Len(folder) -> Files]
    BY <1>1, <1>2
  <2>3. \A n \in Nat : [1..n -> Files] \subseteq Seq(Files)
    BY SeqDef
  <2> QED BY <1>1, <2>1, <2>2, <2>3
<1>4. Distinct'
  BY <1>1, <1>2 DEF Distinct
<1> QED BY <1>1, <1>2, <1>3, <1>4

\* What a file holds.
LEMMA ContentsFacts ==
  ASSUME folder \in Seq(Files), NEW id
  PROVE  /\ Contents(id) \in Kind \union {Nothing}
         /\ (\E i \in DOMAIN folder : folder[i].id = id /\ folder[i].whole)
              => Contents(id) \in Kind
<1>1. CASE \E i \in DOMAIN folder : folder[i].id = id /\ folder[i].whole
  <2>1. ToSet(folder) = Present
    BY DEF ToSet, Present
  <2>2. \E f \in ToSet(folder) : f.id = id
    BY <1>1, <2>1 DEF Present
  <2>3. (CHOOSE f \in ToSet(folder) : f.id = id) \in Present
    BY <2>1, <2>2
  <2> QED BY <1>1, <2>3, PresentTyped DEF Contents
<1>2. CASE ~\E i \in DOMAIN folder : folder[i].id = id /\ folder[i].whole
  BY <1>2 DEF Contents
<1> QED BY <1>1, <1>2

-----------------------------------------------------------------------------
(* Whatever the surroundings do *)

\* A name that is given is that of no file, and nobody deals with it.
LEMMA NextNameIsFree ==
  ASSUME FreeIds # {}
  PROVE  /\ Min(FreeIds) \in Id /\ ~InFolder(Min(FreeIds))
         /\ \A q \in Asker : mine[q] # Min(FreeIds)
         /\ \A t \in Thread : task[t] # Min(FreeIds)
<1>1. FreeIds \in SUBSET Nat
  BY DEF FreeIds, Id
<1>2. Min(FreeIds) \in FreeIds
  BY <1>1, MinIsLeast
<1> QED BY <1>2 DEF FreeIds

\* The counter follows the threads.
LEMMA Uncounted ==
  ASSUME TypeOK, NEW t \in Thread
  PROVE  /\ IsFiniteSet(Counted) /\ Cardinality(Counted) \in Nat
         /\ Cardinality(Counted) <= Cardinality(Thread) /\ Cardinality(Thread) \in Nat
         /\ t \notin Counted => /\ Cardinality(Counted \union {t}) = Cardinality(Counted) + 1
                                /\ Cardinality(Counted) + 1 <= Cardinality(Thread)
         /\ t \in Counted => /\ Cardinality(Counted \ {t}) = Cardinality(Counted) - 1
                             /\ Cardinality(Counted) > 0
<1>1. IsFiniteSet(Thread) /\ Counted \subseteq Thread
  BY TaskQueueAssumption DEF Counted
<1>2. IsFiniteSet(Counted) /\ Cardinality(Counted) <= Cardinality(Thread)
  BY <1>1, FS_Subset
<1>3. Cardinality(Counted) \in Nat /\ Cardinality(Thread) \in Nat
  BY <1>1, <1>2, FS_CardinalityType
<1>4. t \notin Counted => Cardinality(Counted \union {t}) = Cardinality(Counted) + 1
  BY <1>2, FS_AddElement
<1>5. t \in Counted => Cardinality(Counted \ {t}) = Cardinality(Counted) - 1
  BY <1>2, FS_RemoveElement
<1>6. Cardinality(Counted \union {t}) <= Cardinality(Thread)
  BY <1>1, FS_Subset
<1>7. Cardinality(Counted \ {t}) \in Nat
  BY <1>2, FS_RemoveElement, FS_CardinalityType
<1> QED BY <1>2, <1>3, <1>4, <1>5, <1>6, <1>7

\* Nobody looks at the folder, or runs, at the start.
LEMMA InitBasic == Init => Basic
<1> SUFFICES ASSUME Init PROVE Basic
  OBVIOUS
<1>1. Counted = {} /\ running = Cardinality(Counted)
  <2>1. Counted = {}
    BY DEF Init, Counted
  <2> QED BY <2>1, FS_EmptySet DEF Init
<1>2. folder \in Seq(Files) /\ Distinct
  BY EmptySeq DEF Init, Distinct
<1>3. /\ asks \in [Asker -> Seq(Kind)] /\ left \in [Asker -> Seq(Id)]
      /\ step \in [Asker -> {"scan", "look", "create", "write"}]
      /\ mine \in [Asker -> Id \union {0}]
  <2>1. <<>> \in Seq(Kind) /\ <<>> \in Seq(Id)
    BY EmptySeq
  <2> QED BY <2>1 DEF Init
<1>4. /\ pc \in [Thread -> PC] /\ task \in [Thread -> Id \union {0}]
      /\ command \in [Thread -> Kind \union {Nothing}]
  BY DEF Init, PC
<1>5. /\ phase \in {"run", "queue", "exit", "restart"}
      /\ watchdog \subseteq Sync /\ queued \subseteq Id /\ ran \in [Id -> Nat]
      /\ done \subseteq Id /\ lost \subseteq Id /\ stops \in 0..MaxStops
      /\ running \in 0..Cardinality(Thread)
  <2>1. Cardinality(Thread) \in Nat
    BY TaskQueueAssumption, FS_CardinalityType
  <2> QED BY <2>1, TaskQueueAssumption DEF Init
<1>6. TypeOK
  BY <1>2, <1>3, <1>4, <1>5 DEF TypeOK
<1> QED BY <1>1, <1>2, <1>6 DEF Init, Basic, Syncing, Handling, Started

\* Threads that come neither into the count nor out of it.
LEMMA SameCount ==
  ASSUME Basic, TypeOK, running' = running, Counted' = Counted
  PROVE  running' = Cardinality(Counted)'
BY DEF Basic

LEMMA WebAsksBasic ==
  ASSUME Basic, NEW p \in Caller, Begin(p), UNCHANGED <<folder, step, left, mine, queued, threadVars, stopVars>>,
         phase' \in {"run", "queue", "exit", "restart"}
  PROVE  Basic'
<1>1. asks' \in [Asker -> Seq(Kind)]
  BY TaskQueueAssumption DEF Basic, TypeOK, Begin, Asker
<1>2. \A q \in Asker : step[q] # "scan" => asks'[q] # <<>>
  BY DEF Basic, TypeOK, Begin, Asker
<1> QED BY <1>1, <1>2 DEF Basic, TypeOK, Asker, Syncing, Counted, Distinct, threadVars, stopVars

LEMMA ScanBasic ==
  ASSUME Basic, NEW p \in Asker, Scan(p)
  PROVE  Basic'
<1>1. Names \in Seq(Id)
  <2>1. /\ DOMAIN folder = 1..Len(folder) /\ Len(folder) \in Nat
        /\ \A i \in 1..Len(folder) : folder[i].id \in Id
    BY PresentTyped DEF Basic, TypeOK, Present
  <2>2. Names \in [1..Len(folder) -> Id]
    BY <2>1 DEF Names
  <2> QED BY <2>1, <2>2, SeqDef
<1>2. left' \in [Asker -> Seq(Id)] /\ step' \in [Asker -> {"scan", "look", "create", "write"}]
  BY <1>1 DEF Scan, Basic, TypeOK
<1>3. \A q \in Asker : /\ step'[q] # "scan" => asks[q] # <<>>
                       /\ step'[q] = "write" <=> mine[q] # 0
  BY DEF Scan, Basic, TypeOK
<1> QED BY <1>2, <1>3 DEF Scan, Basic, TypeOK, Asker, Syncing, Counted, Distinct, threadVars, stopVars

LEMMA LookBasic ==
  ASSUME Basic, NEW p \in Asker, Look(p)
  PROVE  Basic'
<1>1. asks[p] \in Seq(Kind) /\ asks[p] # <<>> /\ left[p] \in Seq(Id)
  BY DEF Look, Basic, TypeOK
<1>2. Tail(asks[p]) \in Seq(Kind) /\ (left[p] # <<>> => Tail(left[p]) \in Seq(Id))
      /\ <<>> \in Seq(Id)
  BY <1>1, HeadTailProperties, EmptySeq
<1>3. /\ asks' \in [Asker -> Seq(Kind)] /\ left' \in [Asker -> Seq(Id)]
      /\ step' \in [Asker -> {"scan", "look", "create", "write"}]
  BY <1>2 DEF Look, Asked, Basic, TypeOK
<1>4. \A q \in Asker : /\ step'[q] # "scan" => asks'[q] # <<>>
                       /\ step'[q] = "write" <=> mine[q] # 0
  BY DEF Look, Asked, Basic, TypeOK
<1> QED BY <1>3, <1>4 DEF Look, Basic, TypeOK, Asker, Syncing, Counted, Distinct, threadVars, stopVars

LEMMA CreateBasic ==
  ASSUME Basic, NEW p \in Asker, Create(p)
  PROVE  Basic'
<1> DEFINE x == Min(FreeIds)
           f == [id |-> x, kind |-> Head(asks[p]), whole |-> FALSE]
<1>1. asks[p] \in Seq(Kind) /\ asks[p] # <<>> /\ x \in Id /\ ~InFolder(x)
  BY NextNameIsFree DEF Create, Basic, TypeOK
<1>2. f \in Files /\ f.id = x
  <2>1. Head(asks[p]) \in Kind
    BY <1>1, HeadTailProperties
  <2> QED BY <1>1, <2>1 DEF Files
<1>3. folder' = Append(folder, f)
  BY DEF Create
<1>4. folder' \in Seq(Files) /\ Distinct'
  <2> HIDE DEF f, x
  <2> QED BY <1>1, <1>2, <1>3, CreatedFacts DEF Basic, TypeOK
<1>5. /\ mine' = [mine EXCEPT ![p] = x] /\ step' = [step EXCEPT ![p] = "write"]
      /\ ran' = [ran EXCEPT ![x] = 0]
      /\ lost' = lost \ {x} /\ done' = done \ {x} /\ queued' = queued \ {x}
      /\ UNCHANGED <<phase, asks, left, pc, task, command, running, watchdog, stops>>
      /\ x # 0
  BY <1>1 DEF Create, Id
<1> HIDE DEF f, x
<1>6. /\ mine' \in [Asker -> Id \union {0}] /\ ran' \in [Id -> Nat]
      /\ step' \in [Asker -> {"scan", "look", "create", "write"}]
  BY <1>1, <1>5 DEF Basic, TypeOK
<1>7. \A q \in Asker : /\ step'[q] # "scan" => asks[q] # <<>>
                       /\ step'[q] = "write" <=> mine'[q] # 0
  BY <1>1, <1>5 DEF Basic, TypeOK
<1> QED BY <1>4, <1>5, <1>6, <1>7 DEF Basic, TypeOK, Syncing, Counted

LEMMA WriteBasic ==
  ASSUME Basic, NEW p \in Asker, Write(p)
  PROVE  Basic'
<1>1. folder' \in Seq(Files) /\ Distinct'
  BY WrittenFacts DEF Write, Basic, TypeOK
<1>2. asks[p] \in Seq(Kind) /\ asks[p] # <<>> /\ mine[p] \in Id
  BY DEF Write, Basic, TypeOK
<1>3. Tail(asks[p]) \in Seq(Kind) /\ <<>> \in Seq(Id)
  BY <1>2, HeadTailProperties, EmptySeq
<1>4. /\ asks' \in [Asker -> Seq(Kind)] /\ left' \in [Asker -> Seq(Id)]
      /\ step' \in [Asker -> {"scan", "look", "create", "write"}]
      /\ mine' \in [Asker -> Id \union {0}] /\ queued' \subseteq Id
  BY <1>2, <1>3 DEF Write, Asked, Basic, TypeOK
<1>5. \A q \in Asker : /\ step'[q] # "scan" => asks'[q] # <<>>
                       /\ step'[q] = "write" <=> mine'[q] # 0
  BY DEF Write, Asked, Basic, TypeOK
<1> QED BY <1>1, <1>4, <1>5 DEF Write, Basic, TypeOK, Syncing, Counted, threadVars, stopVars

LEMMA RunCheckBasic ==
  ASSUME Basic, RunCheck
  PROVE  Basic'
<1>1. CASE UNCHANGED <<pc, task>>
  BY <1>1 DEF RunCheck, Basic, TypeOK, Asker, Syncing, Counted, Distinct, askVars, stopVars
<1>2. CASE Due
  <2>1. PICK t \in Free : /\ pc' = [pc EXCEPT ![t] = "start"]
                         /\ task' = [task EXCEPT ![t] = Head(folder).id]
    BY <1>2 DEF RunCheck
  <2>2. t \in Thread /\ pc[t] = "free" /\ Head(folder).id \in Id
    <3>1. folder \in Seq(Files) /\ folder # <<>>
      BY <1>2 DEF Due, Basic, TypeOK
    <3>2. Head(folder) \in Files
      BY <3>1, HeadTailProperties
    <3> QED BY <2>1, <3>2 DEF Free, Files
  <2>3. pc' \in [Thread -> PC] /\ task' \in [Thread -> Id \union {0}]
    BY <2>1, <2>2 DEF Basic, TypeOK, PC, Started
  <2>4. Counted' = Counted
    BY <2>1, <2>2 DEF Counted, Basic, TypeOK
  <2>5. \A u \in Thread : pc'[u] \in Syncing => pc[u] \in Syncing
    BY <2>1, <2>2 DEF Syncing, Basic, TypeOK
  <2>7. \A u \in Thread : pc'[u] \in Handling => task'[u] \in Id
    BY <2>1, <2>2 DEF Handling, Started, Basic, TypeOK
  <2>6. UNCHANGED <<folder, askVars, command, running, watchdog, ran, done, stopVars>>
        /\ phase' = "queue"
    BY DEF RunCheck
  <2> QED BY <2>3, <2>4, <2>5, <2>6, <2>7 DEF Basic, TypeOK, Distinct, askVars, stopVars
<1> QED BY <1>1, <1>2 DEF RunCheck

LEMMA PhaseBasic ==
  ASSUME Basic, phase' \in {"run", "queue", "exit", "restart"},
         UNCHANGED <<folder, askVars, threadVars, stopVars>>
  PROVE  Basic'
BY DEF Basic, TypeOK, Asker, Syncing, Counted, Distinct, askVars, threadVars, stopVars

LEMMA CountBasic ==
  ASSUME Basic, NEW t \in Thread, Count(t)
  PROVE  Basic'
<1>1. Counted' = Counted \union {t} /\ t \notin Counted
  BY DEF Count, To, Counted, Basic, TypeOK
<1>2. running' = Cardinality(Counted') /\ running' \in 0..Cardinality(Thread)
  <2>1. running' = running + 1 /\ running = Cardinality(Counted)
    BY DEF Count, Basic
  <2>2. /\ Cardinality(Counted \union {t}) = Cardinality(Counted) + 1
        /\ Cardinality(Counted) + 1 <= Cardinality(Thread)
        /\ Cardinality(Counted) \in Nat /\ Cardinality(Thread) \in Nat
    BY <1>1, Uncounted DEF Basic
  <2> QED BY <1>1, <2>1, <2>2
<1>3. pc' \in [Thread -> PC]
  BY DEF Count, To, Basic, TypeOK, PC, Started
<1>4. \A u \in Thread : pc'[u] \in Syncing => pc[u] \in Syncing
  BY DEF Count, To, Basic, TypeOK, Syncing
<1>5. \A u \in Thread : pc'[u] \in Handling => task[u] \in Id
  BY DEF Count, To, Basic, TypeOK, Handling, Started
<1> QED BY <1>1, <1>2, <1>3, <1>4, <1>5 DEF Count, Basic, TypeOK, Distinct, askVars, stopVars

LEMMA ReadBasic ==
  ASSUME Basic, NEW t \in Thread, Read(t)
  PROVE  Basic'
<1>1. Counted' = Counted
  BY DEF Read, To, Counted, Basic, TypeOK
<1>2. pc' \in [Thread -> PC]
  BY DEF Read, To, Basic, TypeOK, PC, Started
<1>3. command' \in [Thread -> Kind \union {Nothing}]
  BY ContentsFacts DEF Read, Basic, TypeOK
<1>8. \A u \in Thread : pc'[u] \in Syncing => command'[u] \in Sync
  BY DEF Read, To, Basic, TypeOK, Syncing
<1>9. \A u \in Thread : pc'[u] \in Handling => task'[u] \in Id
  BY DEF Read, To, Basic, TypeOK, Handling, Started
<1> QED BY <1>1, <1>2, <1>3, <1>8, <1>9 DEF Read, Basic, TypeOK, Distinct, askVars, stopVars

LEMMA UnlinkBasic ==
  ASSUME Basic, NEW t \in Thread, Unlink(t)
  PROVE  Basic'
<1>1. Counted' = Counted
  BY DEF Unlink, To, Counted, Basic, TypeOK
<1>2. pc' \in [Thread -> PC]
  BY DEF Unlink, To, Basic, TypeOK, PC, Started
<1>3. folder' \in Seq(Files) /\ Distinct'
  BY UnlinkedFacts DEF Unlink, Basic, TypeOK
<1>4. ran' \in [Id -> Nat]
  <2>1. ran' = ran \/ ran' = [ran EXCEPT ![task[t]] = @ + 1]
    BY DEF Unlink
  <2>2. task[t] \in Id /\ ran \in [Id -> Nat]
    BY DEF Unlink, Basic, TypeOK, Handling, Started
  <2> QED BY <2>1, <2>2
<1>8. \A u \in Thread : pc'[u] \in Syncing => command'[u] \in Sync
  BY DEF Unlink, To, Basic, TypeOK, Syncing
<1>9. \A u \in Thread : pc'[u] \in Handling => task'[u] \in Id
  BY DEF Unlink, To, Basic, TypeOK, Handling, Started
<1> QED BY <1>1, <1>2, <1>3, <1>4, <1>8, <1>9 DEF Unlink, Basic, TypeOK, Distinct, askVars, stopVars

LEMMA CheckWatchdogBasic ==
  ASSUME Basic, NEW t \in Thread, CheckWatchdog(t)
  PROVE  Basic'
<1>1. Counted' = Counted
  BY DEF CheckWatchdog, To, Counted, Basic, TypeOK
<1>2. pc' \in [Thread -> PC]
  BY DEF CheckWatchdog, To, Basic, TypeOK, PC, Started
<1>8. \A u \in Thread : pc'[u] \in Syncing => command'[u] \in Sync
  BY DEF CheckWatchdog, To, Basic, TypeOK, Syncing
<1>9. \A u \in Thread : pc'[u] \in Handling => task'[u] \in Id
  BY DEF CheckWatchdog, To, Basic, TypeOK, Handling, Started
<1> QED BY <1>1, <1>2, <1>8, <1>9 DEF CheckWatchdog, Basic, TypeOK, Distinct, askVars, stopVars

LEMMA GiveWayBasic ==
  ASSUME Basic, NEW t \in Thread, GiveWay(t)
  PROVE  Basic'
<1>1. Counted' = Counted
  BY DEF GiveWay, To, Counted, Basic, TypeOK
<1>2. pc' \in [Thread -> PC]
  BY DEF GiveWay, To, Basic, TypeOK, PC, Started
<1>3. asks' \in [Asker -> Seq(Kind)]
  <2>1. command[t] \in Kind
    BY TaskQueueAssumption DEF GiveWay, Basic, Syncing
  <2>2. <<command[t]>> \in Seq(Kind)
    BY <2>1
  <2> QED BY <2>2 DEF GiveWay, Basic, TypeOK
<1>4. \A p \in Asker : step[p] # "scan" => asks'[p] # <<>>
  <2>1. <<command[t]>> # <<>>
    OBVIOUS
  <2>2. \A p \in Asker : asks'[p] = asks[p] \/ asks'[p] = <<command[t]>>
    BY DEF GiveWay, Basic, TypeOK
  <2> QED BY <2>1, <2>2 DEF Basic
<1>5. /\ task' \in [Thread -> Id \union {0}] /\ watchdog' \subseteq Sync
      /\ done' \subseteq Id
  <2>1. task[t] \in Id
    BY DEF GiveWay, Basic, TypeOK, Handling, Started
  <2> QED BY <2>1 DEF GiveWay, Basic, TypeOK
<1>8. \A u \in Thread : pc'[u] \in Syncing => command'[u] \in Sync
  BY DEF GiveWay, To, Basic, TypeOK, Syncing
<1>9. \A u \in Thread : pc'[u] \in Handling => task'[u] \in Id
  BY DEF GiveWay, To, Basic, TypeOK, Handling, Started
<1> QED BY <1>1, <1>2, <1>3, <1>4, <1>5, <1>8, <1>9 DEF GiveWay, Basic, TypeOK, Distinct, askVars, stopVars

LEMMA PostponedBasic ==
  ASSUME Basic, NEW t \in Thread, Postponed(t)
  PROVE  Basic'
<1>1. Counted' = Counted
  BY DEF Postponed, To, Counted, Basic, TypeOK
<1>2. pc' \in [Thread -> PC]
  BY DEF Postponed, To, Basic, TypeOK, PC, Started
<1>8. \A u \in Thread : pc'[u] \in Syncing => command'[u] \in Sync
  BY DEF Postponed, To, Basic, TypeOK, Syncing
<1>9. \A u \in Thread : pc'[u] \in Handling => task'[u] \in Id
  BY DEF Postponed, To, Basic, TypeOK, Handling, Started
<1> QED BY <1>1, <1>2, <1>8, <1>9 DEF Postponed, Basic, TypeOK, Distinct, askVars, stopVars

LEMMA KickBasic ==
  ASSUME Basic, NEW t \in Thread, Kick(t)
  PROVE  Basic'
<1>1. Counted' = Counted
  BY DEF Kick, To, Counted, Basic, TypeOK
<1>2. pc' \in [Thread -> PC]
  BY DEF Kick, To, Basic, TypeOK, PC, Started
<1>3. watchdog' \subseteq Sync
  BY DEF Kick, Basic, TypeOK, Syncing
<1>8. \A u \in Thread : pc'[u] \in Syncing => command'[u] \in Sync
  BY DEF Kick, To, Basic, TypeOK, Syncing
<1>9. \A u \in Thread : pc'[u] \in Handling => task'[u] \in Id
  BY DEF Kick, To, Basic, TypeOK, Handling, Started
<1> QED BY <1>1, <1>2, <1>3, <1>8, <1>9 DEF Kick, Basic, TypeOK, Distinct, askVars, stopVars

LEMMA SynchronizedBasic ==
  ASSUME Basic, NEW t \in Thread, Synchronized(t)
  PROVE  Basic'
<1>1. Counted' = Counted
  BY DEF Synchronized, To, Counted, Basic, TypeOK
<1>2. pc' \in [Thread -> PC]
  BY DEF Synchronized, To, Basic, TypeOK, PC, Started
<1>8. \A u \in Thread : pc'[u] \in Syncing => command'[u] \in Sync
  BY DEF Synchronized, To, Basic, TypeOK, Syncing
<1>9. \A u \in Thread : pc'[u] \in Handling => task'[u] \in Id
  BY DEF Synchronized, To, Basic, TypeOK, Handling, Started
<1> QED BY <1>1, <1>2, <1>8, <1>9 DEF Synchronized, Basic, TypeOK, Distinct, askVars, stopVars

LEMMA WorkedBasic ==
  ASSUME Basic, NEW t \in Thread, Worked(t)
  PROVE  Basic'
<1>1. Counted' = Counted
  BY DEF Worked, To, Counted, Basic, TypeOK
<1>2. pc' \in [Thread -> PC]
  BY DEF Worked, To, Basic, TypeOK, PC, Started
<1>8. \A u \in Thread : pc'[u] \in Syncing => command'[u] \in Sync
  BY DEF Worked, To, Basic, TypeOK, Syncing
<1>9. \A u \in Thread : pc'[u] \in Handling => task'[u] \in Id
  BY DEF Worked, To, Basic, TypeOK, Handling, Started
<1> QED BY <1>1, <1>2, <1>8, <1>9 DEF Worked, Basic, TypeOK, Distinct, askVars, stopVars

LEMMA EndBasic ==
  ASSUME Basic, NEW t \in Thread, End(t)
  PROVE  Basic'
<1>1. Counted' = Counted \ {t} /\ t \in Counted
  BY DEF End, To, Counted, Basic, TypeOK
<1>2. running' = Cardinality(Counted') /\ running' \in 0..Cardinality(Thread)
  <2>1. running' = running - 1 /\ running = Cardinality(Counted)
    BY DEF End, Basic
  <2>2. /\ Cardinality(Counted \ {t}) = Cardinality(Counted) - 1
        /\ Cardinality(Counted) > 0 /\ Cardinality(Counted) <= Cardinality(Thread)
        /\ Cardinality(Counted) \in Nat /\ Cardinality(Thread) \in Nat
    BY <1>1, Uncounted DEF Basic
  <2> QED BY <1>1, <2>1, <2>2
<1>3. pc' \in [Thread -> PC] /\ task' \in [Thread -> Id \union {0}]
      /\ command' \in [Thread -> Kind \union {Nothing}] /\ done' \subseteq Id
  BY DEF End, To, Basic, TypeOK, PC, Started
<1>4. \A u \in Thread : pc'[u] \in Syncing => command'[u] \in Sync
  BY DEF End, To, Basic, TypeOK, Syncing
<1>5. \A u \in Thread : pc'[u] \in Handling => task'[u] \in Id
  BY DEF End, To, Basic, TypeOK, Handling, Started
<1> QED BY <1>1, <1>2, <1>3, <1>4, <1>5 DEF End, Basic, TypeOK, Distinct, askVars, stopVars

LEMMA StopBasic ==
  ASSUME Basic, Stop, lost' \in {lost, lost \union InHand}
  PROVE  Basic'
<1>1. /\ asks' = [p \in Asker |-> <<>>] /\ step' = [p \in Asker |-> "scan"]
      /\ left' = [p \in Asker |-> <<>>] /\ mine' = [p \in Asker |-> 0]
      /\ pc' = [t \in Thread |-> "free"] /\ task' = [t \in Thread |-> 0]
      /\ command' = [t \in Thread |-> Nothing]
      /\ running' = 0 /\ watchdog' = {} /\ phase' = "run"
      /\ stops < MaxStops /\ stops' = stops + 1
      /\ UNCHANGED <<folder, queued, ran, done>>
  BY DEF Stop
<1>2. /\ asks' \in [Asker -> Seq(Kind)] /\ left' \in [Asker -> Seq(Id)]
      /\ step' \in [Asker -> {"scan", "look", "create", "write"}]
      /\ mine' \in [Asker -> Id \union {0}]
  BY <1>1, EmptySeq
<1>3. /\ pc' \in [Thread -> PC] /\ task' \in [Thread -> Id \union {0}]
      /\ command' \in [Thread -> Kind \union {Nothing}]
  BY <1>1 DEF PC
<1>4. running' = Cardinality(Counted)' /\ running' \in 0..Cardinality(Thread)
  <2>1. Counted' = {}
    BY <1>1 DEF Counted
  <2>2. Cardinality(Thread) \in Nat
    BY TaskQueueAssumption, FS_CardinalityType
  <2> QED BY <1>1, <2>1, <2>2, FS_EmptySet
<1>5. lost' \subseteq Id /\ stops' \in 0..MaxStops
  <2>1. InHand \subseteq Id
    BY DEF InHand, Basic, TypeOK
  <2>2. stops \in 0..MaxStops /\ lost \subseteq Id
    BY DEF Basic, TypeOK
  <2> QED BY <1>1, <2>1, <2>2, TaskQueueAssumption
<1> QED BY <1>1, <1>2, <1>3, <1>4, <1>5 DEF Basic, TypeOK, Distinct, Syncing, Handling, Started

\* Every step keeps it.
LEMMA StepBasic == Basic /\ [Next]_vars => Basic'
<1> SUFFICES ASSUME Basic, [Next]_vars PROVE Basic'
  OBVIOUS
<1>1. ASSUME NEW w \in Web, WebAsks(w) PROVE Basic'
  BY <1>1, WebAsksBasic DEF WebAsks, Caller, Basic, TypeOK
<1>2. ASSUME NEW p \in Asker, Ask(p) PROVE Basic'
  BY <1>2, ScanBasic, LookBasic, CreateBasic, WriteBasic DEF Ask
<1>3. CASE RunCheck
  BY <1>3, RunCheckBasic
<1>4. CASE TimerAsks
  <2>1. CASE Begin(Timer)
    BY <1>4, <2>1, WebAsksBasic DEF TimerAsks, Caller
  <2>2. CASE UNCHANGED asks
    BY <1>4, <2>2, PhaseBasic DEF TimerAsks, askVars
  <2> QED BY <1>4, <2>1, <2>2 DEF TimerAsks
<1>5. CASE NextSecond \/ RestartDue
  BY <1>5, PhaseBasic DEF NextSecond, RestartDue
<1>6. CASE Quit \/ Restart
  BY <1>6, StopBasic DEF Quit, Restart
<1>7. ASSUME NEW t \in Thread, Run(t) PROVE Basic'
  BY <1>7, CountBasic, ReadBasic, UnlinkBasic, CheckWatchdogBasic, GiveWayBasic, PostponedBasic,
     KickBasic, SynchronizedBasic, WorkedBasic, EndBasic DEF Run
<1>8. CASE UNCHANGED vars
  BY <1>8, PhaseBasic DEF vars, Basic, TypeOK
<1> QED BY <1>1, <1>2, <1>3, <1>4, <1>5, <1>6, <1>7, <1>8 DEF Next, Tick

-----------------------------------------------------------------------------
(* As long as threads are not slow *)

\* Threads that end, or go on, make no more of them.
LEMMA NoMoreThreads ==
  ASSUME Bounded, \A t \in Thread : pc[t] = "free" => pc'[t] = "free"
  PROVE  Bounded'
<1>1. (Thread \ Free') \subseteq Thread \ Free
  BY DEF Free
<1>2. IsFiniteSet(Thread \ Free)
  BY TaskQueueAssumption, FS_Subset
<1>3. /\ IsFiniteSet(Thread \ Free')
      /\ Cardinality(Thread \ Free') <= Cardinality(Thread \ Free)
  BY <1>1, <1>2, FS_Subset
<1>4. Cardinality(Thread \ Free) \in Nat /\ Cardinality(Thread \ Free') \in Nat
  BY <1>2, <1>3, FS_CardinalityType
<1> QED BY <1>3, <1>4, TaskQueueAssumption DEF Bounded

LEMMA InitSteady == Init => Steady
<1> SUFFICES ASSUME Init PROVE Steady
  OBVIOUS
<1>1. /\ folder = <<>> /\ pc = [t \in Thread |-> "free"] /\ ran = [id \in Id |-> 0]
  BY DEF Init
<1>2. \A t \in Thread : pc[t] \notin Started
  BY <1>1 DEF Started
<1>3. \A id \in Id : ~InFolder(id) /\ ran[id] = 0
  BY <1>1 DEF InFolder
<1>4. Bounded
  <2>1. Thread \ Free = {}
    BY <1>1 DEF Free
  <2>2. Cardinality(Thread \ Free) = 0
    BY <2>1, FS_EmptySet
  <2> QED BY <2>2, TaskQueueAssumption DEF Bounded
<1> QED BY <1>2, <1>3, <1>4 DEF Steady, RunsOnce, Started

\* Steps that leave the names in the folder and the threads as they are.
LEMMA SteadyElsewhere ==
  ASSUME Steady, UNCHANGED <<pc, task, ran>>,
         \A id \in Id \union {0} : InFolder(id)' <=> InFolder(id), TypeOK
  PROVE  Steady'
<1>1. Bounded'
  BY NoMoreThreads DEF Steady
<1>2. \A t \in Thread : task[t] \in Id \union {0}
  BY DEF TypeOK
<1> QED BY <1>1, <1>2 DEF Steady, RunsOnce

\* Steps of one thread that leave the folder alone.
LEMMA SteadyThread ==
  ASSUME Steady, NEW t \in Thread, UNCHANGED <<folder, ran>>, pc[t] # "free",
         \A u \in Thread \ {t} : pc'[u] = pc[u] /\ task'[u] = task[u],
         pc'[t] \in Started => pc[t] \in Started,
         pc'[t] \in {"start", "read", "unlink"} => pc[t] \in {"start", "read"} /\ task'[t] = task[t]
  PROVE  Steady'
<1>1. Bounded'
  BY NoMoreThreads DEF Steady
<1>2. \A u, v \in Thread : pc'[u] \in Started /\ pc'[v] \in Started => u = v
  <2>1. \A u \in Thread : pc'[u] \in Started => pc[u] \in Started
    OBVIOUS
  <2> QED BY <2>1 DEF Steady
<1>3. \A id : InFolder(id)' <=> InFolder(id)
  BY DEF InFolder
<1>4. \A u \in Thread : (pc[u] \in {"start", "read", "unlink"} => InFolder(task[u]))'
  <2> SUFFICES ASSUME NEW u \in Thread, pc'[u] \in {"start", "read", "unlink"}
               PROVE  InFolder(task'[u])
    BY DEF InFolder
  <2>1. pc[u] \in {"start", "read", "unlink"} /\ task'[u] = task[u]
    OBVIOUS
  <2> QED BY <2>1 DEF Steady
<1> QED BY <1>1, <1>2, <1>3, <1>4 DEF Steady, RunsOnce

LEMMA CreateSteady ==
  ASSUME Basic, Steady, NEW p \in Asker, Create(p)
  PROVE  Steady'
<1> DEFINE x == Min(FreeIds)
           f == [id |-> x, kind |-> Head(asks[p]), whole |-> FALSE]
<1>1. asks[p] \in Seq(Kind) /\ asks[p] # <<>> /\ x \in Id /\ ~InFolder(x)
      /\ \A t \in Thread : task[t] # x
  BY NextNameIsFree DEF Create, Basic, TypeOK
<1>2. f \in Files /\ f.id = x
  <2>1. Head(asks[p]) \in Kind
    BY <1>1, HeadTailProperties
  <2> QED BY <1>1, <2>1 DEF Files
<1>3. folder' = Append(folder, f) /\ ran' = [ran EXCEPT ![x] = 0] /\ UNCHANGED <<pc, task>>
  BY DEF Create
<1> HIDE DEF f, x
<1>4. Present' = Present \union {f}
  BY <1>1, <1>2, <1>3, CreatedFacts DEF Basic, TypeOK
<1>5. \A id : InFolder(id)' <=> InFolder(id) \/ id = x
  <2>1. \A id : InFolder(id)' <=> \E g \in Present' : g.id = id
    BY DEF InFolder, Present
  <2>2. \A id : InFolder(id) <=> \E g \in Present : g.id = id
    BY DEF InFolder, Present
  <2> QED BY <1>2, <1>4, <2>1, <2>2
<1>6. \A id \in Id : ran'[id] = IF id = x THEN 0 ELSE ran[id]
  BY <1>3 DEF Basic, TypeOK
<1>7. Bounded'
  BY <1>3, NoMoreThreads DEF Steady
<1>8. \A id \in Id : InFolder(id)' => ran'[id] = 0
  BY <1>5, <1>6 DEF Steady
<1>9. RunsOnce'
  BY <1>6 DEF Steady, RunsOnce
<1> QED BY <1>3, <1>5, <1>7, <1>8, <1>9 DEF Steady

LEMMA UnlinkSteady ==
  ASSUME Basic, Steady, NEW t \in Thread, Unlink(t)
  PROVE  Steady'
<1>1. /\ pc[t] = "unlink" /\ folder' = Unlinked(task[t]) /\ task' = task
      /\ task[t] \in Id
  BY DEF Unlink, Basic, Handling, Started
<1>2. InFolder(task[t]) /\ ran[task[t]] = 0
  BY <1>1 DEF Steady
<1>3. Present' = {f \in Present : f.id # task[t]}
  BY <1>1, UnlinkedFacts DEF Basic, TypeOK
<1>4. \A id : InFolder(id)' <=> InFolder(id) /\ id # task[t]
  <2>1. \A id : InFolder(id)' <=> \E g \in Present' : g.id = id
    BY DEF InFolder, Present
  <2>2. \A id : InFolder(id) <=> \E g \in Present : g.id = id
    BY DEF InFolder, Present
  <2> QED BY <1>3, <2>1, <2>2
<1>5. /\ \A u \in Thread \ {t} : pc'[u] = pc[u]
      /\ pc'[t] \in {"end", "look", "work"}
  BY DEF Unlink, To, Basic, TypeOK
<1>6. \A id \in Id : ran'[id] = ran[id] \/ (id = task[t] /\ ran'[id] = 1)
  <2>1. CASE ran' = ran
    BY <2>1
  <2>2. CASE ran' = [ran EXCEPT ![task[t]] = @ + 1]
    <3>1. ran \in [Id -> Nat]
      BY DEF Basic, TypeOK
    <3> QED BY <1>1, <1>2, <2>2, <3>1
  <2> QED BY <2>1, <2>2 DEF Unlink
<1>7. Bounded'
  BY <1>1, <1>5, NoMoreThreads DEF Steady
<1>8. \A u, v \in Thread : pc'[u] \in Started /\ pc'[v] \in Started => u = v
  <2>1. \A u \in Thread : pc'[u] \in Started => pc[u] \in Started
    BY <1>1, <1>5 DEF Started
  <2> QED BY <2>1 DEF Steady
<1>9. \A u \in Thread : pc'[u] \notin {"start", "read", "unlink"}
  <2> SUFFICES ASSUME NEW u \in Thread, pc'[u] \in {"start", "read", "unlink"} PROVE FALSE
    OBVIOUS
  <2>1. u # t /\ pc[u] \in Started /\ pc[t] \in Started
    BY <1>1, <1>5 DEF Started
  <2> QED BY <2>1 DEF Steady
<1>10. \A id \in Id : InFolder(id)' => ran'[id] = 0
  BY <1>4, <1>6 DEF Steady
<1>11. RunsOnce'
  BY <1>6 DEF Steady, RunsOnce
<1> QED BY <1>7, <1>8, <1>9, <1>10, <1>11 DEF Steady

\* Threads that have started in full are counted, so that the timer sees the
\* bound.
LEMMA RunCheckSteady ==
  ASSUME Basic, Steady, RunCheck, "slow" \notin Hazard
  PROVE  Steady'
<1>1. \A t \in Thread : pc[t] \notin Started
  BY DEF RunCheck
<1>2. folder' = folder /\ ran' = ran /\ \A id : InFolder(id)' <=> InFolder(id)
  BY DEF RunCheck, InFolder
<1>3. CASE UNCHANGED <<pc, task>>
  BY <1>2, <1>3, SteadyElsewhere DEF Basic
<1>4. CASE Due
  <2>1. PICK t \in Free : /\ pc' = [pc EXCEPT ![t] = "start"]
                         /\ task' = [task EXCEPT ![t] = Head(folder).id]
    BY <1>4 DEF RunCheck
  <2>2. /\ t \in Thread /\ pc'[t] = "start" /\ task'[t] = Head(folder).id
        /\ \A u \in Thread \ {t} : pc'[u] = pc[u]
    BY <2>1 DEF Free, Basic, TypeOK
  <2>3. InFolder(Head(folder).id)
    <3>1. folder \in Seq(Files) /\ folder # <<>>
      BY <1>4 DEF Due, Basic, TypeOK
    <3>2. Head(folder) = folder[1] /\ 1 \in DOMAIN folder
      BY <3>1, HeadTailProperties, EmptySeq, LenProperties
    <3> QED BY <3>2 DEF InFolder
  <2>4. \A u \in Thread : pc'[u] \in Started => u = t
    BY <1>1, <2>2
  <2>5. \A u \in Thread : pc'[u] \in {"start", "read", "unlink"} => u = t
    BY <2>4 DEF Started
  <2>6. Bounded'
    <3>1. Thread \ Free = Counted /\ Thread \ Free' = Counted \union {t} /\ t \notin Counted
      BY <1>1, <2>1, <2>2 DEF Free, Counted, Started
    <3>2. /\ Cardinality(Counted \union {t}) = Cardinality(Counted) + 1
          /\ Cardinality(Counted) \in Nat
      BY <2>2, <3>1, Uncounted DEF Basic
    <3>3. Cardinality(Counted) < MaxParallel
      BY <1>4 DEF Due, Basic
    <3>4. Cardinality(Counted) + 1 <= MaxParallel
      BY <3>2, <3>3, TaskQueueAssumption
    <3>5. Cardinality(Thread \ Free') <= MaxParallel
      BY <3>1, <3>2, <3>4
    <3> QED BY <3>5 DEF Bounded
  <2> QED BY <1>2, <2>2, <2>3, <2>4, <2>5, <2>6 DEF Steady, RunsOnce
<1> QED BY <1>3, <1>4 DEF RunCheck

LEMMA StopSteady ==
  ASSUME Steady, Stop
  PROVE  Steady'
<1>1. pc' = [t \in Thread |-> "free"] /\ folder' = folder /\ ran' = ran
  BY DEF Stop
<1>2. \A t \in Thread : pc'[t] = "free" /\ pc'[t] \notin Started
  BY <1>1 DEF Started
<1>3. Bounded'
  BY <1>2, NoMoreThreads DEF Steady
<1>4. \A id : InFolder(id)' <=> InFolder(id)
  BY <1>1 DEF InFolder
<1> QED BY <1>1, <1>2, <1>3, <1>4 DEF Steady, RunsOnce

LEMMA StepSteady ==
  ASSUME Basic, Steady, [Next]_vars, "slow" \notin Hazard
  PROVE  Steady'
<1>0. TypeOK
  BY DEF Basic
<1>1. CASE UNCHANGED <<folder, pc, task, ran>>
  BY <1>0, <1>1, SteadyElsewhere DEF InFolder
<1>2. ASSUME NEW p \in Asker, Ask(p) PROVE Steady'
  <2>1. CASE Scan(p) \/ Look(p)
    BY <1>1, <2>1 DEF Scan, Look, threadVars
  <2>2. CASE Create(p)
    BY <2>2, CreateSteady
  <2>3. CASE Write(p)
    <3>1. /\ DOMAIN folder' = DOMAIN folder
          /\ \A i \in DOMAIN folder : folder'[i].id = folder[i].id
      BY <2>3, WrittenFacts DEF Write, Basic, TypeOK
    <3>2. \A id : InFolder(id)' <=> InFolder(id)
      BY <3>1 DEF InFolder
    <3>3. UNCHANGED <<pc, task, ran>>
      BY <2>3 DEF Write, threadVars
    <3> QED BY <1>0, <3>2, <3>3, SteadyElsewhere
  <2> QED BY <1>2, <2>1, <2>2, <2>3 DEF Ask
<1>3. CASE RunCheck
  BY <1>3, RunCheckSteady
<1>4. CASE Quit \/ Restart
  BY <1>4, StopSteady DEF Quit, Restart
<1>5. ASSUME NEW t \in Thread, Run(t) PROVE Steady'
  <2>1. CASE Unlink(t)
    BY <2>1, UnlinkSteady
  <2>2. CASE Count(t) \/ Read(t)
    <3>1. /\ UNCHANGED <<folder, ran, task>> /\ pc[t] \in {"start", "read"}
          /\ \A u \in Thread \ {t} : pc'[u] = pc[u]
      BY <2>2 DEF Count, Read, To, Basic, TypeOK
    <3> QED BY <3>1, SteadyThread DEF Started
  <2>3. CASE CheckWatchdog(t) \/ GiveWay(t)
    <3>1. /\ UNCHANGED <<folder, ran>> /\ pc[t] \in {"look", "active"}
          /\ pc'[t] \in {"end", "active", "kick", "postpone"}
          /\ \A u \in Thread \ {t} : pc'[u] = pc[u] /\ task'[u] = task[u]
      BY <2>3 DEF CheckWatchdog, GiveWay, To, Basic, TypeOK
    <3> QED BY <3>1, SteadyThread DEF Started
  <2>4. CASE Postponed(t) \/ Kick(t) \/ Synchronized(t) \/ Worked(t)
    <3>1. /\ UNCHANGED <<folder, ran, task>> /\ pc[t] # "free"
          /\ pc'[t] \in {"end", "sync"}
          /\ \A u \in Thread \ {t} : pc'[u] = pc[u]
      BY <2>4 DEF Postponed, Kick, Synchronized, Worked, To, Basic, TypeOK
    <3> QED BY <3>1, SteadyThread DEF Started
  <2>5. CASE End(t)
    <3>1. /\ UNCHANGED <<folder, ran>> /\ pc[t] = "end" /\ pc'[t] = "free"
          /\ \A u \in Thread \ {t} : pc'[u] = pc[u] /\ task'[u] = task[u]
      BY <2>5 DEF End, To, Basic, TypeOK, askVars
    <3> QED BY <3>1, SteadyThread DEF Started
  <2> QED BY <1>5, <2>1, <2>2, <2>3, <2>4, <2>5 DEF Run
<1>6. ASSUME NEW w \in Web, WebAsks(w) PROVE Steady'
  BY <1>1, <1>6 DEF WebAsks, threadVars
<1>7. CASE TimerAsks \/ NextSecond \/ RestartDue \/ UNCHANGED vars
  BY <1>1, <1>7 DEF TimerAsks, NextSecond, RestartDue, vars, threadVars
<1> QED BY <1>2, <1>3, <1>4, <1>5, <1>6, <1>7 DEF Next, Tick

-----------------------------------------------------------------------------
(* As long as no synchronization hangs either *)

LEMMA InitApart == Init => Apart
BY DEF Init, Apart, WatchdogHeld, Exclusive

\* Steps that leave the watchdogs alone, and let no thread come near them.
LEMMA ApartElsewhere ==
  ASSUME Apart, watchdog' = watchdog,
         \A u \in Thread : pc'[u] \in {"sync", "active", "kick"} =>
           pc'[u] = pc[u] /\ command'[u] = command[u],
         \A u \in Thread : pc[u] = "sync" => pc'[u] = "sync"
  PROVE  Apart'
<1>1. Exclusive' /\ \A u \in Thread : pc'[u] = "sync" => command'[u] \in watchdog'
  BY DEF Apart, Exclusive
<1>2. \A u \in Thread : pc'[u] \in {"active", "kick"} => command'[u] \notin watchdog'
  BY DEF Apart
<1>3. WatchdogHeld'
  BY DEF Apart, WatchdogHeld
<1> QED BY <1>1, <1>2, <1>3 DEF Apart

LEMMA CheckWatchdogApart ==
  ASSUME Basic, Apart, NEW t \in Thread, CheckWatchdog(t), "hang" \notin Hazard
  PROVE  Apart'
<1>1. /\ UNCHANGED <<command, watchdog>> /\ pc[t] = "look"
      /\ \A u \in Thread \ {t} : pc'[u] = pc[u]
      /\ pc'[t] \in {"end", "active", "kick"}
      /\ pc'[t] # "end" => command[t] \notin watchdog
  BY DEF CheckWatchdog, To, Busy, Basic, TypeOK
<1>2. Exclusive' /\ \A u \in Thread : pc'[u] = "sync" => command'[u] \in watchdog'
  BY <1>1 DEF Apart, Exclusive
<1>3. \A u \in Thread : pc'[u] \in {"active", "kick"} => command'[u] \notin watchdog'
  BY <1>1 DEF Apart
<1>4. WatchdogHeld'
  BY <1>1 DEF Apart, WatchdogHeld
<1> QED BY <1>2, <1>3, <1>4 DEF Apart

\* The watchdog that a thread resets as it gives way is not set.
LEMMA GiveWayApart ==
  ASSUME Basic, Apart, NEW t \in Thread, GiveWay(t)
  PROVE  Apart'
<1>1. pc[t] = "active" /\ command[t] \notin watchdog
  BY DEF GiveWay, Apart
<1>2. /\ UNCHANGED <<command, watchdog>>
      /\ \A u \in Thread \ {t} : pc'[u] = pc[u]
      /\ pc'[t] \in {"end", "postpone", "kick"}
  <2>1. watchdog' = watchdog \/ watchdog' = watchdog \ {command[t]}
    BY DEF GiveWay
  <2>2. watchdog' = watchdog
    BY <1>1, <2>1
  <2>3. /\ command' = command
        /\ \A u \in Thread \ {t} : pc'[u] = pc[u]
        /\ pc'[t] \in {"end", "postpone", "kick"}
    BY DEF GiveWay, To, Basic, TypeOK
  <2> QED BY <2>2, <2>3
<1>3. Exclusive' /\ \A u \in Thread : pc'[u] = "sync" => command'[u] \in watchdog'
  BY <1>1, <1>2 DEF Apart, Exclusive
<1>4. \A u \in Thread : pc'[u] \in {"active", "kick"} => command'[u] \notin watchdog'
  BY <1>1, <1>2 DEF Apart
<1>5. WatchdogHeld'
  BY <1>1, <1>2 DEF Apart, WatchdogHeld
<1> QED BY <1>3, <1>4, <1>5 DEF Apart

\* Nobody else is about to set the same watchdog.
LEMMA KickApart ==
  ASSUME Basic, Steady, Apart, NEW t \in Thread, Kick(t)
  PROVE  Apart'
<1>1. pc[t] = "kick" /\ command[t] \notin watchdog
  BY DEF Kick, Apart
<1>2. /\ command' = command /\ watchdog' = watchdog \union {command[t]}
      /\ \A u \in Thread \ {t} : pc'[u] = pc[u]
      /\ pc'[t] = "sync"
  BY DEF Kick, To, Basic, TypeOK
<1>3. \A u \in Thread : pc'[u] \notin {"active", "kick"}
  <2> SUFFICES ASSUME NEW u \in Thread, pc'[u] \in {"active", "kick"} PROVE FALSE
    OBVIOUS
  <2>1. u # t /\ pc[u] \in Started /\ pc[t] \in Started
    BY <1>1, <1>2 DEF Started
  <2> QED BY <2>1 DEF Steady
<1>4. \A u \in Thread : pc'[u] = "sync" => command'[u] \in watchdog'
  BY <1>2 DEF Apart
<1>5. WatchdogHeld'
  BY <1>1, <1>2 DEF Apart, WatchdogHeld
<1>6. Exclusive'
  <2>1. \A u \in Thread : pc[u] = "sync" => command[u] # command[t]
    BY <1>1 DEF Apart
  <2> QED BY <1>2, <2>1 DEF Apart, Exclusive
<1> QED BY <1>3, <1>4, <1>5, <1>6 DEF Apart

LEMMA SynchronizedApart ==
  ASSUME Basic, Apart, NEW t \in Thread, Synchronized(t)
  PROVE  Apart'
<1>1. /\ command' = command /\ watchdog' = watchdog \ {command[t]} /\ pc[t] = "sync"
      /\ \A u \in Thread \ {t} : pc'[u] = pc[u]
      /\ pc'[t] = "end"
  BY DEF Synchronized, To, Basic, TypeOK
<1>2. Exclusive'
  BY <1>1 DEF Apart, Exclusive
<1>3. \A u \in Thread : pc'[u] = "sync" => command'[u] \in watchdog'
  BY <1>1 DEF Apart, Exclusive
<1>4. \A u \in Thread : pc'[u] \in {"active", "kick"} => command'[u] \notin watchdog'
  BY <1>1 DEF Apart
<1>5. WatchdogHeld'
  BY <1>1 DEF Apart, WatchdogHeld
<1> QED BY <1>2, <1>3, <1>4, <1>5 DEF Apart

LEMMA StepApart ==
  ASSUME Basic, Steady, Apart, [Next]_vars, "slow" \notin Hazard, "hang" \notin Hazard
  PROVE  Apart'
<1>1. CASE UNCHANGED <<pc, command, watchdog>>
  BY <1>1, ApartElsewhere
<1>2. ASSUME NEW p \in Asker, Ask(p) PROVE Apart'
  BY <1>1, <1>2 DEF Ask, Scan, Look, Create, Write, threadVars
<1>3. CASE RunCheck
  <2>1. \A u \in Thread : pc'[u] = pc[u] \/ (pc[u] = "free" /\ pc'[u] = "start")
    BY <1>3 DEF RunCheck, Free, Basic, TypeOK
  <2>2. UNCHANGED <<command, watchdog>>
    BY <1>3 DEF RunCheck
  <2> QED BY <2>1, <2>2, ApartElsewhere
<1>4. CASE Quit \/ Restart
  BY <1>4 DEF Quit, Restart, Stop, Apart, WatchdogHeld, Exclusive
<1>5. ASSUME NEW t \in Thread, Run(t) PROVE Apart'
  <2>1. CASE Count(t) \/ Read(t) \/ Unlink(t) \/ Postponed(t) \/ Worked(t) \/ End(t)
    <3>1. /\ watchdog' = watchdog /\ pc[t] # "sync"
          /\ pc'[t] \in {"read", "unlink", "end", "look", "work", "free"}
          /\ \A u \in Thread \ {t} : pc'[u] = pc[u] /\ command'[u] = command[u]
      BY <2>1 DEF Count, Read, Unlink, Postponed, Worked, End, To, Basic, TypeOK
    <3> QED BY <3>1, ApartElsewhere
  <2>2. CASE CheckWatchdog(t)
    BY <2>2, CheckWatchdogApart
  <2>3. CASE GiveWay(t)
    BY <2>3, GiveWayApart
  <2>4. CASE Kick(t)
    BY <2>4, KickApart
  <2>5. CASE Synchronized(t)
    BY <2>5, SynchronizedApart
  <2> QED BY <1>5, <2>1, <2>2, <2>3, <2>4, <2>5 DEF Run
<1>6. ASSUME NEW w \in Web, WebAsks(w) PROVE Apart'
  BY <1>1, <1>6 DEF WebAsks, threadVars
<1>7. CASE TimerAsks \/ NextSecond \/ RestartDue \/ UNCHANGED vars
  BY <1>1, <1>7 DEF TimerAsks, NextSecond, RestartDue, vars, threadVars
<1> QED BY <1>2, <1>3, <1>4, <1>5, <1>6, <1>7 DEF Next, Tick

-----------------------------------------------------------------------------
(* As long as nobody reads a file that is not filled, or exits too early *)

LEMMA InitKept == Init => Kept
BY DEF Init, Kept, NothingLost, Taken

\* Steps that leave alone what it speaks of.
LEMMA KeptElsewhere ==
  ASSUME Kept, UNCHANGED <<folder, mine, queued, threadVars, lost>>,
         phase' = "restart" => \A t \in Thread : pc[t] = "free"
  PROVE  Kept'
BY DEF Kept, NothingLost, InFolder, threadVars

LEMMA CreateKept ==
  ASSUME Basic, Kept, NEW p \in Asker, Create(p)
  PROVE  Kept'
<1> DEFINE x == Min(FreeIds)
           f == [id |-> x, kind |-> Head(asks[p]), whole |-> FALSE]
<1>1. /\ x \in Id /\ ~InFolder(x) /\ x # 0
      /\ \A q \in Asker : mine[q] # x
      /\ \A t \in Thread : task[t] # x
      /\ asks[p] \in Seq(Kind) /\ asks[p] # <<>>
  BY NextNameIsFree DEF Create, Basic, TypeOK, Id
<1>2. f \in Files /\ f.id = x
  <2>1. Head(asks[p]) \in Kind
    BY <1>1, HeadTailProperties
  <2> QED BY <1>1, <2>1 DEF Files
<1>3. /\ folder' = Append(folder, f)
      /\ mine' = [mine EXCEPT ![p] = x]
      /\ lost' = lost \ {x} /\ done' = done \ {x} /\ queued' = queued \ {x}
      /\ UNCHANGED <<phase, pc, task, command>>
  BY DEF Create
<1> HIDE DEF f, x
<1>4. folder' \in Seq(Files) /\ Present' = Present \union {f}
  BY <1>1, <1>2, <1>3, CreatedFacts DEF Basic, TypeOK
<1>5. \A id : InFolder(id)' <=> InFolder(id) \/ id = x
  <2>1. \A id : InFolder(id)' <=> \E g \in Present' : g.id = id
    BY DEF InFolder, Present
  <2>2. \A id : InFolder(id) <=> \E g \in Present : g.id = id
    BY DEF InFolder, Present
  <2> QED BY <1>2, <1>4, <2>1, <2>2
<1>6. \A i \in DOMAIN folder' : folder'[i].id \in queued' => folder'[i].whole
  <2> SUFFICES ASSUME NEW i \in DOMAIN folder', folder'[i].id \in queued'
               PROVE  folder'[i].whole
    OBVIOUS
  <2>1. folder'[i] \in Present /\ folder'[i].id \in queued
    BY <1>2, <1>3, <1>4 DEF Present
  <2>2. PICK j \in DOMAIN folder : folder'[i] = folder[j]
    BY <2>1 DEF Present
  <2> QED BY <2>1, <2>2 DEF Kept
<1>7. \A q \in Asker : mine'[q] = IF q = p THEN x ELSE mine[q]
  BY <1>3 DEF Basic, TypeOK
<1>9. \A q \in Asker : (mine[q] # 0 => mine[q] \notin queued /\ InFolder(mine[q]))'
  <2> SUFFICES ASSUME NEW q \in Asker, mine'[q] # 0
               PROVE  mine'[q] \notin queued' /\ InFolder(mine[q])'
    OBVIOUS
  <2>1. CASE q = p
    BY <1>3, <1>5, <1>7, <2>1
  <2>2. CASE q # p
    BY <1>3, <1>5, <1>7, <2>2 DEF Kept
  <2> QED BY <2>1, <2>2
<1>10. \A q, r \in Asker : mine'[q] # 0 /\ mine'[q] = mine'[r] => q = r
  BY <1>1, <1>7 DEF Kept
<1>11. \A t \in Thread, q \in Asker : pc[t] \in Taken /\ mine'[q] # 0 => mine'[q] # task[t]
  BY <1>1, <1>7 DEF Kept
<1>12. \A t \in Thread : pc[t] \in Taken /\ command[t] = Nothing => task[t] \in Id \ queued'
  BY <1>3 DEF Kept
<1>13. NothingLost'
  <2> SUFFICES ASSUME NEW id \in queued'
               PROVE  \/ InFolder(id)' \/ \E t \in Thread : task'[t] = id
                      \/ id \in done' \union lost'
    BY DEF NothingLost
  <2>1. id \in queued /\ id # x
    BY <1>3
  <2>2. InFolder(id) \/ (\E t \in Thread : task[t] = id) \/ id \in done \union lost
    BY <2>1 DEF Kept, NothingLost
  <2> QED BY <1>3, <1>5, <2>1, <2>2
<1> QED BY <1>3, <1>6, <1>9, <1>10, <1>11, <1>12, <1>13 DEF Kept

\* A task is queued in full while its file is there, and nobody took it.
LEMMA WriteKept ==
  ASSUME Basic, Kept, NEW p \in Asker, Write(p)
  PROVE  Kept'
<1>1. mine[p] # 0 /\ mine[p] \in Id
  BY DEF Write, Basic, TypeOK
<1>2. /\ mine' = [mine EXCEPT ![p] = 0] /\ queued' = queued \union {mine[p]}
      /\ UNCHANGED <<phase, pc, task, command, done, lost>>
  BY DEF Write, threadVars, stopVars
<1>3. /\ DOMAIN folder' = DOMAIN folder
      /\ \A i \in DOMAIN folder : /\ folder'[i].id = folder[i].id
                                  /\ folder'[i].whole = (folder[i].whole \/ folder[i].id = mine[p])
  BY WrittenFacts DEF Write, Basic, TypeOK
<1>4. \A id : InFolder(id)' <=> InFolder(id)
  BY <1>3 DEF InFolder
<1>5. \A i \in DOMAIN folder' : folder'[i].id \in queued' => folder'[i].whole
  BY <1>2, <1>3 DEF Kept
<1>6. \A q \in Asker : mine'[q] = IF q = p THEN 0 ELSE mine[q]
  BY <1>2 DEF Basic, TypeOK
<1>7. \A q \in Asker : (mine[q] # 0 => mine[q] \notin queued /\ InFolder(mine[q]))'
  <2> SUFFICES ASSUME NEW q \in Asker, mine'[q] # 0
               PROVE  mine'[q] \notin queued' /\ InFolder(mine[q])'
    OBVIOUS
  <2>1. q # p /\ mine'[q] = mine[q]
    BY <1>6
  <2>2. mine[q] # mine[p] /\ mine[q] \notin queued /\ InFolder(mine[q])
    BY <2>1 DEF Kept
  <2> QED BY <1>2, <1>4, <2>1, <2>2
<1>8. \A q, r \in Asker : mine'[q] # 0 /\ mine'[q] = mine'[r] => q = r
  BY <1>6 DEF Kept
<1>9. \A t \in Thread, q \in Asker : pc[t] \in Taken /\ mine'[q] # 0 => mine'[q] # task[t]
  BY <1>6 DEF Kept
<1>10. \A t \in Thread : pc[t] \in Taken /\ command[t] = Nothing => task[t] \in Id \ queued'
  BY <1>1, <1>2 DEF Kept
<1>11. NothingLost'
  <2> SUFFICES ASSUME NEW id \in queued'
               PROVE  \/ InFolder(id)' \/ \E t \in Thread : task'[t] = id
                      \/ id \in done' \union lost'
    BY DEF NothingLost
  <2>1. CASE id = mine[p]
    BY <1>1, <1>4, <2>1 DEF Kept
  <2>2. CASE id \in queued
    BY <1>2, <1>4, <2>2 DEF Kept, NothingLost
  <2> QED BY <1>2, <2>1, <2>2
<1> QED BY <1>2, <1>5, <1>7, <1>8, <1>9, <1>10, <1>11 DEF Kept

LEMMA RunCheckKept ==
  ASSUME Basic, Kept, RunCheck
  PROVE  Kept'
<1>1. /\ UNCHANGED <<folder, mine, queued, command, done, lost>> /\ phase' = "queue"
  BY DEF RunCheck, askVars, stopVars
<1>2. CASE UNCHANGED <<pc, task>>
  BY <1>1, <1>2 DEF Kept, NothingLost, InFolder
<1>3. CASE Due
  <2>1. PICK t \in Free : /\ pc' = [pc EXCEPT ![t] = "start"]
                         /\ task' = [task EXCEPT ![t] = Head(folder).id]
    BY <1>3 DEF RunCheck
  <2>2. /\ t \in Thread /\ pc[t] = "free" /\ pc'[t] = "start" /\ task[t] = 0
        /\ \A u \in Thread \ {t} : pc'[u] = pc[u] /\ task'[u] = task[u]
    BY <2>1 DEF Free, Basic, TypeOK, Kept
  <2>3. /\ \A u \in Thread : pc'[u] = "free" => task'[u] = 0
        /\ \A u \in Thread : pc'[u] \in Taken => u # t
    BY <2>2 DEF Kept, Taken
  <2>4. /\ \A u \in Thread, q \in Asker : pc'[u] \in Taken /\ mine[q] # 0 => mine[q] # task'[u]
        /\ \A u \in Thread : pc'[u] \in Taken /\ command[u] = Nothing => task'[u] \in Id \ queued
    BY <2>2, <2>3 DEF Kept
  <2>5. NothingLost'
    <3> SUFFICES ASSUME NEW id \in queued
                 PROVE  \/ InFolder(id) \/ \E u \in Thread : task'[u] = id
                        \/ id \in done \union lost
      BY <1>1 DEF NothingLost, InFolder
    <3>1. id # 0
      BY DEF Basic, TypeOK, Id
    <3>2. InFolder(id) \/ (\E u \in Thread : task[u] = id) \/ id \in done \union lost
      BY DEF Kept, NothingLost
    <3>3. \A u \in Thread : task[u] = id => task'[u] = id
      BY <2>2, <3>1
    <3> QED BY <3>2, <3>3
  <2>6. \A q \in Asker : (mine[q] # 0 => mine[q] \notin queued /\ InFolder(mine[q]))'
    BY <1>1 DEF Kept, InFolder
  <2> QED BY <1>1, <2>3, <2>4, <2>5, <2>6 DEF Kept
<1> QED BY <1>2, <1>3 DEF RunCheck

\* Steps of one thread that leave the folder alone: it keeps its task, or is
\* done with it.
LEMMA KeptThread ==
  ASSUME Basic, Kept, NEW t \in Thread, UNCHANGED <<folder, phase, mine, queued, lost>>,
         pc[t] # "free", pc[t] \in Taken <=> pc'[t] \in Taken \union {"free"},
         \A u \in Thread \ {t} : pc'[u] = pc[u] /\ task'[u] = task[u] /\ command'[u] = command[u],
         pc'[t] # "free" => command'[t] = command[t],
         \/ task'[t] = task[t] /\ done' = done /\ pc'[t] # "free"
         \/ /\ task'[t] = 0 /\ command[t] # Nothing /\ pc[t] \in Taken
            /\ done' = done \union ({task[t]} \ {0})
         \/ /\ task'[t] = 0 /\ command[t] = Nothing /\ pc'[t] = "free"
            /\ done' = done
  PROVE  Kept'
<1>1. \A id : InFolder(id)' <=> InFolder(id)
  BY DEF InFolder
<1>2. \A u \in Thread : pc'[u] = "free" => task'[u] = 0
  BY DEF Kept
<1>3. \A u \in Thread : pc'[u] \in Taken =>
        /\ pc[u] \in Taken /\ task'[u] \in {task[u], 0} /\ command'[u] = command[u]
  BY DEF Taken
<1>4. \A u \in Thread, q \in Asker : pc'[u] \in Taken /\ mine[q] # 0 => mine[q] # task'[u]
  BY <1>3 DEF Kept
<1>5. \A u \in Thread : pc'[u] \in Taken /\ command'[u] = Nothing => task'[u] \in Id \ queued
  <2> SUFFICES ASSUME NEW u \in Thread, pc'[u] \in Taken, command'[u] = Nothing
               PROVE  task'[u] \in Id \ queued
    OBVIOUS
  <2>1. pc[u] \in Taken /\ command[u] = Nothing /\ pc'[u] # "free"
    BY <1>3 DEF Taken
  <2>2. task'[u] = task[u]
    BY <2>1
  <2> QED BY <2>1, <2>2 DEF Kept
<1>6. NothingLost'
  <2> SUFFICES ASSUME NEW id \in queued
               PROVE  \/ InFolder(id) \/ \E u \in Thread : task'[u] = id
                      \/ id \in done' \union lost
    BY <1>1 DEF NothingLost
  <2>1. id # 0
    BY DEF Basic, TypeOK, Id
  <2>2. InFolder(id) \/ (\E u \in Thread : task[u] = id) \/ id \in done \union lost
    BY DEF Kept, NothingLost
  <2>3. CASE \E u \in Thread \ {t} : task[u] = id
    BY <2>3
  <2>4. CASE task[t] = id
    <3>1. CASE task'[t] = task[t]
      BY <2>4, <3>1
    <3>2. CASE command[t] # Nothing /\ done' = done \union ({task[t]} \ {0})
      BY <2>1, <2>4, <3>2
    <3>3. CASE command[t] = Nothing /\ pc'[t] = "free"
      <4>1. pc[t] \in Taken
        BY <3>3
      <4>2. task[t] \notin queued
        BY <3>3, <4>1 DEF Kept
      <4> QED BY <2>4, <4>2
    <3> QED BY <3>1, <3>2, <3>3
  <2>5. done \subseteq done'
    OBVIOUS
  <2> QED BY <2>2, <2>3, <2>4, <2>5
<1>7. phase' = "restart" => \A u \in Thread : pc'[u] = "free"
  <2>1. phase # "restart"
    BY DEF Kept
  <2> QED BY <2>1
<1>8. \A q \in Asker : (mine[q] # 0 => mine[q] \notin queued /\ InFolder(mine[q]))'
  BY <1>1 DEF Kept
<1>9. /\ \A i \in DOMAIN folder' : folder'[i].id \in queued' => folder'[i].whole
      /\ \A q, r \in Asker : mine'[q] # 0 /\ mine'[q] = mine'[r] => q = r
  BY DEF Kept
<1> QED BY <1>2, <1>4, <1>5, <1>6, <1>7, <1>8, <1>9 DEF Kept

\* What a thread reads in a file that is queued is a task.
LEMMA ReadKept ==
  ASSUME Basic, Steady, Kept, NEW t \in Thread, Read(t), "half" \notin Hazard
  PROVE  Kept'
<1>1. /\ pc[t] = "read" /\ \A q \in Asker : mine[q] # task[t]
      /\ command' = [command EXCEPT ![t] = Contents(task[t])]
      /\ pc' = [pc EXCEPT ![t] = "unlink"]
      /\ UNCHANGED <<folder, phase, mine, queued, task, done, lost>>
  BY DEF Read, To, askVars, stopVars
<1>2. task[t] \in Id /\ InFolder(task[t])
  BY <1>1 DEF Basic, Handling, Started, Steady
<1>3. task[t] \in queued => Contents(task[t]) # Nothing
  <2> SUFFICES ASSUME task[t] \in queued PROVE Contents(task[t]) # Nothing
    OBVIOUS
  <2>1. PICK i \in DOMAIN folder : folder[i].id = task[t]
    BY <1>2 DEF InFolder
  <2>2. folder[i].whole
    BY <2>1 DEF Kept
  <2>3. Contents(task[t]) \in Kind
    BY <2>1, <2>2, ContentsFacts DEF Basic, TypeOK
  <2> QED BY <2>3, TaskQueueAssumption
<1>4. /\ \A u \in Thread \ {t} : pc'[u] = pc[u] /\ command'[u] = command[u]
      /\ pc'[t] = "unlink" /\ command'[t] = Contents(task[t])
  BY <1>1 DEF Basic, TypeOK
<1>5. \A id : InFolder(id)' <=> InFolder(id)
  BY <1>1 DEF InFolder
<1>6. /\ \A u \in Thread : pc'[u] = "free" => task[u] = 0
      /\ \A u \in Thread, q \in Asker : pc'[u] \in Taken /\ mine[q] # 0 => mine[q] # task[u]
  BY <1>1, <1>4 DEF Kept
<1>7. \A u \in Thread : pc'[u] \in Taken /\ command'[u] = Nothing => task[u] \in Id \ queued
  <2>1. command'[t] = Nothing => task[t] \in Id \ queued
    BY <1>2, <1>3, <1>4
  <2> QED BY <1>4, <2>1 DEF Kept
<1>8. phase # "restart"
  BY <1>1 DEF Kept
<1>9. NothingLost'
  BY <1>1, <1>5 DEF Kept, NothingLost
<1>10. \A q \in Asker : (mine[q] # 0 => mine[q] \notin queued /\ InFolder(mine[q]))'
  BY <1>1, <1>5 DEF Kept
<1> QED BY <1>1, <1>6, <1>7, <1>8, <1>9, <1>10 DEF Kept

\* The file that a thread unlinks is one that it holds.
LEMMA UnlinkKept ==
  ASSUME Basic, Kept, NEW t \in Thread, Unlink(t)
  PROVE  Kept'
<1>1. /\ pc[t] = "unlink" /\ folder' = Unlinked(task[t])
      /\ UNCHANGED <<phase, mine, queued, task, command, done, lost>>
  BY DEF Unlink, askVars, stopVars
<1>2. folder' \in Seq(Files) /\ Present' = {f \in Present : f.id # task[t]}
  BY <1>1, UnlinkedFacts DEF Basic, TypeOK
<1>3. \A id : InFolder(id)' <=> InFolder(id) /\ id # task[t]
  <2>1. \A id : InFolder(id)' <=> \E g \in Present' : g.id = id
    BY DEF InFolder, Present
  <2>2. \A id : InFolder(id) <=> \E g \in Present : g.id = id
    BY DEF InFolder, Present
  <2> QED BY <1>2, <2>1, <2>2
<1>4. \A i \in DOMAIN folder' : folder'[i].id \in queued => folder'[i].whole
  <2> SUFFICES ASSUME NEW i \in DOMAIN folder', folder'[i].id \in queued
               PROVE  folder'[i].whole
    OBVIOUS
  <2>1. folder'[i] \in Present
    BY <1>2 DEF Present
  <2>2. PICK j \in DOMAIN folder : folder'[i] = folder[j]
    BY <2>1 DEF Present
  <2> QED BY <2>2 DEF Kept
<1>5. /\ \A u \in Thread \ {t} : pc'[u] = pc[u]
      /\ pc'[t] \in {"end", "look", "work"}
  BY DEF Unlink, To, Basic, TypeOK
<1>6. \A u \in Thread : /\ pc'[u] \in Taken => pc[u] \in Taken
                        /\ pc'[u] = "free" => pc[u] = "free"
  BY <1>1, <1>5 DEF Taken
<1>7. \A q \in Asker : (mine[q] # 0 => mine[q] \notin queued /\ InFolder(mine[q]))'
  <2> SUFFICES ASSUME NEW q \in Asker, mine[q] # 0
               PROVE  mine[q] \notin queued /\ InFolder(mine[q])'
    BY <1>1 DEF InFolder
  <2>1. pc[t] \in Taken
    BY <1>1 DEF Taken
  <2>2. mine[q] # task[t] /\ mine[q] \notin queued /\ InFolder(mine[q])
    BY <2>1 DEF Kept
  <2>3. mine' = mine
    BY <1>1
  <2> QED BY <1>3, <2>2, <2>3 DEF InFolder
<1>8. NothingLost'
  <2> SUFFICES ASSUME NEW id \in queued
               PROVE  \/ InFolder(id)' \/ \E u \in Thread : task[u] = id
                      \/ id \in done \union lost
    BY <1>1 DEF NothingLost
  <2> QED BY <1>3 DEF Kept, NothingLost
<1>9. phase # "restart"
  BY <1>1 DEF Kept
<1>10. /\ \A u \in Thread : pc'[u] = "free" => task[u] = 0
       /\ \A u \in Thread, q \in Asker : pc'[u] \in Taken /\ mine[q] # 0 => mine[q] # task[u]
       /\ \A u \in Thread : pc'[u] \in Taken /\ command[u] = Nothing => task[u] \in Id \ queued
  BY <1>6 DEF Kept
<1>11. \A q, r \in Asker : mine[q] # 0 /\ mine[q] = mine[r] => q = r
  BY DEF Kept
<1> QED BY <1>1, <1>4, <1>7, <1>8, <1>9, <1>10, <1>11 DEF Kept

\* What threads have in hand is lost when the program is closed, and its
\* nightly restart comes when they have nothing in hand.
LEMMA StopKept ==
  ASSUME Basic, Steady, Kept, Stop,
         \/ lost' = lost \union InHand
         \/ lost' = lost /\ phase = "restart"
  PROVE  Kept'
<1>1. /\ pc' = [t \in Thread |-> "free"] /\ task' = [t \in Thread |-> 0]
      /\ mine' = [q \in Asker |-> 0] /\ phase' = "run"
      /\ UNCHANGED <<folder, queued, done>>
  BY DEF Stop
<1>2. \A id : InFolder(id)' <=> InFolder(id)
  BY <1>1 DEF InFolder
<1>3. /\ \A t \in Thread : pc'[t] = "free" /\ task'[t] = 0 /\ pc'[t] \notin Taken
      /\ \A q \in Asker : mine'[q] = 0
  BY <1>1 DEF Taken
<1>4. NothingLost'
  <2> SUFFICES ASSUME NEW id \in queued
               PROVE  InFolder(id) \/ id \in done \union lost'
    BY <1>1, <1>2 DEF NothingLost
  <2>1. id # 0
    BY DEF Basic, TypeOK, Id
  <2>2. ASSUME NEW t \in Thread, task[t] = id PROVE InFolder(id) \/ id \in lost'
    <3>1. pc[t] # "free"
      BY <2>1, <2>2 DEF Kept
    <3>2. phase # "restart"
      BY <3>1 DEF Kept
    <3>3. CASE pc[t] \in {"start", "read"}
      BY <2>2, <3>3 DEF Steady
    <3>4. CASE pc[t] \notin {"start", "read"}
      <4>1. id \in InHand
        BY <2>1, <2>2, <3>1, <3>4 DEF InHand
      <4> QED BY <3>2, <4>1
    <3> QED BY <3>3, <3>4
  <2>3. lost \subseteq lost'
    OBVIOUS
  <2> QED BY <2>2, <2>3 DEF Kept, NothingLost
<1>5. \A i \in DOMAIN folder' : folder'[i].id \in queued' => folder'[i].whole
  BY <1>1 DEF Kept
<1> QED BY <1>1, <1>3, <1>4, <1>5 DEF Kept

\* No task is counted, and none about to be: none runs.
LEMMA RestartDueKept ==
  ASSUME Basic, Kept, RestartDue, "exit" \notin Hazard
  PROVE  Kept'
<1>1. running = 0 /\ UNCHANGED <<folder, askVars, threadVars, stopVars>>
      /\ \A t \in Thread : pc[t] # "start"
  BY DEF RestartDue
<1>2. Counted = {}
  <2>1. IsFiniteSet(Counted)
    BY TaskQueueAssumption, FS_Subset DEF Counted
  <2>2. Cardinality(Counted) = 0
    BY <1>1 DEF Basic
  <2> QED BY <2>1, <2>2, FS_EmptySet
<1>3. \A t \in Thread : pc[t] = "free"
  BY <1>1, <1>2 DEF Counted
<1> QED BY <1>1, <1>3, KeptElsewhere DEF askVars, stopVars

LEMMA StepKept ==
  ASSUME Basic, Steady, Kept, [Next]_vars, "half" \notin Hazard, "exit" \notin Hazard
  PROVE  Kept'
<1>1. ASSUME NEW p \in Asker, Ask(p) PROVE Kept'
  <2>1. CASE Scan(p) \/ Look(p)
    <3>1. UNCHANGED <<folder, phase, mine, queued, threadVars, lost>>
      BY <2>1 DEF Scan, Look, stopVars
    <3>2. phase = "restart" => \A t \in Thread : pc[t] = "free"
      BY DEF Kept
    <3> QED BY <3>1, <3>2, KeptElsewhere
  <2>2. CASE Create(p)
    BY <2>2, CreateKept
  <2>3. CASE Write(p)
    BY <2>3, WriteKept
  <2> QED BY <1>1, <2>1, <2>2, <2>3 DEF Ask
<1>2. ASSUME NEW w \in Web, WebAsks(w) PROVE Kept'
  <2>1. UNCHANGED <<folder, phase, mine, queued, threadVars, lost>>
    BY <1>2 DEF WebAsks, stopVars
  <2>2. phase = "restart" => \A t \in Thread : pc[t] = "free"
    BY DEF Kept
  <2> QED BY <2>1, <2>2, KeptElsewhere
<1>3. CASE RunCheck
  BY <1>3, RunCheckKept
<1>4. CASE TimerAsks \/ NextSecond
  <2>1. UNCHANGED <<folder, mine, queued, threadVars, lost>> /\ phase' # "restart"
    BY <1>4 DEF TimerAsks, NextSecond, askVars, stopVars
  <2> QED BY <2>1, KeptElsewhere
<1>5. CASE Quit \/ Restart
  BY <1>5, StopKept DEF Quit, Restart
<1>6. CASE RestartDue
  BY <1>6, RestartDueKept
<1>7. ASSUME NEW t \in Thread, Run(t) PROVE Kept'
  <2>1. CASE Read(t)
    BY <2>1, ReadKept
  <2>2. CASE Unlink(t)
    BY <2>2, UnlinkKept
  <2>3. CASE Count(t)
    <3>1. /\ UNCHANGED <<folder, phase, mine, queued, lost, task, command, done>>
          /\ pc[t] = "start" /\ pc'[t] = "read"
          /\ \A u \in Thread \ {t} : pc'[u] = pc[u]
      BY <2>3 DEF Count, To, Basic, TypeOK, askVars, stopVars
    <3> QED BY <3>1, KeptThread DEF Taken
  <2>4. CASE CheckWatchdog(t) \/ Postponed(t) \/ Kick(t) \/ Synchronized(t) \/ Worked(t)
    <3>1. /\ UNCHANGED <<folder, phase, mine, queued, lost, task, command, done>>
          /\ pc[t] \in {"look", "postpone", "kick", "sync", "work"}
          /\ pc'[t] \in {"end", "active", "kick", "sync"}
          /\ \A u \in Thread \ {t} : pc'[u] = pc[u]
      BY <2>4 DEF CheckWatchdog, Postponed, Kick, Synchronized, Worked, To, Basic, TypeOK,
         askVars, stopVars
    <3> QED BY <3>1, KeptThread DEF Taken
  <2>5. CASE GiveWay(t)
    <3>1. /\ UNCHANGED <<folder, phase, mine, queued, lost, command>>
          /\ pc[t] = "active" /\ pc'[t] \in {"postpone", "kick", "end"}
          /\ \A u \in Thread \ {t} : pc'[u] = pc[u] /\ task'[u] = task[u]
      BY <2>5 DEF GiveWay, To, Basic, TypeOK, stopVars
    <3>2. command[t] # Nothing
      BY <3>1, TaskQueueAssumption DEF Basic, Syncing
    <3>3. \/ task' = task /\ done' = done
          \/ task'[t] = 0 /\ done' = done \union {task[t]}
      BY <2>5 DEF GiveWay, Basic, TypeOK
    <3>4. task[t] # 0
      BY <3>1 DEF Basic, Handling, Started, Id
    <3> QED BY <3>1, <3>2, <3>3, <3>4, KeptThread DEF Taken
  <2>6. CASE End(t)
    <3>1. /\ UNCHANGED <<folder, phase, mine, queued, lost>>
          /\ pc[t] = "end" /\ pc'[t] = "free" /\ task'[t] = 0
          /\ \A u \in Thread \ {t} : /\ pc'[u] = pc[u] /\ task'[u] = task[u]
                                     /\ command'[u] = command[u]
      BY <2>6 DEF End, To, Basic, TypeOK, askVars, stopVars
    <3>2. done' = IF command[t] = Nothing THEN done ELSE done \union ({task[t]} \ {0})
      BY <2>6 DEF End
    <3> QED BY <3>1, <3>2, KeptThread DEF Taken
  <2> QED BY <1>7, <2>1, <2>2, <2>3, <2>4, <2>5, <2>6 DEF Run
<1>8. CASE UNCHANGED vars
  <2>1. UNCHANGED <<folder, phase, mine, queued, threadVars, lost>>
    BY <1>8 DEF vars, askVars, stopVars
  <2>2. phase = "restart" => \A t \in Thread : pc[t] = "free"
    BY DEF Kept
  <2>3. UNCHANGED pc
    BY <2>1 DEF threadVars
  <2> QED BY <2>1, <2>2, <2>3, KeptElsewhere
<1> QED BY <1>1, <1>2, <1>3, <1>4, <1>5, <1>6, <1>7, <1>8 DEF Next, Tick

-----------------------------------------------------------------------------
(* The theorems *)

\* Every variable has its type, whatever the surroundings do: a thread that
\* is counted is uncounted once, so that running_tasks never is off.
THEOREM TypeCorrect == Spec => []TypeOK
<1>1. Basic => TypeOK
  BY DEF Basic
<1> QED BY <1>1, InitBasic, StepBasic, PTL DEF Spec

\* The timer sees the file of a task every second, till a thread unlinks it:
\* still the task is executed once, as long as that thread is not slow.
THEOREM OneExecution ==
  ASSUME "slow" \notin Hazard
  PROVE  Spec => []RunsOnce
<1>1. Basic /\ Steady /\ [Next]_vars => Basic' /\ Steady'
  BY StepBasic, StepSteady
<1>2. Init => Basic /\ Steady
  BY InitBasic, InitSteady
<1>3. Steady => RunsOnce
  BY DEF Steady
<1> QED BY <1>1, <1>2, <1>3, PTL DEF Spec

\* Threads count themselves as they run, and the timer trusts the count: it
\* starts no thread beyond MAX_PARALLEL_TASKS, as long as threads are not slow
\* to count themselves.
THEOREM ParallelBound ==
  ASSUME "slow" \notin Hazard
  PROVE  Spec => []Bounded
<1>1. Basic /\ Steady /\ [Next]_vars => Basic' /\ Steady'
  BY StepBasic, StepSteady
<1>2. Init => Basic /\ Steady
  BY InitBasic, InitSteady
<1>3. Steady => Bounded
  BY DEF Steady
<1> QED BY <1>1, <1>2, <1>3, PTL DEF Spec

\* Nothing but a look at a watchdog keeps two synchronizations of a kind apart.
\* That is enough as long as threads are not slow, and no synchronization
\* hangs.
THEOREM Exclusion ==
  ASSUME "slow" \notin Hazard, "hang" \notin Hazard
  PROVE  Spec => []Exclusive
<1>1. Basic /\ Steady /\ Apart /\ [Next]_vars => Basic' /\ Steady' /\ Apart'
  BY StepBasic, StepSteady, StepApart
<1>2. Init => Basic /\ Steady /\ Apart
  BY InitBasic, InitSteady, InitApart
<1>3. Apart => Exclusive
  BY DEF Apart
<1> QED BY <1>1, <1>2, <1>3, PTL DEF Spec

\* No watchdog is left behind, whichever way a synchronization ends.
THEOREM Watchdogs ==
  ASSUME "slow" \notin Hazard, "hang" \notin Hazard
  PROVE  Spec => []WatchdogHeld
<1>1. Basic /\ Steady /\ Apart /\ [Next]_vars => Basic' /\ Steady' /\ Apart'
  BY StepBasic, StepSteady, StepApart
<1>2. Init => Basic /\ Steady /\ Apart
  BY InitBasic, InitSteady, InitApart
<1>3. Apart => WatchdogHeld
  BY DEF Apart
<1> QED BY <1>1, <1>2, <1>3, PTL DEF Spec

\* The nightly restart loses no task, and no file is thrown away before it is
\* filled, as long as the timer does not exit between the start of a thread
\* and its count, and threads read whole files.
THEOREM NoneLost ==
  ASSUME "slow" \notin Hazard, "half" \notin Hazard, "exit" \notin Hazard
  PROVE  Spec => []NothingLost
<1>1. Basic /\ Steady /\ Kept /\ [Next]_vars => Basic' /\ Steady' /\ Kept'
  BY StepBasic, StepSteady, StepKept
<1>2. Init => Basic /\ Steady /\ Kept
  BY InitBasic, InitSteady, InitKept
<1>3. Kept => NothingLost
  BY DEF Kept
<1> QED BY <1>1, <1>2, <1>3, PTL DEF Spec
=============================================================================
