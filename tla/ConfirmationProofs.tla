------------------------- MODULE ConfirmationProofs -------------------------
(***************************************************************************)
(* What Confirmation and MailQueue promise, proved for any requests,       *)
(* visitors, senders, mails, rows and crashes: a change is made once, its  *)
(* link works, and a mail is not lost, nor sent twice unless the answer to *)
(* it is.                                                                  *)
(*                                                                         *)
(* Nothing but the record tells whether a change was made, and the record  *)
(* goes only after the change.  So between the two the visitor who made    *)
(* the change has to be the only one there is (Single), and a record that  *)
(* outlives its change belongs to somebody who is about to erase it        *)
(* (Once).                                                                 *)
(*                                                                         *)
(* Nothing but its number tells a sender which row it deals with.  So the  *)
(* rows that it has listed have to stay in the table, with the mails that  *)
(* they had (Holding), and a mail that is known to be sent waits no more,  *)
(* although its row is still there (Waiting, Counted).                     *)
(***************************************************************************)
EXTENDS Confirmation, FiniteSetTheorems, WellFoundedInduction, TLAPS

-----------------------------------------------------------------------------
(* Rows and their numbers *)

LEMMA MinIsLeast ==
  ASSUME NEW S \in SUBSET Int, S # {}, NEW low \in Int, \A x \in S : low <= x
  PROVE  Min(S) \in S /\ \A x \in S : Min(S) <= x
<1> DEFINE T == {x - low : x \in S}
<1>1. T \subseteq Nat /\ T # {}
  <2>1. \A x \in S : x - low \in Nat
    OBVIOUS
  <2>2. PICK x \in S : TRUE
    OBVIOUS
  <2> QED BY <2>1, <2>2
<1>2. PICK t \in T : \A u \in T : <<u, t>> \notin OpToRel(<, Nat)
  BY <1>1, WFMin, NatLessThanWellFounded
<1>3. PICK x \in S : t = x - low
  BY <1>2
<1>4. \A y \in S : x <= y
  <2> TAKE y \in S
  <2>1. y - low \in T /\ y - low \in Nat /\ t \in Nat
    BY <1>1
  <2>2. ~(y - low < t)
    BY <1>2, <2>1 DEF OpToRel
  <2> QED BY <1>3, <2>2
<1> HIDE DEF T
<1> QED BY <1>4 DEF Min

LEMMA MaxIsGreatest ==
  ASSUME NEW S \in SUBSET Int, S # {}, NEW high \in Int, \A x \in S : x <= high
  PROVE  Max(S) \in S /\ \A x \in S : x <= Max(S)
<1> DEFINE T == {high - x : x \in S}
<1>1. T \subseteq Nat /\ T # {}
  <2>1. \A x \in S : high - x \in Nat
    OBVIOUS
  <2>2. PICK x \in S : TRUE
    OBVIOUS
  <2> QED BY <2>1, <2>2
<1>2. PICK t \in T : \A u \in T : <<u, t>> \notin OpToRel(<, Nat)
  BY <1>1, WFMin, NatLessThanWellFounded
<1>3. PICK x \in S : t = high - x
  BY <1>2
<1>4. \A y \in S : y <= x
  <2> TAKE y \in S
  <2>1. high - y \in T /\ high - y \in Nat /\ t \in Nat
    BY <1>1
  <2>2. ~(high - y < t)
    BY <1>2, <2>1 DEF OpToRel
  <2> QED BY <1>3, <2>2
<1> HIDE DEF T
<1> QED BY <1>4 DEF Max

\* A set of rows is finite, has no more members than there are rows, and the
\* lowest one is in it.
LEMMA Rows ==
  ASSUME NEW S \in SUBSET Row
  PROVE  /\ IsFiniteSet(S) /\ Cardinality(S) \in 0..MaxRows
         /\ S # {} => Min(S) \in S
<1>1. MaxRows \in Nat
  BY MailQueueAssumption
<1>2. IsFiniteSet(Row) /\ Cardinality(Row) = MaxRows
  BY <1>1, FS_Interval DEF Row
<1>3. IsFiniteSet(S) /\ Cardinality(S) <= MaxRows
  BY <1>2, FS_Subset
<1>4. Cardinality(S) \in Nat
  BY <1>3, FS_CardinalityType
<1>5. S # {} => Min(S) \in S
  <2>1. S \in SUBSET Int /\ \A x \in S : 1 <= x
    BY DEF Row
  <2> QED BY <2>1, MinIsLeast
<1> QED BY <1>1, <1>3, <1>4, <1>5

\* A new row has a number of its own.
LEMMA NextRowIsFree ==
  ASSUME MailTypeOK, NextRow <= MaxRows
  PROVE  NextRow \in Row \ Numbers
<1>1. Numbers \subseteq Row /\ MaxRows \in Nat
  BY MailQueueAssumption DEF MailTypeOK, Numbers
<1>2. CASE Numbers = {}
  BY <1>1, <1>2 DEF NextRow, Row
<1>3. CASE Numbers # {}
  <2>1. Numbers \in SUBSET Int /\ MaxRows \in Int /\ \A x \in Numbers : x <= MaxRows
    BY <1>1 DEF Row
  <2>2. Max(Numbers) \in Numbers /\ \A x \in Numbers : x <= Max(Numbers)
    BY <1>3, <2>1, MaxIsGreatest
  <2>3. NextRow = Max(Numbers) + 1
    BY <1>3 DEF NextRow
  <2>4. Max(Numbers) \in 1..MaxRows
    BY <1>1, <2>2 DEF Row
  <2>5. NextRow \notin Numbers
    BY <2>1, <2>2, <2>3, <2>4
  <2> QED BY <1>1, <2>3, <2>4, <2>5 DEF Row
<1> QED BY <1>2, <1>3

\* The rows that are left are numbered anew, each with a number of its own.
LEMMA RanksAreNumbers ==
  ASSUME NEW left \in SUBSET Row
  PROVE  /\ \A n \in left : Rank(n, left) \in 1..Cardinality(left)
         /\ \A n, k \in left : Rank(n, left) = Rank(k, left) => n = k
         /\ \A i \in 1..Cardinality(left) : \E n \in left : Rank(n, left) = i
<1> DEFINE below(n) == {k \in left : k <= n}
<1> \A n \in left : n \in Int
  BY MailQueueAssumption DEF Row
<1>1. \A n \in left : below(n) \in SUBSET Row /\ below(n) \subseteq left /\ n \in below(n)
  OBVIOUS
<1>2. IsFiniteSet(left) /\ Cardinality(left) \in Nat
  BY Rows
<1>3. ASSUME NEW n \in left PROVE Rank(n, left) \in 1..Cardinality(left)
  <2>1. IsFiniteSet(below(n)) /\ Cardinality(below(n)) \in Nat
    BY <1>1, Rows
  <2>2. Cardinality(below(n)) <= Cardinality(left)
    BY <1>1, <1>2, FS_Subset
  <2>3. Cardinality(below(n)) # 0
    BY <1>1, <2>1, FS_EmptySet
  <2>4. Rank(n, left) = Cardinality(below(n))
    BY DEF Rank
  <2> HIDE DEF below
  <2> QED BY <1>2, <2>1, <2>2, <2>3, <2>4
<1>4. ASSUME NEW n \in left, NEW k \in left, n < k
      PROVE  Rank(n, left) # Rank(k, left)
  <2>1. below(n) \subseteq below(k) /\ k \notin below(n)
    BY <1>4
  <2>2. IsFiniteSet(below(k)) /\ k \in below(k)
    BY <1>1, Rows
  <2>3. Cardinality(below(k)) # Cardinality(below(n))
    BY <2>1, <2>2, FS_Subset
  <2> QED BY <2>3 DEF Rank
<1>5. \A n, k \in left : Rank(n, left) = Rank(k, left) => n = k
  <2> TAKE n, k \in left
  <2>1. n < k \/ k < n \/ n = k
    OBVIOUS
  <2> QED BY <2>1, <1>4
<1> DEFINE f == [n \in left |-> Rank(n, left)]
           C == 1..Cardinality(left)
<1>6. f \in Injection(left, C)
  BY <1>3, <1>5 DEF Injection, IsInjective
<1>7. IsFiniteSet(C) /\ Cardinality(C) = Cardinality(left)
  <2> HIDE DEF f
  <2> QED BY <1>2, FS_Interval
<1>8. f \in Surjection(left, C)
  <2> HIDE DEF f, C
  <2> QED BY <1>2, <1>6, <1>7, FS_Injection
<1>9. \A i \in C : \E n \in left : f[n] = i
  <2> HIDE DEF f, C
  <2> QED BY <1>8 DEF Surjection
<1>10. \A i \in C : \E n \in left : Rank(n, left) = i
  BY <1>9
<1> QED BY <1>3, <1>5, <1>10

\* What the vacuumed table holds is what the rows that are left held.
LEMMA RenumberedHolds ==
  ASSUME NEW left \in SUBSET Row
  PROVE  /\ DOMAIN Renumbered(left) = 1..Cardinality(left)
         /\ DOMAIN Renumbered(left) \subseteq Row
         /\ \A i \in DOMAIN Renumbered(left) :
              \E n \in left : Rank(n, left) = i /\ Renumbered(left)[i] = mails[n]
         /\ \A n \in left : /\ Rank(n, left) \in DOMAIN Renumbered(left)
                            /\ Renumbered(left)[Rank(n, left)] = mails[n]
<1> DEFINE C == 1..Cardinality(left)
           g(i) == CHOOSE n \in left : Rank(n, left) = i
<1>1. Cardinality(left) \in 0..MaxRows /\ MaxRows \in Nat
  BY Rows, MailQueueAssumption
<1>2. DOMAIN Renumbered(left) = C /\ \A i \in C : Renumbered(left)[i] = mails[g(i)]
  BY DEF Renumbered
<1>3. C \subseteq Row
  BY <1>1 DEF Row
<1>4. \A i \in C : g(i) \in left /\ Rank(g(i), left) = i
  <2> TAKE i \in C
  <2>1. \E n \in left : Rank(n, left) = i
    BY RanksAreNumbers
  <2> QED BY <2>1
<1>5. \A n \in left : Rank(n, left) \in C
  BY RanksAreNumbers
<1>6. \A n \in left : g(Rank(n, left)) = n
  <2> TAKE n \in left
  <2> DEFINE k == g(Rank(n, left))
  <2>1. k \in left /\ Rank(k, left) = Rank(n, left)
    BY <1>4, <1>5
  <2> HIDE DEF k
  <2> QED BY <2>1, RanksAreNumbers
<1> HIDE DEF C, g
<1>7. \A i \in C : \E n \in left : Rank(n, left) = i /\ Renumbered(left)[i] = mails[n]
  BY <1>2, <1>4
<1>8. \A n \in left : Renumbered(left)[Rank(n, left)] = mails[n]
  BY <1>2, <1>5, <1>6
<1>9. C = 1..Cardinality(left)
  BY DEF C
<1> QED BY <1>2, <1>3, <1>5, <1>7, <1>8, <1>9

-----------------------------------------------------------------------------
(* A change is made once *)


\* The part of the types that this is about.
Typed ==
  /\ setup \in [Request -> {"new", "mailed", "done"}]
  /\ record \subseteq Request
  /\ vpc \in [Visitor -> {"idle", "execute", "mail", "erase", "inform"}]
  /\ request \in [Visitor -> Request \union {NoRequest}]
  /\ executed \in [Request -> Nat]
  /\ clicked \subseteq Request

Busy(v) == vpc[v] # "idle"

\* One click is handled at a time.
Single == \A v, w \in Visitor : Busy(v) /\ Busy(w) => v = w

\* A click is about the request of its link, of which the change is not made yet.
Visiting(v) ==
  Busy(v) =>
    /\ request[v] \in clicked
    /\ vpc[v] = "execute" /\ request[v] \notin broken => executed[request[v]] = 0

\* Somebody has made the change and is going to erase its record.
Erasing(r) == \E v \in Visitor : vpc[v] \in {"mail", "erase"} /\ request[v] = r

Once(r) ==
  r \notin broken =>
    /\ executed[r] <= 1
    /\ executed[r] > 0 => /\ r \in clicked /\ setup[r] = "done"
                          /\ r \in record => Erasing(r)
    /\ r \in record => setup[r] = "done"

IInv == Typed /\ Single /\ (\A v \in Visitor : Visiting(v)) /\ \A r \in Request : Once(r)

LEMMA InitIsRight == Init => IInv
BY DEF Init, IInv, Typed, Single, Busy, Visiting, Once

\* A request is set up.
LEMMA SetupIsRight ==
  ASSUME IInv, NEW r \in Request, Setup(r)
  PROVE  IInv'
<1>1. UNCHANGED <<vpc, request, executed, clicked, broken>>
  BY DEF Setup, MailLink, StoreRecord
<1>2. Typed' /\ Single' /\ \A v \in Visitor : Visiting(v)'
  BY <1>1 DEF Setup, MailLink, StoreRecord, IInv, Typed, Single, Visiting, Busy
<1>3. ASSUME NEW q \in Request PROVE Once(q)'
  <2>1. CASE MailLink(r)
    BY <1>1, <2>1 DEF MailLink, IInv, Typed, Once, Erasing
  <2>2. CASE StoreRecord(r)
    BY <1>1, <2>2 DEF StoreRecord, IInv, Typed, Once, Erasing
  <2> QED BY <2>1, <2>2 DEF Setup
<1> QED BY <1>2, <1>3 DEF IInv

\* A link is clicked, while no other click is handled.
LEMMA ClickIsRight ==
  ASSUME IInv, "click" \notin Hazard, Within = {},
         NEW v \in Visitor, NEW r \in Request, Click(v, r)
  PROVE  IInv'
<1>1. \A w \in Visitor : vpc[w] = "idle"
  BY DEF Click
<1>2. /\ r \in record /\ request' = [request EXCEPT ![v] = r]
      /\ clicked' = clicked \union {r} /\ vpc' = [vpc EXCEPT ![v] = "execute"]
      /\ UNCHANGED <<setup, record, executed, broken>>
  BY DEF Click, Found, ToStep
<1>3. Typed' /\ Single'
  BY <1>1, <1>2 DEF IInv, Typed, Single, Busy
<1>4. \A q \in Request : ~Erasing(q)
  BY <1>1 DEF Erasing
<1>5. ASSUME NEW w \in Visitor PROVE Visiting(w)'
  <2>1. CASE w = v
    <3>1. r \notin broken => executed[r] = 0
      BY <1>2, <1>4 DEF IInv, Once, Typed
    <3> QED BY <1>2, <2>1, <3>1 DEF IInv, Typed, Visiting
  <2>2. CASE w # v
    BY <1>1, <1>2, <2>2 DEF IInv, Typed, Visiting, Busy
  <2> QED BY <2>1, <2>2
<1>6. ASSUME NEW q \in Request PROVE Once(q)'
  BY <1>2, <1>4 DEF IInv, Typed, Once
<1> QED BY <1>3, <1>5, <1>6 DEF IInv

\* The change is made.
LEMMA ExecuteIsRight ==
  ASSUME IInv, NEW v \in Visitor, Execute(v)
  PROVE  IInv'
<1>1. /\ vpc[v] = "execute" /\ vpc' = [vpc EXCEPT ![v] = "mail"]
      /\ UNCHANGED <<setup, record, request, clicked, broken>>
      /\ executed' = IF request[v] \in record
                     THEN [executed EXCEPT ![request[v]] = @ + 1] ELSE executed
  BY DEF Execute, ToStep
<1>2. request[v] \in clicked /\ request[v] \in Request
  BY <1>1 DEF IInv, Typed, Visiting, Busy
<1>3. Typed' /\ Single'
  BY <1>1, <1>2 DEF IInv, Typed, Single, Busy
<1>4. ASSUME NEW w \in Visitor PROVE Visiting(w)'
  <2>1. CASE w = v
    BY <1>1, <1>2, <2>1 DEF IInv, Typed, Visiting
  <2>2. CASE w # v
    BY <1>1, <2>2 DEF IInv, Typed, Visiting, Single, Busy
  <2> QED BY <2>1, <2>2
<1>5. ASSUME NEW q \in Request PROVE Once(q)'
  <2>1. Erasing(q) => Erasing(q)'
    BY <1>1 DEF IInv, Typed, Erasing
  <2>2. q = request[v] => Erasing(q)'
    BY <1>1 DEF IInv, Typed, Erasing
  <2>3. CASE q = request[v] /\ q \in record
    <3>1. q \notin broken => executed[q] = 0 /\ executed'[q] = 1
      BY <1>1, <2>3 DEF IInv, Typed, Visiting, Busy
    <3> QED BY <1>1, <1>2, <2>2, <2>3, <3>1 DEF IInv, Once
  <2>4. CASE ~(q = request[v] /\ q \in record)
    <3>1. executed'[q] = executed[q]
      BY <1>1, <2>4 DEF IInv, Typed
    <3> QED BY <1>1, <2>1, <3>1 DEF IInv, Once
  <2> QED BY <2>3, <2>4
<1> QED BY <1>3, <1>4, <1>5 DEF IInv

\* What follows the change.
LEMMA HandleIsRight ==
  ASSUME IInv, NEW v \in Visitor, Handle(v)
  PROVE  IInv'
<1>1. CASE Execute(v)
  BY <1>1, ExecuteIsRight
<1>2. CASE MailNews(v)
  <2>1. /\ vpc[v] = "mail" /\ vpc' = [vpc EXCEPT ![v] = "erase"]
        /\ UNCHANGED <<setup, record, request, executed, clicked, broken>>
    BY <1>2 DEF MailNews, ToStep
  <2>2. \A w \in Visitor : vpc'[w] = vpc[w] \/ (w = v /\ vpc'[w] = "erase")
    BY <2>1 DEF IInv, Typed
  <2>3. \A r \in Request : Erasing(r) => Erasing(r)'
    BY <2>1, <2>2 DEF Erasing
  <2>4. Typed' /\ Single' /\ \A w \in Visitor : Visiting(w)'
    BY <2>1, <2>2 DEF IInv, Typed, Single, Visiting, Busy
  <2>5. \A r \in Request : Once(r)'
    BY <2>1, <2>3 DEF IInv, Once
  <2> QED BY <2>4, <2>5 DEF IInv
<1>3. CASE EraseRecord(v)
  <2>1. /\ vpc[v] = "erase" /\ vpc' = [vpc EXCEPT ![v] = "inform"]
        /\ record' = record \ {request[v]}
        /\ UNCHANGED <<setup, request, executed, clicked, broken>>
    BY <1>3 DEF EraseRecord, ToStep
  <2>2. \A w \in Visitor : vpc'[w] = vpc[w] \/ (w = v /\ vpc'[w] = "inform")
    BY <2>1 DEF IInv, Typed
  <2>3. \A r \in Request : Erasing(r) => Erasing(r)' \/ r = request[v]
    BY <2>1, <2>2 DEF Erasing
  <2>4. Typed' /\ Single' /\ \A w \in Visitor : Visiting(w)'
    BY <2>1, <2>2 DEF IInv, Typed, Single, Visiting, Busy
  <2>5. \A r \in Request : Once(r)'
    BY <2>1, <2>3 DEF IInv, Once
  <2> QED BY <2>4, <2>5 DEF IInv
<1>4. CASE Inform(v)
  <2>1. UNCHANGED <<setup, record, vpc, request, executed, clicked, broken>>
    BY <1>4 DEF Inform
  <2>2. \A r \in Request : Erasing(r)' <=> Erasing(r)
    BY <2>1 DEF Erasing
  <2>3. Typed' /\ Single' /\ \A w \in Visitor : Visiting(w)'
    BY <2>1 DEF IInv, Typed, Single, Visiting, Busy
  <2>4. \A r \in Request : Once(r)'
    BY <2>1, <2>2 DEF IInv, Once
  <2> QED BY <2>3, <2>4 DEF IInv
<1>5. CASE Done(v)
  <2>1. /\ vpc[v] = "inform" /\ vpc' = [vpc EXCEPT ![v] = "idle"]
        /\ request' = [request EXCEPT ![v] = NoRequest]
        /\ UNCHANGED <<setup, record, executed, clicked, broken>>
    BY <1>5 DEF Done, ToStep
  <2>2. \A w \in Visitor \ {v} : vpc'[w] = vpc[w] /\ request'[w] = request[w]
    BY <2>1 DEF IInv, Typed
  <2>3. vpc'[v] = "idle"
    BY <2>1 DEF IInv, Typed
  <2>4. \A r \in Request : Erasing(r) => Erasing(r)'
    BY <2>1, <2>2 DEF Erasing
  <2>5. Typed' /\ Single' /\ \A w \in Visitor : Visiting(w)'
    BY <2>1, <2>2, <2>3 DEF IInv, Typed, Single, Visiting, Busy
  <2>6. \A r \in Request : Once(r)'
    BY <2>1, <2>4 DEF IInv, Once
  <2> QED BY <2>5, <2>6 DEF IInv
<1> QED BY <1>1, <1>2, <1>3, <1>4, <1>5 DEF Handle

\* The nightly maintenance takes records away.
LEMMA MaintainIsRight ==
  ASSUME IInv, Maintain
  PROVE  IInv'
<1>1. record' \subseteq record
      /\ UNCHANGED <<setup, vpc, request, executed, clicked, broken>>
  BY DEF Maintain, TrimRecords, confirmVars
<1>2. \A r \in Request : Erasing(r)' <=> Erasing(r)
  BY <1>1 DEF Erasing
<1>3. Typed' /\ Single' /\ \A w \in Visitor : Visiting(w)'
  BY <1>1 DEF IInv, Typed, Single, Visiting, Busy
<1>4. \A r \in Request : Once(r)'
  BY <1>1, <1>2 DEF IInv, Once
<1> QED BY <1>3, <1>4 DEF IInv

\* A crash breaks off what was in hand.
LEMMA CrashIsRight ==
  ASSUME IInv, Crash
  PROVE  IInv'
<1>1. /\ setup' = [r \in Request |-> IF setup[r] = "mailed" THEN "done" ELSE setup[r]]
      /\ broken' = broken \union {r \in Request : setup[r] = "mailed"}
                     \union ({request[v] : v \in Visitor} \ {NoRequest})
      /\ vpc' = [v \in Visitor |-> "idle"] /\ request' = [v \in Visitor |-> NoRequest]
      /\ UNCHANGED <<record, executed, clicked>>
  BY DEF Crash
<1>2. Typed' /\ Single' /\ \A w \in Visitor : Visiting(w)'
  BY <1>1 DEF IInv, Typed, Single, Visiting, Busy
<1>3. ASSUME NEW r \in Request, r \notin broken' PROVE Once(r)'
  <2>1. r \notin broken /\ setup[r] # "mailed" /\ setup'[r] = setup[r]
    BY <1>1, <1>3
  <2>2. ~Erasing(r)
    BY <1>1, <1>3, ConfirmationAssumption DEF Erasing
  <2> QED BY <1>1, <2>1, <2>2 DEF IInv, Once
<1>4. \A r \in Request : Once(r)'
  BY <1>3 DEF Once
<1> QED BY <1>2, <1>4 DEF IInv

LEMMA StepIsRight ==
  ASSUME IInv, [Next]_vars, "click" \notin Hazard, Within = {}
  PROVE  IInv'
<1>1. CASE UNCHANGED confirmVars
  <2>1. UNCHANGED <<setup, record, vpc, request, executed, clicked, broken>>
    BY <1>1 DEF confirmVars
  <2>2. \A r \in Request : Erasing(r)' <=> Erasing(r)
    BY <2>1 DEF Erasing
  <2>3. Typed' /\ Single' /\ \A w \in Visitor : Visiting(w)'
    BY <2>1 DEF IInv, Typed, Single, Visiting, Busy
  <2>4. \A r \in Request : Once(r)'
    BY <2>1, <2>2 DEF IInv, Once
  <2> QED BY <2>3, <2>4 DEF IInv
<1> QED BY <1>1, SetupIsRight, ClickIsRight, HandleIsRight, MaintainIsRight, CrashIsRight
        DEF Next, Mailing, vars

\* A change is made once, and only when its own link was clicked, for any number
\* of requests, visitors, mails and crashes, if one click is handled at a time
\* and no id is part of another.
THEOREM MadeOnce ==
  ASSUME "click" \notin Hazard, Within = {}
  PROVE  Spec => []ExecutedOnce
<1>1. Init => IInv
  BY InitIsRight
<1>2. IInv /\ [Next]_vars => IInv'
  BY StepIsRight
<1>3. IInv => ExecutedOnce
  <2> SUFFICES ASSUME IInv, NEW r \in Request \ broken
               PROVE  executed[r] <= IF r \in clicked THEN 1 ELSE 0
    BY DEF ExecutedOnce
  <2>1. executed[r] \in Nat /\ executed[r] <= 1 /\ (executed[r] > 0 => r \in clicked)
    BY DEF IInv, Typed, Once
  <2> QED BY <2>1
<1> QED BY <1>1, <1>2, <1>3, PTL DEF Spec

-----------------------------------------------------------------------------
(* Types *)

Table(f) == DOMAIN f \subseteq Row /\ f \in [DOMAIN f -> Entry]

\* What is done to the table leaves a table.
LEMMA TableIsTable ==
  ASSUME MailTypeOK
  PROVE  /\ \A m \in Mail : NextRow <= MaxRows => Table(With(m))
         /\ \A gone : Table(Without(gone))
         /\ \A set : Table(Postponed(set))
         /\ \A left \in SUBSET Numbers : Table(Renumbered(left))
<1>1. Numbers \subseteq Row /\ \A n \in Numbers : mails[n] \in Entry
  BY DEF MailTypeOK, Numbers
<1>2. MaxRetry \in Nat
  BY MailQueueAssumption
<1>3. ASSUME NEW m \in Mail, NextRow <= MaxRows PROVE Table(With(m))
  <2>1. NextRow \in Row
    BY <1>3, NextRowIsFree
  <2>2. [mail |-> m, due |-> TRUE, retry |-> 0] \in Entry
    BY <1>2 DEF Entry
  <2> QED BY <1>1, <2>1, <2>2 DEF Table, With
<1>4. ASSUME NEW gone PROVE Table(Without(gone))
  BY <1>1 DEF Table, Without, Restrict
<1>5. ASSUME NEW set PROVE Table(Postponed(set))
  <2>1. ASSUME NEW n \in Numbers
        PROVE  [mails[n] EXCEPT !.retry = Min({@ + 1, MaxRetry + 1}), !.due = FALSE] \in Entry
    <3> DEFINE least == Min({mails[n].retry + 1, MaxRetry + 1})
    <3>1. mails[n].retry \in 0..MaxRetry + 1
      BY <1>1 DEF Entry
    <3>2. least \in {mails[n].retry + 1, MaxRetry + 1} /\ least <= MaxRetry + 1
      BY <1>2, <3>1, MinIsLeast
    <3>3. least \in 0..MaxRetry + 1
      <4> HIDE DEF least
      <4> QED BY <1>2, <3>1, <3>2
    <3>4. [mails[n] EXCEPT !.retry = Min({@ + 1, MaxRetry + 1}), !.due = FALSE]
            = [mails[n] EXCEPT !.retry = least, !.due = FALSE]
      OBVIOUS
    <3> HIDE DEF least
    <3>5. [mails[n] EXCEPT !.retry = least, !.due = FALSE] \in Entry
      BY <1>1, <3>3 DEF Entry
    <3> QED BY <3>4, <3>5
  <2> QED BY <1>1, <2>1 DEF Table, Postponed
<1>6. ASSUME NEW left \in SUBSET Numbers PROVE Table(Renumbered(left))
  <2>1. left \in SUBSET Row
    BY <1>1
  <2>2. DOMAIN Renumbered(left) \subseteq Row
    BY <2>1, RenumberedHolds
  <2>3. \A i \in DOMAIN Renumbered(left) : Renumbered(left)[i] \in Entry
    BY <1>1, <2>1, RenumberedHolds
  <2>4. Renumbered(left) = [i \in DOMAIN Renumbered(left) |-> Renumbered(left)[i]]
    BY DEF Renumbered
  <2> QED BY <2>2, <2>3, <2>4 DEF Table
<1> QED BY <1>3, <1>4, <1>5, <1>6

\* A mail that is queued, and what else is done to the table.
LEMMA TableStepType ==
  ASSUME MailTypeOK,
         \/ \E m \in Mail : Schedule(m)
         \/ DueAgain \/ ClearMails \/ CrashMails \/ MaintainMails
  PROVE  MailTypeOK'
<1>1. ASSUME NEW m \in Mail, Schedule(m) PROVE MailTypeOK'
  <2>1. Table(mails')
    BY <1>1, TableIsTable DEF Schedule
  <2> QED BY <1>1, <2>1 DEF Schedule, MailTypeOK, Table, senderVars
<1>2. CASE DueAgain
  <2>1. PICK n \in Numbers : mails' = [mails EXCEPT ![n].due = TRUE]
    BY <1>2 DEF DueAgain
  <2>2. mails[n] \in Entry /\ [mails[n] EXCEPT !.due = TRUE] \in Entry
    BY DEF MailTypeOK, Numbers, Entry
  <2>3. mails' = [mails EXCEPT ![n] = [mails[n] EXCEPT !.due = TRUE]]
    BY <2>1
  <2>4. Table(mails')
    BY <2>2, <2>3 DEF Table, MailTypeOK, Numbers
  <2> QED BY <1>2, <2>4 DEF DueAgain, MailTypeOK, Table, senderVars, mailGhosts
<1>3. CASE ClearMails
  <2>1. Table(mails')
    BY <1>3, TableIsTable DEF ClearMails
  <2>2. Queued \subseteq Mail
    BY DEF Queued, MailTypeOK, Numbers, Entry
  <2> QED BY <1>3, <2>1, <2>2 DEF ClearMails, MailTypeOK, Table, senderVars
<1>4. CASE CrashMails
  <2>1. {mail[s] : s \in {t \in Sender : spc[t] \in {"send", "erase"}}} \ {NoMail} \subseteq Mail
    BY DEF MailTypeOK
  <2>2. faults + 1 \in 0..MaxFaults
    BY <1>4, MailQueueAssumption DEF CrashMails, MailTypeOK
  <2> QED BY <1>4, <2>1, <2>2 DEF CrashMails, MailTypeOK
<1>5. CASE TrimMails
  <2>1. PICK old \in SUBSET Due :
          LET gone == old \union {n \in Numbers : mails[n].retry > MaxRetry}
          IN mails' = Without(gone) /\ dropped' = dropped \union {mails[n].mail : n \in gone}
    BY <1>5 DEF TrimMails
  <2> DEFINE gone == old \union {n \in Numbers : mails[n].retry > MaxRetry}
  <2>2. mails' = Without(gone) /\ dropped' = dropped \union {mails[n].mail : n \in gone}
    BY <2>1
  <2>3. gone \subseteq Numbers
    BY DEF Due
  <2> HIDE DEF gone
  <2>4. Table(mails')
    BY <2>2, TableIsTable
  <2>5. {mails[n].mail : n \in gone} \subseteq Mail
    BY <2>3 DEF MailTypeOK, Numbers, Entry
  <2> QED BY <1>5, <2>2, <2>4, <2>5 DEF TrimMails, MailTypeOK, Table, senderVars
<1>6. CASE VacuumMails
  <2>1. Table(mails')
    BY <1>6, TableIsTable DEF VacuumMails
  <2> QED BY <1>6, <2>1 DEF VacuumMails, MailTypeOK, Table, senderVars, mailGhosts
<1> QED BY <1>1, <1>2, <1>3, <1>4, <1>5, <1>6 DEF MaintainMails

\* The task that sends.
LEMMA SendingType ==
  ASSUME MailTypeOK, NEW s \in Sender, SendMails(s)
  PROVE  MailTypeOK'
<1> USE DEF To, senderVars, mailGhosts
<1>1. CASE Start(s)
  BY <1>1 DEF Start, MailTypeOK
<1>2. CASE SetRunning(s)
  BY <1>2 DEF SetRunning, MailTypeOK
<1>3. CASE ListMails(s)
  <2>1. Due \subseteq Row
    BY DEF Due, Numbers, MailTypeOK
  <2> QED BY <1>3, <2>1 DEF ListMails, MailTypeOK
<1>4. CASE GetMail(s)
  <2> DEFINE found == MailIn(Min(rows[s]))
  <2>1. found \in Mail \union {NoMail}
    BY DEF MailIn, Numbers, MailTypeOK, Entry
  <2>2. mail' = [mail EXCEPT ![s] = found]
    BY <1>4 DEF GetMail
  <2>3. spc' \in [Sender -> {"idle", "set", "list", "get", "send", "erase", "postpone", "deny"}]
    BY <1>4 DEF GetMail, MailTypeOK
  <2>4. dropped' \subseteq Mail
    BY <1>4, MailQueueAssumption DEF GetMail, MailTypeOK
  <2> HIDE DEF found
  <2> QED BY <1>4, <2>1, <2>2, <2>3, <2>4 DEF GetMail, MailTypeOK
<1>5. CASE Accepted(s)
  <2>1. sent' = [m \in Mail |-> IF m = mail[s] THEN sent[m] + 1 ELSE sent[m]]
    BY <1>5 DEF Accepted, MailTypeOK
  <2>2. sent' \in [Mail -> Nat]
    BY <2>1 DEF MailTypeOK
  <2> QED BY <1>5, <2>2 DEF Accepted, MailTypeOK
<1>6. CASE Refused(s)
  BY <1>6 DEF Refused, MailTypeOK
<1>7. CASE LoginDenied(s)
  <2>1. Numbers \subseteq Row
    BY DEF MailTypeOK, Numbers
  <2> QED BY <1>7, <2>1 DEF LoginDenied, MailTypeOK
<1>8. ASSUME Erase(s) \/ Postpone(s) PROVE MailTypeOK'
  <2>1. Table(mails')
    BY <1>8, TableIsTable DEF Erase, Postpone
  <2>2. NextMail(s) /\ UNCHANGED <<running, night, mailGhosts>>
    BY <1>8 DEF Erase, Postpone
  <2>3. rows[s] \ {Min(rows[s])} \subseteq Row
    BY DEF MailTypeOK
  <2> QED BY <2>1, <2>2, <2>3 DEF NextMail, MailTypeOK, Table
<1>9. ASSUME AllSent(s) \/ AllPostponed(s) PROVE MailTypeOK'
  BY <1>9 DEF AllSent, AllPostponed, EndSending, MailTypeOK
<1>10. CASE Unanswered(s)
  <2>1. /\ sent' = [m \in Mail |-> IF m = mail[s] THEN sent[m] + 1 ELSE sent[m]]
        /\ lost' = [m \in Mail |-> IF m = mail[s] THEN lost[m] + 1 ELSE lost[m]]
    BY <1>10 DEF Unanswered, MailTypeOK
  <2>2. sent' \in [Mail -> Nat] /\ lost' \in [Mail -> Nat]
    BY <2>1 DEF MailTypeOK
  <2>3. faults' \in 0..MaxFaults
    BY <1>10, MailQueueAssumption DEF Unanswered, MailTypeOK
  <2> QED BY <1>10, <2>2, <2>3 DEF Unanswered, MailTypeOK
<1>11. CASE PostponeAlso(s)
  <2>1. Table(mails')
    BY <1>11, TableIsTable DEF PostponeAlso
  <2>2. rows[s] \ {Min(rows[s])} \subseteq Row
    BY DEF MailTypeOK
  <2> QED BY <1>11, <2>1, <2>2 DEF PostponeAlso, MailTypeOK, Table
<1> QED BY <1>1, <1>2, <1>3, <1>4, <1>5, <1>6, <1>7, <1>8, <1>9, <1>10, <1>11 DEF SendMails

\* The part of the types that belongs to the confirmations.
ConfirmTypeOK ==
  /\ setup \in [Request -> {"new", "mailed", "done"}]
  /\ record \subseteq Request
  /\ vpc \in [Visitor -> {"idle", "execute", "mail", "erase", "inform"}]
  /\ request \in [Visitor -> Request \union {NoRequest}]
  /\ memos \in [Visitor -> SUBSET Memo]
  /\ executed \in [Request -> Nat]
  /\ clicked \subseteq Request
  /\ expired \subseteq Request
  /\ broken \subseteq Request

\* What is mailed is a mail, whatever the request.
LEMMA MailsAreMails ==
  /\ \A r \in Request : LinkOf[r] \in Mail /\ NewsOf[r] \in Mail
  /\ Memo \subseteq Mail /\ NewsOfNone \in Mail
BY ConfirmationAssumption, MailQueueAssumption

LEMMA StepType ==
  ASSUME TypeOK, [Next]_vars
  PROVE  TypeOK'
<1>0. MailTypeOK /\ ConfirmTypeOK
  BY DEF TypeOK, ConfirmTypeOK
<1>1. ASSUME NEW r \in Request, Setup(r) PROVE TypeOK'
  <2>1. CASE MailLink(r)
    <3>1. MailTypeOK'
      BY <1>0, <2>1, TableStepType, MailsAreMails DEF MailLink
    <3> QED BY <1>0, <2>1, <3>1 DEF MailLink, TypeOK, ConfirmTypeOK
  <2>2. CASE StoreRecord(r)
    <3>1. MailTypeOK'
      BY <1>0, <2>2 DEF StoreRecord, MailTypeOK, mailVars, senderVars, mailGhosts
    <3> QED BY <1>0, <2>2, <3>1 DEF StoreRecord, TypeOK, ConfirmTypeOK
  <2> QED BY <1>1, <2>1, <2>2 DEF Setup
<1>2. ASSUME NEW v \in Visitor, NEW r \in Request, Click(v, r) PROVE TypeOK'
  <2>1. MailTypeOK'
    BY <1>0, <1>2 DEF Click, MailTypeOK, mailVars, senderVars, mailGhosts
  <2>2. PICK q \in Found(r) : request' = [request EXCEPT ![v] = q]
    BY <1>2 DEF Click
  <2>3. q \in Request
    BY <1>0 DEF Found, ConfirmTypeOK
  <2> QED BY <1>0, <1>2, <2>1, <2>2, <2>3 DEF Click, ToStep, TypeOK, ConfirmTypeOK
<1>3. ASSUME NEW v \in Visitor, Handle(v) PROVE TypeOK'
  <2> USE DEF ToStep
  <2>1. CASE Execute(v)
    <3>1. MailTypeOK'
      BY <1>0, <2>1 DEF Execute, MailTypeOK, mailVars, senderVars, mailGhosts
    <3> QED BY <1>0, <2>1, <3>1 DEF Execute, TypeOK, ConfirmTypeOK
  <2>2. CASE MailNews(v)
    <3>1. MailTypeOK'
      BY <1>0, <2>2, TableStepType, MailsAreMails DEF MailNews, ConfirmTypeOK
    <3> QED BY <1>0, <2>2, <3>1 DEF MailNews, TypeOK, ConfirmTypeOK
  <2>3. CASE EraseRecord(v)
    <3>1. MailTypeOK'
      BY <1>0, <2>3 DEF EraseRecord, MailTypeOK, mailVars, senderVars, mailGhosts
    <3> QED BY <1>0, <2>3, <3>1 DEF EraseRecord, TypeOK, ConfirmTypeOK
  <2>4. CASE Inform(v)
    <3>1. PICK m \in memos[v] : Schedule(m) /\ memos' = [memos EXCEPT ![v] = @ \ {m}]
      BY <2>4 DEF Inform
    <3>2. m \in Mail
      BY <1>0, <3>1, MailsAreMails DEF ConfirmTypeOK
    <3>3. MailTypeOK'
      BY <1>0, <3>1, <3>2, TableStepType
    <3>4. memos' \in [Visitor -> SUBSET Memo]
      BY <1>0, <3>1 DEF ConfirmTypeOK
    <3> QED BY <1>0, <2>4, <3>3, <3>4 DEF Inform, TypeOK, ConfirmTypeOK
  <2>5. CASE Done(v)
    <3>1. MailTypeOK'
      BY <1>0, <2>5 DEF Done, MailTypeOK, mailVars, senderVars, mailGhosts
    <3> QED BY <1>0, <2>5, <3>1 DEF Done, TypeOK, ConfirmTypeOK
  <2> QED BY <1>3, <2>1, <2>2, <2>3, <2>4, <2>5 DEF Handle
<1>4. ASSUME NEW s \in Sender, Mailing(s) PROVE TypeOK'
  <2>1. MailTypeOK'
    BY <1>0, <1>4, SendingType DEF Mailing
  <2> QED BY <1>0, <1>4, <2>1 DEF Mailing, TypeOK, ConfirmTypeOK, confirmVars
<1>5. ASSUME (DueAgain \/ ClearMails) /\ UNCHANGED confirmVars PROVE TypeOK'
  <2>1. MailTypeOK'
    BY <1>0, <1>5, TableStepType
  <2> QED BY <1>0, <1>5, <2>1 DEF TypeOK, ConfirmTypeOK, confirmVars
<1>6. CASE Maintain
  <2>1. CASE MaintainMails /\ UNCHANGED confirmVars
    <3>1. MailTypeOK'
      BY <1>0, <2>1, TableStepType
    <3> QED BY <1>0, <2>1, <3>1 DEF TypeOK, ConfirmTypeOK, confirmVars
  <2>2. CASE TrimRecords
    <3>1. MailTypeOK'
      BY <1>0, <2>2 DEF TrimRecords, MailTypeOK, senderVars, mailGhosts
    <3> QED BY <1>0, <2>2, <3>1 DEF TrimRecords, TypeOK, ConfirmTypeOK
  <2> QED BY <1>6, <2>1, <2>2 DEF Maintain
<1>7. CASE Crash
  <2>1. MailTypeOK'
    BY <1>0, <1>7, TableStepType DEF Crash
  <2> QED BY <1>0, <1>7, <2>1 DEF Crash, TypeOK, ConfirmTypeOK
<1>8. CASE UNCHANGED vars
  BY <1>0, <1>8 DEF vars, mailVars, senderVars, mailGhosts, confirmVars, TypeOK,
                    MailTypeOK, ConfirmTypeOK
<1> QED BY <1>1, <1>2, <1>3, <1>4, <1>5, <1>6, <1>7, <1>8 DEF Next

LEMMA InitType == Init => TypeOK
<1> SUFFICES ASSUME Init PROVE TypeOK
  OBVIOUS
<1>1. DOMAIN mails = {} /\ mails \in [DOMAIN mails -> Entry]
  BY DEF Init, MailInit
<1>2. faults \in 0..MaxFaults
  BY MailQueueAssumption DEF Init, MailInit
<1>3. MailTypeOK
  BY <1>1, <1>2 DEF Init, MailInit, MailTypeOK
<1> QED BY <1>3 DEF Init, TypeOK

\* The types are right, for any mails, senders, requests, visitors and bounds,
\* whatever comes in between.
THEOREM TypeCorrect == Spec => []TypeOK
BY InitType, StepType, PTL DEF Spec

-----------------------------------------------------------------------------
(* The link works *)

\* Nothing but what was queued is in the table, in hand, or sent.
Asked ==
  /\ \A n \in Numbers : asked[mails[n].mail] > 0
  /\ \A s \in Sender : mail[s] \in Mail => asked[mail[s]] > 0
  /\ \A m \in Mail : sent[m] > 0 => asked[m] > 0

\* The change is made, or will not be made.
MadeOrGone(r) == executed[r] > 0 \/ r \in expired \union broken

Recorded(r) ==
  /\ asked[LinkOf[r]] > 0 => setup[r] # "new"
  /\ r \in record => setup[r] = "done"
  /\ setup[r] = "done" => r \in record \/ MadeOrGone(r)

Handling(v) ==
  /\ Busy(v) => request[v] \in Request /\ setup[request[v]] = "done"
  /\ vpc[v] \in {"mail", "erase"} => MadeOrGone(request[v])

LinkInv ==
  /\ TypeOK /\ Asked
  /\ \A r \in Request : Recorded(r)
  /\ \A v \in Visitor : Handling(v)

\* What is done to the table brings no other mail into it.
Known(f) == \A n \in DOMAIN f : \E k \in Numbers : f[n].mail = mails[k].mail

LEMMA TableIsKnown ==
  ASSUME MailTypeOK
  PROVE  /\ \A gone : Known(Without(gone))
         /\ \A set : Known(Postponed(set))
         /\ \A left \in SUBSET Numbers : Known(Renumbered(left))
<1>1. \A gone : Known(Without(gone))
  BY DEF Known, Without, Restrict
<1>2. \A set : Known(Postponed(set))
  BY DEF Known, Postponed, MailTypeOK, Numbers, Entry
<1>3. ASSUME NEW left \in SUBSET Numbers PROVE Known(Renumbered(left))
  <2>1. left \in SUBSET Row
    BY DEF MailTypeOK, Numbers
  <2> QED BY <2>1, RenumberedHolds DEF Known
<1> QED BY <1>1, <1>2, <1>3

\* A mail is queued.
LEMMA ScheduleAsked ==
  ASSUME MailTypeOK, Asked, NEW m \in Mail, Schedule(m)
  PROVE  Asked'
<1>1. /\ asked' = [asked EXCEPT ![m] = @ + 1] /\ mails' = With(m)
      /\ UNCHANGED <<mail, sent>>
  BY DEF Schedule, senderVars
<1>2. asked'[m] > 0 /\ \A k \in Mail : asked[k] > 0 => asked'[k] > 0
  BY <1>1 DEF MailTypeOK
<1>3. \A n \in DOMAIN mails' :
        mails'[n].mail = m \/ (n \in Numbers /\ mails'[n] = mails[n])
  BY <1>1 DEF With
<1>4. \A n \in Numbers : mails[n].mail \in Mail
  BY DEF MailTypeOK, Numbers, Entry
<1> QED BY <1>1, <1>2, <1>3, <1>4 DEF Asked, Numbers, MailTypeOK

\* Whatever else is done to the table.
LEMMA OtherAsked ==
  ASSUME MailTypeOK, Asked,
         \/ \E s \in Sender : SendMails(s)
         \/ DueAgain \/ ClearMails \/ CrashMails \/ MaintainMails
  PROVE  Asked' /\ UNCHANGED asked
<1> USE DEF To, senderVars, mailGhosts
<1> DEFINE Fine ==
      /\ UNCHANGED asked
      /\ Known(mails')
      /\ \A t \in Sender : mail'[t] \in {mail[t], NoMail, MailIn(Min(rows[t]))}
      /\ \A m \in Mail : sent'[m] > 0 => sent[m] > 0 \/ \E t \in Sender : mail[t] = m
<1>1. ASSUME Fine PROVE Asked' /\ UNCHANGED asked
  <2>1. \A n \in Numbers' : asked'[mails'[n].mail] > 0
    BY <1>1 DEF Known, Asked, Numbers
  <2>2. \A row : MailIn(row) # NoMail => asked[MailIn(row)] > 0
    BY DEF MailIn, Asked
  <2>3. \A t \in Sender : mail'[t] \in Mail => asked[mail'[t]] > 0
    BY <1>1, <2>2, MailQueueAssumption DEF Asked
  <2>4. \A m \in Mail : sent'[m] > 0 => asked[m] > 0
    BY <1>1 DEF Asked
  <2> QED BY <1>1, <2>1, <2>3, <2>4 DEF Asked
<1>2. Known(mails)
  BY DEF Known, Numbers
<1>3. ASSUME NEW s \in Sender, SendMails(s) PROVE Fine
  <2>1. CASE UNCHANGED <<mails, mail, asked, sent>>
    BY <1>2, <2>1
  <2>2. CASE GetMail(s)
    <3>1. mail' = [mail EXCEPT ![s] = MailIn(Min(rows[s]))]
      BY <2>2 DEF GetMail
    <3>2. \A t \in Sender : mail'[t] \in {mail[t], NoMail, MailIn(Min(rows[t]))}
      BY <3>1 DEF MailTypeOK
    <3> QED BY <1>2, <2>2, <3>2 DEF GetMail
  <2>3. ASSUME Accepted(s) \/ Unanswered(s) PROVE Fine
    <3>1. sent' = [sent EXCEPT ![mail[s]] = @ + 1] /\ UNCHANGED <<mails, mail, asked>>
      BY <2>3 DEF Accepted, Unanswered
    <3>2. \A m \in Mail : sent'[m] > 0 => sent[m] > 0 \/ mail[s] = m
      BY <3>1 DEF MailTypeOK
    <3> QED BY <1>2, <3>1, <3>2
  <2>4. ASSUME Erase(s) \/ Postpone(s) \/ LoginDenied(s) \/ AllSent(s) \/ AllPostponed(s)
        PROVE  Fine
    <3>1. Known(mails')
      BY <1>2, <2>4, TableIsKnown DEF Erase, Postpone, LoginDenied, AllSent, AllPostponed
    <3>2. mail' = [mail EXCEPT ![s] = NoMail] /\ UNCHANGED <<asked, sent>>
      BY <2>4 DEF Erase, Postpone, LoginDenied, AllSent, AllPostponed, NextMail, EndSending
    <3> QED BY <3>1, <3>2 DEF MailTypeOK
  <2>5. CASE PostponeAlso(s)
    <3>1. Known(mails')
      BY <2>5, TableIsKnown DEF PostponeAlso
    <3> QED BY <2>5, <3>1 DEF PostponeAlso
  <2> QED BY <1>3, <2>1, <2>2, <2>3, <2>4, <2>5
          DEF SendMails, Start, SetRunning, ListMails, Refused
<1>4. CASE DueAgain
  <2>1. PICK n \in Numbers : mails' = [mails EXCEPT ![n].due = TRUE]
    BY <1>4 DEF DueAgain
  <2>2. Known(mails')
    BY <2>1 DEF Known, MailTypeOK, Numbers, Entry
  <2> QED BY <1>1, <1>4, <2>2 DEF DueAgain
<1>5. CASE ClearMails
  <2>1. Known(mails')
    BY <1>5, TableIsKnown DEF ClearMails
  <2> QED BY <1>1, <1>5, <2>1 DEF ClearMails
<1>6. CASE CrashMails
  BY <1>1, <1>2, <1>6 DEF CrashMails
<1>7. CASE MaintainMails
  <2>1. Known(mails')
    BY <1>7, TableIsKnown DEF MaintainMails, TrimMails, VacuumMails
  <2> QED BY <1>1, <1>7, <2>1 DEF MaintainMails, TrimMails, VacuumMails
<1> QED BY <1>1, <1>3, <1>4, <1>5, <1>6, <1>7

\* A mail that is no link leaves the requests as they are.
LEMMA OtherMail ==
  ASSUME TypeOK, NEW m \in Mail, Schedule(m), \A r \in Request : LinkOf[r] # m
  PROVE  \A r \in Request : asked'[LinkOf[r]] = asked[LinkOf[r]]
BY MailsAreMails DEF Schedule, TypeOK, MailTypeOK

LEMMA NewsIsNoLink ==
  ASSUME NEW r \in Request
  PROVE  LinkOf[r] \notin Memo /\ LinkOf[r] # NewsOfNone /\ \A q \in Request : LinkOf[r] # NewsOf[q]
BY ConfirmationAssumption

LEMMA InitLink == Init => LinkInv
<1> SUFFICES ASSUME Init PROVE LinkInv
  OBVIOUS
<1>1. Asked
  BY MailQueueAssumption DEF Init, MailInit, Asked, Numbers
<1>2. \A r \in Request : Recorded(r)
  BY MailsAreMails DEF Init, MailInit, Recorded
<1> QED BY <1>1, <1>2, InitType DEF Init, LinkInv, Handling, Busy

LEMMA StepLink ==
  ASSUME LinkInv, [Next]_vars
  PROVE  LinkInv'
<1>0. /\ TypeOK /\ Asked /\ MailTypeOK /\ ConfirmTypeOK
      /\ \A r \in Request : Recorded(r)
      /\ \A v \in Visitor : Handling(v)
  BY DEF LinkInv, TypeOK, ConfirmTypeOK
<1>t. TypeOK'
  BY <1>0, StepType
<1> DEFINE Rest == Asked' /\ (\A r \in Request : Recorded(r)') /\ (\A v \in Visitor : Handling(v)')
<1>1. ASSUME NEW r \in Request, MailLink(r) PROVE Rest
  <2>1. Asked' /\ asked' = [asked EXCEPT ![LinkOf[r]] = @ + 1]
    BY <1>0, <1>1, ScheduleAsked, MailsAreMails DEF MailLink, Schedule
  <2>2. \A q \in Request \ {r} : asked'[LinkOf[q]] = asked[LinkOf[q]]
    BY <2>1, ConfirmationAssumption, MailsAreMails, <1>0 DEF MailTypeOK
  <2>3. /\ setup[r] = "new" /\ setup' = [setup EXCEPT ![r] = "mailed"]
        /\ UNCHANGED <<record, vpc, request, executed, expired, broken>>
    BY <1>1 DEF MailLink
  <2>4. setup'[r] = "mailed" /\ \A q \in Request \ {r} : setup'[q] = setup[q]
    BY <1>0, <2>3 DEF ConfirmTypeOK
  <2>5. \A q \in Request : Recorded(q)'
    BY <1>0, <2>2, <2>3, <2>4 DEF Recorded, MadeOrGone
  <2>6. \A v \in Visitor : Handling(v)'
    BY <1>0, <2>3, <2>4 DEF Handling, Busy, MadeOrGone
  <2> QED BY <2>1, <2>5, <2>6
<1>2. ASSUME UNCHANGED mailVars PROVE Asked' /\ UNCHANGED asked
  BY <1>0, <1>2 DEF mailVars, senderVars, mailGhosts, Asked, Numbers
<1>3. ASSUME NEW r \in Request, StoreRecord(r) PROVE Rest
  <2>1. /\ setup' = [setup EXCEPT ![r] = "done"] /\ record' = record \union {r}
        /\ UNCHANGED <<vpc, request, executed, expired, broken>> /\ UNCHANGED mailVars
    BY <1>3 DEF StoreRecord
  <2>2. setup'[r] = "done" /\ \A q \in Request \ {r} : setup'[q] = setup[q]
    BY <1>0, <2>1 DEF ConfirmTypeOK
  <2>3. \A q \in Request : Recorded(q)'
    BY <1>0, <1>2, <2>1, <2>2 DEF Recorded, MadeOrGone
  <2>4. \A v \in Visitor : Handling(v)'
    BY <1>0, <2>1, <2>2 DEF Handling, Busy, MadeOrGone
  <2> QED BY <1>2, <2>1, <2>3, <2>4
<1>4. ASSUME NEW v \in Visitor, NEW r \in Request, Click(v, r) PROVE Rest
  <2>1. PICK q \in Found(r) : request' = [request EXCEPT ![v] = q]
    BY <1>4 DEF Click
  <2>2. /\ vpc' = [vpc EXCEPT ![v] = "execute"] /\ UNCHANGED mailVars
        /\ UNCHANGED <<setup, record, executed, expired, broken>>
    BY <1>4 DEF Click, ToStep
  <2>3. q \in Request /\ setup[q] = "done"
    BY <1>0 DEF Found, ConfirmTypeOK, Recorded
  <2>4. \A p \in Request : Recorded(p)'
    BY <1>0, <1>2, <2>2 DEF Recorded, MadeOrGone
  <2>5. \A w \in Visitor : Handling(w)'
    BY <1>0, <2>1, <2>2, <2>3 DEF Handling, Busy, MadeOrGone, ConfirmTypeOK
  <2> QED BY <1>2, <2>2, <2>4, <2>5
<1>5. ASSUME NEW v \in Visitor, Execute(v) PROVE Rest
  <2>1. /\ vpc[v] = "execute" /\ vpc' = [vpc EXCEPT ![v] = "mail"] /\ UNCHANGED mailVars
        /\ executed' = IF request[v] \in record
                       THEN [executed EXCEPT ![request[v]] = @ + 1] ELSE executed
        /\ UNCHANGED <<setup, record, request, expired, broken>>
    BY <1>5 DEF Execute, ToStep
  <2>2. \A q \in Request : MadeOrGone(q) => MadeOrGone(q)'
    BY <1>0, <2>1 DEF MadeOrGone, ConfirmTypeOK
  <2>3. request[v] \in Request /\ setup[request[v]] = "done"
    BY <1>0, <2>1 DEF Handling, Busy
  <2>4. MadeOrGone(request[v])'
    <3>1. CASE request[v] \in record
      BY <1>0, <2>1, <2>3, <3>1 DEF MadeOrGone, ConfirmTypeOK
    <3>2. CASE request[v] \notin record
      BY <1>0, <2>1, <2>2, <2>3, <3>2 DEF Recorded, MadeOrGone
    <3> QED BY <3>1, <3>2
  <2>5. \A q \in Request : Recorded(q)'
    BY <1>0, <1>2, <2>1, <2>2 DEF Recorded
  <2>6. \A w \in Visitor \ {v} : vpc'[w] = vpc[w] /\ request'[w] = request[w]
    BY <1>0, <2>1 DEF ConfirmTypeOK
  <2>7. ASSUME NEW w \in Visitor PROVE Handling(w)'
    <3>1. CASE w = v
      BY <2>1, <2>3, <2>4, <3>1 DEF Handling
    <3>2. CASE w # v
      <4>1. Busy(w)' <=> Busy(w)
        BY <2>6, <3>2 DEF Busy
      <4>2. Busy(w) => request[w] \in Request
        BY <1>0 DEF Handling
      <4>3. vpc[w] \in {"mail", "erase"} => Busy(w)
        BY DEF Busy
      <4> QED BY <1>0, <2>1, <2>2, <2>6, <3>2, <4>1, <4>2, <4>3 DEF Handling
    <3> QED BY <3>1, <3>2
  <2> QED BY <1>2, <2>1, <2>5, <2>7
<1>6. ASSUME NEW v \in Visitor, MailNews(v) \/ Inform(v) PROVE Rest
  <2>1. PICK m \in Mail : Schedule(m) /\ \A r \in Request : LinkOf[r] # m
    <3>1. CASE MailNews(v)
      <4> DEFINE m == IF request[v] \in record THEN NewsOf[request[v]] ELSE NewsOfNone
      <4>1. Schedule(m) /\ m \in Mail
        BY <1>0, <3>1, MailsAreMails DEF MailNews, ConfirmTypeOK
      <4>2. \A r \in Request : LinkOf[r] # m
        BY <1>0, NewsIsNoLink DEF ConfirmTypeOK
      <4> HIDE DEF m
      <4> QED BY <4>1, <4>2
    <3>2. CASE Inform(v)
      BY <1>0, <3>2, NewsIsNoLink, MailsAreMails DEF Inform, ConfirmTypeOK
    <3> QED BY <1>6, <3>1, <3>2
  <2>2. Asked' /\ \A r \in Request : asked'[LinkOf[r]] = asked[LinkOf[r]]
    BY <1>0, <2>1, ScheduleAsked, OtherMail
  <2>3. UNCHANGED <<setup, record, executed, expired, broken>>
    BY <1>6 DEF MailNews, Inform
  <2>4. \A q \in Request : Recorded(q)'
    BY <1>0, <2>2, <2>3 DEF Recorded, MadeOrGone
  <2>5. \A w \in Visitor \ {v} : vpc'[w] = vpc[w] /\ request'[w] = request[w]
    BY <1>0, <1>6 DEF MailNews, Inform, ToStep, ConfirmTypeOK
  <2>6. /\ request'[v] = request[v]
        /\ \/ vpc[v] = "mail" /\ vpc'[v] = "erase"
           \/ vpc[v] = "inform" /\ vpc'[v] = "inform"
    BY <1>0, <1>6 DEF MailNews, Inform, ToStep, ConfirmTypeOK
  <2>7. \A w \in Visitor : Handling(w)'
    BY <1>0, <2>3, <2>5, <2>6 DEF Handling, Busy, MadeOrGone
  <2> QED BY <2>2, <2>4, <2>7
<1>i. ASSUME NEW v \in Visitor, Done(v) PROVE Rest
  <2>1. UNCHANGED mailVars /\ UNCHANGED <<setup, record, executed, expired, broken>>
    BY <1>i DEF Done
  <2>2. \A q \in Request : Recorded(q)'
    BY <1>0, <1>2, <2>1 DEF Recorded, MadeOrGone
  <2>3. \A w \in Visitor \ {v} : vpc'[w] = vpc[w] /\ request'[w] = request[w]
    BY <1>0, <1>i DEF Done, ToStep, ConfirmTypeOK
  <2>4. vpc'[v] = "idle"
    BY <1>0, <1>i DEF Done, ToStep, ConfirmTypeOK
  <2>5. \A w \in Visitor : Handling(w)'
    BY <1>0, <2>1, <2>3, <2>4 DEF Handling, Busy, MadeOrGone
  <2> QED BY <1>2, <2>1, <2>2, <2>5
<1>7. ASSUME NEW v \in Visitor, EraseRecord(v) PROVE Rest
  <2>1. /\ vpc[v] = "erase" /\ vpc' = [vpc EXCEPT ![v] = "inform"] /\ UNCHANGED mailVars
        /\ record' = record \ {request[v]}
        /\ UNCHANGED <<setup, request, executed, expired, broken>>
    BY <1>7 DEF EraseRecord, ToStep
  <2>2. MadeOrGone(request[v])
    BY <1>0, <2>1 DEF Handling
  <2>3. \A q \in Request : Recorded(q)'
    BY <1>0, <1>2, <2>1, <2>2 DEF Recorded, MadeOrGone
  <2>4. \A w \in Visitor : Handling(w)'
    BY <1>0, <2>1 DEF Handling, Busy, MadeOrGone, ConfirmTypeOK
  <2> QED BY <1>2, <2>1, <2>3, <2>4
<1>8. ASSUME NEW s \in Sender, Mailing(s) PROVE Rest
  <2>1. Asked' /\ UNCHANGED asked /\ UNCHANGED confirmVars
    BY <1>0, <1>8, OtherAsked DEF Mailing
  <2> QED BY <1>0, <2>1 DEF confirmVars, Recorded, Handling, Busy, MadeOrGone
<1>9. ASSUME (DueAgain \/ ClearMails) /\ UNCHANGED confirmVars PROVE Rest
  <2>1. Asked' /\ UNCHANGED asked /\ UNCHANGED confirmVars
    BY <1>0, <1>9, OtherAsked
  <2> QED BY <1>0, <2>1 DEF confirmVars, Recorded, Handling, Busy, MadeOrGone
<1>10. ASSUME Maintain PROVE Rest
  <2>1. Asked' /\ UNCHANGED asked
    <3>1. CASE TrimRecords
      BY <1>0, <3>1 DEF TrimRecords, senderVars, mailGhosts, Asked, Numbers
    <3> QED BY <1>0, <1>10, <3>1, OtherAsked DEF Maintain
  <2>2. PICK old \in SUBSET record :
          record' = record \ old /\ expired' = expired \union old
    <3>1. ASSUME UNCHANGED confirmVars
          PROVE  record' = record \ {} /\ expired' = expired \union {}
      BY <3>1 DEF confirmVars
    <3> QED BY <1>10, <3>1 DEF Maintain, TrimRecords
  <2>3. UNCHANGED <<setup, vpc, request, executed, broken>>
    BY <1>10 DEF Maintain, TrimRecords, confirmVars
  <2>4. \A q \in Request : Recorded(q)'
    BY <1>0, <2>1, <2>2, <2>3 DEF Recorded, MadeOrGone
  <2>5. \A w \in Visitor : Handling(w)'
    BY <1>0, <2>2, <2>3 DEF Handling, Busy, MadeOrGone
  <2> QED BY <2>1, <2>4, <2>5
<1>11. ASSUME Crash PROVE Rest
  <2>1. Asked' /\ UNCHANGED asked
    BY <1>0, <1>11, OtherAsked DEF Crash
  <2>2. /\ setup' = [r \in Request |-> IF setup[r] = "mailed" THEN "done" ELSE setup[r]]
        /\ broken \union {r \in Request : setup[r] = "mailed"} \subseteq broken'
        /\ vpc' = [v \in Visitor |-> "idle"]
        /\ UNCHANGED <<record, executed, expired>>
    BY <1>11 DEF Crash
  <2>3. \A q \in Request : Recorded(q)'
    BY <1>0, <2>1, <2>2 DEF Recorded, MadeOrGone
  <2>4. \A w \in Visitor : Handling(w)'
    BY <2>2 DEF Handling, Busy
  <2> QED BY <2>1, <2>3, <2>4
<1>12. ASSUME UNCHANGED vars PROVE Rest
  <2>1. Asked' /\ UNCHANGED asked /\ UNCHANGED confirmVars
    BY <1>2, <1>12 DEF vars
  <2> QED BY <1>0, <2>1 DEF confirmVars, Recorded, Handling, Busy, MadeOrGone
<1>13. Rest
  BY <1>1, <1>3, <1>4, <1>5, <1>6, <1>i, <1>7, <1>8, <1>9, <1>10, <1>11, <1>12
     DEF Next, Setup, Handle
<1> QED BY <1>t, <1>13 DEF LinkInv

\* The link that a user has got works until it is used or expires, whatever the
\* hazards: two clicks at a time, two senders, the vacuum, and crashes.
THEOREM LinksWork == Spec => []LinkWorks
<1>1. LinkInv => LinkWorks
  <2> SUFFICES ASSUME LinkInv, NEW r \in Request, r \notin expired \union broken,
                      sent[LinkOf[r]] > 0
               PROVE  r \in record \/ setup[r] = "mailed" \/ executed[r] > 0
    BY DEF LinkWorks
  <2>1. asked[LinkOf[r]] > 0
    BY MailsAreMails DEF LinkInv, Asked
  <2>2. Recorded(r) /\ setup[r] \in {"new", "mailed", "done"}
    BY DEF LinkInv, TypeOK
  <2> QED BY <2>1, <2>2 DEF Recorded, MadeOrGone
<1> QED BY <1>1, InitLink, StepLink, PTL DEF Spec

-----------------------------------------------------------------------------
(* A mail is sent once, and not lost *)

OneSends == \A s, t \in Sender : spc[s] # "idle" /\ spc[t] # "idle" => s = t

\* What a sender has is in the table, until it is erased.
Holding(s) ==
  /\ spc[s] \in {"get", "send", "erase", "postpone"} => rows[s] \subseteq Numbers
  /\ spc[s] \in {"send", "erase", "postpone"} =>
       rows[s] # {} /\ mail[s] = mails[Min(rows[s])].mail
  /\ spc[s] = "erase" => sent[mail[s]] > 0 \/ mail[s] \in dropped

\* The rows about to be erased, and those that still wait with a mail.
InHand == {Min(rows[s]) : s \in {t \in Sender : spc[t] = "erase"}}
Waiting(m) == {n \in Numbers : mails[n].mail = m} \ InHand

Counted(m) ==
  m \notin crashed => sent[m] + Cardinality(Waiting(m)) <= asked[m] + lost[m]

SendInv ==
  /\ TypeOK /\ OneSends
  /\ \A s \in Sender : Holding(s)
  /\ \A m \in Mail : Counted(m)

LEMMA WaitingIsFinite ==
  ASSUME MailTypeOK, NEW m
  PROVE  /\ Waiting(m) \in SUBSET Row /\ IsFiniteSet(Waiting(m))
         /\ Cardinality(Waiting(m)) \in Nat
<1>1. Waiting(m) \in SUBSET Row
  BY DEF Waiting, MailTypeOK, Numbers
<1>2. Cardinality(Waiting(m)) \in 0..MaxRows /\ MaxRows \in Nat
  BY <1>1, Rows, MailQueueAssumption
<1> QED BY <1>1, <1>2, Rows

\* Fewer mails wait, and none is sent.
LEMMA FewerWait ==
  ASSUME MailTypeOK, MailTypeOK', NEW m \in Mail, Counted(m),
         m \notin crashed' => Waiting(m)' \subseteq Waiting(m),
         sent'[m] = sent[m], asked'[m] >= asked[m], lost'[m] >= lost[m],
         crashed \subseteq crashed'
  PROVE  Counted(m)'
<1> SUFFICES ASSUME m \notin crashed'
                    PROVE  sent'[m] + Cardinality(Waiting(m)') <= asked'[m] + lost'[m]
  BY DEF Counted
<1>1. sent[m] + Cardinality(Waiting(m)) <= asked[m] + lost[m]
  BY DEF Counted
<1>2. /\ IsFiniteSet(Waiting(m)) /\ Cardinality(Waiting(m)) \in Nat
      /\ sent[m] \in Nat /\ asked[m] \in Nat /\ asked'[m] \in Nat
      /\ lost[m] \in Nat /\ lost'[m] \in Nat
  BY WaitingIsFinite DEF MailTypeOK
<1>3. /\ Cardinality(Waiting(m)') <= Cardinality(Waiting(m))
      /\ Cardinality(Waiting(m)') \in Nat
  BY <1>2, FS_Subset, FS_CardinalityType
<1> QED BY <1>1, <1>2, <1>3

\* The row that a sender has in hand is in the table.
LEMMA FirstRow ==
  ASSUME MailTypeOK, NEW s \in Sender, rows[s] # {}
  PROVE  Min(rows[s]) \in rows[s]
BY Rows DEF MailTypeOK

\* A mail is queued.
LEMMA ScheduleSends ==
  ASSUME SendInv, MailTypeOK', NEW m \in Mail, Schedule(m)
  PROVE  OneSends' /\ (\A s \in Sender : Holding(s)') /\ \A k \in Mail : Counted(k)'
<1>0. MailTypeOK /\ OneSends
  BY DEF SendInv, TypeOK
<1> DEFINE new == NextRow
<1>1. /\ new \notin Numbers /\ mails' = With(m) /\ asked' = [asked EXCEPT ![m] = @ + 1]
      /\ UNCHANGED <<spc, rows, mail, sent, lost, dropped, crashed>>
  BY <1>0, NextRowIsFree DEF Schedule, senderVars
<1>2. /\ Numbers' = Numbers \union {new} /\ mails'[new].mail = m
      /\ \A n \in Numbers : mails'[n] = mails[n]
  BY <1>1 DEF With, Numbers
<1> HIDE DEF new
<1>3. OneSends' /\ InHand' = InHand
  BY <1>0, <1>1 DEF OneSends, InHand
<1>4. ASSUME NEW s \in Sender PROVE Holding(s)'
  <2>1. Holding(s) /\ (rows[s] # {} => Min(rows[s]) \in rows[s])
    BY <1>0, FirstRow DEF SendInv
  <2> QED BY <1>1, <1>2, <2>1 DEF Holding
<1>5. ASSUME NEW k \in Mail PROVE Counted(k)'
  <2>1. /\ Counted(k) /\ sent'[k] = sent[k] /\ sent[k] \in Nat /\ asked[k] \in Nat
        /\ lost'[k] = lost[k] /\ lost[k] \in Nat
    BY <1>0, <1>1 DEF SendInv, MailTypeOK
  <2>2. CASE k # m
    <3>1. Waiting(k)' \subseteq Waiting(k)
      BY <1>2, <1>3, <2>2 DEF Waiting
    <3>2. asked'[k] = asked[k]
      BY <1>0, <1>1, <2>2 DEF MailTypeOK
    <3> QED BY <1>0, <1>1, <2>1, <3>1, <3>2, FewerWait
  <2>3. CASE k = m
    <3>1. Waiting(k)' \subseteq Waiting(k) \union {new}
      BY <1>2, <1>3 DEF Waiting
    <3>2. asked'[k] = asked[k] + 1
      BY <1>0, <1>1, <2>3 DEF MailTypeOK
    <3>3. IsFiniteSet(Waiting(k)) /\ Cardinality(Waiting(k)) \in Nat
      BY <1>0, WaitingIsFinite
    <3>4. /\ IsFiniteSet(Waiting(k) \union {new})
          /\ Cardinality(Waiting(k) \union {new}) <= Cardinality(Waiting(k)) + 1
      <4>1. /\ IsFiniteSet(Waiting(k) \union {new})
            /\ Cardinality(Waiting(k) \union {new})
                 = IF new \in Waiting(k) THEN Cardinality(Waiting(k))
                   ELSE Cardinality(Waiting(k)) + 1
        BY <3>3, FS_AddElement
      <4> QED BY <3>3, <4>1
    <3>5. Cardinality(Waiting(k)') <= Cardinality(Waiting(k) \union {new})
      BY <3>1, <3>4, FS_Subset
    <3>6. IsFiniteSet(Waiting(k)')
      BY <3>1, <3>4, FS_Subset
    <3>7. Cardinality(Waiting(k)') \in Nat /\ Cardinality(Waiting(k) \union {new}) \in Nat
      BY <3>4, <3>6, FS_CardinalityType
    <3> QED BY <1>1, <2>1, <3>2, <3>3, <3>4, <3>5, <3>7 DEF Counted
  <2> QED BY <2>2, <2>3
<1> QED BY <1>3, <1>4, <1>5

\* What holds when nobody but this one sends, before and after its step.
LEMMA Alone ==
  ASSUME MailTypeOK, NEW s \in Sender, \A t \in Sender \ {s} : spc[t] = "idle"
  PROVE  /\ OneSends
         /\ spc[s] = "erase" => InHand = {Min(rows[s])}
         /\ spc[s] # "erase" => InHand = {}
BY DEF OneSends, InHand

LEMMA AloneNext ==
  ASSUME MailTypeOK', NEW s \in Sender, \A t \in Sender \ {s} : spc'[t] = "idle"
  PROVE  /\ OneSends'
         /\ spc'[s] = "erase" => InHand' = {Min(rows'[s])}
         /\ spc'[s] # "erase" => InHand' = {}
BY DEF OneSends, InHand

\* A step of the task that sends.
LEMMA SendingSends ==
  ASSUME SendInv, MailTypeOK', NEW s \in Sender, SendMails(s), "flag" \notin Hazard
  PROVE  OneSends' /\ (\A t \in Sender : Holding(t)') /\ \A m \in Mail : Counted(m)'
<1> USE DEF To, mailGhosts
<1>0. /\ MailTypeOK /\ OneSends /\ Holding(s) /\ \A m \in Mail : Counted(m)
      /\ spc \in [Sender -> {"idle", "set", "list", "get", "send", "erase", "postpone", "deny"}]
      /\ rows \in [Sender -> SUBSET Row]
      /\ mail \in [Sender -> Mail \union {NoMail}]
  BY DEF SendInv, TypeOK, MailTypeOK
<1> DEFINE first == Min(rows[s])
<1>1. rows[s] # {} => first \in rows[s]
  BY <1>0, FirstRow
<1>2. \A t \in Sender \ {s} : spc[t] = "idle"
  <2>1. CASE spc[s] = "idle"
    BY <2>1 DEF SendMails, Start, SetRunning, ListMails, GetMail, Accepted, Unanswered,
       Refused, LoginDenied, PostponeAlso, AllPostponed, Erase, Postpone, AllSent, Sending
  <2>2. CASE spc[s] # "idle"
    BY <1>0, <2>2 DEF OneSends
  <2> QED BY <2>1, <2>2
<1>3. \A t \in Sender \ {s} : spc'[t] = "idle"
  <2>1. CASE PostponeAlso(s)
    BY <1>2, <2>1 DEF PostponeAlso
  <2>2. CASE ~PostponeAlso(s)
    <3>1. PICK where : spc' = [spc EXCEPT ![s] = where]
      BY <2>2 DEF SendMails, Start, SetRunning, ListMails, GetMail, Accepted, Unanswered,
         Refused, LoginDenied, AllPostponed, Erase, Postpone, AllSent, NextMail, EndSending
    <3> QED BY <1>0, <1>2, <3>1
  <2> QED BY <2>1, <2>2
<1>4. OneSends'
  BY <1>3, AloneNext
<1>5. \A t \in Sender \ {s} : Holding(t)'
  BY <1>3 DEF Holding
<1>6. (spc[s] = "erase" => InHand = {first}) /\ (spc[s] # "erase" => InHand = {})
  BY <1>0, <1>2, Alone
<1>7. /\ spc'[s] = "erase" => InHand' = {Min(rows'[s])}
      /\ spc'[s] # "erase" => InHand' = {}
  BY <1>3, AloneNext
<1> HIDE DEF first
<1> DEFINE Fine ==
      /\ Holding(s)'
      /\ \A m \in Mail : Waiting(m)' \subseteq Waiting(m)
      /\ UNCHANGED <<asked, sent, lost, crashed>>
<1>8. CASE Start(s)
  <2>1. spc'[s] = "set" /\ spc[s] = "idle" /\ UNCHANGED <<mails, asked, sent, lost, crashed>>
    BY <1>0, <1>8 DEF Start
  <2>2. Fine
    BY <1>6, <1>7, <2>1 DEF Holding, Waiting, Numbers
  <2> QED BY <1>0, <1>4, <1>5, <2>2, FewerWait DEF MailTypeOK
<1>9. CASE SetRunning(s)
  <2>1. spc'[s] = "list" /\ spc[s] = "set" /\ UNCHANGED <<mails, asked, sent, lost, crashed>>
    BY <1>0, <1>9 DEF SetRunning
  <2>2. Fine
    BY <1>6, <1>7, <2>1 DEF Holding, Waiting, Numbers
  <2> QED BY <1>0, <1>4, <1>5, <2>2, FewerWait DEF MailTypeOK
<1>10. CASE ListMails(s)
  <2>1. /\ spc'[s] = "get" /\ spc[s] = "list" /\ UNCHANGED <<mails, asked, sent, lost, crashed>>
        /\ rows'[s] = Due
    BY <1>0, <1>10 DEF ListMails
  <2>2. Fine
    BY <1>6, <1>7, <2>1 DEF Holding, Waiting, Numbers, Due
  <2> QED BY <1>0, <1>4, <1>5, <2>2, FewerWait DEF MailTypeOK
<1>11. CASE GetMail(s)
  <2>1. /\ spc[s] = "get" /\ rows[s] # {} /\ mail' = [mail EXCEPT ![s] = MailIn(first)]
        /\ UNCHANGED <<mails, rows, asked, sent, lost, crashed>>
        /\ dropped' = dropped \union ({mail'[s]} \intersect Invalid)
        /\ spc' = [spc EXCEPT ![s] = IF mail'[s] \in Invalid \union {NoMail}
                                     THEN "erase" ELSE "send"]
    BY <1>11 DEF GetMail, first
  <2>2. first \in Numbers /\ rows[s] \subseteq Numbers
    BY <1>0, <1>1, <2>1 DEF Holding
  <2>3. mail'[s] = mails[first].mail /\ mail'[s] # NoMail
    BY <1>0, <2>1, <2>2, MailQueueAssumption DEF MailIn, MailTypeOK, Numbers, Entry
  <2>4. /\ spc'[s] \in {"erase", "send"}
        /\ spc'[s] = "erase" => mail'[s] \in dropped'
    BY <1>0, <2>1, <2>3
  <2>5. Holding(s)'
    BY <2>1, <2>2, <2>3, <2>4 DEF Holding, Numbers, first
  <2>6. Fine
    BY <1>6, <2>1, <2>5 DEF Waiting, Numbers
  <2> QED BY <1>0, <1>4, <1>5, <2>6, FewerWait DEF MailTypeOK
<1>12. CASE Accepted(s)
  <2>1. /\ spc[s] = "send" /\ spc'[s] = "erase"
        /\ sent' = [sent EXCEPT ![mail[s]] = @ + 1]
        /\ UNCHANGED <<mails, rows, mail, asked, lost, dropped, crashed>>
    BY <1>0, <1>12 DEF Accepted
  <2>2. first \in Numbers /\ mail[s] = mails[first].mail /\ mail[s] \in Mail
    BY <1>0, <1>1, <2>1 DEF Holding, MailTypeOK, Numbers, Entry, first
  <2>3. sent'[mail[s]] = sent[mail[s]] + 1 /\ sent[mail[s]] \in Nat
    BY <1>0, <2>1, <2>2 DEF MailTypeOK
  <2>4. Holding(s)'
    BY <1>0, <2>1, <2>2, <2>3 DEF Holding, Numbers, first
  <2>5. InHand = {} /\ InHand' = {first}
    BY <1>6, <1>7, <2>1 DEF first
  <2>6. ASSUME NEW m \in Mail PROVE Counted(m)'
    <3>1. Waiting(m)' = Waiting(m) \ {first}
      BY <2>1, <2>5 DEF Waiting, Numbers
    <3>2. CASE m # mail[s]
      BY <1>0, <2>1, <3>1, <3>2, FewerWait DEF MailTypeOK
    <3>3. CASE m = mail[s]
      <4>1. first \in Waiting(m)
        BY <2>2, <2>5, <3>3 DEF Waiting
      <4>2. IsFiniteSet(Waiting(m)) /\ Cardinality(Waiting(m)) \in Nat
        BY <1>0, WaitingIsFinite
      <4>3. Cardinality(Waiting(m)') = Cardinality(Waiting(m)) - 1
        BY <3>1, <4>1, <4>2, FS_RemoveElement
      <4>4. asked[m] \in Nat /\ lost[m] \in Nat
        BY <1>0 DEF MailTypeOK
      <4> QED BY <1>0, <2>1, <2>3, <3>3, <4>2, <4>3, <4>4 DEF Counted
    <3> QED BY <3>2, <3>3
  <2> QED BY <1>4, <1>5, <2>4, <2>6
<1>13. CASE Refused(s)
  <2>1. /\ spc[s] = "send" /\ spc'[s] = "postpone"
        /\ UNCHANGED <<mails, rows, mail, asked, sent, lost, dropped, crashed>>
    BY <1>0, <1>13 DEF Refused
  <2>2. Fine
    BY <1>0, <1>6, <1>7, <2>1 DEF Holding, Waiting, Numbers
  <2> QED BY <1>0, <1>4, <1>5, <2>2, FewerWait DEF MailTypeOK
<1>14. \A set : DOMAIN Postponed(set) = Numbers
               /\ \A n \in Numbers : Postponed(set)[n].mail = mails[n].mail
  BY <1>0 DEF Postponed, MailTypeOK, Numbers, Entry
<1>15. CASE LoginDenied(s)
  <2>1. spc[s] = "send" /\ spc'[s] = "deny" /\ UNCHANGED <<mails, asked, sent, lost, crashed>>
    BY <1>0, <1>15 DEF LoginDenied
  <2>2. Fine
    BY <1>6, <1>7, <2>1 DEF Holding, Waiting, Numbers
  <2> QED BY <1>0, <1>4, <1>5, <2>2, FewerWait DEF MailTypeOK
<1>19. CASE PostponeAlso(s)
  <2>1. /\ spc[s] = "deny" /\ spc'[s] = "deny" /\ mails' = Postponed({first})
        /\ UNCHANGED <<asked, sent, lost, crashed>>
    BY <1>0, <1>19 DEF PostponeAlso, first
  <2>2. Numbers' = Numbers /\ \A n \in Numbers : mails'[n].mail = mails[n].mail
    BY <1>14, <2>1 DEF Numbers
  <2>3. Fine
    BY <1>6, <1>7, <2>1, <2>2 DEF Holding, Waiting
  <2> QED BY <1>0, <1>4, <1>5, <2>3, FewerWait DEF MailTypeOK
<1>20. CASE Unanswered(s)
  <2>1. /\ spc[s] = "send" /\ spc'[s] = "postpone"
        /\ sent' = [sent EXCEPT ![mail[s]] = @ + 1]
        /\ lost' = [lost EXCEPT ![mail[s]] = @ + 1]
        /\ UNCHANGED <<mails, rows, mail, asked, dropped, crashed>>
    BY <1>0, <1>20 DEF Unanswered
  <2>2. Holding(s)'
    BY <1>0, <2>1 DEF Holding, Numbers
  <2>3. ASSUME NEW m \in Mail PROVE Counted(m)'
    <3>1. Waiting(m)' = Waiting(m)
      BY <1>6, <1>7, <2>1 DEF Waiting, Numbers
    <3>2. \/ sent'[m] = sent[m] /\ lost'[m] = lost[m]
          \/ sent'[m] = sent[m] + 1 /\ lost'[m] = lost[m] + 1
      BY <1>0, <2>1 DEF MailTypeOK
    <3>3. /\ sent[m] \in Nat /\ lost[m] \in Nat /\ asked[m] \in Nat /\ Counted(m)
          /\ Cardinality(Waiting(m)) \in Nat
      BY <1>0, WaitingIsFinite DEF MailTypeOK
    <3> QED BY <2>1, <3>1, <3>2, <3>3 DEF Counted
  <2> QED BY <1>4, <1>5, <2>2, <2>3
<1>16. CASE Erase(s)
  <2>1. /\ spc[s] = "erase" /\ spc'[s] = "get" /\ mails' = Without({first})
        /\ rows'[s] = rows[s] \ {first} /\ UNCHANGED <<asked, sent, lost, crashed>>
    BY <1>0, <1>16 DEF Erase, NextMail, first
  <2>2. Numbers' = Numbers \ {first} /\ \A n \in Numbers' : mails'[n] = mails[n]
    BY <2>1 DEF Numbers, Without, Restrict
  <2>3. Holding(s)'
    BY <1>0, <2>1, <2>2 DEF Holding
  <2>4. Fine
    BY <1>6, <1>7, <2>1, <2>2, <2>3 DEF Waiting
  <2> QED BY <1>0, <1>4, <1>5, <2>4, FewerWait DEF MailTypeOK
<1>17. CASE Postpone(s)
  <2>1. /\ spc[s] = "postpone" /\ spc'[s] = "get" /\ mails' = Postponed({first})
        /\ rows'[s] = rows[s] \ {first} /\ UNCHANGED <<asked, sent, lost, crashed>>
    BY <1>0, <1>17 DEF Postpone, NextMail, first
  <2>2. Numbers' = Numbers /\ \A n \in Numbers : mails'[n].mail = mails[n].mail
    BY <1>14, <2>1 DEF Numbers
  <2>3. Fine
    BY <1>0, <1>6, <1>7, <2>1, <2>2 DEF Holding, Waiting
  <2> QED BY <1>0, <1>4, <1>5, <2>3, FewerWait DEF MailTypeOK
<1>18. ASSUME AllSent(s) \/ AllPostponed(s)
       PROVE  OneSends' /\ (\A t \in Sender : Holding(t)') /\ \A m \in Mail : Counted(m)'
  <2>1. /\ spc[s] \in {"get", "deny"} /\ spc'[s] = "idle"
        /\ UNCHANGED <<mails, asked, sent, lost, crashed>>
    BY <1>0, <1>18 DEF AllSent, AllPostponed, EndSending
  <2>2. Fine
    BY <1>6, <1>7, <2>1 DEF Holding, Waiting, Numbers
  <2> QED BY <1>0, <1>4, <1>5, <2>2, FewerWait DEF MailTypeOK
<1> QED BY <1>8, <1>9, <1>10, <1>11, <1>12, <1>13, <1>15, <1>16, <1>17, <1>18, <1>19, <1>20
        DEF SendMails

\* Whatever else is done to the table.
LEMMA OtherSends ==
  ASSUME SendInv, MailTypeOK', Hazard \intersect {"vacuum", "clear"} = {},
         \/ DueAgain \/ ClearMails \/ CrashMails \/ MaintainMails
  PROVE  OneSends' /\ (\A s \in Sender : Holding(s)') /\ \A m \in Mail : Counted(m)'
<1>0. /\ MailTypeOK /\ OneSends /\ (\A s \in Sender : Holding(s))
      /\ \A m \in Mail : Counted(m)
  BY DEF SendInv, TypeOK
<1>1. CASE DueAgain
  <2>1. PICK n \in Numbers : mails' = [mails EXCEPT ![n].due = TRUE]
    BY <1>1 DEF DueAgain
  <2>2. Numbers' = Numbers /\ \A k \in Numbers : mails'[k].mail = mails[k].mail
    BY <1>0, <2>1 DEF Numbers, MailTypeOK, Entry
  <2>3. UNCHANGED <<spc, rows, mail, asked, sent, lost, dropped, crashed>>
    BY <1>1 DEF DueAgain, senderVars, mailGhosts
  <2>4. OneSends' /\ InHand' = InHand
    BY <1>0, <2>3 DEF OneSends, InHand
  <2>5. \A s \in Sender : rows[s] # {} => Min(rows[s]) \in rows[s]
    BY <1>0, FirstRow
  <2>6. \A s \in Sender : Holding(s)'
    BY <1>0, <2>2, <2>3, <2>5 DEF Holding
  <2>7. \A m \in Mail : Waiting(m)' \subseteq Waiting(m)
    BY <2>2, <2>4 DEF Waiting
  <2> QED BY <1>0, <2>3, <2>4, <2>6, <2>7, FewerWait DEF MailTypeOK
<1>2. ASSUME \A s \in Sender : spc'[s] = "idle"
      PROVE  OneSends' /\ (\A s \in Sender : Holding(s)') /\ InHand' = {}
  BY <1>2 DEF OneSends, Holding, InHand
<1>3. CASE ClearMails
  <2>1. /\ Sending = {} /\ mails' = Without(Numbers)
        /\ UNCHANGED <<spc, asked, sent, lost, crashed>>
    BY <1>3 DEF ClearMails, senderVars
  <2>2. Numbers' = {}
    BY <2>1 DEF Numbers, Without, Restrict
  <2>3. \A m \in Mail : Waiting(m)' \subseteq Waiting(m)
    BY <2>2 DEF Waiting
  <2>4. \A s \in Sender : spc'[s] = "idle"
    BY <2>1 DEF Sending
  <2> QED BY <1>0, <1>2, <2>1, <2>3, <2>4, FewerWait DEF MailTypeOK
<1>4. CASE CrashMails
  <2> DEFINE now == {mail[s] : s \in {t \in Sender : spc[t] \in {"send", "erase"}}}
  <2>1. /\ crashed' = crashed \union (now \ {NoMail})
        /\ spc' = [s \in Sender |-> "idle"] /\ UNCHANGED <<mails, asked, sent, lost>>
    BY <1>4 DEF CrashMails
  <2>2. ASSUME NEW m \in Mail, m \notin crashed' PROVE Waiting(m)' \subseteq Waiting(m)
    <3>1. \A s \in Sender : spc[s] = "erase" => mail[s] # m
      BY <2>1, <2>2, MailQueueAssumption
    <3>2. \A s \in Sender : spc[s] = "erase" => mails[Min(rows[s])].mail # m
      BY <1>0, <3>1 DEF Holding
    <3> QED BY <2>1, <3>2 DEF Waiting, Numbers, InHand
  <2>3. crashed \subseteq crashed' /\ \A s \in Sender : spc'[s] = "idle"
    BY <2>1
  <2> QED BY <1>0, <1>2, <2>1, <2>2, <2>3, FewerWait DEF MailTypeOK
<1>5. CASE TrimMails
  <2>1. PICK gone : mails' = Without(gone)
    BY <1>5 DEF TrimMails
  <2>2. Sending = {} /\ UNCHANGED <<spc, asked, sent, lost, crashed>>
    BY <1>5 DEF TrimMails, senderVars
  <2>3. Numbers' \subseteq Numbers /\ \A n \in Numbers' : mails'[n] = mails[n]
    BY <2>1 DEF Numbers, Without, Restrict
  <2>4. \A s \in Sender : spc[s] = "idle" /\ spc'[s] = "idle"
    BY <2>2 DEF Sending
  <2>5. \A m \in Mail : Waiting(m)' \subseteq Waiting(m)
    BY <2>3, <2>4 DEF Waiting, InHand
  <2> QED BY <1>0, <1>2, <2>2, <2>4, <2>5, FewerWait DEF MailTypeOK
<1>6. CASE VacuumMails
  <2> DEFINE left == Numbers
  <2>1. /\ Sending = {} /\ mails' = Renumbered(left)
        /\ UNCHANGED <<spc, rows, asked, sent, lost, crashed>>
    BY <1>6 DEF VacuumMails, senderVars, mailGhosts
  <2>2. left \in SUBSET Row /\ left \subseteq Numbers
    BY <1>0 DEF MailTypeOK, Numbers
  <2> HIDE DEF left
  <2>3. \A s \in Sender : spc'[s] = "idle"
    BY <2>1 DEF Sending
  <2>4. InHand = {} /\ InHand' = {}
    BY <1>2, <2>1, <2>3 DEF InHand
  <2>5. ASSUME NEW m \in Mail PROVE Counted(m)'
    <3> DEFINE W == Waiting(m)
               V == Waiting(m)'
               f == [i \in V |-> CHOOSE n \in left : Rank(n, left) = i /\ mails'[i] = mails[n]]
    <3>1. \A i \in V : f[i] \in left /\ Rank(f[i], left) = i /\ mails'[i] = mails[f[i]]
      <4> TAKE i \in V
      <4>1. i \in DOMAIN Renumbered(left)
        BY <2>1 DEF Waiting, Numbers
      <4>2. \E n \in left : Rank(n, left) = i /\ mails'[i] = mails[n]
        BY <2>1, <2>2, <4>1, RenumberedHolds
      <4> QED BY <4>2
    <3>2. \A i \in V : mails'[i].mail = m
      BY DEF Waiting
    <3>3. \A i \in V : f[i] \in W
      BY <2>2, <2>4, <3>1, <3>2 DEF Waiting
    <3>4. f \in [V -> W]
      BY <3>3
    <3>5. IsFiniteSet(W) /\ Cardinality(W) \in Nat
      BY <1>0, WaitingIsFinite
    <3>6. f \in Injection(V, W)
      <4> HIDE DEF V, W
      <4>1. DOMAIN f = V
        OBVIOUS
      <4> HIDE DEF f
      <4> QED BY <3>1, <3>4, <4>1 DEF Injection, IsInjective
    <3>7. IsFiniteSet(V) /\ Cardinality(V) <= Cardinality(W)
      <4> HIDE DEF V, W, f
      <4> QED BY <3>5, <3>6, FS_Injection
    <3>8. Cardinality(V) \in Nat
      BY <3>7, FS_CardinalityType
    <3>9. sent[m] \in Nat /\ asked[m] \in Nat /\ lost[m] \in Nat /\ Counted(m)
      BY <1>0 DEF MailTypeOK
    <3> QED BY <2>1, <3>5, <3>7, <3>8, <3>9 DEF Counted
  <2> QED BY <1>2, <2>3, <2>5
<1> QED BY <1>1, <1>3, <1>4, <1>5, <1>6 DEF MaintainMails

LEMMA StepSends ==
  ASSUME SendInv, [Next]_vars, Hazard \intersect {"flag", "vacuum", "clear"} = {}
  PROVE  SendInv'
<1>0. TypeOK /\ ConfirmTypeOK /\ TypeOK' /\ MailTypeOK' /\ "flag" \notin Hazard
      /\ Hazard \intersect {"vacuum", "clear"} = {}
  BY StepType DEF SendInv, TypeOK, ConfirmTypeOK
<1> DEFINE Rest == /\ OneSends' /\ (\A s \in Sender : Holding(s)')
                   /\ \A m \in Mail : Counted(m)'
<1>1. ASSUME NEW r \in Request, MailLink(r) PROVE Rest
  BY <1>0, <1>1, ScheduleSends, MailsAreMails DEF MailLink
<1>2. ASSUME NEW v \in Visitor, MailNews(v) PROVE Rest
  <2>1. PICK m \in Mail : Schedule(m)
    BY <1>0, <1>2, MailsAreMails DEF MailNews, ConfirmTypeOK
  <2> QED BY <1>0, <2>1, ScheduleSends
<1>3. ASSUME NEW v \in Visitor, Inform(v) PROVE Rest
  <2>1. PICK m \in Mail : Schedule(m)
    BY <1>0, <1>3, MailsAreMails DEF Inform, ConfirmTypeOK
  <2> QED BY <1>0, <2>1, ScheduleSends
<1>4. ASSUME NEW s \in Sender, Mailing(s) PROVE Rest
  BY <1>0, <1>4, SendingSends DEF Mailing
<1>5. ASSUME DueAgain \/ ClearMails \/ MaintainMails \/ Crash PROVE Rest
  BY <1>0, <1>5, OtherSends DEF Crash
<1>6. ASSUME UNCHANGED mailVars \/ TrimRecords PROVE Rest
  <2>1. UNCHANGED <<mails, spc, rows, mail, asked, sent, lost, dropped, crashed>>
    BY <1>6 DEF mailVars, senderVars, mailGhosts, TrimRecords
  <2>2. \A s \in Sender : Holding(s)'
    BY <2>1 DEF SendInv, Holding, Numbers
  <2>3. \A m \in Mail : Waiting(m)' = Waiting(m)
    BY <2>1 DEF Waiting, Numbers, InHand
  <2> QED BY <2>1, <2>2, <2>3 DEF SendInv, OneSends, Counted
<1>7. Rest
  <2>1. ASSUME NEW r \in Request, StoreRecord(r) PROVE UNCHANGED mailVars
    BY <2>1 DEF StoreRecord
  <2>2. ASSUME NEW v \in Visitor, (\E r \in Request : Click(v, r)) \/ Execute(v) \/ EraseRecord(v)
                                  \/ Done(v)
        PROVE  UNCHANGED mailVars
    BY <2>2 DEF Click, Execute, EraseRecord, Done
  <2>3. UNCHANGED vars => UNCHANGED mailVars
    BY DEF vars
  <2> HIDE DEF Rest
  <2> QED BY <1>1, <1>2, <1>3, <1>4, <1>5, <1>6, <2>1, <2>2, <2>3
          DEF Next, Setup, Handle, Maintain
<1> QED BY <1>0, <1>7 DEF SendInv

LEMMA InitSends == Init => SendInv
<1> SUFFICES ASSUME Init PROVE SendInv
  OBVIOUS
<1>1. OneSends /\ \A s \in Sender : Holding(s)
  BY DEF Init, MailInit, OneSends, Holding
<1>2. \A m \in Mail : Waiting(m) = {} /\ sent[m] = 0 /\ asked[m] = 0 /\ lost[m] = 0
  BY DEF Init, MailInit, Waiting, Numbers
<1> QED BY <1>1, <1>2, InitType, FS_EmptySet DEF SendInv, Counted

\* A mail is not sent more often than it was queued and once more for each answer
\* of the smart host that got lost, for any mails, rows, retries, lost answers and
\* crashes, but for those in hand at a crash, if one task sends at a time and the
\* table is trimmed, vacuumed and cleared only when none does.
THEOREM MailSentOnce ==
  ASSUME Hazard \intersect {"flag", "vacuum", "clear"} = {}
  PROVE  Spec => []SentOnce
<1>1. SendInv => SentOnce
  <2> SUFFICES ASSUME SendInv, NEW m \in Mail \ crashed PROVE sent[m] <= asked[m] + lost[m]
    BY DEF SentOnce
  <2>1. sent[m] + Cardinality(Waiting(m)) <= asked[m] + lost[m]
    BY DEF SendInv, Counted
  <2>2. /\ Cardinality(Waiting(m)) \in Nat /\ sent[m] \in Nat
        /\ asked[m] \in Nat /\ lost[m] \in Nat
    BY WaitingIsFinite DEF SendInv, TypeOK, MailTypeOK
  <2> QED BY <2>1, <2>2
<1> QED BY <1>1, InitSends, StepSends, PTL DEF Spec

\* A step of the task that sends takes no mail from the table but one that was
\* sent, or that is dropped.
LEMMA SendingKeeps ==
  ASSUME SendInv, NEW s \in Sender, SendMails(s), NEW m \in Queued
  PROVE  m \in Queued' \/ sent[m] > 0 \/ m \in dropped'
<1>0. MailTypeOK /\ Holding(s)
  BY DEF SendInv, TypeOK
<1>1. PICK n \in Numbers : mails[n].mail = m
  BY DEF Queued
<1>2. CASE UNCHANGED mails
  BY <1>2 DEF Queued, Numbers
<1>3. CASE Erase(s)
  <2> DEFINE first == Min(rows[s])
  <2>1. spc[s] = "erase" /\ mails' = Without({first}) /\ UNCHANGED dropped
    BY <1>3 DEF Erase, mailGhosts
  <2>2. mail[s] = mails[first].mail /\ (sent[mail[s]] > 0 \/ mail[s] \in dropped)
    BY <1>0, <2>1 DEF Holding
  <2> HIDE DEF first
  <2>3. CASE n = first
    BY <1>1, <2>1, <2>2, <2>3
  <2>4. CASE n # first
    <3>1. n \in Numbers' /\ mails'[n] = mails[n]
      BY <1>1, <2>1, <2>4 DEF Without, Restrict, Numbers
    <3> QED BY <1>1, <3>1 DEF Queued
  <2> QED BY <2>3, <2>4
<1>4. CASE PostponeAlso(s) \/ Postpone(s)
  <2>1. PICK set : mails' = Postponed(set)
    BY <1>4 DEF PostponeAlso, Postpone
  <2>2. n \in Numbers' /\ mails'[n].mail = m
    BY <1>0, <1>1, <2>1 DEF Postponed, MailTypeOK, Numbers, Entry
  <2> QED BY <2>2 DEF Queued
<1> QED BY <1>2, <1>3, <1>4 DEF SendMails, Start, SetRunning, ListMails, GetMail, Accepted,
           Unanswered, Refused, LoginDenied, AllPostponed, AllSent

\* Neither does what else is done to the table.
LEMMA OtherKeeps ==
  ASSUME MailTypeOK, NEW m \in Queued,
         \/ \E k \in Mail : Schedule(k)
         \/ DueAgain \/ ClearMails \/ CrashMails \/ MaintainMails
  PROVE  m \in Queued' \/ m \in dropped'
<1>1. PICK n \in Numbers : mails[n].mail = m
  BY DEF Queued
<1>2. ASSUME NEW k \in Mail, Schedule(k) PROVE m \in Queued'
  <2>1. NextRow \notin Numbers /\ mails' = With(k)
    BY <1>2, NextRowIsFree DEF Schedule
  <2>2. n \in Numbers' /\ mails'[n] = mails[n]
    BY <1>1, <2>1 DEF With, Numbers
  <2> QED BY <1>1, <2>2 DEF Queued
<1>3. CASE DueAgain
  <2>1. PICK k \in Numbers : mails' = [mails EXCEPT ![k].due = TRUE]
    BY <1>3 DEF DueAgain
  <2>2. n \in Numbers' /\ mails'[n].mail = m
    BY <1>1, <2>1 DEF Numbers, MailTypeOK, Entry
  <2> QED BY <2>2 DEF Queued
<1>4. CASE ClearMails
  BY <1>4 DEF ClearMails
<1>5. CASE CrashMails
  BY <1>5 DEF CrashMails, Queued, Numbers
<1>6. CASE TrimMails
  <2>1. PICK gone : mails' = Without(gone) /\ dropped' = dropped \union {mails[k].mail : k \in gone}
    BY <1>6 DEF TrimMails
  <2>2. CASE n \in gone
    BY <1>1, <2>1, <2>2
  <2>3. CASE n \notin gone
    <3>1. n \in Numbers' /\ mails'[n] = mails[n]
      BY <1>1, <2>1, <2>3 DEF Without, Restrict, Numbers
    <3> QED BY <1>1, <3>1 DEF Queued
  <2> QED BY <2>2, <2>3
<1>7. CASE VacuumMails
  <2> DEFINE left == Numbers
  <2>1. mails' = Renumbered(left)
    BY <1>7 DEF VacuumMails
  <2>2. n \in left /\ left \in SUBSET Row
    BY <1>1 DEF MailTypeOK, Numbers
  <2> HIDE DEF left
  <2>3. \E i \in Numbers' : mails'[i] = mails[n]
    BY <2>1, <2>2, RenumberedHolds DEF Numbers
  <2> QED BY <1>1, <2>3 DEF Queued
<1> QED BY <1>2, <1>3, <1>4, <1>5, <1>6, <1>7 DEF MaintainMails

\* A mail leaves the table only when it was sent, or is dropped, under the same
\* conditions: a task that sends never erases a row that it did not deal with.
THEOREM MailIsKept ==
  ASSUME Hazard \intersect {"flag", "vacuum", "clear"} = {}
  PROVE  Spec => MailsStay
<1>1. ASSUME SendInv, [Next]_vars, NEW m \in Queued
      PROVE  m \in Queued' \/ sent[m] > 0 \/ m \in dropped'
  <2>1. MailTypeOK /\ ConfirmTypeOK
    BY <1>1 DEF SendInv, TypeOK, ConfirmTypeOK
  <2>2. ASSUME UNCHANGED mailVars PROVE m \in Queued'
    BY <1>1, <2>2 DEF mailVars, Queued, Numbers
  <2>3. ASSUME \E k \in Mail : Schedule(k) PROVE m \in Queued' \/ m \in dropped'
    BY <1>1, <2>1, <2>3, OtherKeeps
  <2>4. ASSUME NEW r \in Request, Setup(r) PROVE m \in Queued' \/ m \in dropped'
    BY <2>2, <2>3, <2>4, MailsAreMails DEF Setup, MailLink, StoreRecord
  <2>5. ASSUME NEW v \in Visitor, (\E r \in Request : Click(v, r)) \/ Handle(v)
        PROVE  m \in Queued' \/ m \in dropped'
    <3>1. MailNews(v) => \E k \in Mail : Schedule(k)
      BY <2>1, MailsAreMails DEF MailNews, ConfirmTypeOK
    <3>2. Inform(v) => \E k \in Mail : Schedule(k)
      BY <2>1, MailsAreMails DEF Inform, ConfirmTypeOK
    <3>3. (\E r \in Request : Click(v, r)) \/ Execute(v) \/ EraseRecord(v) \/ Done(v)
            => UNCHANGED mailVars
      BY DEF Click, Execute, EraseRecord, Done
    <3> QED BY <2>2, <2>3, <2>5, <3>1, <3>2, <3>3 DEF Handle
  <2>6. ASSUME NEW s \in Sender, Mailing(s)
        PROVE  m \in Queued' \/ sent[m] > 0 \/ m \in dropped'
    BY <1>1, <2>6, SendingKeeps DEF Mailing
  <2>7. ASSUME DueAgain \/ ClearMails \/ Maintain \/ Crash
        PROVE  m \in Queued' \/ m \in dropped'
    <3>1. TrimRecords => m \in Queued'
      BY DEF TrimRecords, Queued, Numbers
    <3> QED BY <1>1, <2>1, <2>7, <3>1, OtherKeeps DEF Maintain, Crash
  <2> QED BY <1>1, <2>2, <2>4, <2>5, <2>6, <2>7 DEF Next, vars
<1>2. SendInv /\ [Next]_vars =>
        [\A m \in Queued : m \in Queued' \/ sent[m] > 0 \/ m \in dropped']_mailVars
  BY <1>1
<1> QED BY <1>2, InitSends, StepSends, PTL DEF Spec, MailsStay
=============================================================================
