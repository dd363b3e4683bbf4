--------------------------- MODULE SemaphoreProofs ---------------------------
(***************************************************************************)
(* Proofs about Semaphore, for any finite set of processes and any         *)
(* SEM_VALUE_MAX: types, conservation of units, one creator, and how far   *)
(* the answers about units are right.                                      *)
(*                                                                         *)
(* The accounts need one more fact: whoever is inside a call that waits or *)
(* has a unit in hand still has its sem_t, so that the object cannot       *)
(* vanish under a unit that is yet to be given back.                       *)
(***************************************************************************)
EXTENDS Semaphore, FiniteSetTheorems, TLAPS

\* A process in a call on the semaphore has it open.
Opened == \A p \in Proc : pc[p] \in Waits \cup {"restore"} => p \in sem

Inv == TypeOK /\ Opened /\ UnitsConserved /\ OneCreator /\ AnswersAlmostTrue

-----------------------------------------------------------------------------
\* The units in hand are a number, and none without borrowers.
LEMMA InHandIsNat ==
  /\ IsFiniteSet(Borrowers)
  /\ InHand \in Nat
  /\ Borrowers = {} => InHand = 0
<1>1. IsFiniteSet(Borrowers)
  BY FS_Subset, SemaphoreConstantsOK DEF Borrowers
<1>2. QED
  BY <1>1, FS_CardinalityType, FS_EmptySet DEF InHand

\* The same after a step.
LEMMA InHandIsNatNext ==
  /\ IsFiniteSet(Borrowers')
  /\ InHand' \in Nat
  /\ Borrowers' = {} => InHand' = 0
<1>1. IsFiniteSet(Borrowers')
  BY FS_Subset, SemaphoreConstantsOK DEF Borrowers
<1>2. QED
  BY <1>1, FS_CardinalityType, FS_EmptySet DEF InHand

\* A step of a process that goes from one place outside sem_getvalue() to another
\* leaves the units in hand alone.
LEMMA HandsOff ==
  ASSUME TypeOK, NEW p \in Proc, NEW l \in PC, Goto(p, l), l # "restore", pc[p] # "restore"
  PROVE  InHand' = InHand
<1>1. Borrowers' = Borrowers
  BY DEF Goto, TypeOK, Borrowers
<1>2. QED
  BY <1>1 DEF InHand

\* So does a step that leaves everyone where they are.
LEMMA NobodyMoves ==
  ASSUME pc' = pc
  PROVE  InHand' = InHand
BY DEF InHand, Borrowers

\* The first half of sem_getvalue() takes one unit in hand,
LEMMA OneMore ==
  ASSUME TypeOK, NEW p \in Proc, Goto(p, "restore"), pc[p] = "out"
  PROVE  InHand' = InHand + 1
<1>1. Borrowers' = Borrowers \cup {p} /\ p \notin Borrowers
  BY DEF Goto, TypeOK, Borrowers, PC
<1>2. QED
  BY <1>1, InHandIsNat, FS_AddElement DEF InHand

\* and the end of sem_getvalue(), or of its process, puts one down.
LEMMA OneLess ==
  ASSUME TypeOK, NEW p \in Proc, Goto(p, "out"), pc[p] = "restore"
  PROVE  InHand' = InHand - 1 /\ InHand \in Nat \ {0}
<1>1. Borrowers' = Borrowers \ {p} /\ p \in Borrowers
  BY DEF Goto, TypeOK, Borrowers, PC
<1>2. InHand' = InHand - 1
  BY <1>1, InHandIsNat, FS_RemoveElement DEF InHand
<1>3. QED
  BY <1>2, InHandIsNat, InHandIsNatNext

\* When the last handle goes, nobody is left inside sem_getvalue().
LEMMA LastHandle ==
  ASSUME TypeOK, Opened, NEW p \in Proc, Goto(p, "out"), Handles = {p}
  PROVE  InHand' = 0
<1>1. Borrowers' = {}
  BY DEF Goto, TypeOK, Opened, Handles, Borrowers, PC
<1>2. QED
  BY <1>1, InHandIsNatNext

\* Where there is no object there is no sem_t and no unit in hand.
LEMMA NoObject ==
  ASSUME TypeOK, Opened, ~Exists
  PROVE  sem = {} /\ creators = {} /\ InHand = 0
<1>1. sem = {} /\ creators = {}
  BY DEF TypeOK, Exists, Handles
<1>2. Borrowers = {}
  BY <1>1 DEF Opened, Borrowers
<1>3. QED
  BY <1>1, <1>2, InHandIsNat

-----------------------------------------------------------------------------
\* A step that says nothing says nothing false.
LEMMA Quiet == SayNothing => AnswersAlmostTrue' /\ answer'.sval = 0 /\ answer'.code = "none"
BY DEF SayNothing, Silent, AnswersAlmostTrue

\* A call that opens the semaphore, or finds that it exists.
LEMMA OpenStep ==
  ASSUME Inv, NEW p \in Proc, Open(p)
  PROVE  Inv'
<1>a. TypeOK /\ Opened /\ UnitsConserved /\ OneCreator
  BY DEF Inv
<1>b. InHand \in Nat
  BY InHandIsNat
<1> USE SemaphoreConstantsOK
<1>1. ASSUME NEW v \in 0 .. MaxCount, OpenCreate(p, v) PROVE Inv'
  <2>1. InHand' = InHand
    BY <1>1, NobodyMoves DEF OpenCreate
  <2>2. ~Exists => sem = {} /\ creators = {} /\ InHand = 0
    BY <1>a, NoObject
  <2>3. TypeOK'
    <3>1. count' \in 0 .. MaxCount /\ value' \in Nat /\ lossy' \in BOOLEAN
      <4>1. count' \in 0 .. MaxCount /\ value' \in Nat
        BY <1>a, <1>1 DEF TypeOK, OpenCreate, Create, object
      <4>2. lossy' \in BOOLEAN
        BY <1>a, <1>1, Zenon DEF TypeOK, OpenCreate, Create, object
      <4>3. QED BY <4>1, <4>2
    <3>2. QED
      BY <1>a, <1>1, <3>1 DEF TypeOK, OpenCreate, SayNothing, Silent
  <2>4. Opened' /\ OneCreator'
    BY <1>a, <1>1 DEF Opened, OneCreator, OpenCreate
  <2>5. UnitsConserved'
    BY <1>a, <1>1, <2>1, <2>2 DEF TypeOK, OpenCreate, Create, object, UnitsConserved
  <2>6. QED
    BY <1>1, <2>3, <2>4, <2>5, Quiet DEF Inv, OpenCreate
<1>2. ASSUME NEW v \in 0 .. MaxCount, OpenExclusive(p, v) PROVE Inv'
  <2>1. InHand' = InHand
    BY <1>a, <1>2, HandsOff, NobodyMoves DEF OpenExclusive, PC, Temporary
  <2>2. ~Exists => sem = {} /\ creators = {} /\ InHand = 0
    BY <1>a, NoObject
  <2>3. TypeOK'
    <3>1. count' \in 0 .. MaxCount /\ value' \in Nat /\ lossy' \in BOOLEAN
      <4>1. count' \in 0 .. MaxCount /\ value' \in Nat
        BY <1>a, <1>2 DEF TypeOK, OpenExclusive, Create, object
      <4>2. lossy' \in BOOLEAN
        BY <1>a, <1>2, Zenon DEF TypeOK, OpenExclusive, Create, object
      <4>3. QED BY <4>1, <4>2
    <3>2. sem' \subseteq Proc /\ creators' \subseteq sem'
      BY <1>a, <1>2 DEF TypeOK, OpenExclusive
    <3>3. pc' \in [Proc -> PC]
      BY <1>a, <1>2 DEF TypeOK, OpenExclusive, Goto, PC, Temporary
    <3>4. QED
      BY <1>2, <3>1, <3>2, <3>3 DEF TypeOK, OpenExclusive, SayNothing, Silent
  <2>4. Opened'
    BY <1>a, <1>2 DEF TypeOK, Opened, OpenExclusive, Goto, Waits
  <2>5. OneCreator'
    BY <1>a, <1>2, <2>2 DEF OneCreator, OpenExclusive
  <2>6. UnitsConserved'
    BY <1>a, <1>2, <2>1, <2>2 DEF TypeOK, OpenExclusive, Create, object, UnitsConserved
  <2>7. QED
    BY <1>2, <2>3, <2>4, <2>5, <2>6, Quiet DEF Inv, OpenExclusive
<1>3. ASSUME OpenExisting(p) PROVE Inv'
  <2>1. InHand' = InHand
    BY <1>3, NobodyMoves DEF OpenExisting
  <2>2. TypeOK'
    BY <1>a, <1>3 DEF TypeOK, OpenExisting, object, SayNothing, Silent
  <2>3. Opened' /\ OneCreator' /\ UnitsConserved'
    BY <1>a, <1>3, <2>1 DEF Opened, OneCreator, UnitsConserved, OpenExisting, object
  <2>4. QED
    BY <1>3, <2>2, <2>3, Quiet DEF Inv, OpenExisting
<1>4. QED
  BY <1>1, <1>2, <1>3 DEF Open

\* A call that uses the count, or unlinks, up to its first system call.
LEMMA UseStep ==
  ASSUME Inv, NEW p \in Proc, Use(p) \/ Unlink(p)
  PROVE  Inv'
<1>a. TypeOK /\ Opened /\ UnitsConserved /\ OneCreator
  BY DEF Inv
<1>b. InHand \in Nat
  BY InHandIsNat
<1> USE SemaphoreConstantsOK
<1>1. ASSUME NEW how \in Waits, Wait(p, how) PROVE Inv'
  <2>1. InHand' = InHand
    BY <1>a, <1>1, HandsOff DEF Wait, PC, Waits
  <2>2. TypeOK'
    BY <1>a, <1>1 DEF TypeOK, Wait, object, Goto, PC, SayNothing, Silent
  <2>3. Opened'
    BY <1>a, <1>1 DEF TypeOK, Opened, Wait, Goto
  <2>4. OneCreator' /\ UnitsConserved'
    BY <1>a, <1>1, <2>1 DEF OneCreator, UnitsConserved, Wait, object
  <2>5. QED
    BY <1>1, <2>2, <2>3, <2>4, Quiet DEF Inv, Wait
<1>2. ASSUME TryWait(p) PROVE Inv'
  <2>1. InHand' = InHand
    BY <1>2, NobodyMoves DEF TryWait
  <2>2. TypeOK'
    BY <1>a, <1>b, <1>2 DEF TypeOK, UnitsConserved, TryWait, SayNothing, Say, Silent
  <2>3. Opened' /\ OneCreator'
    BY <1>a, <1>2 DEF Opened, OneCreator, TryWait
  <2>4. UnitsConserved'
    BY <1>a, <1>b, <1>2, <2>1 DEF TypeOK, UnitsConserved, TryWait
  <2>5. AnswersAlmostTrue'
    <3>1. CASE count > 0
      BY <1>2, <3>1, Quiet DEF TryWait
    <3>2. CASE ~(count > 0)
      BY <1>a, <1>b, <1>2, <2>1, <3>2
      DEF TypeOK, UnitsConserved, AnswersAlmostTrue, TryWait, Say
    <3>3. QED BY <3>1, <3>2
  <2>6. QED
    BY <2>2, <2>3, <2>4, <2>5 DEF Inv
<1>3. ASSUME Post(p) PROVE Inv'
  <2>1. InHand' = InHand
    BY <1>3, NobodyMoves DEF Post
  <2>2. TypeOK'
    BY <1>a, <1>3 DEF TypeOK, Post, SayNothing, Say, Silent
  <2>3. Opened' /\ OneCreator'
    BY <1>a, <1>3 DEF Opened, OneCreator, Post
  <2>4. UnitsConserved'
    BY <1>a, <1>b, <1>3, <2>1 DEF TypeOK, UnitsConserved, Post
  <2>5. AnswersAlmostTrue'
    <3>1. CASE count < MaxCount
      BY <1>3, <3>1, Quiet DEF Post
    <3>2. CASE ~(count < MaxCount)
      BY <1>a, <1>b, <1>3, <2>1, <3>2
      DEF TypeOK, UnitsConserved, AnswersAlmostTrue, Post, Say
    <3>3. QED BY <3>1, <3>2
  <2>6. QED
    BY <2>2, <2>3, <2>4, <2>5 DEF Inv
<1>4. ASSUME GetValue(p), count > 0 PROVE Inv'
  <2>1. InHand' = InHand + 1
    BY <1>a, <1>4, OneMore DEF GetValue
  <2>2. TypeOK'
    BY <1>a, <1>4 DEF TypeOK, GetValue, Goto, PC, SayNothing, Silent
  <2>3. Opened' /\ OneCreator'
    BY <1>a, <1>4 DEF TypeOK, Opened, OneCreator, GetValue, Goto
  <2>4. UnitsConserved'
    BY <1>a, <1>b, <1>4, <2>1 DEF TypeOK, UnitsConserved, GetValue
  <2>5. QED
    BY <1>4, <2>2, <2>3, <2>4, Quiet DEF Inv, GetValue
<1>5. ASSUME GetValue(p), ~(count > 0) PROVE Inv'
  <2>1. InHand' = InHand
    BY <1>5, NobodyMoves DEF GetValue
  <2>2. TypeOK'
    BY <1>a, <1>5 DEF TypeOK, GetValue, SayValue
  <2>3. Opened' /\ OneCreator' /\ UnitsConserved'
    BY <1>a, <1>5, <2>1 DEF Opened, OneCreator, UnitsConserved, GetValue
  <2>4. AnswersAlmostTrue'
    BY <1>a, <1>b, <1>5, <2>1
    DEF TypeOK, UnitsConserved, AnswersAlmostTrue, GetValue, SayValue
  <2>5. QED
    BY <2>2, <2>3, <2>4 DEF Inv
<1>6. ASSUME Unlink(p) PROVE Inv'
  <2>1. InHand' = InHand
    BY <1>a, <1>6, HandsOff DEF Unlink, PC, Temporary
  <2>2. TypeOK'
    BY <1>a, <1>6 DEF TypeOK, Unlink, object, Goto, PC, Temporary, SayNothing, Silent
  <2>3. Opened'
    BY <1>a, <1>6 DEF TypeOK, Opened, Unlink, Goto, Waits
  <2>4. OneCreator' /\ UnitsConserved'
    BY <1>a, <1>6, <2>1 DEF OneCreator, UnitsConserved, Unlink, object
  <2>5. QED
    BY <1>6, <2>2, <2>3, <2>4, Quiet DEF Inv, Unlink
<1>7. QED
  BY <1>1, <1>2, <1>3, <1>4, <1>5, <1>6 DEF Use

\* A handle goes: the object with it if it was the last.
LEMMA CloseStep ==
  ASSUME Inv, NEW p \in Proc, CloseTemporary(p) \/ Close(p) \/ Die(p)
  PROVE  Inv'
<1>a. TypeOK /\ Opened /\ UnitsConserved /\ OneCreator
  BY DEF Inv
<1>b. InHand \in Nat
  BY InHandIsNat
<1> USE SemaphoreConstantsOK
<1>1. ASSUME CloseTemporary(p) PROVE Inv'
  <2>1. InHand' = InHand
    BY <1>a, <1>1, HandsOff DEF CloseTemporary, PC, Temporary
  <2>2. Handles = {p} => InHand' = 0
    BY <1>a, <1>1, LastHandle DEF CloseTemporary
  <2>3. TypeOK'
    <3>1. count' \in 0 .. MaxCount /\ value' \in Nat /\ lossy' \in BOOLEAN
      <4>1. count' \in 0 .. MaxCount /\ value' \in Nat
        BY <1>a, <1>1 DEF TypeOK, CloseTemporary, Drop, object
      <4>2. lossy' \in BOOLEAN
        BY <1>a, <1>1, Zenon DEF TypeOK, CloseTemporary, Drop, object
      <4>3. QED BY <4>1, <4>2
    <3>2. pc' \in [Proc -> PC]
      BY <1>a, <1>1 DEF TypeOK, CloseTemporary, Goto, PC
    <3>3. QED
      BY <1>a, <1>1, <3>1, <3>2 DEF TypeOK, CloseTemporary, SayNothing, Silent
  <2>4. Opened' /\ OneCreator'
    BY <1>a, <1>1 DEF TypeOK, Opened, OneCreator, CloseTemporary, Goto, Waits
  <2>5. UnitsConserved'
    BY <1>a, <1>1, <2>1, <2>2 DEF UnitsConserved, CloseTemporary, Drop, object
  <2>6. QED
    BY <1>1, <2>3, <2>4, <2>5, Quiet DEF Inv, CloseTemporary
<1>2. ASSUME Close(p) PROVE Inv'
  <2>1. InHand' = InHand
    BY <1>2, NobodyMoves DEF Close
  <2>2. Handles = {p} => InHand' = 0
    <3>1. Goto(p, "out")
      BY <1>a, <1>2 DEF TypeOK, Close, Goto
    <3>2. QED BY <1>a, <3>1, LastHandle
  <2>3. TypeOK'
    <3>1. count' \in 0 .. MaxCount /\ value' \in Nat /\ lossy' \in BOOLEAN
      <4>1. count' \in 0 .. MaxCount /\ value' \in Nat
        BY <1>a, <1>2 DEF TypeOK, Close, Drop, object
      <4>2. lossy' \in BOOLEAN
        BY <1>a, <1>2, Zenon DEF TypeOK, Close, Drop, object
      <4>3. QED BY <4>1, <4>2
    <3>2. QED
      BY <1>a, <1>2, <3>1 DEF TypeOK, Close, SayNothing, Silent
  <2>4. Opened' /\ OneCreator'
    BY <1>a, <1>2 DEF Opened, OneCreator, Close, Waits
  <2>5. UnitsConserved'
    BY <1>a, <1>2, <2>1, <2>2 DEF UnitsConserved, Close, Drop, object
  <2>6. QED
    BY <1>2, <2>3, <2>4, <2>5, Quiet DEF Inv, Close
<1>3. ASSUME Die(p) PROVE Inv'
  <2>1. IF pc[p] = "restore" THEN InHand' = InHand - 1 ELSE InHand' = InHand
    BY <1>a, <1>3, OneLess, HandsOff DEF Die, PC
  <2>2. Handles = {p} => InHand' = 0
    BY <1>a, <1>3, LastHandle DEF Die
  <2>3. TypeOK'
    <3>1. count' \in 0 .. MaxCount /\ value' \in Nat /\ lossy' \in BOOLEAN
      <4>1. count' \in 0 .. MaxCount /\ value' \in Nat
        BY <1>a, <1>3 DEF TypeOK, Die, Drop, object
      <4>2. lossy' \in BOOLEAN
        BY <1>a, <1>3, Zenon DEF TypeOK, Die, Drop, object
      <4>3. QED BY <4>1, <4>2
    <3>2. pc' \in [Proc -> PC]
      BY <1>a, <1>3 DEF TypeOK, Die, Goto, PC
    <3>3. QED
      BY <1>a, <1>3, <3>1, <3>2 DEF TypeOK, Die, SayNothing, Silent
  <2>4. Opened' /\ OneCreator'
    BY <1>a, <1>3 DEF TypeOK, Opened, OneCreator, Die, Goto, Waits
  <2>5. UnitsConserved'
    <3>1. CASE Handles = {p}
      BY <1>3, <2>2, <3>1 DEF UnitsConserved, Die, Drop
    <3>2. CASE Handles # {p} /\ pc[p] = "restore"
      <4>1. lossy' /\ count' = count /\ value' = value
        BY <1>3, <3>2 DEF Die
      <4>2. QED BY <1>a, <1>b, <2>1, <3>2, <4>1 DEF TypeOK, UnitsConserved
    <3>3. CASE Handles # {p} /\ pc[p] # "restore"
      <4>1. (lossy' <=> lossy) /\ count' = count /\ value' = value
        BY <1>a, <1>3, <3>3 DEF Die, TypeOK
      <4>2. QED BY <1>a, <1>b, <2>1, <3>3, <4>1 DEF TypeOK, UnitsConserved
    <3>4. QED BY <3>1, <3>2, <3>3
  <2>6. QED
    BY <1>3, <2>3, <2>4, <2>5, Quiet DEF Inv, Die
<1>4. QED
  BY <1>1, <1>2, <1>3

\* The second system call of a call, and the end of a wait.
LEMMA InsideStep ==
  ASSUME Inv, NEW p \in Proc, Inside(p)
  PROVE  Inv'
<1>a. TypeOK /\ Opened /\ UnitsConserved /\ OneCreator
  BY DEF Inv
<1>b. InHand \in Nat
  BY InHandIsNat
<1> USE SemaphoreConstantsOK
<1>1. ASSUME Take(p) PROVE Inv'
  <2>1. InHand' = InHand
    BY <1>a, <1>1, HandsOff DEF Take, PC, Waits
  <2>2. TypeOK'
    BY <1>a, <1>b, <1>1 DEF TypeOK, UnitsConserved, Take, Goto, PC, SayNothing, Silent
  <2>3. Opened' /\ OneCreator'
    BY <1>a, <1>1 DEF TypeOK, Opened, OneCreator, Take, Goto, Waits
  <2>4. UnitsConserved'
    BY <1>a, <1>b, <1>1, <2>1 DEF TypeOK, UnitsConserved, Take
  <2>5. QED
    BY <1>1, <2>2, <2>3, <2>4, Quiet DEF Inv, Take
<1>2. ASSUME TimedOut(p) PROVE Inv'
  <2>1. InHand' = InHand
    BY <1>a, <1>2, HandsOff DEF TimedOut, PC
  <2>2. TypeOK'
    BY <1>a, <1>2 DEF TypeOK, TimedOut, object, Goto, PC, Say
  <2>3. Opened' /\ OneCreator' /\ UnitsConserved'
    BY <1>a, <1>2, <2>1
    DEF TypeOK, Opened, OneCreator, UnitsConserved, TimedOut, object, Goto, Waits
  <2>4. AnswersAlmostTrue'
    BY <1>a, <1>b, <1>2, <2>1
    DEF TypeOK, UnitsConserved, AnswersAlmostTrue, TimedOut, object, Say
  <2>5. QED
    BY <2>2, <2>3, <2>4 DEF Inv
<1>3. ASSUME Restore(p), count < MaxCount PROVE Inv'
  <2>1. InHand' = InHand - 1 /\ InHand \in Nat \ {0}
    BY <1>a, <1>3, OneLess DEF Restore
  <2>2. TypeOK'
    BY <1>a, <1>3 DEF TypeOK, Restore, Goto, PC, SayValue
  <2>3. Opened' /\ OneCreator'
    BY <1>a, <1>3 DEF TypeOK, Opened, OneCreator, Restore, Goto, Waits
  <2>4. UnitsConserved'
    BY <1>a, <1>3, <2>1 DEF TypeOK, UnitsConserved, Restore
  <2>5. AnswersAlmostTrue'
    BY <1>a, <1>3, <2>1 DEF TypeOK, UnitsConserved, AnswersAlmostTrue, Restore, SayValue
  <2>6. QED
    BY <2>2, <2>3, <2>4, <2>5 DEF Inv
<1>4. ASSUME Restore(p), ~(count < MaxCount) PROVE Inv'
  <2>1. InHand' = InHand - 1 /\ InHand \in Nat \ {0}
    BY <1>a, <1>4, OneLess DEF Restore
  <2>2. TypeOK'
    BY <1>a, <1>4 DEF TypeOK, Restore, Goto, PC, SayNothing, Silent
  <2>3. Opened' /\ OneCreator'
    BY <1>a, <1>4 DEF TypeOK, Opened, OneCreator, Restore, Goto, Waits
  <2>4. UnitsConserved'
    BY <1>a, <1>4, <2>1 DEF TypeOK, UnitsConserved, Restore
  <2>5. QED
    BY <1>4, <2>2, <2>3, <2>4, Quiet DEF Inv, Restore
<1>5. CASE CloseTemporary(p)
  BY <1>5, CloseStep
<1>6. QED
  BY <1>1, <1>2, <1>3, <1>4, <1>5 DEF Inside

\* Every step keeps the invariant.
LEMMA Step == Inv /\ [Next]_vars => Inv'
<1> SUFFICES ASSUME Inv, [Next]_vars PROVE Inv'
  OBVIOUS
<1>1. CASE Next
  BY <1>1, OpenStep, UseStep, CloseStep, InsideStep DEF Next
<1>2. CASE UNCHANGED vars
  <2>1. InHand' = InHand
    BY <1>2, NobodyMoves DEF vars
  <2>2. QED
    BY <1>2, <2>1
    DEF Inv, vars, TypeOK, Opened, UnitsConserved, OneCreator, AnswersAlmostTrue
<1>3. QED BY <1>1, <1>2

\* The invariant holds at first.
LEMMA First == Init => Inv
<1> SUFFICES ASSUME Init PROVE Inv
  OBVIOUS
<1>1. Borrowers = {}
  BY DEF Init, Borrowers
<1>2. InHand = 0
  BY <1>1, InHandIsNat
<1>3. TypeOK
  <2>1. pc \in [Proc -> PC]
    BY DEF Init, PC
  <2>2. 0 \in 0 .. MaxCount
    BY SemaphoreConstantsOK
  <2>3. QED BY <2>1, <2>2 DEF Init, Silent, TypeOK
<1>4. Opened /\ OneCreator
  BY DEF Init, Opened, Waits, OneCreator
<1>5. UnitsConserved /\ AnswersAlmostTrue
  BY <1>2 DEF Init, Silent, UnitsConserved, AnswersAlmostTrue
<1>6. QED BY <1>3, <1>4, <1>5 DEF Inv

\* The invariant holds throughout.
LEMMA Always == Spec => []Inv
BY First, Step, PTL DEF Spec

-----------------------------------------------------------------------------
\* Every variable keeps its type: the count stays within its limits, and no answer of
\* sem_getvalue() is beyond them.
THEOREM SemaphoreTypes == Spec => []TypeOK
<1>1. Inv => TypeOK
  BY DEF Inv
<1>2. QED BY <1>1, Always, PTL

\* Units are conserved through waits, posts, queries, closes and deaths.
THEOREM UnitsAreConserved == Spec => []UnitsConserved
<1>1. Inv => UnitsConserved
  BY DEF Inv
<1>2. QED BY <1>1, Always, PTL

\* Exclusive creation has one winner as long as the winner keeps the semaphore.
THEOREM OneCreatorOnly == Spec => []OneCreator
<1>1. Inv => OneCreator
  BY DEF Inv
<1>2. QED BY <1>1, Always, PTL

\* Answers about units are off by what sem_getvalue() has in hand at most.
THEOREM AnswersAreAlmostTrue == Spec => []AnswersAlmostTrue
<1>1. Inv => AnswersAlmostTrue
  BY DEF Inv
<1>2. QED BY <1>1, Always, PTL
=============================================================================
