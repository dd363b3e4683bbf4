----------------------------- MODULE Semaphore -----------------------------
(***************************************************************************)
(* pf_semaphore.h on Windows: one named semaphore and the processes that   *)
(* open, use, unlink and close it.  The kernel's object lives as long as   *)
(* any handle to it is open, sem_t or temporary: sem_open() with O_EXCL    *)
(* opens an object that exists before it rejects it, and sem_unlink()      *)
(* opens it to see that it exists.  sem_getvalue() takes a unit and gives  *)
(* it back.  A process may die anywhere; the kernel closes its handles.    *)
(***************************************************************************)
EXTENDS Integers, FiniteSets

CONSTANTS
  Proc,
  MaxCount,  \* SEM_VALUE_MAX
  MaxValue   \* BOUND: units a semaphore is posted up to

ASSUME SemaphoreConstantsOK ==
  /\ IsFiniteSet(Proc)
  /\ MaxCount \in Nat \ {0}
  /\ MaxValue \in Nat

\* The waits of sem_wait() and sem_timedwait(), and the calls that are two system
\* calls: their second one comes next.
Waits == {"wait", "timed"}
Temporary == {"reject", "unlink"}
PC == {"out", "restore"} \cup Waits \cup Temporary

VARIABLES
  count,   \* the kernel's count
  sem,     \* the processes that have a sem_t, which is a handle of theirs
  pc,
  answer,  \* what the last step made a call say about units
  creators,\* the processes in sem that sem_open() with O_EXCL made the creator
  value,   \* history: initial units, plus posts, minus waits that succeeded
  lossy    \* history: a process died or failed while it had a unit to give back

Silent == [code |-> "none", sval |-> 0]

object == <<count, value, lossy>>
vars == <<count, sem, pc, answer, creators, value, lossy>>

Handles == sem \cup {p \in Proc : pc[p] \in Temporary}
Exists == Handles # {}
Borrowers == {p \in Proc : pc[p] = "restore"}

Init ==
  /\ count = 0
  /\ sem = {}
  /\ pc = [p \in Proc |-> "out"]
  /\ answer = Silent
  /\ creators = {}
  /\ value = 0
  /\ lossy = FALSE

Goto(p, l) == pc' = [pc EXCEPT ![p] = l]
Say(code) == answer' = [code |-> code, sval |-> 0]
SayValue(n) == answer' = [code |-> "value", sval |-> n]
SayNothing == answer' = Silent

\* CreateSemaphoreA() on a name that does not exist.
Create(v) ==
  /\ count' = v
  /\ value' = v
  /\ lossy' = FALSE

\* The object goes with its last handle.
Drop(last) ==
  IF last THEN count' = 0 /\ value' = 0 /\ lossy' = FALSE ELSE UNCHANGED object

-----------------------------------------------------------------------------
\* sem_open() with O_CREAT: the initial value counts if the object is new.
OpenCreate(p, v) ==
  /\ pc[p] = "out"
  /\ p \notin sem
  /\ IF Exists THEN UNCHANGED object ELSE Create(v)
  /\ sem' = sem \cup {p}
  /\ SayNothing
  /\ UNCHANGED <<pc, creators>>

\* Mutant of OpenExclusive: ERROR_ALREADY_EXISTS is not looked for.
OpenUnchecked(p, v) ==
  /\ pc[p] = "out"
  /\ p \notin sem
  /\ IF Exists THEN UNCHANGED object ELSE Create(v)
  /\ sem' = sem \cup {p}
  /\ creators' = creators \cup {p}
  /\ SayNothing
  /\ UNCHANGED pc

\* sem_open() with O_CREAT | O_EXCL
OpenExclusive(p, v) ==
  /\ pc[p] = "out"
  /\ p \notin sem
  /\ IF Exists
     THEN Goto(p, "reject") /\ UNCHANGED <<object, sem, creators>>
     ELSE /\ Create(v)
          /\ sem' = sem \cup {p}
          /\ creators' = creators \cup {p}
          /\ UNCHANGED pc
  /\ SayNothing

\* sem_open() without O_CREAT, of an object that exists
OpenExisting(p) ==
  /\ pc[p] = "out"
  /\ p \notin sem
  /\ Exists
  /\ sem' = sem \cup {p}
  /\ SayNothing
  /\ UNCHANGED <<object, pc, creators>>

\* sem_unlink() of an object that exists: OpenSemaphoreA()
Unlink(p) ==
  /\ pc[p] = "out"
  /\ Exists
  /\ Goto(p, "unlink")
  /\ SayNothing
  /\ UNCHANGED <<object, sem, creators>>

\* CloseHandle() of the temporary handle; EEXIST, or the success of sem_unlink()
CloseTemporary(p) ==
  /\ pc[p] \in Temporary
  /\ Goto(p, "out")
  /\ Drop(p \notin sem /\ Handles = {p})
  /\ SayNothing
  /\ UNCHANGED <<sem, creators>>

\* sem_close()
Close(p) ==
  /\ pc[p] = "out"
  /\ p \in sem
  /\ sem' = sem \ {p}
  /\ creators' = creators \ {p}
  /\ Drop(Handles = {p})
  /\ SayNothing
  /\ UNCHANGED pc

Die(p) ==
  /\ p \in Handles
  /\ sem' = sem \ {p}
  /\ creators' = creators \ {p}
  /\ Goto(p, "out")
  /\ SayNothing
  /\ IF Handles = {p}
     THEN Drop(TRUE)
     ELSE lossy' = (lossy \/ pc[p] = "restore") /\ UNCHANGED <<count, value>>

-----------------------------------------------------------------------------
\* sem_wait() and sem_timedwait() enter their wait.
Wait(p, how) ==
  /\ pc[p] = "out"
  /\ p \in sem
  /\ Goto(p, how)
  /\ SayNothing
  /\ UNCHANGED <<object, sem, creators>>

\* WAIT_OBJECT_0
Take(p) ==
  /\ pc[p] \in Waits
  /\ count > 0
  /\ count' = count - 1
  /\ value' = value - 1
  /\ Goto(p, "out")
  /\ SayNothing
  /\ UNCHANGED <<lossy, sem, creators>>

\* WAIT_TIMEOUT: the kernel says so only while the count is 0.
TimedOut(p) ==
  /\ pc[p] = "timed"
  /\ count = 0
  /\ Goto(p, "out")
  /\ Say("ETIMEDOUT")
  /\ UNCHANGED <<object, sem, creators>>

TryWait(p) ==
  /\ pc[p] = "out"
  /\ p \in sem
  /\ IF count > 0
     THEN count' = count - 1 /\ value' = value - 1 /\ SayNothing
     ELSE UNCHANGED <<count, value>> /\ Say("EAGAIN")
  /\ UNCHANGED <<lossy, sem, pc, creators>>

\* ReleaseSemaphore() fails at the maximum: EOVERFLOW.
Post(p) ==
  /\ pc[p] = "out"
  /\ p \in sem
  /\ value < MaxValue
  /\ IF count < MaxCount
     THEN count' = count + 1 /\ value' = value + 1 /\ SayNothing
     ELSE UNCHANGED <<count, value>> /\ Say("EOVERFLOW")
  /\ UNCHANGED <<lossy, sem, pc, creators>>

\* Mutant of GetValue: the result of the wait is not looked at.
GetValueUnchecked(p) ==
  /\ pc[p] = "out"
  /\ p \in sem
  /\ count' = count - 1
  /\ Goto(p, "restore")
  /\ SayNothing
  /\ UNCHANGED <<value, lossy, sem, creators>>

\* sem_getvalue(): WaitForSingleObject() with timeout 0 takes a unit, or there is
\* none and the answer is 0.
GetValue(p) ==
  /\ pc[p] = "out"
  /\ p \in sem
  /\ IF count > 0
     THEN count' = count - 1 /\ Goto(p, "restore") /\ SayNothing
     ELSE SayValue(0) /\ UNCHANGED <<count, pc>>
  /\ UNCHANGED <<value, lossy, sem, creators>>

\* Mutant of Restore: the count before is the answer.
RestoreOffByOne(p) ==
  /\ pc[p] = "restore"
  /\ Goto(p, "out")
  /\ IF count < MaxCount
     THEN count' = count + 1 /\ SayValue(count) /\ UNCHANGED lossy
     ELSE lossy' = TRUE /\ SayNothing /\ UNCHANGED count
  /\ UNCHANGED <<value, sem, creators>>

\* Mutant of Restore: the unit is not given back.
RestoreForgotten(p) ==
  /\ pc[p] = "restore"
  /\ Goto(p, "out")
  /\ SayNothing
  /\ UNCHANGED <<object, sem, creators>>

\* ReleaseSemaphore() gives the unit back and tells the count before; it fails when
\* posts have filled the semaphore meanwhile.
Restore(p) ==
  /\ pc[p] = "restore"
  /\ Goto(p, "out")
  /\ IF count < MaxCount
     THEN count' = count + 1 /\ SayValue(count + 1) /\ UNCHANGED lossy
     ELSE lossy' = TRUE /\ SayNothing /\ UNCHANGED count
  /\ UNCHANGED <<value, sem, creators>>

-----------------------------------------------------------------------------
\* A step of a process inside a call.
Inside(p) == CloseTemporary(p) \/ Take(p) \/ TimedOut(p) \/ Restore(p)

Open(p) ==
  \/ \E v \in 0 .. MaxCount : OpenCreate(p, v) \/ OpenExclusive(p, v)
  \/ OpenExisting(p)

Use(p) == (\E how \in Waits : Wait(p, how)) \/ TryWait(p) \/ Post(p) \/ GetValue(p)

Next == \E p \in Proc : Inside(p) \/ Open(p) \/ Use(p) \/ Unlink(p) \/ Close(p) \/ Die(p)

Spec == Init /\ [][Next]_vars

\* A process inside a call runs, and a wait on a count that stays positive ends.
\* Nothing makes anybody post, and no wait is served before another.
FairSpec == Spec /\ \A p \in Proc : WF_vars(Inside(p))

-----------------------------------------------------------------------------
TypeOK ==
  /\ count \in 0 .. MaxCount
  /\ sem \subseteq Proc
  /\ pc \in [Proc -> PC]
  /\ answer \in [code : {"none", "EAGAIN", "ETIMEDOUT", "EOVERFLOW", "value"},
                 sval : 0 .. MaxCount]
  /\ creators \subseteq sem
  /\ value \in Nat
  /\ lossy \in BOOLEAN

InHand == Cardinality(Borrowers)

\* No unit is invented, and none is lost unless a process has died inside
\* sem_getvalue(), or posts have filled the semaphore while it had its unit.
UnitsConserved == IF lossy THEN count + InHand <= value ELSE count + InHand = value

\* sem_open() with O_EXCL does not make two processes that still have the semaphore
\* its creator.
OneCreator == \A p, q \in creators : p = q

\* What a call says about the units is true but for those that sem_getvalue() calls
\* have in hand: the answer of sem_getvalue(), EAGAIN, ETIMEDOUT and EOVERFLOW.
AnswersAlmostTrue ==
  ~lossy =>
    /\ answer.code = "value" =>
         value - InHand <= answer.sval /\ answer.sval <= value
    /\ answer.code \in {"EAGAIN", "ETIMEDOUT"} => value <= InHand
    /\ answer.code = "EOVERFLOW" => value >= MaxCount

\* A process waits for ever only if the semaphore is empty again and again, or others
\* keep asking for its value, or a unit was lost that way.
WaitsOnlyForUnits ==
  \A p \in Proc :
    <>[](pc[p] = "wait") => []<>(value = 0 \/ Borrowers # {} \/ lossy)

\* The comment on sem_t: "sem_close releases our reference without destroying the
\* kernel object".
CloseKeepsObject == [][\A p \in Proc : Close(p) => Exists']_vars
=============================================================================
