------------------------------- MODULE Barrier -------------------------------
(***************************************************************************)
(* pf_threads.h, the barrier for Windows before 8: a critical section, a   *)
(* manual-reset event and a generation counter.  The threads call          *)
(* pf_barrier_wait() again and again on one pf_barrier_t; pc[t] names what *)
(* t does next in the call.                                                *)
(*                                                                         *)
(* A thread reads the generation and enters the wait on the event outside  *)
(* the critical section, so both may happen before or after anything the   *)
(* last arriver of the cycle does.                                         *)
(***************************************************************************)
EXTENDS Integers, FiniteSets

CONSTANTS
  Thread,
  NoThread,
  GenMod,     \* values of the LONG generation counter (2^32 in the code)
  MaxRounds   \* BOUND: calls of pf_barrier_wait() by one thread

ASSUME BarrierConstantsOK ==
  /\ IsFiniteSet(Thread)
  /\ NoThread \notin Thread
  /\ GenMod \in Nat \ {0, 1}
  /\ MaxRounds \in Nat

PC == {"out", "check", "wait", "asleep", "bump", "set", "reset"}

VARIABLES
  total,       \* the count given to pf_barrier_init()
  waiting,     \* threads that arrived in the current cycle
  generation,  \* the current cycle
  event,       \* is the event signalled?
  cs,          \* the thread inside the critical section
  pc,
  myGen,       \* myGen[t]: the generation t saw on arrival
  arrived,     \* history: how many times t arrived
  left,        \* history: how many times t returned
  serial       \* history: how many of the returns were thrd_success

bvars == <<total, waiting, generation, event, cs>>
vars == <<total, waiting, generation, event, cs, pc, myGen, arrived, left, serial>>

NextGen(g) == IF g = GenMod - 1 THEN 0 ELSE g + 1

\* pf_barrier_init() with a positive count.
Init ==
  /\ total \in 1 .. Cardinality(Thread)
  /\ waiting = 0
  /\ generation = 0
  /\ event = FALSE
  /\ cs = NoThread
  /\ pc = [t \in Thread |-> "out"]
  /\ myGen = [t \in Thread |-> 0]
  /\ arrived = [t \in Thread |-> 0]
  /\ left = [t \in Thread |-> 0]
  /\ serial = [t \in Thread |-> 0]

\* Mutant of Arrive: the last arriver does not clear waiting.
ArriveUncleared(t) ==
  /\ pc[t] = "out"
  /\ arrived[t] < MaxRounds
  /\ cs = NoThread
  /\ arrived' = [arrived EXCEPT ![t] = @ + 1]
  /\ myGen' = [myGen EXCEPT ![t] = generation]
  /\ IF waiting + 1 = total
     THEN /\ waiting' = waiting + 1
          /\ cs' = t
          /\ pc' = [pc EXCEPT ![t] = "bump"]
     ELSE /\ waiting' = waiting + 1
          /\ pc' = [pc EXCEPT ![t] = "check"]
          /\ UNCHANGED cs
  /\ UNCHANGED <<total, generation, event, left, serial>>

\* Mutant of Arrive: b->waiting++ == b->total.
ArriveCountedLate(t) ==
  /\ pc[t] = "out"
  /\ arrived[t] < MaxRounds
  /\ cs = NoThread
  /\ arrived' = [arrived EXCEPT ![t] = @ + 1]
  /\ myGen' = [myGen EXCEPT ![t] = generation]
  /\ IF waiting = total
     THEN /\ waiting' = 0
          /\ cs' = t
          /\ pc' = [pc EXCEPT ![t] = "bump"]
     ELSE /\ waiting' = waiting + 1
          /\ pc' = [pc EXCEPT ![t] = "check"]
          /\ UNCHANGED cs
  /\ UNCHANGED <<total, generation, event, left, serial>>

\* Mutant of Arrive: the critical section is left before the generation changes.
ArriveUnlocked(t) ==
  /\ pc[t] = "out"
  /\ arrived[t] < MaxRounds
  /\ cs = NoThread
  /\ arrived' = [arrived EXCEPT ![t] = @ + 1]
  /\ myGen' = [myGen EXCEPT ![t] = generation]
  /\ IF waiting + 1 = total
     THEN /\ waiting' = 0
          /\ cs' = NoThread
          /\ pc' = [pc EXCEPT ![t] = "bump"]
     ELSE /\ waiting' = waiting + 1
          /\ pc' = [pc EXCEPT ![t] = "check"]
          /\ UNCHANGED cs
  /\ UNCHANGED <<total, generation, event, left, serial>>

\* Enter the critical section and count the arrival; all but the last arriver
\* leave it again at once.
Arrive(t) ==
  /\ pc[t] = "out"
  /\ arrived[t] < MaxRounds
  /\ cs = NoThread
  /\ arrived' = [arrived EXCEPT ![t] = @ + 1]
  /\ myGen' = [myGen EXCEPT ![t] = generation]
  /\ IF waiting + 1 = total
     THEN /\ waiting' = 0
          /\ cs' = t
          /\ pc' = [pc EXCEPT ![t] = "bump"]
     ELSE /\ waiting' = waiting + 1
          /\ pc' = [pc EXCEPT ![t] = "check"]
          /\ UNCHANGED cs
  /\ UNCHANGED <<total, generation, event, left, serial>>

\* InterlockedIncrement(&b->generation)
Bump(t) ==
  /\ pc[t] = "bump"
  /\ generation' = NextGen(generation)
  /\ pc' = [pc EXCEPT ![t] = "set"]
  /\ UNCHANGED <<total, waiting, event, cs, myGen, arrived, left, serial>>

\* SetEvent() wakes whoever is asleep on the event; LeaveCriticalSection()
Signal(t) ==
  /\ pc[t] = "set"
  /\ event' = TRUE
  /\ cs' = NoThread
  /\ pc' = [u \in Thread |-> IF u = t THEN "reset"
                             ELSE IF pc[u] = "asleep" THEN "check" ELSE pc[u]]
  /\ UNCHANGED <<total, waiting, generation, myGen, arrived, left, serial>>

\* ResetEvent(), outside the critical section; the last arriver returns.
Reset(t) ==
  /\ pc[t] = "reset"
  /\ event' = FALSE
  /\ pc' = [pc EXCEPT ![t] = "out"]
  /\ left' = [left EXCEPT ![t] = @ + 1]
  /\ serial' = [serial EXCEPT ![t] = @ + 1]
  /\ UNCHANGED <<total, waiting, generation, cs, myGen, arrived>>

\* Mutant of Check: the event alone is trusted.
CheckEvent(t) ==
  /\ pc[t] = "check"
  /\ IF ~event
     THEN pc' = [pc EXCEPT ![t] = "wait"] /\ UNCHANGED left
     ELSE pc' = [pc EXCEPT ![t] = "out"] /\ left' = [left EXCEPT ![t] = @ + 1]
  /\ UNCHANGED <<bvars, myGen, arrived, serial>>

\* while (b->generation == my_gen): go and wait, or return thrd_busy.
Check(t) ==
  /\ pc[t] = "check"
  /\ IF generation = myGen[t]
     THEN pc' = [pc EXCEPT ![t] = "wait"] /\ UNCHANGED left
     ELSE pc' = [pc EXCEPT ![t] = "out"] /\ left' = [left EXCEPT ![t] = @ + 1]
  /\ UNCHANGED <<bvars, myGen, arrived, serial>>

\* WaitForSingleObject(b->event, INFINITE)
Wait(t) ==
  /\ pc[t] = "wait"
  /\ pc' = [pc EXCEPT ![t] = IF event THEN "check" ELSE "asleep"]
  /\ UNCHANGED <<bvars, myGen, arrived, left, serial>>

\* A step of a thread inside pf_barrier_wait().
Inside(t) == Bump(t) \/ Signal(t) \/ Reset(t) \/ Check(t) \/ Wait(t)

Next == \E t \in Thread : Arrive(t) \/ Inside(t)

Spec == Init /\ [][Next]_vars

\* Threads that can run inside the call do run.  Nothing obliges a thread to call
\* the barrier again.
FairSpec == Spec /\ \A t \in Thread : WF_vars(Inside(t))

-----------------------------------------------------------------------------
TypeOK ==
  /\ total \in 1 .. Cardinality(Thread)
  /\ waiting \in 0 .. total - 1
  /\ generation \in 0 .. GenMod - 1
  /\ event \in BOOLEAN
  /\ cs \in Thread \cup {NoThread}
  /\ pc \in [Thread -> PC]
  /\ myGen \in [Thread -> 0 .. GenMod - 1]
  /\ arrived \in [Thread -> Nat]
  /\ left \in [Thread -> Nat]
  /\ serial \in [Thread -> Nat]

\* When as many threads use the barrier as it counts, nobody gets out of its k-th
\* wait before everybody has gone into theirs.
NobodyLeavesEarly ==
  total = Cardinality(Thread) => \A t, u \in Thread : left[t] <= arrived[u]

\* The sum of a history variable: the number of calls it counts, each the n-th of a thread.
Calls(f) == {c \in Thread \X (1 .. MaxRounds) : c[2] <= f[c[1]]}
Total(f) == Cardinality(Calls(f))

\* When more threads than that use it, they still get out in full groups only,
LeaveInFullGroups == Total(left) <= total * (Total(arrived) \div total)

\* and each group that has left had exactly one thrd_success, as
\* PTHREAD_BARRIER_SERIAL_THREAD gives on POSIX.
OneSerialPerGroup ==
  (\A t \in Thread : pc[t] = "out") => Total(left) = total * Total(serial)

\* "The manual-reset event lets all waiting threads wake together": whoever waits
\* in a cycle that is complete returns.
AllWake ==
  \A t \in Thread :
    (pc[t] \in {"check", "wait", "asleep"} /\ generation # myGen[t]) ~> (pc[t] = "out")
=============================================================================
