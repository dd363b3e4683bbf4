---------------------------- MODULE BarrierProofs ----------------------------
(***************************************************************************)
(* Proofs about Barrier, for any finite set of threads and any size of the *)
(* generation counter: its types, and that nobody leaves the barrier early *)
(* when it counts all the threads that use it.                             *)
(*                                                                         *)
(* NobodyLeavesEarly is not inductive: it does not say who has arrived in  *)
(* the cycle in progress.  Cur is that set, and Cycle relates it to the    *)
(* counter that the code keeps of it and to the history variables.         *)
(***************************************************************************)
EXTENDS Barrier, FiniteSetTheorems, TLAPS

\* The threads that have arrived in the cycle in progress: the generation they saw
\* is still the current one.
Cur == {t \in Thread : /\ pc[t] \in {"check", "wait", "asleep", "bump"}
                       /\ myGen[t] = generation}

\* The last arriver is alone between its arrival and the end of its critical section.
Exclusive == \A t \in Thread : pc[t] \in {"bump", "set"} => cs = t

\* A thread has left as often as it has arrived, but for the call it is in.
Balanced ==
  \A t \in Thread : arrived[t] = IF pc[t] = "out" THEN left[t] ELSE left[t] + 1

\* waiting counts the current cycle, and is zero again once the cycle is full.
Counted ==
  IF \E t \in Thread : pc[t] = "bump"
  THEN Cur = Thread /\ waiting = 0
  ELSE Cardinality(Cur) = waiting

\* Who has arrived in this cycle is one arrival ahead of who has not.
InStep ==
  \A t, u \in Thread :
    /\ (t \in Cur <=> u \in Cur) => arrived[t] = arrived[u]
    /\ t \in Cur /\ u \notin Cur => arrived[t] = arrived[u] + 1

Cycle == total = Cardinality(Thread) => Counted /\ InStep

Inv == TypeOK /\ Exclusive /\ Balanced /\ Cycle

-----------------------------------------------------------------------------
\* The next generation is a generation, and another one.
LEMMA NextGenChanges ==
  \A g \in 0 .. GenMod - 1 : NextGen(g) \in 0 .. GenMod - 1 /\ NextGen(g) # g
BY BarrierConstantsOK DEF NextGen

\* Every action keeps the types; that waiting stays below total needs it to be an
\* integer only.
LEMMA TypeStep == TypeOK /\ [Next]_vars => TypeOK'
<1> SUFFICES ASSUME TypeOK, [Next]_vars PROVE TypeOK'
  OBVIOUS
<1> USE DEF TypeOK
<1>1. ASSUME NEW t \in Thread, Arrive(t) PROVE TypeOK'
  <2>1. arrived' \in [Thread -> Nat] /\ myGen' \in [Thread -> 0 .. GenMod - 1]
    BY <1>1 DEF Arrive
  <2>2. pc' \in [Thread -> PC] /\ cs' \in Thread \cup {NoThread}
    BY <1>1 DEF Arrive, PC
  <2>3. waiting' \in 0 .. total - 1
    <3>1. Cardinality(Thread) \in Nat
      BY FS_CardinalityType, BarrierConstantsOK
    <3>2. QED BY <1>1, <3>1 DEF Arrive
  <2>4. QED BY <1>1, <2>1, <2>2, <2>3 DEF Arrive
<1>2. ASSUME NEW t \in Thread, Bump(t) PROVE TypeOK'
  BY <1>2, NextGenChanges DEF Bump, PC
<1>3. ASSUME NEW t \in Thread, Signal(t) PROVE TypeOK'
  BY <1>3 DEF Signal, PC
<1>4. ASSUME NEW t \in Thread, Reset(t) PROVE TypeOK'
  <2>1. pc' \in [Thread -> PC]
    BY <1>4 DEF Reset, PC
  <2>2. left' \in [Thread -> Nat] /\ serial' \in [Thread -> Nat]
    BY <1>4 DEF Reset
  <2>3. QED BY <1>4, <2>1, <2>2 DEF Reset
<1>5. ASSUME NEW t \in Thread, Check(t) PROVE TypeOK'
  BY <1>5 DEF Check, PC, bvars
<1>6. ASSUME NEW t \in Thread, Wait(t) PROVE TypeOK'
  BY <1>6 DEF Wait, PC, bvars
<1>7. CASE UNCHANGED vars
  BY <1>7 DEF vars
<1>8. QED
  BY <1>1, <1>2, <1>3, <1>4, <1>5, <1>6, <1>7 DEF Next, Inside

\* Every action keeps the critical section exclusive.
LEMMA ExclusiveStep == TypeOK /\ Exclusive /\ [Next]_vars => Exclusive'
<1> SUFFICES ASSUME TypeOK, Exclusive, [Next]_vars PROVE Exclusive'
  OBVIOUS
<1> USE BarrierConstantsOK DEF TypeOK, Exclusive
<1>1. ASSUME NEW t \in Thread, Arrive(t) PROVE Exclusive'
  BY <1>1 DEF Arrive
<1>2. ASSUME NEW t \in Thread, Bump(t) PROVE Exclusive'
  BY <1>2 DEF Bump
<1>3. ASSUME NEW t \in Thread, Signal(t) PROVE Exclusive'
  BY <1>3 DEF Signal
<1>4. ASSUME NEW t \in Thread, Reset(t) PROVE Exclusive'
  BY <1>4 DEF Reset
<1>5. ASSUME NEW t \in Thread, Check(t) PROVE Exclusive'
  BY <1>5 DEF Check, bvars
<1>6. ASSUME NEW t \in Thread, Wait(t) PROVE Exclusive'
  BY <1>6 DEF Wait, bvars
<1>7. CASE UNCHANGED vars
  BY <1>7 DEF vars
<1>8. QED
  BY <1>1, <1>2, <1>3, <1>4, <1>5, <1>6, <1>7 DEF Next, Inside

\* Every action keeps arrivals and departures balanced.
LEMMA BalancedStep == TypeOK /\ Balanced /\ [Next]_vars => Balanced'
<1> SUFFICES ASSUME TypeOK, Balanced, [Next]_vars PROVE Balanced'
  OBVIOUS
<1> USE DEF TypeOK, Balanced
<1>1. ASSUME NEW t \in Thread, Arrive(t) PROVE Balanced'
  BY <1>1 DEF Arrive
<1>2. ASSUME NEW t \in Thread, Bump(t) PROVE Balanced'
  BY <1>2 DEF Bump
<1>3. ASSUME NEW t \in Thread, Signal(t) PROVE Balanced'
  BY <1>3 DEF Signal
<1>4. ASSUME NEW t \in Thread, Reset(t) PROVE Balanced'
  BY <1>4 DEF Reset
<1>5. ASSUME NEW t \in Thread, Check(t) PROVE Balanced'
  BY <1>5 DEF Check, bvars
<1>6. ASSUME NEW t \in Thread, Wait(t) PROVE Balanced'
  BY <1>6 DEF Wait, bvars
<1>7. CASE UNCHANGED vars
  BY <1>7 DEF vars
<1>8. QED
  BY <1>1, <1>2, <1>3, <1>4, <1>5, <1>6, <1>7 DEF Next, Inside

\* A step that neither starts nor ends a bump, nor touches the arrivals, keeps
\* Cycle as long as it keeps the set of those who have arrived.
LEMMA CycleFrame ==
  ASSUME TypeOK, Cycle, Cur' = Cur,
         UNCHANGED <<total, waiting, arrived>>,
         \A t \in Thread : pc'[t] = "bump" <=> pc[t] = "bump"
  PROVE  Cycle'
BY DEF TypeOK, Cycle, Counted, InStep

\* The cycle is full exactly when everybody is in it, and starts empty.
LEMMA CycleStep == TypeOK /\ Exclusive /\ Cycle /\ [Next]_vars => Cycle'
<1> SUFFICES ASSUME TypeOK, Exclusive, Cycle, [Next]_vars PROVE Cycle'
  OBVIOUS
<1>1. ASSUME NEW t \in Thread, Arrive(t) PROVE Cycle'
  <2> SUFFICES ASSUME total = Cardinality(Thread) PROVE Counted' /\ InStep'
    BY <1>1 DEF Arrive, Cycle
  <2>1. \A u \in Thread : pc[u] # "bump"
    BY <1>1, BarrierConstantsOK DEF Arrive, Exclusive
  <2>2. t \notin Cur /\ Cur \subseteq Thread
    BY <1>1 DEF Arrive, Cur
  <2>3. Cur' = Cur \cup {t}
    BY <1>1 DEF Arrive, Cur, TypeOK
  <2>4. Cardinality(Cur) = waiting /\ InStep
    BY <2>1 DEF Cycle, Counted
  <2>5. IsFiniteSet(Cur) /\ IsFiniteSet(Cur')
    BY <2>2, <2>3, FS_Subset, BarrierConstantsOK
  <2>6. Cardinality(Cur') = waiting + 1
    BY <2>2, <2>3, <2>4, <2>5, FS_AddElement
  <2>7. Counted'
    <3>1. CASE waiting + 1 = total
      <4>1. Cur' = Thread
        <5>1. Cur' \in SUBSET Thread
          BY <2>2, <2>3
        <5>2. QED BY <3>1, <2>6, <5>1, FS_Subset, BarrierConstantsOK
      <4>2. pc'[t] = "bump" /\ waiting' = 0
        BY <1>1, <3>1 DEF Arrive, TypeOK
      <4>3. QED BY <4>1, <4>2 DEF Counted
    <3>2. CASE waiting + 1 # total
      <4>1. waiting' = waiting + 1 /\ \A u \in Thread : pc'[u] # "bump"
        BY <1>1, <2>1, <3>2 DEF Arrive, TypeOK
      <4>2. QED BY <2>6, <4>1 DEF Counted
    <3>3. QED BY <3>1, <3>2
  <2>8. InStep'
    BY <1>1, <2>2, <2>3, <2>4 DEF Arrive, InStep, TypeOK
  <2>9. QED BY <2>7, <2>8
<1>2. ASSUME NEW t \in Thread, Bump(t) PROVE Cycle'
  <2> SUFFICES ASSUME total = Cardinality(Thread) PROVE Counted' /\ InStep'
    BY <1>2 DEF Bump, Cycle
  <2>1. Cur = Thread /\ waiting = 0 /\ InStep
    BY <1>2 DEF Bump, Cycle, Counted
  <2>2. Cur' = {}
    <3>1. generation' # generation
      BY <1>2, NextGenChanges DEF Bump, TypeOK
    <3>2. \A u \in Thread : myGen'[u] = generation
      BY <1>2, <2>1 DEF Bump, Cur
    <3>3. QED BY <3>1, <3>2 DEF Cur
  <2>3. \A u \in Thread : pc'[u] # "bump"
    BY <1>2 DEF Bump, Exclusive, TypeOK
  <2>4. Counted'
    BY <1>2, <2>1, <2>2, <2>3, FS_EmptySet DEF Bump, Counted
  <2>5. InStep'
    BY <1>2, <2>1, <2>2 DEF Bump, InStep
  <2>6. QED BY <2>4, <2>5
<1>3. ASSUME NEW t \in Thread, Signal(t) PROVE Cycle'
  <2>1. Cur' = Cur /\ \A u \in Thread : pc'[u] = "bump" <=> pc[u] = "bump"
    BY <1>3 DEF Signal, Cur, TypeOK
  <2>2. QED BY <1>3, <2>1, CycleFrame DEF Signal
<1>4. ASSUME NEW t \in Thread, Reset(t) PROVE Cycle'
  <2>1. Cur' = Cur /\ \A u \in Thread : pc'[u] = "bump" <=> pc[u] = "bump"
    BY <1>4 DEF Reset, Cur, TypeOK
  <2>2. QED BY <1>4, <2>1, CycleFrame DEF Reset
<1>5. ASSUME NEW t \in Thread, Check(t) PROVE Cycle'
  <2>1. Cur' = Cur /\ \A u \in Thread : pc'[u] = "bump" <=> pc[u] = "bump"
    BY <1>5 DEF Check, Cur, TypeOK, bvars
  <2>2. QED BY <1>5, <2>1, CycleFrame DEF Check, bvars
<1>6. ASSUME NEW t \in Thread, Wait(t) PROVE Cycle'
  <2>1. Cur' = Cur /\ \A u \in Thread : pc'[u] = "bump" <=> pc[u] = "bump"
    BY <1>6 DEF Wait, Cur, TypeOK, bvars
  <2>2. QED BY <1>6, <2>1, CycleFrame DEF Wait, bvars
<1>7. CASE UNCHANGED vars
  BY <1>7 DEF vars, Cycle, Counted, InStep, Cur
<1>8. QED
  BY <1>1, <1>2, <1>3, <1>4, <1>5, <1>6, <1>7 DEF Next, Inside

\* The invariant holds of a barrier that pf_barrier_init() has set up.
LEMMA InitInv == Init => Inv
<1> SUFFICES ASSUME Init PROVE Inv
  OBVIOUS
<1>0. Cardinality(Thread) \in Nat
  BY FS_CardinalityType, BarrierConstantsOK
<1>1. TypeOK
  <2>1. total \in 1 .. Cardinality(Thread) /\ waiting \in 0 .. total - 1
    BY <1>0 DEF Init
  <2>2. 0 \in 0 .. GenMod - 1
    BY BarrierConstantsOK
  <2>3. pc \in [Thread -> PC] /\ myGen \in [Thread -> 0 .. GenMod - 1]
    BY <2>2 DEF Init, PC
  <2>4. arrived \in [Thread -> Nat] /\ left \in [Thread -> Nat] /\ serial \in [Thread -> Nat]
    BY DEF Init
  <2>5. QED BY <2>1, <2>2, <2>3, <2>4 DEF Init, TypeOK
<1>2. Exclusive /\ Balanced
  BY DEF Init, Exclusive, Balanced
<1>3. Cur = {}
  BY DEF Init, Cur
<1>4. Counted /\ InStep
  BY <1>3, FS_EmptySet DEF Init, Counted, InStep
<1>5. QED BY <1>1, <1>2, <1>4 DEF Inv, Cycle

\* The invariant holds in every reachable state.
LEMMA Invariance == Spec => []Inv
<1>1. Inv /\ [Next]_vars => Inv'
  BY TypeStep, ExclusiveStep, BalancedStep, CycleStep DEF Inv
<1>2. QED BY InitInv, <1>1, PTL DEF Spec

\* The variables of the barrier keep their ranges: the count of waiting threads
\* stays below the total outside the critical section.
THEOREM BarrierTypes == Spec => []TypeOK
<1>1. Inv => TypeOK
  BY DEF Inv
<1>2. QED BY Invariance, <1>1, PTL

\* With as many threads as the barrier counts, nobody returns from the k-th wait
\* before everybody has called it k times, in every interleaving of the unlocked
\* reads of the generation with the next cycle.
THEOREM NobodyLeavesTheBarrierEarly == Spec => []NobodyLeavesEarly
<1>1. Inv => NobodyLeavesEarly
  <2> SUFFICES ASSUME Inv, total = Cardinality(Thread), NEW t \in Thread, NEW u \in Thread
               PROVE  left[t] <= arrived[u]
    BY DEF NobodyLeavesEarly
  <2>1. left[t] \in Nat /\ arrived[t] \in Nat /\ arrived[u] \in Nat /\ InStep
    BY DEF Inv, TypeOK, Cycle
  <2>2. CASE pc[t] = "out"
    <3>1. t \notin Cur /\ left[t] = arrived[t]
      BY <2>2 DEF Inv, Balanced, Cur
    <3>2. QED BY <2>1, <3>1 DEF InStep
  <2>3. CASE pc[t] # "out"
    <3>1. arrived[t] = left[t] + 1
      BY <2>3 DEF Inv, Balanced
    <3>2. QED BY <2>1, <3>1 DEF InStep
  <2>4. QED BY <2>2, <2>3
<1>2. QED BY Invariance, <1>1, PTL

-----------------------------------------------------------------------------
(* Barriers used by more threads than they count: the books. *)

\* The threads in a call, those of them in a cycle that is full and not signed off by
\* its last arriver, and those that wait for the cycle in progress.
In == {t \in Thread : pc[t] # "out"}
Full == {t \in Thread : pc[t] \in {"bump", "set", "reset"}}
Waiters == {t \in Thread : pc[t] \in {"check", "wait", "asleep"} /\ myGen[t] = generation}

\* Every arrival is in a call or has left; every total of them filled a cycle, which
\* has returned thrd_success or is about to; and whoever the counter counts is there.
\* A thread that slept through GenMod cycles waits with the cycle in progress, which
\* makes more waiters than waiting says and lets nobody out.
Books ==
  /\ \A t \in Thread : arrived[t] <= MaxRounds
  /\ Total(arrived) = Total(left) + Cardinality(In)
  /\ Total(arrived) = total * (Total(serial) + Cardinality(Full)) + waiting
  /\ waiting <= Cardinality(Waiters)
  /\ \A t \in Thread : serial[t] <= left[t]
  /\ \A t \in Thread : pc[t] = "bump" => waiting = 0

\* One more call is counted once.
LEMMA OneCallMore ==
  ASSUME NEW f \in [Thread -> Nat], NEW t \in Thread, f[t] < MaxRounds
  PROVE  Total(f) \in Nat /\ Total([f EXCEPT ![t] = @ + 1]) = Total(f) + 1
<1> DEFINE call == <<t, f[t] + 1>>
<1>1. Calls([f EXCEPT ![t] = @ + 1]) = Calls(f) \cup {call}
  <2>1. call \in Thread \X (1 .. MaxRounds)
    BY BarrierConstantsOK
  <2>2. ASSUME NEW c \in Thread \X (1 .. MaxRounds)
        PROVE  c[2] <= [f EXCEPT ![t] = @ + 1][c[1]] <=> c[2] <= f[c[1]] \/ c = call
    <3>1. c = <<c[1], c[2]>> /\ c[1] \in Thread /\ c[2] \in 1 .. MaxRounds
      OBVIOUS
    <3>2. CASE c[1] = t
      BY <3>1, <3>2, BarrierConstantsOK
    <3>3. CASE c[1] # t
      BY <3>1, <3>3
    <3>4. QED BY <3>2, <3>3
  <2>3. QED BY <2>1, <2>2 DEF Calls
<1>2. call \notin Calls(f)
  BY DEF Calls
<1>3. IsFiniteSet(Calls(f))
  <2>1. IsFiniteSet(1 .. MaxRounds)
    BY FS_Interval, BarrierConstantsOK
  <2>2. IsFiniteSet(Thread \X (1 .. MaxRounds))
    BY <2>1, FS_Product, BarrierConstantsOK
  <2>3. QED BY <2>2, FS_Subset DEF Calls
<1>4. QED BY <1>1, <1>2, <1>3, FS_AddElement, FS_CardinalityType DEF Total

\* The sum of nothing.
LEMMA NoCalls == Total([t \in Thread |-> 0]) = 0
<1>1. Calls([t \in Thread |-> 0]) = {}
  BY DEF Calls
<1>2. QED BY <1>1, FS_EmptySet DEF Total

\* A sum is a number.
LEMMA TotalIsNat == ASSUME NEW f \in [Thread -> Nat] PROVE Total(f) \in Nat
<1>1. IsFiniteSet(1 .. MaxRounds)
  BY FS_Interval, BarrierConstantsOK
<1>2. IsFiniteSet(Thread \X (1 .. MaxRounds))
  BY <1>1, FS_Product, BarrierConstantsOK
<1>3. QED BY <1>2, FS_Subset, FS_CardinalityType DEF Calls, Total

\* A thread that comes into a set of threads, or leaves it, is one.
LEMMA OneThreadMore ==
  ASSUME NEW S \in SUBSET Thread, NEW t \in Thread
  PROVE  /\ Cardinality(S) \in Nat
         /\ t \notin S => Cardinality(S \cup {t}) = Cardinality(S) + 1
         /\ t \in S => Cardinality(S \ {t}) = Cardinality(S) - 1
<1>1. IsFiniteSet(S)
  BY FS_Subset, BarrierConstantsOK
<1>2. QED BY <1>1, FS_AddElement, FS_RemoveElement, FS_CardinalityType

\* A cycle more.
LEMMA OneCycleMore ==
  ASSUME NEW k \in Nat
  PROVE  total \in Nat => total * k \in Nat /\ total * (k + 1) = total * k + total
OBVIOUS

\* The cycles in a number of arrivals.
LEMMA FullCycles ==
  ASSUME NEW d \in Nat \ {0}, NEW k \in Nat, NEW w \in 0 .. d - 1
  PROVE  (d * k + w) \div d = k
OBVIOUS

\* A step that leaves the books alone.
LEMMA BooksFrame ==
  ASSUME Books, UNCHANGED <<total, waiting, arrived, left, serial>>,
         In' = In, Full' = Full, Waiters' = Waiters,
         \A t \in Thread : pc'[t] = "bump" => pc[t] = "bump"
  PROVE  Books'
BY DEF Books, Total, Calls

\* Every action keeps the books.
LEMMA BooksStep == TypeOK /\ TypeOK' /\ Exclusive /\ Balanced /\ Books /\ [Next]_vars => Books'
<1> SUFFICES ASSUME TypeOK, TypeOK', Exclusive, Balanced, Books, [Next]_vars PROVE Books'
  OBVIOUS
<1>0. /\ In \in SUBSET Thread /\ Full \in SUBSET Thread /\ Waiters \in SUBSET Thread
      /\ Total(arrived) \in Nat /\ Total(left) \in Nat /\ Total(serial) \in Nat
      /\ total \in Nat \ {0} /\ waiting \in 0 .. total - 1
  <2>1. Cardinality(Thread) \in Nat
    BY FS_CardinalityType, BarrierConstantsOK
  <2>2. Total(arrived) \in Nat /\ Total(left) \in Nat /\ Total(serial) \in Nat
    BY TotalIsNat DEF TypeOK
  <2>3. QED BY <2>1, <2>2 DEF In, Full, Waiters, TypeOK
<1>1. ASSUME NEW t \in Thread, Arrive(t) PROVE Books'
  <2>1. Total(arrived') = Total(arrived) + 1
    BY <1>1, OneCallMore DEF Arrive, TypeOK
  <2>2. Cardinality(In') = Cardinality(In) + 1
    <3>1. t \notin In /\ In' = In \cup {t}
      BY <1>1 DEF Arrive, In, TypeOK
    <3>2. QED BY <1>0, <3>1, OneThreadMore
  <2>3. \A u \in Thread : arrived'[u] <= MaxRounds
    BY <1>1, BarrierConstantsOK DEF Arrive, Books, TypeOK
  <2>4. UNCHANGED <<left, serial, total, generation>>
    BY <1>1 DEF Arrive
  <2>5. CASE waiting + 1 = total
    <3>1. t \notin Full /\ Full' = Full \cup {t} /\ waiting' = 0
      BY <1>1, <2>5 DEF Arrive, Full, TypeOK
    <3>2. Cardinality(Full') = Cardinality(Full) + 1 /\ Cardinality(Full) \in Nat
      BY <1>0, <3>1, OneThreadMore
    <3>3. total * (Total(serial) + Cardinality(Full'))
            = total * (Total(serial) + Cardinality(Full)) + total
      <4> DEFINE k == Total(serial) + Cardinality(Full)
      <4>1. k \in Nat /\ Total(serial) + Cardinality(Full') = k + 1
        BY <1>0, <3>2
      <4> HIDE DEF k
      <4>2. total * (k + 1) = total * k + total
        BY <1>0, <4>1, OneCycleMore
      <4>3. QED BY <4>1, <4>2 DEF k
    <3>4. Waiters' \in SUBSET Thread
      BY DEF Waiters
    <3>5. waiting' <= Cardinality(Waiters')
      <4>1. Cardinality(Waiters') \in Nat
        BY <1>1, <3>4, OneThreadMore
      <4>2. QED BY <3>1, <4>1
    <3>6. Total(serial') = Total(serial) /\ Total(left') = Total(left)
      BY <2>4
    <3>7. total * (Total(serial) + Cardinality(Full)) \in Nat
      BY <1>0, <3>2, OneCycleMore
    <3>8. Total(arrived') = total * (Total(serial) + Cardinality(Full')) + waiting'
      BY <1>0, <2>1, <2>5, <3>1, <3>3, <3>7 DEF Books
    <3>9. QED
      <4>1. Total(arrived') = Total(left') + Cardinality(In')
        <5>1. Cardinality(In) \in Nat
          BY <1>0, OneThreadMore
        <5>2. QED BY <1>0, <2>1, <2>2, <3>6, <5>1 DEF Books
      <4>2. \A u \in Thread : serial'[u] <= left'[u]
        BY <2>4 DEF Books
      <4>3. QED BY <2>3, <3>1, <3>5, <3>6, <3>8, <4>1, <4>2, <2>4 DEF Books
  <2>6. CASE waiting + 1 # total
    <3>1. /\ Full' = Full /\ waiting' = waiting + 1
          /\ t \notin Waiters /\ Waiters' = Waiters \cup {t}
      BY <1>1, <2>6 DEF Arrive, Full, Waiters, TypeOK
    <3>2. Cardinality(Waiters') = Cardinality(Waiters) + 1 /\ Cardinality(Waiters) \in Nat
          /\ Cardinality(Full) \in Nat /\ Cardinality(In) \in Nat
      BY <1>0, <3>1, OneThreadMore
    <3>3. total * (Total(serial) + Cardinality(Full)) \in Nat
      BY <1>0, <3>2, OneCycleMore
    <3>4. \A u \in Thread : pc'[u] # "bump"
      BY <1>1, <2>6, BarrierConstantsOK DEF Arrive, Exclusive, TypeOK
    <3>5. Total(arrived') = total * (Total(serial) + Cardinality(Full)) + waiting'
      BY <1>0, <2>1, <3>1, <3>3 DEF Books
    <3>6. QED
      BY <1>0, <2>1, <2>2, <2>3, <2>4, <3>1, <3>2, <3>4, <3>5 DEF Books
  <2>7. QED BY <2>5, <2>6
<1>2. ASSUME NEW t \in Thread, Bump(t) PROVE Books'
  <2>1. In' = In /\ Full' = Full /\ waiting' = 0 /\ waiting = 0
    BY <1>2 DEF Bump, In, Full, TypeOK, Books
  <2>2. Waiters' \in SUBSET Thread
    BY DEF Waiters
  <2>3. Cardinality(Waiters') \in Nat
    BY <1>2, <2>2, OneThreadMore
  <2>4. QED BY <1>2, <2>1, <2>3 DEF Bump, Books
<1>3. ASSUME NEW t \in Thread, Signal(t) PROVE Books'
  <2>1. In' = In /\ Full' = Full /\ Waiters' = Waiters /\ \A u \in Thread : pc'[u] = "bump" => pc[u] = "bump"
    BY <1>3 DEF Signal, In, Full, Waiters, TypeOK
  <2>2. QED BY <1>3, <2>1, BooksFrame DEF Signal
<1>4. ASSUME NEW t \in Thread, Reset(t) PROVE Books'
  <2>1. /\ t \in In /\ In' = In \ {t} /\ t \in Full /\ Full' = Full \ {t} /\ Waiters' = Waiters
        /\ \A u \in Thread : pc'[u] = "bump" => pc[u] = "bump"
    BY <1>4 DEF Reset, In, Full, Waiters, TypeOK
  <2>2. /\ Cardinality(In') = Cardinality(In) - 1 /\ Cardinality(Full') = Cardinality(Full) - 1
        /\ Cardinality(In) \in Nat /\ Cardinality(Full) \in Nat
    BY <1>0, <2>1, OneThreadMore
  <2>3. left[t] < MaxRounds /\ serial[t] < MaxRounds
    BY <1>4, BarrierConstantsOK DEF Reset, Books, Balanced, TypeOK
  <2>4. Total(left') = Total(left) + 1 /\ Total(serial') = Total(serial) + 1
    BY <1>4, <2>3, OneCallMore DEF Reset, TypeOK
  <2>5. Total(serial') + Cardinality(Full') = Total(serial) + Cardinality(Full)
    BY <1>0, <2>2, <2>4
  <2>6. \A u \in Thread : serial'[u] <= left'[u]
    BY <1>4 DEF Reset, Books, TypeOK
  <2>7. Total(arrived') = Total(left') + Cardinality(In')
    BY <1>0, <1>4, <2>2, <2>4 DEF Reset, Books
  <2>8. QED BY <1>4, <2>1, <2>5, <2>6, <2>7 DEF Reset, Books
<1>5. ASSUME NEW t \in Thread, Check(t) PROVE Books'
  <2>1. Full' = Full /\ Waiters' = Waiters /\ \A u \in Thread : pc'[u] = "bump" => pc[u] = "bump"
    BY <1>5 DEF Check, Full, Waiters, TypeOK, bvars
  <2>2. CASE generation = myGen[t]
    <3>1. In' = In
      BY <1>5, <2>2 DEF Check, In, TypeOK
    <3>2. QED BY <1>5, <2>1, <2>2, <3>1, BooksFrame DEF Check, bvars
  <2>3. CASE generation # myGen[t]
    <3>1. t \in In /\ In' = In \ {t}
      BY <1>5, <2>3 DEF Check, In, TypeOK
    <3>2. Cardinality(In') = Cardinality(In) - 1 /\ Cardinality(In) \in Nat
      BY <1>0, <3>1, OneThreadMore
    <3>3. left[t] < MaxRounds
      BY <1>5, BarrierConstantsOK DEF Check, Books, Balanced, TypeOK
    <3>4. Total(left') = Total(left) + 1
      BY <1>5, <2>3, <3>3, OneCallMore DEF Check, TypeOK
    <3>5. Total(arrived') = Total(left') + Cardinality(In')
      BY <1>0, <1>5, <3>2, <3>4 DEF Check, Books
    <3>6. \A u \in Thread : serial'[u] <= left'[u]
      BY <1>5, <2>3 DEF Check, Books, TypeOK
    <3>7. QED BY <1>5, <2>1, <3>5, <3>6 DEF Check, Books, bvars
  <2>4. QED BY <2>2, <2>3
<1>6. ASSUME NEW t \in Thread, Wait(t) PROVE Books'
  <2>1. In' = In /\ Full' = Full /\ Waiters' = Waiters /\ \A u \in Thread : pc'[u] = "bump" => pc[u] = "bump"
    BY <1>6 DEF Wait, In, Full, Waiters, TypeOK, bvars
  <2>2. QED BY <1>6, <2>1, BooksFrame DEF Wait, bvars
<1>7. CASE UNCHANGED vars
  BY <1>7 DEF vars, Books, In, Full, Waiters
<1>8. QED
  BY <1>1, <1>2, <1>3, <1>4, <1>5, <1>6, <1>7 DEF Next, Inside

\* The books are right in every reachable state.
LEMMA BooksInvariance == Spec => [](Inv /\ Books)
<1>1. Init => Books
  <2> SUFFICES ASSUME Init PROVE Books
    OBVIOUS
  <2>1. In = {} /\ Full = {} /\ Waiters = {} /\ total \in Nat
    BY FS_CardinalityType, BarrierConstantsOK DEF Init, In, Full, Waiters
  <2>2. Total(arrived) = 0 /\ Total(left) = 0 /\ Total(serial) = 0
    BY NoCalls DEF Init
  <2>3. QED BY <2>1, <2>2, FS_EmptySet, BarrierConstantsOK DEF Init, Books
<1>2. Inv /\ Inv' /\ Books /\ [Next]_vars => Books'
  BY BooksStep DEF Inv
<1>3. QED BY Invariance, <1>1, <1>2, PTL DEF Spec

\* However many threads use the barrier, and however the generation counter wraps,
\* as many have left as some number of full cycles lets out, or fewer.
THEOREM GroupsAreFull == Spec => []LeaveInFullGroups
<1>1. Inv /\ Books => LeaveInFullGroups
  <2> SUFFICES ASSUME Inv, Books PROVE Total(left) <= total * (Total(arrived) \div total)
    BY DEF LeaveInFullGroups
  <2>1. /\ In \in SUBSET Thread /\ Full \in SUBSET Thread /\ Waiters \subseteq In
        /\ Total(arrived) \in Nat /\ Total(left) \in Nat /\ Total(serial) \in Nat
        /\ total \in Nat \ {0} /\ waiting \in 0 .. total - 1
    BY TotalIsNat, FS_CardinalityType, BarrierConstantsOK DEF In, Full, Waiters, TypeOK, Inv
  <2>2. Cardinality(Waiters) <= Cardinality(In) /\ Cardinality(In) \in Nat
        /\ Cardinality(Waiters) \in Nat /\ Cardinality(Full) \in Nat
    <3>1. IsFiniteSet(In) /\ IsFiniteSet(Full)
      BY <2>1, FS_Subset, BarrierConstantsOK
    <3>2. QED BY <2>1, <3>1, FS_Subset, FS_CardinalityType
  <2> DEFINE k == Total(serial) + Cardinality(Full)
  <2>3. k \in Nat /\ Total(arrived) = total * k + waiting
    BY <2>1, <2>2 DEF Books
  <2> HIDE DEF k
  <2>4. Total(arrived) \div total = k /\ total * k \in Nat
    BY <2>1, <2>3, FullCycles, OneCycleMore
  <2>5. Total(left) <= total * k
    BY <2>1, <2>2, <2>3, <2>4 DEF Books
  <2>6. QED BY <2>4, <2>5
<1>2. QED BY BooksInvariance, <1>1, PTL

\* Each full group has had exactly one thrd_success when everybody is out.
THEOREM OneSerialInEachGroup == Spec => []OneSerialPerGroup
<1>1. Inv /\ Books => OneSerialPerGroup
  <2> SUFFICES ASSUME Inv, Books, \A t \in Thread : pc[t] = "out"
               PROVE  Total(left) = total * Total(serial)
    BY DEF OneSerialPerGroup
  <2>1. In = {} /\ Full = {} /\ Waiters = {}
    BY DEF In, Full, Waiters
  <2>2. /\ Total(left) \in Nat /\ Total(serial) \in Nat
        /\ total \in Nat /\ waiting \in 0 .. total - 1
    BY TotalIsNat, FS_CardinalityType, BarrierConstantsOK DEF TypeOK, Inv
  <2>3. total * Total(serial) \in Nat
    BY <2>2, OneCycleMore
  <2>4. QED BY <2>1, <2>2, <2>3, FS_EmptySet DEF Books
<1>2. QED BY BooksInvariance, <1>1, PTL
=============================================================================
