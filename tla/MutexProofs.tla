----------------------------- MODULE MutexProofs -----------------------------
(***************************************************************************)
(* Proofs about Mutex, for every set of thread ids, every set of threads   *)
(* that end with the mutex and every bound on the locks of a thread, as    *)
(* long as the id of a thread that ended with the mutex is not reused.     *)
(*                                                                         *)
(* MutualExclusion holds because what a thread believes, what the tracked  *)
(* fields say and what the kernel knows agree at every step; Agreement is  *)
(* that, thread by thread and control point by control point.              *)
(***************************************************************************)
EXTENDS Mutex, TLAPS

\* A thread that is inside a locking call, or was let in by one.
Entering == Calls \cup {"own"}

\* What a thread believes is what the kernel knows.
Believes(t) ==
  /\ held[t] > 0 => holder = t
  /\ pc[t] = "own" => holder = t /\ timed
  /\ pc[t] = "release" => held[t] > 0
  /\ pc[t] \in Entering => held[t] < MaxHeld
  /\ pc[t] = "ended" => held[t] = 0
  /\ pc[t] = "ended" /\ holder = t => t \in Reckless

\* What owner and count say of t.
Tracks(t) == Tracked =>
  /\ owner = t => IF pc[t] = "ended" THEN t \in Reckless
                  ELSE held[t] > 0 /\ count = held[t]
  /\ held[t] > 0 => IF pc[t] = "release" THEN held[t] = 1 ELSE owner = t
  /\ pc[t] \in Entering => held[t] = 0
  /\ pc[t] = "release" => owner # t

\* The kernel counts at least the locks that t has, and exactly those unless t was
\* told that it got none of them.
Counts(t) == holder = t =>
  /\ ~Tracked => depth >= held[t] + (IF pc[t] = "own" THEN 1 ELSE 0)
  /\ pc[t] # "ended" /\ t \notin cheated =>
       /\ held[t] > 0 \/ pc[t] = "own"
       /\ depth = IF Tracked THEN 1 ELSE held[t] + (IF pc[t] = "own" THEN 1 ELSE 0)

Free == /\ holder = NoThread <=> depth = 0
        /\ abandoned \/ cheated # {} => timed

Agreement == \A t \in Thread : Believes(t) /\ Tracks(t) /\ Counts(t)

Inv == TypeOK /\ Free /\ Agreement

-----------------------------------------------------------------------------
\* The invariant holds of a mutex that mtx_init() has set up.
LEMMA InitInv == Init => Inv
<1> SUFFICES ASSUME Init PROVE Inv
  OBVIOUS
<1> USE MutexConstantsOK DEF Init
<1>1. TypeOK
  <2>1. pc \in [Thread -> PC]
    BY DEF PC
  <2>2. held \in [Thread -> 0 .. MaxHeld]
    OBVIOUS
  <2>3. QED BY <2>1, <2>2 DEF TypeOK
<1>2. Free
  BY DEF Free
<1>3. Agreement
  <2> SUFFICES ASSUME NEW t \in Thread PROVE Believes(t) /\ Tracks(t) /\ Counts(t)
    BY DEF Agreement
  <2>1. pc[t] = "out" /\ held[t] = 0 /\ holder # t /\ owner # t
    OBVIOUS
  <2>2. QED BY <2>1 DEF Believes, Tracks, Counts, Entering, Calls
<1>4. QED BY <1>1, <1>2, <1>3 DEF Inv

\* Every action keeps the types, the fields of the kernel consistent, and the three
\* views of each thread in agreement.
LEMMA InvStep == FreshIds /\ Inv /\ [Next]_vars => Inv'
<1> SUFFICES ASSUME FreshIds, Inv, [Next]_vars PROVE Inv'
  OBVIOUS
<1>0. TypeOK /\ Free /\ Agreement
  BY DEF Inv
<1> USE <1>0, MutexConstantsOK
<1>1. ASSUME NEW t \in Thread, Reenter(t) PROVE Inv'
  <2>1. Believes(t) /\ Tracks(t) /\ Counts(t)
    BY DEF Agreement
  <2>2. TypeOK'
    BY <1>1, <2>1 DEF Reenter, TypeOK, kinds, kernel
  <2>3. Free'
    BY <1>1 DEF Reenter, Free, kinds, kernel
  <2>4. ASSUME NEW u \in Thread PROVE (Believes(u) /\ Tracks(u) /\ Counts(u))'
    <3>1. CASE u = t
      BY <1>1, <2>1, <3>1 DEF Reenter, TypeOK, kinds, kernel, Believes, Tracks, Counts,
        Tracked, Entering, Calls
    <3>2. CASE u # t
      BY <1>1, <3>2 DEF Reenter, TypeOK, kinds, kernel, Agreement, Believes, Tracks,
        Counts, Tracked
    <3>3. QED BY <3>1, <3>2
  <2>5. QED BY <2>2, <2>3, <2>4 DEF Inv, Agreement
<1>2. ASSUME NEW t \in Thread, NEW call \in Calls, Ask(t, call) PROVE Inv'
  <2>1. Believes(t) /\ Tracks(t) /\ Counts(t)
    BY DEF Agreement
  <2>2. TypeOK'
    BY <1>2 DEF Ask, Goto, TypeOK, PC, kinds, kernel, fields
  <2>3. Free'
    BY <1>2 DEF Ask, Free, kinds, kernel
  <2>4. ASSUME NEW u \in Thread PROVE (Believes(u) /\ Tracks(u) /\ Counts(u))'
    <3>1. CASE u = t
      BY <1>2, <2>1, <3>1 DEF Ask, Goto, TypeOK, kinds, kernel, fields, Believes,
        Tracks, Counts, Tracked, Entering, Calls
    <3>2. CASE u # t
      BY <1>2, <3>2 DEF Ask, Goto, TypeOK, kinds, kernel, fields, Agreement, Believes,
        Tracks, Counts, Tracked
    <3>3. QED BY <3>1, <3>2
  <2>5. QED BY <2>2, <2>3, <2>4 DEF Inv, Agreement
<1>3. ASSUME NEW t \in Thread, Acquire(t) PROVE Inv'
  <2>1. Believes(t) /\ Tracks(t) /\ Counts(t)
    BY DEF Agreement
  <2>2. TypeOK'
    <3>1. pc' \in [Thread -> PC]
      BY <1>3 DEF Acquire, Goto, TypeOK, PC, Calls
    <3>2. held' \in [Thread -> 0 .. MaxHeld]
      BY <1>3, <2>1 DEF Acquire, TypeOK, Believes, Entering
    <3>3. cheated' \subseteq Thread
      BY <1>3 DEF Acquire, TypeOK
    <3>4. UNCHANGED <<timed, recursive, owner, count>> /\ abandoned' = FALSE
      BY <1>3 DEF Acquire, kinds, fields
    <3>5. holder' \in Thread /\ depth' \in Nat
      BY <1>3 DEF Acquire, TypeOK
    <3>6. QED BY <3>1, <3>2, <3>3, <3>4, <3>5 DEF TypeOK
  <2>3. Free'
    <3>1. holder' = t /\ depth' = depth + 1 /\ ~abandoned' /\ timed' = timed
      BY <1>3 DEF Acquire, kinds
    <3>2. cheated' = cheated \/ timed
      BY <1>3 DEF Acquire, Free
    <3>3. QED BY <3>1, <3>2 DEF Free, TypeOK
  <2>4. ASSUME NEW u \in Thread PROVE (Believes(u) /\ Tracks(u) /\ Counts(u))'
    <3>1. CASE u = t
      <4>1. Believes(t)'
        BY <1>3, <2>1 DEF Acquire, Goto, TypeOK, kinds, Believes, Entering, Calls
      <4>2. Tracks(t)'
        BY <1>3, <2>1 DEF Acquire, Goto, TypeOK, kinds, fields, Tracks, Tracked,
          Entering, Calls
      <4>3. Counts(t)'
        BY <1>3, <2>1 DEF Acquire, Available, Goto, TypeOK, kinds, Free, Believes,
          Tracks, Counts, Tracked, Entering, Calls
      <4>4. QED BY <3>1, <4>1, <4>2, <4>3
    <3>2. CASE u # t
      <4>1. Believes(u) /\ Tracks(u) /\ Counts(u) /\ holder # u
        BY <1>3, <3>2 DEF Acquire, Available, Agreement
      <4>2. pc'[u] = pc[u] /\ held'[u] = held[u] /\ holder' # u
        BY <1>3, <3>2 DEF Acquire, Goto, TypeOK
      <4>3. QED
        BY <1>3, <4>1, <4>2 DEF Acquire, kinds, fields, Believes, Tracks, Counts, Tracked
    <3>3. QED BY <3>1, <3>2
  <2>5. QED BY <2>2, <2>3, <2>4 DEF Inv, Agreement
<1>4. ASSUME NEW t \in Thread, Refuse(t) PROVE Inv'
  <2>1. Believes(t) /\ Tracks(t) /\ Counts(t)
    BY DEF Agreement
  <2>2. TypeOK'
    BY <1>4 DEF Refuse, Goto, TypeOK, PC, kinds, kernel, fields
  <2>3. Free'
    BY <1>4 DEF Refuse, Free, kinds, kernel
  <2>4. ASSUME NEW u \in Thread PROVE (Believes(u) /\ Tracks(u) /\ Counts(u))'
    <3>1. CASE u = t
      BY <1>4, <2>1, <3>1 DEF Refuse, Available, Goto, TypeOK, kinds, kernel, fields,
        Believes, Tracks, Counts, Tracked, Entering, Calls
    <3>2. CASE u # t
      BY <1>4, <3>2 DEF Refuse, Goto, TypeOK, kinds, kernel, fields, Agreement,
        Believes, Tracks, Counts, Tracked
    <3>3. QED BY <3>1, <3>2
  <2>5. QED BY <2>2, <2>3, <2>4 DEF Inv, Agreement
<1>5. ASSUME NEW t \in Thread, TakeOwnership(t) PROVE Inv'
  <2>1. Believes(t) /\ Tracks(t) /\ Counts(t)
    BY DEF Agreement
  <2>2. TypeOK'
    BY <1>5, <2>1 DEF TakeOwnership, Goto, TypeOK, PC, kinds, kernel, Believes, Entering
  <2>3. Free'
    BY <1>5 DEF TakeOwnership, Free, kinds, kernel
  <2>4. ASSUME NEW u \in Thread PROVE (Believes(u) /\ Tracks(u) /\ Counts(u))'
    <3>1. CASE u = t
      BY <1>5, <2>1, <3>1 DEF TakeOwnership, Goto, TypeOK, kinds, kernel, Believes,
        Tracks, Counts, Tracked, Entering, Calls
    <3>2. CASE u # t
      <4>1. Believes(u) /\ Tracks(u) /\ Counts(u) /\ holder # u
        BY <1>5, <2>1, <3>2 DEF TakeOwnership, Agreement, Believes
      <4>2. pc'[u] = pc[u] /\ held'[u] = held[u] /\ owner' # u
        BY <1>5, <3>2 DEF TakeOwnership, Goto, TypeOK
      <4>3. QED
        BY <1>5, <4>1, <4>2 DEF TakeOwnership, TypeOK, kinds, kernel, Believes, Tracks,
          Counts, Tracked
    <3>3. QED BY <3>1, <3>2
  <2>5. QED BY <2>2, <2>3, <2>4 DEF Inv, Agreement
<1>6. ASSUME NEW t \in Thread, Unlock(t) PROVE Inv'
  <2>1. Believes(t) /\ Tracks(t) /\ Counts(t)
    BY DEF Agreement
  <2>2. TypeOK'
    BY <1>6, <2>1 DEF Unlock, Goto, TypeOK, PC, kinds, kernel, fields, Tracks
  <2>3. Free'
    BY <1>6 DEF Unlock, Free, kinds, kernel
  <2>4. ASSUME NEW u \in Thread PROVE (Believes(u) /\ Tracks(u) /\ Counts(u))'
    <3>1. CASE u = t
      <4>1. CASE Tracked
        BY <1>6, <2>1, <3>1, <4>1 DEF Unlock, Goto, TypeOK, kinds, kernel, Believes,
          Tracks, Counts, Tracked, Entering, Calls
      <4>2. CASE ~Tracked
        BY <1>6, <2>1, <3>1, <4>2 DEF Unlock, Goto, TypeOK, kinds, kernel, fields,
          Believes, Tracks, Counts, Tracked, Entering, Calls
      <4>3. QED BY <4>1, <4>2
    <3>2. CASE u # t
      <4>1. Believes(u) /\ Tracks(u) /\ Counts(u) /\ holder # u
        BY <1>6, <2>1, <3>2 DEF Unlock, Agreement, Believes
      <4>2. pc'[u] = pc[u] /\ held'[u] = held[u] /\ (owner' # u \/ owner' = owner)
        BY <1>6, <3>2 DEF Unlock, Goto, TypeOK, fields
      <4>3. Tracked => owner # u \/ pc[u] = "ended"
        BY <1>6, <3>2 DEF Unlock
      <4>4. QED
        BY <1>6, <3>2, <4>1, <4>2, <4>3 DEF Unlock, TypeOK, kinds, kernel, fields, Believes,
          Tracks, Counts, Tracked
    <3>3. QED BY <3>1, <3>2
  <2>5. QED BY <2>2, <2>3, <2>4 DEF Inv, Agreement
<1>7. ASSUME NEW t \in Thread, Release(t) PROVE Inv'
  <2>1. Believes(t) /\ Tracks(t) /\ Counts(t)
    BY DEF Agreement
  <2>2. holder = t /\ held[t] > 0 /\ depth > 0
    BY <1>7, <2>1 DEF Release, Believes, Free, TypeOK
  <2>3. TypeOK'
    BY <1>7, <2>2 DEF Release, Goto, TypeOK, PC, kinds, fields
  <2>4. Free'
    BY <1>7, <2>2 DEF Release, Free, TypeOK, kinds
  <2>5. ASSUME NEW u \in Thread PROVE (Believes(u) /\ Tracks(u) /\ Counts(u))'
    <3>1. CASE u = t
      <4>1. pc'[t] = "out" /\ held'[t] = held[t] - 1
        BY <1>7, <2>2 DEF Release, Goto, TypeOK
      <4>2. Tracks(t)'
        BY <1>7, <2>1, <2>2, <4>1 DEF Release, TypeOK, kinds, fields, Tracks, Tracked,
          Entering, Calls
      <4>3. CASE depth = 1
        <5>1. held'[t] = 0
          <6>1. CASE Tracked
            BY <1>7, <2>1, <2>2, <4>1, <6>1 DEF Release, Tracks, TypeOK
          <6>2. CASE ~Tracked
            BY <1>7, <2>1, <2>2, <4>1, <4>3, <6>2 DEF Release, Counts, TypeOK
          <6>3. QED BY <6>1, <6>2
        <5>2. holder' = NoThread
          BY <1>7, <2>2, <4>3 DEF Release
        <5>3. QED
          BY <3>1, <4>1, <4>2, <5>1, <5>2 DEF Believes, Counts, Entering, Calls, TypeOK
      <4>4. CASE depth # 1
        <5>1. holder' = t /\ cheated' = cheated /\ depth' = depth - 1
          BY <1>7, <2>2, <4>4 DEF Release
        <5>2. Believes(t)'
          BY <2>1, <4>1, <5>1 DEF Believes, TypeOK, Entering, Calls
        <5>3. Counts(t)'
          BY <1>7, <2>1, <2>2, <4>1, <4>4, <5>1 DEF Release, Counts, Tracks, Tracked,
            TypeOK, kinds
        <5>4. QED BY <3>1, <4>2, <5>2, <5>3
      <4>5. QED BY <4>3, <4>4
    <3>2. CASE u # t
      <4>1. Believes(u) /\ Tracks(u) /\ Counts(u) /\ holder # u
        BY <2>2, <3>2 DEF Agreement
      <4>2. pc'[u] = pc[u] /\ held'[u] = held[u] /\ holder' # u
        BY <1>7, <2>2, <3>2 DEF Release, Goto, TypeOK
      <4>3. QED
        BY <1>7, <4>1, <4>2 DEF Release, kinds, fields, Believes, Tracks, Counts, Tracked
    <3>3. QED BY <3>1, <3>2
  <2>6. QED BY <2>3, <2>4, <2>5 DEF Inv, Agreement
<1>8. ASSUME NEW t \in Thread, End(t) PROVE Inv'
  <2>1. Believes(t) /\ Tracks(t) /\ Counts(t)
    BY DEF Agreement
  <2>2. TypeOK'
    <3>1. pc' \in [Thread -> PC]
      BY <1>8 DEF End, Goto, TypeOK, PC
    <3>2. held' \in [Thread -> 0 .. MaxHeld] /\ cheated' \subseteq Thread
      BY <1>8 DEF End, TypeOK
    <3>3. holder' \in Thread \cup {NoThread} /\ depth' \in Nat
      BY <1>8 DEF End, TypeOK, kernel
    <3>4. abandoned' = TRUE \/ abandoned' = abandoned
      BY <1>8 DEF End, kernel
    <3>5. UNCHANGED <<timed, recursive, owner, count>>
      BY <1>8 DEF End, kinds, fields
    <3>6. QED BY <3>1, <3>2, <3>3, <3>4, <3>5 DEF TypeOK
  <2>3. Free'
    BY <1>8 DEF End, Free, TypeOK, kinds, kernel
  <2>4. ASSUME NEW u \in Thread PROVE (Believes(u) /\ Tracks(u) /\ Counts(u))'
    <3>1. CASE u = t
      <4>1. pc'[t] = "ended" /\ held'[t] = 0 /\ UNCHANGED <<timed, recursive, owner, count>>
        BY <1>8 DEF End, Goto, TypeOK, kinds, fields
      <4>2. Tracks(t)'
        BY <1>8, <2>1, <4>1 DEF End, Tracks, Tracked, Entering, Calls
      <4>3. Counts(t)'
        <5>1. depth' >= 0
          BY <2>2 DEF TypeOK
        <5>2. QED BY <4>1, <5>1 DEF Counts
      <4>4. Believes(t)'
        <5>1. t \in Reckless \/ t \notin cheated \/ timed
          BY DEF Free
        <5>2. holder' = t => t \in Reckless
          BY <1>8, <2>1, <5>1 DEF End, Counts, kernel
        <5>3. QED BY <4>1, <5>2 DEF Believes, Entering, Calls
      <4>5. QED BY <3>1, <4>2, <4>3, <4>4
    <3>2. CASE u # t
      <4>1. Believes(u) /\ Tracks(u) /\ Counts(u)
        BY DEF Agreement
      <4>2. pc'[u] = pc[u] /\ held'[u] = held[u] /\ (u \in cheated' <=> u \in cheated)
        BY <1>8, <3>2 DEF End, Goto, TypeOK
      <4>3. (holder' = holder /\ depth' = depth) \/ (holder = t /\ holder' = NoThread)
        BY <1>8 DEF End, kernel
      <4>4. QED
        BY <1>8, <3>2, <4>1, <4>2, <4>3 DEF End, kinds, fields, Believes, Tracks, Counts,
          Tracked
    <3>3. QED BY <3>1, <3>2
  <2>5. QED BY <2>2, <2>3, <2>4 DEF Inv, Agreement
<1>9. ASSUME NEW t \in Thread, Begin(t) PROVE Inv'
  <2>1. Believes(t) /\ Tracks(t) /\ Counts(t) /\ t \notin Reckless
    BY <1>9 DEF Begin, Agreement, FreshIds
  <2>2. TypeOK'
    BY <1>9 DEF Begin, Goto, TypeOK, PC, kinds, kernel, fields
  <2>3. Free'
    BY <1>9 DEF Begin, Free, kinds, kernel
  <2>4. ASSUME NEW u \in Thread PROVE (Believes(u) /\ Tracks(u) /\ Counts(u))'
    <3>1. CASE u = t
      BY <1>9, <2>1, <3>1 DEF Begin, Goto, TypeOK, kinds, kernel, fields, Believes,
        Tracks, Counts, Tracked, Entering, Calls
    <3>2. CASE u # t
      BY <1>9, <3>2 DEF Begin, Goto, TypeOK, kinds, kernel, fields, Agreement, Believes,
        Tracks, Counts, Tracked
    <3>3. QED BY <3>1, <3>2
  <2>5. QED BY <2>2, <2>3, <2>4 DEF Inv, Agreement
<1>10. CASE UNCHANGED vars
  <2>1. TypeOK' /\ Free'
    BY <1>10 DEF vars, TypeOK, Free
  <2>2. Agreement'
    BY <1>10 DEF vars, Agreement, Believes, Tracks, Counts, Tracked
  <2>3. QED BY <2>1, <2>2 DEF Inv
<1>11. QED
  BY <1>1, <1>2, <1>3, <1>4, <1>5, <1>6, <1>7, <1>8, <1>9, <1>10
  DEF Next, Inside, Application

\* The invariant holds in every reachable state.
LEMMA Invariance == FreshIds => (Spec => []Inv)
<1> SUFFICES ASSUME FreshIds PROVE Spec => []Inv
  OBVIOUS
<1>1. Inv /\ [Next]_vars => Inv'
  BY InvStep
<1>2. QED BY InitInv, <1>1, PTL DEF Spec

\* When ids are fresh the variables keep their types: count and depth never go below
\* zero.
THEOREM MutexTypes == FreshIds => (Spec => []TypeOK)
<1> SUFFICES ASSUME FreshIds PROVE Spec => []TypeOK
  OBVIOUS
<1>1. Inv => TypeOK
  BY DEF Inv
<1>2. QED BY Invariance, <1>1, PTL

\* Two threads never both have the mutex.
THEOREM MutualExclusionHolds == Spec => []MutualExclusion
<1>1. Inv => MutualExclusion
  BY DEF Inv, Agreement, Believes, MutualExclusion
<1>2. CASE FreshIds
  BY <1>1, <1>2, Invariance, PTL
<1>3. CASE ~FreshIds
  <2>1. MutualExclusion
    BY <1>3 DEF MutualExclusion
  <2>2. QED BY <2>1, PTL
<1>4. QED BY <1>2, <1>3

\* What a thread was told it holds, it holds in the kernel, and the locks counted are
\* the locks it will release.
THEOREM HeldLocksAreReal == Spec => []HeldInTheKernel
<1>1. FreshIds /\ Inv => HeldInTheKernel
  <2> SUFFICES ASSUME Inv, NEW t \in Thread, held[t] > 0
               PROVE  /\ holder = t
                      /\ Tracked => IF pc[t] = "release" THEN held[t] = 1
                                    ELSE owner = t /\ count = held[t]
                      /\ ~Tracked => depth >= held[t]
    BY DEF HeldInTheKernel
  <2>1. TypeOK /\ Believes(t) /\ Tracks(t) /\ Counts(t)
    BY DEF Inv, Agreement
  <2>2. held[t] \in Nat /\ depth \in Nat
    BY <2>1 DEF TypeOK
  <2>3. holder = t /\ pc[t] # "ended"
    BY <2>1, <2>2 DEF Believes
  <2>4. QED BY <2>1, <2>2, <2>3 DEF Tracks, Counts
<1>2. CASE FreshIds
  BY <1>1, <1>2, Invariance, PTL
<1>3. CASE ~FreshIds
  <2>1. HeldInTheKernel
    BY <1>3 DEF HeldInTheKernel
  <2>2. QED BY <2>1, PTL
<1>4. QED BY <1>2, <1>3

\* Only mtx_lock() on an abandoned mutex leaves a thread with a mutex it does not
\* know it has.
THEOREM StraysAreCheated == FreshIds => (Spec => []NoStrayHolder)
<1> SUFFICES ASSUME FreshIds PROVE Spec => []NoStrayHolder
  OBVIOUS
<1>1. Inv => NoStrayHolder
  BY DEF Inv, Agreement, Counts, NoStrayHolder
<1>2. QED BY Invariance, <1>1, PTL
=============================================================================
