-------------------------------- MODULE Mutex --------------------------------
(***************************************************************************)
(* pf_threads.h on Windows: one mtx_t and the threads that lock it.  A     *)
(* timed mutex is a Win32 mutex, any other a critical section.  Both let   *)
(* their holder enter again; a recursive timed mtx_t also keeps the owner  *)
(* and the depth itself, outside any lock, and lets a thread whose id is   *)
(* in owner in without asking the kernel.                                  *)
(*                                                                         *)
(* A thread may end while it holds the mutex.  A Win32 mutex is then       *)
(* abandoned: the next wait obtains it and says so.  A critical section    *)
(* stays with the thread id.  Windows gives thread ids out again.          *)
(***************************************************************************)
EXTENDS Integers

CONSTANTS
  Thread,    \* thread ids
  NoThread,  \* 0, which is no thread id
  Reckless,  \* threads that may end while they hold the mutex
  Reused,    \* ids that a new thread may get once their thread has ended
  MaxHeld    \* BOUND: locks a thread can have and not have released

ASSUME MutexConstantsOK ==
  /\ NoThread \notin Thread
  /\ Reckless \subseteq Thread
  /\ Reused \subseteq Thread
  /\ MaxHeld \in Nat

\* The calls that lock: mtx_lock(), mtx_trylock(), mtx_timedlock().
Calls == {"lock", "try", "timed"}
PC == {"ended", "out", "own", "release"} \cup Calls

VARIABLES
  timed,      \* type & mtx_timed
  recursive,  \* type & mtx_recursive
  owner,      \* mtx->owner
  count,      \* mtx->count
  holder,     \* the thread that has the kernel's mutex, or the critical section
  depth,      \* how many times it has entered
  abandoned,  \* the Win32 mutex is abandoned, and nobody has been told
  pc,
  held,       \* held[t]: how many locks t was told it got and has not released
  cheated     \* the threads that have the mutex and were told thrd_error

kinds == <<timed, recursive>>
fields == <<owner, count>>
kernel == <<holder, depth, abandoned>>
vars == <<timed, recursive, owner, count, holder, depth, abandoned, pc, held, cheated>>

\* mtx_init()
Init ==
  /\ timed \in BOOLEAN
  /\ recursive \in BOOLEAN
  /\ owner = NoThread
  /\ count = 0
  /\ holder = NoThread
  /\ depth = 0
  /\ abandoned = FALSE
  /\ pc = [t \in Thread |-> "out"]
  /\ held = [t \in Thread |-> 0]
  /\ cheated = {}

Goto(t, l) == pc' = [pc EXCEPT ![t] = l]

\* The mutex keeps its owner and depth itself.
Tracked == timed /\ recursive

\* The caller is let in without the kernel: it is the owner already.
Reenter(t) ==
  /\ pc[t] = "out"
  /\ held[t] < MaxHeld
  /\ Tracked
  /\ owner = t
  /\ count' = count + 1
  /\ held' = [held EXCEPT ![t] = @ + 1]
  /\ UNCHANGED <<kinds, owner, kernel, pc, cheated>>

\* Mutant of Ask: the calls wait on the kernel's mutex before they look at owner.
AskAlways(t, call) ==
  /\ pc[t] = "out"
  /\ held[t] < MaxHeld
  /\ call = "timed" => timed
  /\ Goto(t, call)
  /\ UNCHANGED <<kinds, fields, kernel, held, cheated>>

Ask(t, call) ==
  /\ pc[t] = "out"
  /\ held[t] < MaxHeld
  /\ call = "timed" => timed
  /\ ~(Tracked /\ owner = t)
  /\ Goto(t, call)
  /\ UNCHANGED <<kinds, fields, kernel, held, cheated>>

Available(t) == holder \in {NoThread, t}

\* The wait obtains the mutex.  mtx_lock() takes WAIT_ABANDONED for a failure.
Acquire(t) ==
  /\ pc[t] \in Calls
  /\ Available(t)
  /\ holder' = t
  /\ depth' = depth + 1
  /\ abandoned' = FALSE
  /\ IF pc[t] = "lock" /\ abandoned
     THEN /\ Goto(t, "out")
          /\ cheated' = cheated \cup {t}
          /\ UNCHANGED held
     ELSE IF timed
     THEN Goto(t, "own") /\ UNCHANGED <<held, cheated>>
     ELSE /\ Goto(t, "out")
          /\ held' = [held EXCEPT ![t] = @ + 1]
          /\ UNCHANGED cheated
  /\ UNCHANGED <<kinds, fields>>

\* thrd_busy or thrd_timedout
Refuse(t) ==
  /\ pc[t] \in {"try", "timed"}
  /\ ~Available(t)
  /\ Goto(t, "out")
  /\ UNCHANGED <<kinds, fields, kernel, held, cheated>>

\* Mutant of TakeOwnership: the first lock is not counted.
TakeUncounted(t) ==
  /\ pc[t] = "own"
  /\ owner' = t
  /\ count' = 0
  /\ held' = [held EXCEPT ![t] = @ + 1]
  /\ Goto(t, "out")
  /\ UNCHANGED <<kinds, kernel, cheated>>

\* The wait has succeeded: owner and count are written before the call returns.
TakeOwnership(t) ==
  /\ pc[t] = "own"
  /\ owner' = t
  /\ count' = 1
  /\ held' = [held EXCEPT ![t] = @ + 1]
  /\ Goto(t, "out")
  /\ UNCHANGED <<kinds, kernel, cheated>>

\* Mutant of Unlock: >= 0 for > 0.
UnlockNever(t) ==
  /\ pc[t] = "out"
  /\ held[t] > 0
  /\ IF Tracked
     THEN /\ owner = t
          /\ count' = count - 1
          /\ held' = [held EXCEPT ![t] = @ - 1]
          /\ UNCHANGED <<owner, pc>>
     ELSE Goto(t, "release") /\ UNCHANGED <<fields, held>>
  /\ UNCHANGED <<kinds, kernel, cheated>>

\* Mutant of Unlock: owner keeps the id of the thread that leaves.
UnlockKeepsOwner(t) ==
  /\ pc[t] = "out"
  /\ held[t] > 0
  /\ IF Tracked
     THEN /\ owner = t
          /\ count' = count - 1
          /\ IF count > 1
             THEN held' = [held EXCEPT ![t] = @ - 1] /\ UNCHANGED <<owner, pc>>
             ELSE Goto(t, "release") /\ UNCHANGED <<owner, held>>
     ELSE Goto(t, "release") /\ UNCHANGED <<fields, held>>
  /\ UNCHANGED <<kinds, kernel, cheated>>

\* mtx_unlock() by a thread that has a lock to release, up to ReleaseMutex().
Unlock(t) ==
  /\ pc[t] = "out"
  /\ held[t] > 0
  /\ IF Tracked
     THEN /\ owner = t
          /\ count' = count - 1
          /\ IF count > 1
             THEN held' = [held EXCEPT ![t] = @ - 1] /\ UNCHANGED <<owner, pc>>
             ELSE owner' = NoThread /\ Goto(t, "release") /\ UNCHANGED held
     ELSE Goto(t, "release") /\ UNCHANGED <<fields, held>>
  /\ UNCHANGED <<kinds, kernel, cheated>>

\* ReleaseMutex(), which fails for any thread but the holder, or
\* LeaveCriticalSection().
Release(t) ==
  /\ pc[t] = "release"
  /\ Goto(t, "out")
  /\ IF holder = t
     THEN /\ depth' = depth - 1
          /\ holder' = IF depth = 1 THEN NoThread ELSE holder
          /\ held' = [held EXCEPT ![t] = @ - 1]
          /\ cheated' = IF depth = 1 THEN cheated \ {t} ELSE cheated
     ELSE UNCHANGED <<holder, depth, held, cheated>>
  /\ UNCHANGED <<kinds, fields, abandoned>>

\* The end of a thread.  Unless it is reckless it has released what it got.
End(t) ==
  /\ pc[t] # "ended"
  /\ t \in Reckless \/ (pc[t] = "out" /\ held[t] = 0)
  /\ Goto(t, "ended")
  /\ held' = [held EXCEPT ![t] = 0]
  /\ cheated' = cheated \ {t}
  /\ IF timed /\ holder = t
     THEN holder' = NoThread /\ depth' = 0 /\ abandoned' = TRUE
     ELSE UNCHANGED kernel
  /\ UNCHANGED <<kinds, fields>>

\* A new thread with an old id.
Begin(t) ==
  /\ pc[t] = "ended"
  /\ t \in Reused
  /\ Goto(t, "out")
  /\ UNCHANGED <<kinds, fields, kernel, held, cheated>>

-----------------------------------------------------------------------------
\* A step of a thread inside a call.
Inside(t) == Acquire(t) \/ Refuse(t) \/ TakeOwnership(t) \/ Release(t)

Application(t) ==
  Reenter(t) \/ (\E call \in Calls : Ask(t, call)) \/ Unlock(t) \/ End(t) \/ Begin(t)

Next == \E t \in Thread : Inside(t) \/ Application(t)

Spec == Init /\ [][Next]_vars

\* A thread inside a call runs, and a wait for a mutex that stays available ends.
\* Nothing makes a thread lock or unlock, or a wait win against the other threads.
FairSpec == Spec /\ \A t \in Thread : WF_vars(Inside(t))

-----------------------------------------------------------------------------
TypeOK ==
  /\ timed \in BOOLEAN
  /\ recursive \in BOOLEAN
  /\ owner \in Thread \cup {NoThread}
  /\ count \in Nat
  /\ holder \in Thread \cup {NoThread}
  /\ depth \in Nat
  /\ abandoned \in BOOLEAN
  /\ pc \in [Thread -> PC]
  /\ held \in [Thread -> 0 .. MaxHeld]
  /\ cheated \subseteq Thread

\* No id of a thread that ended with the mutex is given to a new one.
FreshIds == Reckless \cap Reused = {}

\* Two threads never both have the mutex, although owner is read and written
\* outside the kernel's lock, and whoever else has ended with the mutex.
MutualExclusion ==
  FreshIds => \A t, u \in Thread : held[t] > 0 /\ held[u] > 0 => t = u

\* The kernel agrees with every thread that was told it got the lock, and a tracked
\* mutex counts the locks it has to release: the last of them, and no other, will
\* give the mutex back.
HeldInTheKernel ==
  FreshIds => \A t \in Thread : held[t] > 0 =>
    /\ holder = t
    /\ Tracked => IF pc[t] = "release" THEN held[t] = 1
                  ELSE owner = t /\ count = held[t]
    /\ ~Tracked => depth >= held[t]

\* A thread that has the mutex knows it, except after mtx_lock() obtained an
\* abandoned one and returned thrd_error.
NoStrayHolder ==
  \A t \in Thread : holder = t =>
    held[t] > 0 \/ pc[t] \in {"own", "ended"} \/ t \in cheated

\* A thread waits in mtx_lock() for ever only while others keep taking the mutex, or
\* one of them has it without knowing, or ended inside the critical section.
WaitsOnlyForOthers ==
  \A t \in Thread :
    <>[](pc[t] = "lock") =>
      []<>(\E u \in Thread \ {t} :
             \/ held[u] > 0
             \/ pc[u] = "own"
             \/ u \in cheated
             \/ pc[u] = "ended" /\ holder = u)

\* The field's comment: "owning thread id (recursive timed)".
OwnerIsTheOwner ==
  \A t \in Thread : Tracked /\ owner = t /\ pc[t] # "ended" => holder = t
=============================================================================
