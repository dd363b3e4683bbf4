------------------------------- MODULE Atomic -------------------------------
(* The fallback of pf_atomic.h for compilers without <stdatomic.h> and __atomic: an intmax_t beside a
   mutex, whatever the type; only what a macro returns is converted to the type.  With PF_ATOMIC_WIN32
   some operations are Interlocked calls on the type's bytes of it that do not take the mutex.  The mutex
   (that of pf_threads.h) and the Interlocked calls are external. *)
EXTENDS Naturals

CONSTANTS Callers,       \* threads
          Cells,         \* the values of an intmax_t, modulo its width
          Modulus,       \* 2 to the bits of the type
          Result(_, _, _),   \* what an operation with an operand makes of an intmax_t
          Interlocked,   \* PF_ATOMIC_WIN32 and a size the Interlocked calls know: a set of BOOLEANs
          Mixed,         \* whether such a program also uses add, sub and compare-exchange on the object
          Arguments      \* operands the threads use, also ones the type cannot hold

Narrow(v) == v % Modulus       \* the conversion to the type
Upper(v) == v \div Modulus     \* the bytes above it

ASSUME AtomicConstantsOK ==
  /\ Arguments \cup {0} \subseteq Cells /\ "free" \notin Callers
  /\ \A v \in Cells : Narrow(v) \in Cells
  /\ Narrow(0) = 0

Values == {Narrow(v) : v \in Cells}
TypeResult(o, old, a) == Narrow(Result(o, old, a))

VARIABLES win32,         \* the build and the size
          cell, answer,  \* atomic->value, and per thread what its last operation answered (see AtomicWord)
          lock,          \* the thread in the mutex, or "free"
          step,          \* per thread: "idle", "locked" or "read"
          op, arg, want, \* per thread: the operation, its operand, *expected
          prev           \* per thread: the local variable prev

avariables == <<win32, cell, answer, lock, step, op, arg, want, prev>>

(* A compare-exchange compares all of the intmax_t: if that is wider than the type, it may fail where the
   type's values agree. *)
C11 == INSTANCE AtomicWord WITH cell <- Narrow(cell), Result <- TypeResult,
                                Weak <- \E v \in Cells : Narrow(v) # v

(* The low bits of a result depend on the low bits of what it is computed from. *)
ASSUME ResultsNarrow ==
  \A o \in C11!FetchOps, v, a \in Cells :
    Result(o, v, a) \in Cells /\ TypeResult(o, v, a) = TypeResult(o, Narrow(v), Narrow(a))

AtomicFallbackInit ==
  /\ win32 \in Interlocked
  /\ cell = 0 /\ lock = "free"
  /\ answer = [t \in Callers |-> [found |-> 0, done |-> TRUE]]
  /\ step = [t \in Callers |-> "idle"]
  /\ op = [t \in Callers |-> "load"] /\ arg = [t \in Callers |-> 0]
  /\ want = [t \in Callers |-> 0] /\ prev = [t \in Callers |-> 0]

(* PF__IMPL_WIN32_or, _xor, _and and _xchg are Interlocked calls, add and sub are not; pf_atomic_cas_w()
   never uses PF__IMPL_WIN32_cas. *)
IsInterlocked(o) == win32 /\ o \in {"or", "xor", "and", "xchg"}

InterlockedCall(t, o, a) ==
  /\ step[t] = "idle" /\ IsInterlocked(o)
  /\ cell' \in {v \in Cells : Upper(v) = Upper(cell) /\ Narrow(v) = TypeResult(o, cell, a)}
  /\ answer' = [answer EXCEPT ![t] = C11!Answer(o, Narrow(cell))]
  /\ UNCHANGED <<win32, lock, step, op, arg, want, prev>>

(* pf_atomic_lock() at the head of every other operation. *)
LockIgnored == TRUE
LockFree == lock = "free"
TakeMutex(t, o, a, w) ==
  /\ step[t] = "idle" /\ ~IsInterlocked(o)
  /\ win32 /\ o \in {"add", "sub", "cas"} => Mixed
  /\ LockFree
  /\ lock' = t
  /\ step' = [step EXCEPT ![t] = "locked"]
  /\ op' = [op EXCEPT ![t] = o] /\ arg' = [arg EXCEPT ![t] = a] /\ want' = [want EXCEPT ![t] = w]
  /\ UNCHANGED <<win32, cell, answer, prev>>

ReleaseMutex(t) ==
  /\ lock' = "free"
  /\ step' = [step EXCEPT ![t] = "idle"]
  /\ op' = [op EXCEPT ![t] = "load"] /\ arg' = [arg EXCEPT ![t] = 0]
  /\ want' = [want EXCEPT ![t] = 0] /\ prev' = [prev EXCEPT ![t] = 0]
  /\ UNCHANGED win32

(* pf_atomic_load() and pf_atomic_store(): one access. *)
OneAccess(t) ==
  /\ step[t] = "locked" /\ op[t] \in {"load", "store"}
  /\ cell' = Result(op[t], cell, arg[t])
  /\ answer' = [answer EXCEPT ![t] = C11!Answer(op[t], Narrow(cell))]
  /\ ReleaseMutex(t)

(* atomic->value == *expected, both an intmax_t, fails. *)
NotExpected(t) ==
  /\ step[t] = "locked" /\ op[t] = "cas" /\ cell # want[t]
  /\ answer' = [answer EXCEPT ![t] = [found |-> Narrow(cell), done |-> FALSE]]
  /\ ReleaseMutex(t) /\ UNCHANGED cell

(* prev = atomic->value, or the comparison that succeeds. *)
ReadOld(t) ==
  /\ step[t] = "locked"
  /\ op[t] \notin {"load", "store"} /\ (op[t] = "cas" => cell = want[t])
  /\ prev' = [prev EXCEPT ![t] = cell]
  /\ step' = [step EXCEPT ![t] = "read"]
  /\ UNCHANGED <<win32, cell, answer, lock, op, arg, want>>

(* atomic->value = OPERATION, or = desired; the caller gets prev. *)
WriteNew(t) ==
  /\ step[t] = "read"
  /\ cell' = IF op[t] = "cas" THEN arg[t] ELSE Result(op[t], prev[t], arg[t])
  /\ answer' = [answer EXCEPT ![t] = C11!Answer(op[t], Narrow(prev[t]))]
  /\ ReleaseMutex(t)

AtomicFallbackNext ==
  \E t \in Callers :
    \/ \E o \in C11!FetchOps, a \in Arguments : InterlockedCall(t, o, a) \/ TakeMutex(t, o, a, 0)
    \/ \E a \in Arguments, w \in Cells : TakeMutex(t, "cas", a, w)
    \/ OneAccess(t) \/ NotExpected(t) \/ ReadOld(t) \/ WriteNew(t)

AtomicFallbackSpec == AtomicFallbackInit /\ [][AtomicFallbackNext]_avariables

-----------------------------------------------------------------------------
(* Every operation of the fallback is one of <stdatomic.h>'s on the type's values: none loses the effect of
   another, each answers with the value it replaced, and a compare-exchange says what it did; but where the
   intmax_t is wider than the type each compare-exchange is a weak one.  It holds unless a program mixes
   Interlocked calls with operations that read and write under the mutex. *)
ImplementsAtomic == C11!AtomicSpec
=============================================================================
