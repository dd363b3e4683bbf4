----------------------------- MODULE AtomicWord -----------------------------
(* What <stdatomic.h> promises of one integer: each operation takes effect at one instant, on the value
   the one before it left, and answers with the value it found; a compare-exchange also says whether it
   exchanged. *)
EXTENDS Naturals

CONSTANTS Callers,           \* threads
          Values,            \* of the type
          Result(_, _, _),   \* what an operation with an operand makes of a value
          Weak               \* whether a compare-exchange may fail although it found what it expects

VARIABLES cell,    \* the value
          answer   \* per thread, of its last operation that took effect: what it found, and for a
                   \* compare-exchange whether it exchanged

FetchOps == {"load", "store", "xchg", "add", "sub", "or", "xor", "and"}

(* A store answers nothing. *)
Answer(op, old) == [found |-> IF op = "store" THEN 0 ELSE old, done |-> TRUE]

AtomicInit == cell = 0 /\ answer = [t \in Callers |-> [found |-> 0, done |-> TRUE]]

Perform(t, op, arg) ==
  /\ cell' = Result(op, cell, arg)
  /\ answer' = [answer EXCEPT ![t] = Answer(op, cell)]

CompareExchange(t, want, desired) ==
  \/ /\ cell = want
     /\ cell' = desired
     /\ answer' = [answer EXCEPT ![t] = [found |-> cell, done |-> TRUE]]
  \/ /\ cell # want \/ Weak
     /\ answer' = [answer EXCEPT ![t] = [found |-> cell, done |-> FALSE]]
     /\ UNCHANGED cell

AtomicNext ==
  \E t \in Callers, arg \in Values :
    \/ \E op \in FetchOps : Perform(t, op, arg)
    \/ \E want \in Values : CompareExchange(t, want, arg)

AtomicSpec == AtomicInit /\ [][AtomicNext]_<<cell, answer>>
=============================================================================
