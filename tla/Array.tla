-------------------------------- MODULE Array --------------------------------
(***************************************************************************)
(* The growable array of pf_array.h.  Lengths, capacities and counts are   *)
(* bytes, in words of the machine that wrap; an item is one byte here.     *)
(***************************************************************************)
EXTENDS Integers, Sequences, SequencesExt, FiniteSetsExt

CONSTANTS
  Items,     \* bytes that are stored
  Junk,      \* what a byte holds that was never written
  SizeMax,   \* SIZE_MAX
  MaxBlock,  \* the largest block that the allocator ever has
  MaxCount   \* the most items that one call adds or removes

\* Programs stay far enough from SIZE_MAX for PF_ARRAY_GROW, and no call adds more than
\* a block can hold.
ASSUME ArrayConstantsOK ==
  /\ SizeMax \in Nat /\ MaxBlock \in Nat /\ MaxCount \in Nat
  /\ Junk \notin Items
  /\ MaxCount <= MaxBlock
  /\ (MaxBlock + MaxCount) * 2 <= SizeMax

VARIABLES
  buffer,  \* items: the block, capacity bytes long
  length,  \* length
  alive    \* initialised and not freed

Word(n) == n % (SizeMax + 1)
Capacity == Len(buffer)
Counts1 == 0 .. MaxCount
Batches == UNION {[1 .. n -> Items] : n \in Counts1}

Array(ok, buf, len) == [ok |-> ok, buffer |-> buf, length |-> len]
Unchanged == Array(FALSE, buffer, length)
Become(a) == buffer' = a.buffer /\ length' = a.length /\ UNCHANGED alive

Fresh(n) == [i \in 1 .. n |-> Junk]
\* A block of another size with the bytes that fit.
Realloc(buf, n) == [i \in 1 .. n |-> IF i <= Len(buf) THEN buf[i] ELSE Junk]
\* memcpy() to an offset; what does not fit in the block is lost.
Write(buf, at, batch) ==
  [i \in 1 .. Len(buf) |-> IF i - at \in 1 .. Len(batch) THEN batch[i - at] ELSE buf[i]]
Part(buf, at, n) == SubSeq(buf, at + 1, at + n)

\* The outcomes of pf__array_resize(): realloc() may have no block.
Resized(n) ==
  {Unchanged} \cup IF n \in 1 .. MaxBlock
                  THEN {Array(TRUE, Realloc(buffer, n), Min({length, n}))} ELSE {}

Grown(old, req) == Word(Word(old + req) * 2)

\* Mutant of Reserved: grows by what is there, not by what is asked for.
ReservedTwice(n) ==
  IF n = 0 THEN {Unchanged}
  ELSE IF Word(length + n) <= Capacity THEN {Array(TRUE, buffer, length)}
  ELSE Resized(Grown(length, 0))

\* The outcomes of pf__array_reserve().
Reserved(n) ==
  IF n = 0 THEN {Unchanged}
  ELSE IF Word(length + n) <= Capacity THEN {Array(TRUE, buffer, length)}
  ELSE Resized(Grown(length, n))

-----------------------------------------------------------------------------
ArrayInit == buffer = <<>> /\ length = 0 /\ alive = FALSE

InitArray(n) ==
  /\ ~alive /\ n # 0
  /\ buffer' = Fresh(n) /\ length' = 0 /\ alive' = TRUE

\* The caller's own block, of items that are all there or none.
Make(batch, n) ==
  /\ ~alive /\ n \in {0, Len(batch)}
  /\ buffer' = batch /\ length' = n /\ alive' = TRUE

\* The fields keep pointing to what is no longer there.
Free ==
  /\ alive
  /\ alive' = FALSE
  /\ UNCHANGED <<buffer, length>>

SetLen(n) ==
  /\ alive /\ n <= Capacity
  /\ length' = n
  /\ UNCHANGED <<buffer, alive>>

Resize(n) == alive /\ \E a \in Resized(n) : Become(a)
Reserve(n) == alive /\ \E a \in Reserved(n) : Become(a)

Push(batch) ==
  /\ alive
  /\ \E a \in Reserved(Len(batch)) :
       Become(IF a.ok THEN [a EXCEPT !.buffer = Write(a.buffer, a.length, batch),
                                     !.length = Word(@ + Len(batch))]
              ELSE a)

\* Mutant of Unpshift: the old items are not moved up.
UnpshiftOver(batch) ==
  /\ alive
  /\ \E a \in Reserved(Len(batch)) :
       Become(IF a.ok THEN [a EXCEPT !.buffer = Write(a.buffer, 0, batch),
                                     !.length = Word(@ + Len(batch))]
              ELSE a)

Unpshift(batch) ==
  /\ alive
  /\ \E a \in Reserved(Len(batch)) :
       LET moved == Write(a.buffer, Len(batch), Part(a.buffer, 0, a.length))
       IN  Become(IF a.ok THEN [a EXCEPT !.buffer = Write(moved, 0, batch),
                                         !.length = Word(@ + Len(batch))]
                  ELSE a)

Incr(n) ==
  /\ alive
  /\ \E a \in Reserved(n) :
       Become(IF a.ok THEN [a EXCEPT !.length = Word(@ + n)] ELSE a)

Enough(n) == n # 0 /\ length >= n

\* pf__array_pop() and pf__array_decr()
Pop(n) ==
  /\ alive /\ Enough(n)
  /\ length' = length - n
  /\ UNCHANGED <<buffer, alive>>

Shift(n) ==
  /\ alive /\ Enough(n)
  /\ length' = length - n
  /\ buffer' = Write(buffer, 0, Part(buffer, n, length'))
  /\ UNCHANGED alive

ArrayNext ==
  \/ \E n \in Counts1 :
       \/ InitArray(n) \/ SetLen(n) \/ Resize(n) \/ Reserve(n) \/ Incr(n) \/ Pop(n) \/ Shift(n)
  \/ \E batch \in Batches : Push(batch) \/ Unpshift(batch) \/ \E n \in Counts1 : Make(batch, n)
  \/ Free

avars == <<buffer, length, alive>>
ArraySpec == ArrayInit /\ [][ArrayNext]_avars

-----------------------------------------------------------------------------
\* What the caller sees: the first length bytes, nothing of an array that is freed.
Contents == IF alive THEN SubSeq(buffer, 1, length) ELSE <<>>

\* The length never passes the block; and for every count, up to SIZE_MAX, a reservation
\* that succeeds has room for it behind all the old items, as long as the double of their
\* sum does not wrap; beyond that the code counts reservations as made that are not.
RoomReserved ==
  /\ length <= Capacity
  /\ \A n \in 1 .. SizeMax : \A a \in Reserved(n) :
       a.ok /\ (length + n) * 2 <= SizeMax =>
         /\ Len(a.buffer) >= length + n
         /\ SubSeq(a.buffer, 1, a.length) = SubSeq(buffer, 1, length)

AbstractDeque == INSTANCE Deque WITH deque <- Contents
Refused == UNCHANGED Contents

\* What each operation of the code is in terms of the deque.
OperationsMap ==
  /\ \A batch \in Batches :
       /\ Push(batch) => AbstractDeque!AddLast(batch) \/ Refused
       /\ Unpshift(batch) => AbstractDeque!AddFirst(batch) \/ Refused
  /\ \A n \in Counts1 :
       /\ Pop(n) => AbstractDeque!DropLast(n)
       /\ Shift(n) => AbstractDeque!DropFirst(n)
       /\ Reserve(n) => Refused

\* Whatever the allocator refuses and wherever the block moves, an array is a deque: no
\* call loses, repeats, mixes up or changes an item that it does not take, and an operation
\* of the code is that of the deque, or has refused and left everything as it was.
ArrayImplementsDeque == AbstractDeque!DequeSpec /\ [][OperationsMap]_avars
=============================================================================
