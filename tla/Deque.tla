-------------------------------- MODULE Deque --------------------------------
(***************************************************************************)
(* What a growable array promises: a sequence that takes items at both     *)
(* ends and gives them back from both, keeps the others as they are and in *)
(* order, and is cut short or lengthened only at its end.                  *)
(***************************************************************************)
EXTENDS Integers, Sequences, SequencesExt

CONSTANT Batches  \* the sequences of items that are added at once

VARIABLE deque

AddLast(items) == deque' = deque \o items
AddFirst(items) == deque' = items \o deque
DropLast(n) == n <= Len(deque) /\ deque' = SubSeq(deque, 1, Len(deque) - n)
DropFirst(n) == n <= Len(deque) /\ deque' = SubSeq(deque, n + 1, Len(deque))
\* The end moves, and what comes in at it is unspecified.
MoveEnd == IsPrefix(deque, deque') \/ IsPrefix(deque', deque)

DequeInit == deque = <<>>
DequeNext ==
  \/ \E items \in Batches : AddLast(items) \/ AddFirst(items)
  \/ \E n \in 1 .. Len(deque) : DropLast(n) \/ DropFirst(n)
  \/ MoveEnd
DequeSpec == DequeInit /\ [][DequeNext]_deque
=============================================================================
