------------------------------- MODULE Powers -------------------------------
(* The powers of two, by the recursion that proofs can use. *)
EXTENDS Integers

Power[n \in Nat] == IF n = 0 THEN 1 ELSE 2 * Power[n - 1]
=============================================================================
