----------------------------- MODULE AtomicOps -----------------------------
(* What the operations of pf_atomic.h compute in an intmax_t of WideBits bits, of which the type has the
   low WordBits. *)
EXTENDS Naturals, Bitwise

CONSTANTS WordBits, WideBits

WideWords == 0 .. 2^WideBits - 1
TypeModulus == 2^WordBits

WideResult(op, old, arg) ==
  CASE op = "load" -> old
    [] op \in {"store", "xchg"} -> arg
    [] op = "add" -> (old + arg) % 2^WideBits
    [] op = "sub" -> ((old + 2^WideBits) - arg) % 2^WideBits
    [] op = "or"  -> old | arg
    [] op = "xor" -> old ^^ arg
    [] op = "and" -> old & arg
=============================================================================
