------------------------------ MODULE MCAtomic ------------------------------
(* The fallback of <stdatomic.h> on words of WordBits bits. *)
EXTENDS Atomic, AtomicOps
=============================================================================
