----------------------------- MODULE Exception -----------------------------
(* pf_exception.h: the stack of handlers of one thread.  A block is one call of pf_try_catch() with the
   code that follows it; nothing removes the handler of a block that ends without an exception.  The
   mask 0 accepts every module or code.  A longjmp() goes through a jmp_buf in a frame that has
   returned (line 141): it lands in its block or anywhere, "wild", after which nothing is specified. *)
EXTENDS Naturals, Sequences, SequencesExt

CONSTANTS Modules,       \* module numbers, 0 among them
          Codes,         \* error codes, 0 (no error) among them
          StackCapacity, \* handlers the stack holds
          MaxBlocks,     \* bound: calls of pf_try_catch()
          MaxThrows      \* bound: exceptions thrown

VARIABLES stack,       \* the handlers, outermost first
          messages,    \* what pf_init_exception_stack() got: "buffer", "none" or "size only"
          current,     \* stack->current: the last exception, numbered
          kept,        \* the user's own copy of an exception
          control,     \* "try", "catch", "returned" (pf_rethrow() returned the code) or "wild"
          blocks,      \* blocks entered
          thrown,      \* exceptions thrown
          caught       \* history: the pairs <<exception, block>> in the order of the landings

xvars == <<stack, messages, current, kept, control, blocks, thrown, caught>>

NoException == [number |-> 0, module |-> 0, code |-> 0]

ExceptionInit ==
  /\ messages \in {"buffer", "none", "size only"}
  /\ stack = <<>> /\ caught = <<>>
  /\ current = NoException /\ kept = NoException
  /\ control = "try" /\ blocks = 0 /\ thrown = 0

(* pf_try_catch(): PF_ON_MAX_EXCEPTIONS returns NULL, and the block runs without a handler. *)
TryCatch(m, c) ==
  /\ blocks < MaxBlocks /\ control # "wild"
  /\ blocks' = blocks + 1
  /\ control' = "try"
  /\ stack' = IF Len(stack) >= StackCapacity THEN stack
              ELSE Append(stack, [block |-> blocks', module |-> m, code |-> c])
  /\ UNCHANGED <<messages, current, kept, thrown, caught>>

Accepts(handler, e) == handler.module \in {0, e.module} /\ handler.code \in {0, e.code}

(* The handlers the loop can stop at: never the outermost one, at index 0. *)
Candidates(e) == {i \in 2 .. Len(stack) : Accepts(stack[i], e)}

(* What is left of the stack once handler i is chosen. *)
RemainingWithChosen(i) == SubSeq(stack, 1, i)
Remaining(i) == SubSeq(stack, 1, i - 1)

(* The search of pf_rethrow(), from the innermost handler outwards. *)
Rethrow(e) ==
  /\ current' = e
  /\ \/ /\ Candidates(e) = {}
        /\ control' = "returned"
        /\ UNCHANGED <<stack, caught>>
     \/ \E i \in Candidates(e) :
          /\ \A j \in Candidates(e) : j <= i
          /\ stack' = Remaining(i)
          /\ \/ control' = "catch" /\ caught' = Append(caught, <<e.number, stack[i].block>>)
             \/ control' = "wild" /\ UNCHANGED caught
  /\ UNCHANGED <<messages, kept, blocks>>

(* pf__throw() does nothing with code 0. *)
Throw(m, c) ==
  /\ control # "wild" /\ thrown < MaxThrows
  /\ c # 0
  /\ thrown' = thrown + 1
  /\ Rethrow([number |-> thrown', module |-> m, code |-> c])

(* pf__vthrowf(): the test of the buffer is inverted, so it writes only when it has none. *)
ThrowF(m, c) ==
  /\ control # "wild" /\ thrown < MaxThrows
  /\ c # 0
  /\ thrown' = thrown + 1
  /\ IF messages = "size only"
     THEN control' = "wild" /\ UNCHANGED <<stack, messages, current, kept, blocks, caught>>
     ELSE Rethrow([number |-> thrown', module |-> m, code |-> c])

(* A catch block passes on the exception it got, or keeps a copy and passes that on later. *)
RethrowCurrent == control = "catch" /\ Rethrow(current) /\ UNCHANGED thrown

Keep ==
  /\ control = "catch" /\ kept = NoException
  /\ kept' = current
  /\ UNCHANGED <<stack, messages, current, control, blocks, thrown, caught>>

RethrowKept ==
  /\ control # "wild" /\ kept # NoException
  /\ Rethrow(kept)
  /\ UNCHANGED thrown

ExceptionNext ==
  \/ \E m \in Modules, c \in Codes : TryCatch(m, c) \/ Throw(m, c) \/ ThrowF(m, c)
  \/ RethrowCurrent \/ Keep \/ RethrowKept

ExceptionSpec == ExceptionInit /\ [][ExceptionNext]_xvars

-----------------------------------------------------------------------------
(* However it is passed on, the same or a copy, an exception never comes back to a block that has had
   it, and a block that caught something has lost its handler: a catch block cannot loop. *)
NeverCaughtTwice ==
  /\ IsInjective(caught)
  /\ \A i \in DOMAIN caught : \A h \in Range(stack) : h.block # caught[i][2]

(* The header, lines 14-16: handlers with the masks 0 around the entire program are catch-all: an
   exception is returned to its thrower only when no handler accepts it. *)
CatchAllCatches == control = "returned" => \A h \in Range(stack) : ~Accepts(h, current)
=============================================================================
