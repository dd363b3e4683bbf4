--------------------------- MODULE LibraryProofs ---------------------------
(* The small machines of the library, for all values of their constants, one part after the other: the
   stack of exception handlers, the pipe, the atomic word, thread-specific storage, the test runner, the
   cache of CPUID, the growable array and the named mutex of Windows. *)
EXTENDS Exception, Pipe, Atomic, Tss, TestRunner, CpuInfo, Array, DaemonWindows, FiniteSetTheorems,
        SequenceTheorems, TLAPS

-----------------------------------------------------------------------------
(* Exceptions.  A handler belongs to a block that was entered, and each block has one at most, which is
   gone for good when it catches. *)
Handlers == [block : Nat, module : Modules, code : Codes]
ExceptionTyped ==
  /\ blocks \in Nat /\ thrown \in Nat
  /\ stack \in Seq(Handlers) /\ caught \in Seq(Nat \X Nat)
  /\ current.number \in Nat /\ kept.number \in Nat

BlocksApart ==
  /\ \A a \in 1 .. Len(stack) : stack[a].block <= blocks
  /\ \A a \in 1 .. Len(caught) : caught[a][2] <= blocks
  /\ \A a, b \in 1 .. Len(stack) : stack[a].block = stack[b].block => a = b
  /\ \A a, b \in 1 .. Len(caught) : caught[a][2] = caught[b][2] => a = b
  /\ \A a \in 1 .. Len(stack), b \in 1 .. Len(caught) : stack[a].block # caught[b][2]

ExceptionInv == ExceptionTyped /\ BlocksApart

(* pf_try_catch() enters a block with a new number. *)
LEMMA TryCatchStep ==
  ASSUME ExceptionInv, NEW m \in Modules, NEW c \in Codes, TryCatch(m, c)
  PROVE  ExceptionInv'
  <1> DEFINE new == [block |-> blocks', module |-> m, code |-> c]
  <1>1. blocks' = blocks + 1 /\ caught' = caught /\ blocks' \in Nat
    BY DEF TryCatch, ExceptionInv, ExceptionTyped
  <1>2. new \in Handlers
    BY <1>1 DEF Handlers
  <1>3. /\ stack \in Seq(Handlers) /\ blocks \in Nat
        /\ \A a \in 1 .. Len(stack) : stack[a].block \in Nat
        /\ \A a \in 1 .. Len(caught) : caught[a][2] \in Nat
    <2>1. stack \in Seq(Handlers) /\ caught \in Seq(Nat \X Nat) /\ blocks \in Nat
      BY DEF ExceptionInv, ExceptionTyped
    <2>2. \A a \in 1 .. Len(stack) : stack[a] \in Handlers
      BY <2>1
    <2>3. \A a \in 1 .. Len(caught) : caught[a] \in Nat \X Nat
      BY <2>1
    <2> QED
      BY <2>1, <2>2, <2>3 DEF Handlers
  <1>4. ExceptionTyped'
    BY <1>1, <1>2, <1>3 DEF TryCatch, ExceptionInv, ExceptionTyped
  <1>5. CASE stack' = stack
    <2>1. \A a \in 1 .. Len(stack') : stack'[a].block <= blocks'
      BY <1>1, <1>3, <1>5 DEF ExceptionInv, BlocksApart
    <2>2. \A a \in 1 .. Len(caught') : caught'[a][2] <= blocks'
      BY <1>1, <1>3, <1>5 DEF ExceptionInv, BlocksApart
    <2>3. \A a, b \in 1 .. Len(stack') : stack'[a].block = stack'[b].block => a = b
      BY <1>1, <1>3, <1>5 DEF ExceptionInv, BlocksApart
    <2>4. \A a, b \in 1 .. Len(caught') : caught'[a][2] = caught'[b][2] => a = b
      BY <1>1, <1>3, <1>5 DEF ExceptionInv, BlocksApart
    <2>5. \A a \in 1 .. Len(stack'), b \in 1 .. Len(caught') : stack'[a].block # caught'[b][2]
      BY <1>1, <1>3, <1>5 DEF ExceptionInv, BlocksApart
    <2> QED
      BY <1>4, <2>1, <2>2, <2>3, <2>4, <2>5 DEF ExceptionInv, BlocksApart
  <1>6. CASE stack' = Append(stack, new)
    <2>1. /\ Len(stack') = Len(stack) + 1
          /\ \A a \in 1 .. Len(stack) : stack'[a] = stack[a]
          /\ stack'[Len(stack) + 1].block = blocks + 1
      BY <1>1, <1>3, <1>6
    <2>2. Len(stack) \in Nat /\ Len(caught) \in Nat
      BY <1>3 DEF ExceptionInv, ExceptionTyped
    <2>3. \A a \in 1 .. Len(stack') : a = Len(stack) + 1 \/ a \in 1 .. Len(stack)
      BY <2>1, <2>2
    <2>4. /\ \A a \in 1 .. Len(stack) : stack[a].block <= blocks
          /\ \A a, b \in 1 .. Len(stack) : stack[a].block = stack[b].block => a = b
      BY DEF ExceptionInv, BlocksApart
    <2>5. ASSUME NEW a \in 1 .. Len(stack')
          PROVE  stack'[a].block <= blocks'
      <3>1. CASE a = Len(stack) + 1
        BY <1>1, <1>3, <2>1, <3>1
      <3>2. CASE a \in 1 .. Len(stack)
        <4>1. stack'[a].block = stack[a].block /\ stack[a].block <= blocks /\ stack[a].block \in Nat
          BY <1>3, <2>1, <2>4, <3>2
        <4> QED
          BY <1>1, <1>3, <4>1
      <3> QED
        BY <2>3, <3>1, <3>2
    <2>6. \A a \in 1 .. Len(caught') : caught'[a][2] <= blocks'
      BY <1>1, <1>3 DEF ExceptionInv, BlocksApart
    <2>7. ASSUME NEW a \in 1 .. Len(stack'), NEW b \in 1 .. Len(stack'), stack'[a].block = stack'[b].block
          PROVE  a = b
      <3>1. CASE a \in 1 .. Len(stack) /\ b \in 1 .. Len(stack)
        BY <2>1, <2>7, <2>4, <3>1
      <3>2. ASSUME NEW k \in 1 .. Len(stack) PROVE stack'[k].block # blocks + 1
        <4>1. stack'[k].block = stack[k].block /\ stack[k].block <= blocks /\ stack[k].block \in Nat
          BY <1>3, <2>1, <2>4
        <4> QED
          BY <1>3, <4>1
      <3>3. CASE a = Len(stack) + 1
        BY <2>1, <2>3, <2>7, <3>2, <3>3
      <3>4. CASE b = Len(stack) + 1
        BY <2>1, <2>3, <2>7, <3>2, <3>4
      <3> QED
        BY <2>3, <3>1, <3>3, <3>4
    <2>8. \A a, b \in 1 .. Len(caught') : caught'[a][2] = caught'[b][2] => a = b
      BY <1>1 DEF ExceptionInv, BlocksApart
    <2>9. \A a \in 1 .. Len(stack'), b \in 1 .. Len(caught') : stack'[a].block # caught'[b][2]
      <3>1. \A b \in 1 .. Len(caught) : caught[b][2] # blocks + 1
        BY <1>3 DEF ExceptionInv, BlocksApart
      <3> QED
        BY <1>1, <2>1, <2>2, <2>3, <3>1 DEF ExceptionInv, BlocksApart
    <2> QED
      BY <1>4, <2>5, <2>6, <2>7, <2>8, <2>9 DEF ExceptionInv, BlocksApart
  <1> QED
    BY <1>5, <1>6 DEF TryCatch

(* The search leaves the handlers below the chosen one, whose block has caught. *)
LEMMA RethrowStep ==
  ASSUME ExceptionInv, NEW e, e.number \in Nat, Rethrow(e), thrown' \in Nat
  PROVE  ExceptionInv'
  <1>1. current'.number \in Nat /\ kept' = kept /\ blocks' = blocks
    BY DEF Rethrow
  <1>2. CASE UNCHANGED <<stack, caught>>
    BY <1>1, <1>2 DEF ExceptionInv, ExceptionTyped, BlocksApart
  <1>3. ASSUME NEW i \in 2 .. Len(stack), stack' = Remaining(i),
               \/ caught' = Append(caught, <<e.number, stack[i].block>>)
               \/ caught' = caught
        PROVE  ExceptionInv'
    <2>0. stack \in Seq(Handlers) /\ caught \in Seq(Nat \X Nat) /\ stack[i] \in Handlers
      BY <1>3 DEF ExceptionInv, ExceptionTyped
    <2>1. i \in 1 .. Len(stack) /\ i - 1 \in 0 .. Len(stack)
      BY <1>3, <2>0
    <2>2. /\ stack' \in Seq(Handlers)
          /\ Len(stack') = i - 1
          /\ \A a \in 1 .. i - 1 : stack'[a] = stack[a]
      BY <1>3, <2>0, <2>1 DEF Remaining
    <2>3. \A a \in 1 .. Len(stack') :
            stack'[a].block = stack[a].block /\ a \in 1 .. Len(stack) /\ a # i
      BY <1>3, <2>0, <2>2
    <2>4. /\ \A a \in 1 .. Len(stack') : stack'[a].block <= blocks'
          /\ \A a, b \in 1 .. Len(stack') : stack'[a].block = stack'[b].block => a = b
      BY <1>1, <2>3 DEF ExceptionInv, BlocksApart
    <2>5. CASE caught' = caught
      <3>1. ExceptionTyped'
        BY <1>1, <2>2, <2>5 DEF ExceptionInv, ExceptionTyped
      <3>2. \A a \in 1 .. Len(stack'), b \in 1 .. Len(caught') : stack'[a].block # caught'[b][2]
        BY <2>3, <2>5 DEF ExceptionInv, BlocksApart
      <3> QED
        BY <1>1, <2>4, <2>5, <3>1, <3>2 DEF ExceptionInv, BlocksApart
    <2>6. CASE caught' = Append(caught, <<e.number, stack[i].block>>)
      <3>1. <<e.number, stack[i].block>> \in Nat \X Nat
        BY <2>0 DEF Handlers
      <3>2. /\ caught' \in Seq(Nat \X Nat)
            /\ Len(caught') = Len(caught) + 1
            /\ \A a \in 1 .. Len(caught) : caught'[a] = caught[a]
            /\ caught'[Len(caught) + 1][2] = stack[i].block
        BY <2>0, <2>6, <3>1
      <3>3. ExceptionTyped'
        BY <1>1, <2>2, <3>2 DEF ExceptionInv, ExceptionTyped
      <3>4. /\ stack[i].block <= blocks
            /\ \A a \in 1 .. Len(caught) : caught[a][2] # stack[i].block
            /\ \A a \in 1 .. Len(stack') : stack'[a].block # stack[i].block
        BY <2>1, <2>3 DEF ExceptionInv, BlocksApart
      <3>5. \A a \in 1 .. Len(caught') : a = Len(caught) + 1 \/ a \in 1 .. Len(caught)
        BY <2>0, <3>2
      <3>6. \A a \in 1 .. Len(caught') : caught'[a][2] <= blocks'
        BY <1>1, <3>2, <3>4, <3>5 DEF ExceptionInv, BlocksApart
      <3>7. \A a, b \in 1 .. Len(caught') : caught'[a][2] = caught'[b][2] => a = b
        <4>1. \A a, b \in 1 .. Len(caught) : caught'[a][2] = caught'[b][2] => a = b
          BY <3>2 DEF ExceptionInv, BlocksApart
        <4>2. \A a \in 1 .. Len(caught) : caught'[a][2] # caught'[Len(caught) + 1][2]
          BY <3>2, <3>4
        <4> QED
          BY <3>5, <4>1, <4>2
      <3>8. \A a \in 1 .. Len(stack'), b \in 1 .. Len(caught') : stack'[a].block # caught'[b][2]
        <4>1. \A a \in 1 .. Len(stack'), b \in 1 .. Len(caught) : stack'[a].block # caught'[b][2]
          <5>1. \A a \in 1 .. Len(stack), b \in 1 .. Len(caught) : stack[a].block # caught[b][2]
            BY DEF ExceptionInv, BlocksApart
          <5>2. \A b \in 1 .. Len(caught) : caught'[b][2] = caught[b][2]
            BY <3>2
          <5> QED
            BY <2>3, <5>1, <5>2
        <4>2. \A a \in 1 .. Len(stack') : stack'[a].block # caught'[Len(caught) + 1][2]
          BY <3>2, <3>4
        <4> QED
          BY <3>5, <4>1, <4>2
      <3> QED
        BY <2>4, <3>3, <3>6, <3>7, <3>8 DEF ExceptionInv, BlocksApart
    <2> QED
      BY <1>3, <2>5, <2>6
  <1> QED
    BY <1>2, <1>3 DEF Rethrow, Candidates

LEMMA ExceptionStep ==
  ASSUME ExceptionInv, [ExceptionNext]_xvars
  PROVE  ExceptionInv'
  <1>1. CASE UNCHANGED xvars
    BY <1>1 DEF xvars, ExceptionInv, ExceptionTyped, BlocksApart
  <1>2. ASSUME NEW m \in Modules, NEW c \in Codes, TryCatch(m, c)
        PROVE  ExceptionInv'
    BY <1>2, TryCatchStep
  <1>3. ASSUME NEW m \in Modules, NEW c \in Codes, Throw(m, c) \/ ThrowF(m, c)
        PROVE  ExceptionInv'
    <2> DEFINE e == [number |-> thrown', module |-> m, code |-> c]
    <2>1. thrown' \in Nat /\ e.number \in Nat
      <3>1. thrown' = thrown + 1
        BY <1>3 DEF Throw, ThrowF
      <3> QED
        BY <3>1 DEF ExceptionInv, ExceptionTyped
    <2>2. CASE Rethrow(e)
      BY <2>1, <2>2, RethrowStep
    <2>3. CASE UNCHANGED <<stack, current, kept, blocks, caught>>
      BY <2>1, <2>3 DEF ExceptionInv, ExceptionTyped, BlocksApart
    <2> QED
      BY <1>3, <2>2, <2>3 DEF Throw, ThrowF
  <1>4. CASE RethrowCurrent \/ RethrowKept
    BY <1>4, RethrowStep DEF RethrowCurrent, RethrowKept, ExceptionInv, ExceptionTyped
  <1>5. CASE Keep
    BY <1>5 DEF Keep, ExceptionInv, ExceptionTyped, BlocksApart
  <1> QED
    BY <1>1, <1>2, <1>3, <1>4, <1>5 DEF ExceptionNext

(* Whatever blocks are entered and left, and whatever is thrown, kept and thrown again, for any masks
   and any room on the stack: no block gets an exception it has had. *)
THEOREM NobodyCatchesTwice == ExceptionSpec => []NeverCaughtTwice
  <1>1. ExceptionInit => ExceptionInv
    <2> SUFFICES ASSUME ExceptionInit PROVE ExceptionInv
      OBVIOUS
    <2>1. ExceptionTyped
      <3>1. <<>> \in Seq(Handlers) /\ <<>> \in Seq(Nat \X Nat)
        OBVIOUS
      <3> QED
        BY <3>1 DEF ExceptionInit, ExceptionTyped, NoException
    <2> QED
      <3>1. Len(stack) = 0 /\ Len(caught) = 0
        <4>1. stack = <<>> /\ caught = <<>>
          BY DEF ExceptionInit
        <4> QED
          BY <4>1
      <3> QED
        BY <2>1, <3>1 DEF ExceptionInv, BlocksApart
  <1>2. ExceptionInv => NeverCaughtTwice
    <2> SUFFICES ASSUME ExceptionInv PROVE NeverCaughtTwice
      OBVIOUS
    <2>1. DOMAIN caught = 1 .. Len(caught) /\ DOMAIN stack = 1 .. Len(stack)
      BY DEF ExceptionInv, ExceptionTyped
    <2> QED
      BY <2>1 DEF ExceptionInv, BlocksApart, NeverCaughtTwice, IsInjective, Range
  <1> QED
    BY <1>1, <1>2, ExceptionStep, PTL DEF ExceptionSpec

-----------------------------------------------------------------------------
(* Pipes.  Whoever is in poll(), or in the read() after it, has a descriptor to read from, so the buffer
   stays; a reader that finds it empty before the stream's end was overtaken since its poll(). *)
SystemCalls == {"idle", "write", "read", "poll", "timed read", "open read", "open write", "open both"}
PipeTyped ==
  /\ bytes \in Nat
  /\ mode \in [Peers -> Modes \cup {"closed"}]
  /\ doing \in [Peers -> SystemCalls]
  /\ overtaken \in [Peers -> BOOLEAN]

Timed(p) == doing[p] \in {"poll", "timed read"}
Answered(p) == overtaken[p] \/ bytes > 0 \/ Writers = {}
PipeInv ==
  /\ PipeTyped
  /\ \A p \in Peers : Timed(p) => Reads(mode[p])
  /\ \A p \in Peers : doing[p] = "timed read" => Answered(p)

LEMMA OpenCalls == \A m \in Modes : OpenCall[m] \in {"open read", "open write", "open both"}
  <1>1. /\ OpenCall["read"] = "open read" /\ OpenCall["write"] = "open write"
        /\ OpenCall["both"] = "open both"
    BY DEF OpenCall
  <1> QED
    BY <1>1 DEF Modes

(* What the steps of the other processes and other calls do to a timed read. *)
LEMMA PipeFrame ==
  ASSUME PipeInv, PipeTyped', NEW p \in Peers,
         \A q \in Peers \ {p} : doing'[q] = doing[q] /\ mode'[q] = mode[q],
         doing'[p] \notin {"poll", "timed read"},
         \A q \in Peers \ {p} :
           doing[q] = "timed read" /\ Answered(q) => Answered(q)'
  PROVE  PipeInv'
  BY DEF PipeInv, Timed

(* Steps that end with the process out of poll() and its read(), and leave the buffer no emptier. *)
LEMMA PipeTypedStep == PipeTyped /\ [PipeNext]_fifovars => PipeTyped'
  <1> SUFFICES ASSUME PipeTyped, [PipeNext]_fifovars PROVE PipeTyped'
    OBVIOUS
  <1> USE DEF PipeTyped, Call, Tell
  <1>0. /\ \A m \in Modes : OpenCall[m] \in SystemCalls
        /\ {"idle", "write", "read", "poll", "timed read"} \subseteq SystemCalls
        /\ \A flags : FlagsOpened(flags) \in Modes
    BY OpenCalls DEF SystemCalls, FlagsOpened, Modes
  <1>1. CASE UNCHANGED fifovars
    BY <1>1 DEF fifovars
  <1>2. ASSUME NEW p \in Peers, NEW flags, MakeFifo(p, flags)
        PROVE  PipeTyped'
    BY <1>0, <1>2 DEF MakeFifo
  <1>3. ASSUME NEW p \in Peers, NEW m \in Modes, Open(p, m) \/ Opened(p, m)
        PROVE  PipeTyped'
    BY <1>0, <1>3 DEF Open, Opened
  <1>4. ASSUME NEW p \in Peers, NEW enabled, SetNonblocking(p, enabled)
        PROVE  PipeTyped'
    BY <1>0, <1>4 DEF SetNonblocking
  <1>5. ASSUME NEW p \in Peers, Close(p) \/ Killed(p)
        PROVE  PipeTyped'
    <2>1. bytes' \in Nat /\ overtaken' = overtaken
      BY <1>5 DEF Close, Killed, DropDescriptor
    <2>2. mode' = [mode EXCEPT ![p] = "closed"] /\ doing' = [doing EXCEPT ![p] = "idle"]
      BY <1>5 DEF Close, Killed, DropDescriptor
    <2> QED
      BY <1>0, <2>1, <2>2
  <1>6. ASSUME NEW p \in Peers, OpenFails(p) \/ Destroy(p)
        PROVE  PipeTyped'
    BY <1>0, <1>6 DEF OpenFails, Destroy
  <1>7. ASSUME NEW p \in Peers, BeginWrite(p) \/ BeginRead(p) \/ BeginPoll(p)
        PROVE  PipeTyped'
    BY <1>0, <1>7 DEF BeginWrite, BeginRead, BeginPoll
  <1>8. ASSUME NEW p \in Peers, WriteFifo(p)
        PROVE  PipeTyped'
    <2>1. bytes' \in Nat
      BY <1>8, BufferHolds DEF WriteFifo
    <2> QED
      BY <1>0, <1>8, <2>1 DEF WriteFifo
  <1>9. ASSUME NEW p \in Peers, ReadFifo(p)
        PROVE  PipeTyped'
    <2>1. bytes' \in Nat
      <3>1. bytes' = bytes \/ \E n \in 1 .. bytes : bytes' = bytes - n
        BY <1>9 DEF ReadFifo
      <3> QED
        BY <3>1
    <2>2. overtaken' \in [Peers -> BOOLEAN]
      <3>1. overtaken' = overtaken \/ overtaken' = [q \in Peers |-> doing[q] = "timed read" /\ q # p]
        BY <1>9 DEF ReadFifo
      <3> QED
        BY <3>1
    <2> QED
      BY <1>0, <1>9, <2>1, <2>2 DEF ReadFifo
  <1>10. ASSUME NEW p \in Peers, PollReady(p) \/ PollFails(p)
         PROVE  PipeTyped'
    BY <1>0, <1>10 DEF PollReady, PollFails
  <1> QED
    BY <1>1, <1>2, <1>3, <1>4, <1>5, <1>6, <1>7, <1>8, <1>9, <1>10 DEF PipeNext

LEMMA PipeStep ==
  ASSUME PipeInv, [PipeNext]_fifovars
  PROVE  PipeInv'
  <1>0. PipeTyped /\ PipeTyped'
    BY PipeTypedStep DEF PipeInv
  <1> USE DEF Call, Tell
  <1>1. CASE UNCHANGED fifovars
    BY <1>0, <1>1 DEF fifovars, PipeInv, Timed, Answered, Writers
  <1>2. ASSUME NEW p \in Peers,
               \/ \E flags \in Modes \cup {"none"} : MakeFifo(p, flags)
               \/ \E m \in Modes : Open(p, m)
               \/ OpenFails(p) \/ Destroy(p) \/ BeginWrite(p) \/ WriteFifo(p) \/ BeginRead(p)
               \/ PollFails(p)
               \/ \E enabled \in BOOLEAN : SetNonblocking(p, enabled)
        PROVE  PipeInv'
    <2>1. overtaken' = overtaken /\ mode' = mode /\ bytes' >= bytes
      BY <1>0, <1>2, BufferHolds DEF MakeFifo, Open, OpenFails, Destroy, BeginWrite, WriteFifo, BeginRead, PollFails,
                        SetNonblocking, PipeTyped
    <2>2. \A q \in Peers \ {p} : doing'[q] = doing[q]
      BY <1>0, <1>2 DEF MakeFifo, Open, OpenFails, Destroy, BeginWrite, WriteFifo, BeginRead, PollFails,
                        SetNonblocking, PipeTyped
    <2>3. doing'[p] \notin {"poll", "timed read"}
      BY <1>0, <1>2, OpenCalls DEF MakeFifo, Open, OpenFails, Destroy, BeginWrite, WriteFifo, BeginRead, PollFails,
                        SetNonblocking, PipeTyped, FlagsOpened, Modes
    <2> QED
      <3>1. bytes > 0 => bytes' > 0
        BY <1>0, <2>1 DEF PipeTyped
      <3>2. \A q \in Peers : Answered(q) => Answered(q)'
        BY <2>1, <3>1 DEF Answered, Writers
      <3> QED
        BY <1>0, <2>1, <2>2, <2>3, <3>2, PipeFrame
  <1>3. ASSUME NEW p \in Peers, NEW m \in Modes, Opened(p, m)
        PROVE  PipeInv'
    <2>1. /\ \A q \in Peers \ {p} : doing'[q] = doing[q] /\ mode'[q] = mode[q]
          /\ doing'[p] = "idle" /\ bytes' = bytes
      BY <1>0, <1>3 DEF Opened, PipeTyped
    <2>2. ASSUME NEW q \in Peers \ {p}, doing[q] = "timed read", Answered(q)
          PROVE  Answered(q)'
      <3>1. overtaken'[q] <=> overtaken[q] \/ (Writes(m) /\ bytes = 0)
        BY <1>3, <2>2 DEF Opened
      <3>2. bytes > 0 \/ bytes = 0
        BY <1>0 DEF PipeTyped
      <3>3. CASE ~Writes(m)
        <4>1. Writers' \subseteq Writers
          BY <1>0, <1>3, <2>1, <3>3 DEF Opened, Writers, PipeTyped
        <4> QED
          BY <2>1, <2>2, <3>1, <4>1 DEF Answered
      <3> QED
        BY <2>1, <3>1, <3>2, <3>3 DEF Answered
    <2> QED
      BY <1>0, <2>1, <2>2, PipeFrame
  <1>4. ASSUME NEW p \in Peers, Close(p) \/ Killed(p)
        PROVE  PipeInv'
    <2>1. \A q \in Peers \ {p} : doing'[q] = doing[q] /\ mode'[q] = mode[q] /\ overtaken'[q] = overtaken[q]
      BY <1>0, <1>4 DEF Close, Killed, DropDescriptor, PipeTyped
    <2>2. doing'[p] = "idle" /\ mode'[p] = "closed"
      BY <1>0, <1>4 DEF Close, Killed, DropDescriptor, PipeTyped
    <2>3. ASSUME NEW q \in Peers \ {p}, doing[q] = "timed read"
          PROVE  bytes' = bytes
      <3>1. mode'[q] # "closed"
        BY <2>1, <2>3 DEF PipeInv, Timed, Reads
      <3> QED
        BY <1>4, <3>1 DEF Close, Killed, DropDescriptor
    <2>4. Writers' \subseteq Writers
      BY <2>1, <2>2 DEF Writers, Writes
    <2>5. \A q \in Peers \ {p} : doing[q] = "timed read" /\ Answered(q) => Answered(q)'
      BY <2>1, <2>3, <2>4 DEF Answered
    <2> QED
      BY <1>0, <2>1, <2>2, <2>5, PipeFrame
  <1>5. ASSUME NEW p \in Peers, ReadFifo(p)
        PROVE  PipeInv'
    <2>1. mode' = mode /\ doing'[p] = "idle" /\ \A q \in Peers \ {p} : doing'[q] = doing[q]
      BY <1>0, <1>5 DEF ReadFifo, PipeTyped
    <2>2. \A q \in Peers \ {p} : doing[q] = "timed read" => overtaken'[q] \/ UNCHANGED <<bytes, overtaken>>
      BY <1>5 DEF ReadFifo
    <2>3. \A q \in Peers \ {p} : doing[q] = "timed read" /\ Answered(q) => Answered(q)'
      BY <2>1, <2>2 DEF Answered, Writers
    <2> QED
      BY <1>0, <2>1, <2>3, PipeFrame
  <1>6. ASSUME NEW p \in Peers, BeginPoll(p)
        PROVE  PipeInv'
    BY <1>0, <1>6 DEF BeginPoll, PipeInv, PipeTyped, Timed, Answered, Writers
  <1>7. ASSUME NEW p \in Peers, PollReady(p)
        PROVE  PipeInv'
    BY <1>0, <1>7 DEF PollReady, Readable, PipeInv, PipeTyped, Timed, Answered, Writers
  <1> QED
    BY <1>1, <1>2, <1>3, <1>4, <1>5, <1>6, <1>7 DEF PipeNext

(* For any number of processes at a FIFO of any size: no timed read waits for good unless another process
   took what its poll() had found, or came to write where it had found the end. *)
THEOREM TimedReadsAreTimely == PipeSpec => []TimedReadTimely
  <1>1. PipeInit => PipeInv
    BY DEF PipeInit, PipeInv, PipeTyped, Timed, SystemCalls
  <1>2. PipeInv => TimedReadTimely
    <2>1. PipeTyped /\ bytes = 0 => ~(bytes > 0)
      BY DEF PipeTyped
    <2> QED
      BY <2>1 DEF PipeInv, TimedReadTimely, Answered
  <1> QED
    BY <1>1, <1>2, PipeStep, PTL DEF PipeSpec

-----------------------------------------------------------------------------
(* Atomics.  An operation under way has the mutex, what it read is still there, and next to Interlocked
   calls it is one that writes nothing it has computed. *)
AtomicTyped ==
  /\ cell \in Cells
  /\ step \in [Callers -> {"idle", "locked", "read"}]
  /\ op \in [Callers -> C11!FetchOps \cup {"cas"}]
  /\ arg \in [Callers -> Cells] /\ want \in [Callers -> Cells]
  /\ DOMAIN prev = Callers /\ DOMAIN answer = Callers

UnderWay(t) == step[t] # "idle"
AtomicInv ==
  /\ AtomicTyped
  /\ \A t \in Callers : UnderWay(t) => lock = t
  /\ \A t \in Callers : step[t] = "read" => prev[t] = cell /\ op[t] # "store"
  /\ \A t \in Callers : step[t] = "read" /\ op[t] = "cas" => prev[t] = want[t]
  /\ win32 => \A t \in Callers : UnderWay(t) => op[t] \in {"load", "store"} /\ step[t] = "locked"

AtomicWordVars == <<Narrow(cell), answer>>

(* An operation on the intmax_t is one on the type's value. *)
LEMMA NarrowPerform ==
  ASSUME NEW t \in Callers, NEW o \in C11!FetchOps, NEW a \in Cells, cell \in Cells,
         Narrow(cell') = TypeResult(o, cell, a),
         answer' = [answer EXCEPT ![t] = C11!Answer(o, Narrow(cell))]
  PROVE  C11!AtomicNext
  <1>1. Narrow(cell') = TypeResult(o, Narrow(cell), Narrow(a))
    BY ResultsNarrow
  <1>2. Narrow(a) \in Values
    BY DEF Values
  <1>3. C11!Perform(t, o, Narrow(a))
    BY <1>1 DEF C11!Perform
  <1> QED
    BY <1>2, <1>3 DEF C11!AtomicNext

(* So is a compare-exchange, whether it exchanged or did not find the intmax_t it expects. *)
LEMMA NarrowExchange ==
  ASSUME NEW t \in Callers, NEW a \in Cells, NEW w \in Cells, cell \in Cells,
         \/ /\ cell = w /\ cell' = a
            /\ answer' = [answer EXCEPT ![t] = [found |-> Narrow(cell), done |-> TRUE]]
         \/ /\ cell # w /\ cell' = cell
            /\ answer' = [answer EXCEPT ![t] = [found |-> Narrow(cell), done |-> FALSE]]
  PROVE  C11!AtomicNext
  <1>1. Narrow(a) \in Values /\ Narrow(w) \in Values
    BY DEF Values
  <1>2. Narrow(cell) # Narrow(w) \/ (\E v \in Cells : Narrow(v) # v) \/ cell = w
    OBVIOUS
  <1>3. C11!CompareExchange(t, Narrow(w), Narrow(a))
    BY <1>2 DEF C11!CompareExchange
  <1> QED
    BY <1>1, <1>3 DEF C11!AtomicNext

LEMMA AtomicStep ==
  ASSUME ~Mixed, AtomicInv, [AtomicFallbackNext]_avariables
  PROVE  AtomicInv' /\ [C11!AtomicNext]_AtomicWordVars
  <1> USE AtomicConstantsOK DEF AtomicInv, UnderWay, AtomicWordVars
  <1>1. CASE UNCHANGED avariables
    BY <1>1 DEF avariables, AtomicTyped
  <1>2. ASSUME NEW t \in Callers, NEW o \in C11!FetchOps, NEW a \in Arguments, InterlockedCall(t, o, a)
        PROVE  AtomicInv' /\ [C11!AtomicNext]_AtomicWordVars
    <2>1. \A u \in Callers : step[u] # "read"
      BY <1>2 DEF InterlockedCall, IsInterlocked
    <2>2. AtomicInv'
      BY <1>2, <2>1 DEF InterlockedCall, AtomicTyped
    <2>3. /\ Narrow(cell') = TypeResult(o, cell, a) /\ cell \in Cells /\ a \in Cells
          /\ answer' = [answer EXCEPT ![t] = C11!Answer(o, Narrow(cell))]
      BY <1>2 DEF InterlockedCall, AtomicTyped
    <2> QED
      BY <2>2, <2>3, NarrowPerform
  <1>3. ASSUME NEW t \in Callers, NEW o \in C11!FetchOps \cup {"cas"}, NEW a \in Cells, NEW w \in Cells,
               TakeMutex(t, o, a, w)
        PROVE  AtomicInv' /\ UNCHANGED <<cell, answer>>
    <2>1. \A u \in Callers : step[u] = "idle"
      BY <1>3 DEF TakeMutex, LockFree
    <2>2. AtomicTyped' /\ UNCHANGED <<cell, answer>>
      BY <1>3 DEF TakeMutex, AtomicTyped
    <2>3. \A u \in Callers : u # t => step'[u] = "idle"
      BY <1>3, <2>1 DEF TakeMutex, AtomicTyped
    <2>4. step'[t] = "locked" /\ lock' = t /\ op'[t] = o /\ win32' = win32
      BY <1>3 DEF TakeMutex, AtomicTyped
    <2>5. win32 => o \in {"load", "store"}
      BY <1>3 DEF TakeMutex, IsInterlocked, C11!FetchOps
    <2> QED
      BY <2>2, <2>3, <2>4, <2>5
  <1>4. ASSUME NEW t \in Callers, ReleaseMutex(t), UnderWay(t), DOMAIN answer' = Callers, cell' \in Cells
        PROVE  AtomicInv'
    <2>1. AtomicTyped'
      BY <1>4 DEF ReleaseMutex, AtomicTyped, C11!FetchOps
    <2>2. \A u \in Callers : step'[u] = "idle"
      BY <1>4 DEF ReleaseMutex, AtomicTyped
    <2> QED
      BY <2>1, <2>2
  <1>5. ASSUME NEW t \in Callers, OneAccess(t)
        PROVE  AtomicInv' /\ [C11!AtomicNext]_AtomicWordVars
    <2>1. op[t] \in C11!FetchOps /\ arg[t] \in Cells /\ cell \in Cells
      BY <1>5 DEF OneAccess, AtomicTyped, C11!FetchOps
    <2>2. AtomicInv'
      BY <1>4, <1>5, <2>1, ResultsNarrow DEF OneAccess, AtomicTyped
    <2>3. /\ Narrow(cell') = TypeResult(op[t], cell, arg[t])
          /\ answer' = [answer EXCEPT ![t] = C11!Answer(op[t], Narrow(cell))]
      BY <1>5 DEF OneAccess, TypeResult
    <2> QED
      BY <2>1, <2>2, <2>3, NarrowPerform
  <1>6. ASSUME NEW t \in Callers, ReadOld(t)
        PROVE  AtomicInv' /\ UNCHANGED <<cell, answer>>
    BY <1>6 DEF ReadOld, AtomicTyped
  <1>7. ASSUME NEW t \in Callers, WriteNew(t)
        PROVE  AtomicInv' /\ [C11!AtomicNext]_AtomicWordVars
    <2>1. arg[t] \in Cells /\ want[t] \in Cells /\ cell \in Cells /\ prev[t] = cell /\ op[t] # "store"
      BY <1>7 DEF WriteNew, AtomicTyped
    <2>2. answer' = [answer EXCEPT ![t] = [found |-> Narrow(cell), done |-> TRUE]]
      BY <1>7, <2>1 DEF WriteNew, C11!Answer
    <2>3. CASE op[t] = "cas"
      <3>1. AtomicInv'
        BY <1>4, <1>7, <2>1, <2>3 DEF WriteNew, AtomicTyped
      <3>2. cell = want[t] /\ cell' = arg[t]
        BY <1>7, <2>1, <2>3 DEF WriteNew
      <3> QED
        BY <2>1, <2>2, <3>1, <3>2, NarrowExchange
    <2>4. CASE op[t] # "cas"
      <3>1. op[t] \in C11!FetchOps
        BY <2>4 DEF AtomicTyped
      <3>2. AtomicInv'
        BY <1>4, <1>7, <2>1, <2>4, <3>1, ResultsNarrow DEF WriteNew, AtomicTyped
      <3>3. /\ Narrow(cell') = TypeResult(op[t], cell, arg[t])
            /\ answer' = [answer EXCEPT ![t] = C11!Answer(op[t], Narrow(cell))]
        BY <1>7, <2>1, <2>4 DEF WriteNew, TypeResult
      <3> QED
        BY <2>1, <3>1, <3>2, <3>3, NarrowPerform
    <2> QED
      BY <2>3, <2>4
  <1>8. ASSUME NEW t \in Callers, NotExpected(t)
        PROVE  AtomicInv' /\ [C11!AtomicNext]_AtomicWordVars
    <2>1. AtomicInv'
      BY <1>4, <1>8 DEF NotExpected, AtomicTyped
    <2>2. /\ cell \in Cells /\ want[t] \in Cells /\ cell # want[t] /\ cell' = cell
          /\ answer' = [answer EXCEPT ![t] = [found |-> Narrow(cell), done |-> FALSE]]
      BY <1>8 DEF NotExpected, AtomicTyped
    <2> QED
      BY <2>1, <2>2, NarrowExchange
  <1>9. CASE AtomicFallbackNext
    <2>1. PICK t \in Callers :
            \/ \E o \in C11!FetchOps, a \in Arguments : InterlockedCall(t, o, a) \/ TakeMutex(t, o, a, 0)
            \/ \E a \in Arguments, w \in Cells : TakeMutex(t, "cas", a, w)
            \/ OneAccess(t) \/ NotExpected(t) \/ ReadOld(t) \/ WriteNew(t)
      BY <1>9 DEF AtomicFallbackNext
    <2>2. Arguments \subseteq Cells /\ 0 \in Cells
      OBVIOUS
    <2>3. UNCHANGED <<cell, answer>> => UNCHANGED AtomicWordVars
      OBVIOUS
    <2> HIDE DEF AtomicInv, AtomicWordVars
    <2> QED
      BY <1>2, <1>3, <1>5, <1>6, <1>7, <1>8, <2>1, <2>2, <2>3
  <1> QED
    BY <1>1, <1>9

(* The fallback implements <stdatomic.h>'s integers for any threads, operands and operations, any width of
   the type and of the intmax_t, on POSIX and on Windows, as long as no program mixes Interlocked calls and
   the mutex on one object; its compare-exchange only as a weak one where the intmax_t is the wider. *)
THEOREM FallbackIsAtomic ==
  ASSUME ~Mixed
  PROVE  AtomicFallbackSpec => ImplementsAtomic
  <1>1. AtomicFallbackInit => AtomicInv /\ C11!AtomicInit
    BY AtomicConstantsOK
       DEF AtomicFallbackInit, AtomicInv, AtomicTyped, UnderWay, C11!AtomicInit, C11!FetchOps
  <1>2. AtomicInv /\ [AtomicFallbackNext]_avariables =>
          AtomicInv' /\ [C11!AtomicNext]_<<Narrow(cell), answer>>
    BY AtomicStep DEF AtomicWordVars
  <1> QED
    BY <1>1, <1>2, PTL DEF AtomicFallbackSpec, ImplementsAtomic, C11!AtomicSpec

-----------------------------------------------------------------------------
(* Thread-specific storage.  The types first. *)
TssTyped ==
  /\ key \in [Nodes -> Keys \cup {Nobody}] /\ next \in [Nodes -> Nodes \cup {Null}]
  /\ node \in [Threads -> Nodes \cup {Null}]
  /\ pc \in [Threads -> {"run", "enter", "scan", "call", "ended"}]
  /\ pass \in [Threads -> Nat] /\ any \in [Threads -> BOOLEAN]
  /\ value \in [Threads -> [Keys -> Nat]]
  /\ \A t \in Threads : pc[t] = "call" => node[t] # Null

LEMMA TssTypedStep == TssTyped /\ live \subseteq Nodes /\ head \in Nodes \cup {Null} /\ [TssNext]_tssvars => TssTyped'
  <1> SUFFICES ASSUME TssTyped, live \subseteq Nodes, head \in Nodes \cup {Null}, [TssNext]_tssvars
               PROVE  TssTyped'
    OBVIOUS
  <1> USE DEF TssTyped, list, walk
  <1>1. CASE UNCHANGED tssvars
    BY <1>1 DEF tssvars
  <1>2. ASSUME NEW t \in Threads, NEW k \in Keys, Create(t, k)
        PROVE  TssTyped'
    <2>1. UNCHANGED <<value, walk>>
      BY <1>2 DEF Create
    <2>2. CASE UNCHANGED list
      BY <2>1, <2>2
    <2>3. CASE Insert(t, k)
      BY <2>1, <2>3 DEF Insert
    <2> QED
      BY <1>2, <2>2, <2>3 DEF Create, FullTable
  <1>3. ASSUME NEW t \in Threads, NEW k \in Keys, Set(t, k)
        PROVE  TssTyped'
    BY <1>3 DEF Set
  <1>4. ASSUME NEW t \in Threads, NEW k \in Keys, Delete(t, k)
        PROVE  TssTyped'
    BY <1>4 DEF Delete
  <1>5. ASSUME NEW t \in Threads, ThreadReturns(t)
        PROVE  TssTyped'
    BY <1>5 DEF ThreadReturns
  <1>6. ASSUME NEW t \in Threads, BeginPass(t)
        PROVE  TssTyped'
    BY <1>6 DEF BeginPass
  <1>7. ASSUME NEW t \in Threads, Resume(t)
        PROVE  TssTyped'
    BY <1>7 DEF Resume
  <1>8. ASSUME NEW t \in Threads, EndPass(t)
        PROVE  TssTyped'
    <2>1. UNCHANGED <<list, node>>
      BY <1>8 DEF EndPass
    <2>2. value' = value \/ value' = [value EXCEPT ![t] = [k \in Keys |-> 0]]
      BY <1>8 DEF EndPass
    <2>3. pass' = [pass EXCEPT ![t] = 0] \/ pass' = [pass EXCEPT ![t] = @ + 1]
      BY <1>8 DEF EndPass
    <2>4. any' = any \/ any' = [any EXCEPT ![t] = FALSE]
      BY <1>8 DEF EndPass
    <2>5. pc' = [pc EXCEPT ![t] = "ended"] \/ pc' = [pc EXCEPT ![t] = "enter"]
      BY <1>8 DEF EndPass
    <2>6. value' \in [Threads -> [Keys -> Nat]]
      BY <2>2
    <2>7. pass' \in [Threads -> Nat]
      BY <2>3
    <2>8. any' \in [Threads -> BOOLEAN]
      BY <2>4
    <2> QED
      BY <2>1, <2>5, <2>6, <2>7, <2>8
  <1>9. ASSUME NEW t \in Threads, SkipNode(t)
        PROVE  TssTyped'
    BY <1>9 DEF SkipNode
  <1>10. ASSUME NEW t \in Threads, CallDtor(t)
         PROVE  TssTyped'
    BY <1>10 DEF CallDtor
  <1> QED
    BY <1>1, <1>2, <1>3, <1>4, <1>5, <1>6, <1>7, <1>8, <1>9, <1>10 DEF TssNext, Enter, Walk

(* The list: its nodes lead to each other and to its end, nothing leads to its head, each key has one
   node, and whatever is closed under next and has the head has all of it. *)
Closed(S) == \A x \in S : next[x] \in S \cup {Null}
ListInv ==
  /\ live \subseteq Nodes /\ head \in live \cup {Null}
  /\ \A x \in live : next[x] \in live \cup {Null}
  /\ \A x, y \in live : next[x] = next[y] /\ next[x] # Null => x = y
  /\ \A x \in live : head # Null => next[x] # head
  /\ \A x, y \in live : key[x] = key[y] => x = y
  /\ \A x \in live : key[x] \in allocated
  /\ allocated \subseteq Keys
  /\ \A S \in SUBSET live : Closed(S) /\ head \in S \cup {Null} => live \subseteq S

LEMMA HeadReaches ==
  ASSUME ListInv, NEW S \in SUBSET Nodes, \A x \in S \cap live : next[x] \in S \cup {Null},
         head \in S \cup {Null}
  PROVE  live \subseteq S
  <1> DEFINE T == S \cap live
  <1>1. T \in SUBSET live /\ Closed(T) /\ head \in T \cup {Null}
    BY DEF ListInv, Closed
  <1> QED
    BY <1>1 DEF ListInv

LEMMA InsertKeepsList ==
  ASSUME TssTyped, ListInv, NEW t \in Threads, NEW k \in Keys \ allocated, Insert(t, k)
  PROVE  ListInv'
  <1>1. PICK n \in Nodes \ live :
          /\ key' = [key EXCEPT ![n] = k] /\ next' = [next EXCEPT ![n] = head]
          /\ head' = n /\ live' = live \cup {n}
          /\ allocated' = allocated \cup {k}
    BY DEF Insert
  <1>2. /\ key'[n] = k /\ next'[n] = head /\ n # Null /\ n \notin live
        /\ \A x \in live : x \in Nodes /\ key'[x] = key[x] /\ next'[x] = next[x] /\ x # Null
    BY <1>1, TssConstantsOK DEF TssTyped, ListInv, Null
  <1>3. ASSUME NEW S \in SUBSET live', Closed(S)', n \in S \cup {Null}
        PROVE  live' \subseteq S
    <2>1. head \in S \cup {Null} /\ \A x \in S \cap live : next[x] \in S \cup {Null}
      BY <1>2, <1>3 DEF Closed
    <2> QED
      BY <1>1, <1>2, <1>3, <2>1, HeadReaches DEF ListInv
  <1>4. /\ live' \subseteq Nodes /\ head' \in live' \cup {Null} /\ allocated' \subseteq Keys
        /\ \A x \in live' : next'[x] \in live' \cup {Null}
        /\ \A x, y \in live' : next'[x] = next'[y] /\ next'[x] # Null => x = y
        /\ \A x \in live' : head' # Null => next'[x] # head'
    BY <1>1, <1>2 DEF ListInv
  <1>5. /\ \A x, y \in live' : key'[x] = key'[y] => x = y
        /\ \A x \in live' : key'[x] \in allocated'
    BY <1>1, <1>2 DEF ListInv
  <1> QED
    BY <1>1, <1>3, <1>4, <1>5 DEF ListInv

(* The node of a deleted key, if it has one. *)
Found(k) == {n \in live : key[n] = k}

LEMMA DeleteKeepsList ==
  ASSUME TssTyped, ListInv, NEW t \in Threads, NEW k \in Keys, Delete(t, k)
  PROVE  ListInv'
  <1>1. /\ live' = live \ Found(k) /\ key' = key /\ allocated' = allocated \ {k}
        /\ head' = IF head \in Found(k) THEN next[head] ELSE head
        /\ \A x \in Nodes : next'[x] = IF x \in live' /\ next[x] \in Found(k) THEN next[next[x]]
                                        ELSE next[x]
    BY DEF Delete, Found
  <1>2. /\ Found(k) \subseteq live /\ live \subseteq Nodes /\ Null \notin live
        /\ \A x, y \in Found(k) : x = y
    BY TssConstantsOK DEF Found, ListInv, Null
  <1>3. \A d \in Found(k) : next[d] # d
    <2> SUFFICES ASSUME NEW d \in Found(k), next[d] = d PROVE FALSE
      OBVIOUS
    <2> DEFINE S == live \ {d}
    <2>1. S \in SUBSET live /\ Closed(S) /\ head \in S \cup {Null}
      BY <1>2 DEF ListInv, Closed
    <2> QED
      BY <1>2, <2>1 DEF ListInv
  <1>4. \A d \in Found(k) : next[d] \in live' \cup {Null}
    BY <1>1, <1>2, <1>3 DEF ListInv
  <1>5. \A x \in live' :
          \/ next[x] \in live' \cup {Null} /\ next'[x] = next[x]
          \/ next[x] \in Found(k) /\ next'[x] = next[next[x]]
    BY <1>1, <1>2 DEF ListInv
  <1>6. /\ live' \subseteq Nodes /\ head' \in live' \cup {Null} /\ allocated' \subseteq Keys
        /\ \A x \in live' : next'[x] \in live' \cup {Null}
    BY <1>1, <1>2, <1>4, <1>5 DEF ListInv
  <1>7. /\ \A x, y \in live' : next'[x] = next'[y] /\ next'[x] # Null => x = y
        /\ \A x \in live' : head' # Null => next'[x] # head'
    BY <1>1, <1>2, <1>5 DEF ListInv
  <1>8. /\ \A x, y \in live' : key'[x] = key'[y] => x = y
        /\ \A x \in live' : key'[x] \in allocated'
    BY <1>1 DEF ListInv, Found
  <1>9. ASSUME NEW S \in SUBSET live', Closed(S)', head' \in S \cup {Null}
        PROVE  live' \subseteq S
    <2> DEFINE T == S \cup {d \in Found(k) : next[d] \in S \cup {Null}}
    <2>1. T \in SUBSET Nodes
      BY <1>1, <1>2
    <2>2. \A x \in T \cap live : next[x] \in T \cup {Null}
      BY <1>1, <1>2, <1>5, <1>9 DEF Closed
    <2>3. head \in T \cup {Null}
      BY <1>1, <1>2, <1>9
    <2> QED
      BY <1>1, <2>1, <2>2, <2>3, HeadReaches
  <1> QED
    BY <1>6, <1>7, <1>8, <1>9 DEF ListInv

(* The lock: whoever is in a pass has it, so that the list stays as it is. *)
SectionInv == \A t \in Threads : pc[t] = "scan" => section.owner = t

(* The values: a destructor of pass p leaves p + 2, and what a pass has not come to is older. *)
ValuesInv ==
  /\ \A t \in Threads, k \in Keys :
       /\ value[t][k] <= pass[t] + 2
       /\ pc[t] = "run" => value[t][k] <= 1
       /\ pc[t] = "enter" => value[t][k] <= pass[t] + 1
       /\ pc[t] \in {"enter", "scan"} /\ ~any[t] => value[t][k] <= 1
  /\ \A t \in Threads, k \in Keys \ allocated : value[t][k] = 0

(* The walk: from where a thread is, next leads to every node that still has an old value for it, through
   nodes that were freed under its feet too. *)
Onward(t) == IF pc[t] = "scan" THEN node[t] ELSE next[node[t]]
Old(t, m) == m \in live /\ value[t][key[m]] # 0 /\ value[t][key[m]] <= pass[t] + 1
WayClear(t) ==
  \A S \in SUBSET Nodes : Closed(S) /\ Onward(t) \in S \cup {Null} => \A m \in Nodes : Old(t, m) => m \in S
WalkInv == \A t \in Threads : pc[t] \in {"scan", "call"} => WayClear(t)

TssInv == TssTyped /\ ListInv /\ SectionInv /\ ValuesInv /\ WalkInv

(* Steps that leave the list alone and what is old where it was. *)
LEMMA WayFrame ==
  ASSUME TssTyped, ListInv, NEW t \in Threads, WayClear(t), UNCHANGED <<key, next, live>>,
         Onward(t)' = Onward(t), pass'[t] = pass[t],
         \A k \in Keys : value'[t][k] \in {0, value[t][k], pass[t] + 2}
  PROVE  WayClear(t)'
  <1>1. \A m \in Nodes : Old(t, m)' => Old(t, m)
    BY DEF Old, TssTyped, ListInv
  <1>2. \A S : Closed(S)' <=> Closed(S)
    BY DEF Closed
  <1> QED
    BY <1>1, <1>2 DEF WayClear

(* Whoever changes the list is in the program's own code, and no thread is in a pass then. *)
LEMMA ListChangesOutside ==
  ASSUME SectionInv, NEW u \in Threads, CanEnter(u), InUserCode(u), NEW t \in Threads
  PROVE  pc[t] # "scan"
  BY TssConstantsOK DEF SectionInv, CanEnter, InUserCode, Nobody

LEMMA WayInsert ==
  ASSUME TssTyped, ListInv, ValuesInv, NEW u \in Threads, NEW k \in Keys \ allocated, Insert(u, k),
         UNCHANGED <<value, walk>>,
         NEW t \in Threads, pc[t] = "call", WayClear(t)
  PROVE  WayClear(t)'
  <1>1. PICK n \in Nodes \ live :
          /\ key' = [key EXCEPT ![n] = k] /\ next' = [next EXCEPT ![n] = head]
          /\ live' = live \cup {n}
    BY DEF Insert
  <1>2. /\ key'[n] = k /\ next'[n] = head
        /\ \A x \in Nodes \ {n} : key'[x] = key[x] /\ next'[x] = next[x]
    BY <1>1 DEF TssTyped
  <1>3. \A m \in Nodes : Old(t, m)' => m # n /\ Old(t, m)
    BY <1>1, <1>2 DEF Old, ValuesInv, walk
  <1>4. Onward(t) = next[node[t]] /\ Onward(t)' = next'[node[t]] /\ node[t] \in Nodes
    BY DEF Onward, walk, TssTyped
  <1> SUFFICES ASSUME NEW S \in SUBSET Nodes, Closed(S)', Onward(t)' \in S \cup {Null},
                      NEW m \in Nodes, Old(t, m)'
               PROVE  m \in S
    BY DEF WayClear
  <1>5. CASE head \in S \cup {Null}
    <2>1. \A x \in S \cap live : next[x] \in S \cup {Null}
      BY <1>1, <1>2 DEF Closed, ListInv
    <2>2. m \in live
      BY <1>3 DEF Old
    <2> QED
      BY <1>5, <2>1, <2>2, HeadReaches
  <1>6. CASE head \notin S \cup {Null}
    <2>1. n \notin S /\ node[t] # n
      BY <1>2, <1>4, <1>6 DEF Closed
    <2>2. Closed(S) /\ Onward(t) \in S \cup {Null}
      BY <1>2, <1>4, <2>1 DEF Closed
    <2> QED
      BY <1>3, <2>2 DEF WayClear
  <1> QED
    BY <1>5, <1>6

LEMMA WayDelete ==
  ASSUME TssTyped, ListInv, NEW u \in Threads, NEW k \in Keys, Delete(u, k),
         NEW t \in Threads, pc[t] = "call", WayClear(t)
  PROVE  WayClear(t)'
  <1>1. /\ live' = live \ Found(k) /\ key' = key /\ UNCHANGED walk
        /\ \A x \in Nodes : next'[x] = IF x \in live' /\ next[x] \in Found(k) THEN next[next[x]]
                                        ELSE next[x]
    BY DEF Delete, Found
  <1>2. value'[t] = [value[t] EXCEPT ![k] = 0]
    BY DEF Delete
  <1>3. \A m \in Nodes : Old(t, m)' => Old(t, m) /\ m \notin Found(k)
    BY <1>1, <1>2 DEF Old, walk, TssTyped, ListInv
  <1>4. Onward(t) = next[node[t]] /\ Onward(t)' = next'[node[t]] /\ node[t] \in Nodes
    BY <1>1 DEF Onward, walk, TssTyped
  <1> SUFFICES ASSUME NEW S \in SUBSET Nodes, Closed(S)', Onward(t)' \in S \cup {Null},
                      NEW m \in Nodes, Old(t, m)'
               PROVE  m \in S
    BY DEF WayClear
  <1> DEFINE T == S \cup {d \in Found(k) : next[d] \in S \cup {Null}}
  <1>5. T \in SUBSET Nodes /\ Found(k) \subseteq Nodes
    BY DEF Found, ListInv
  <1>6. /\ \A x \in S : next[x] \in T \cup {Null}
        /\ Onward(t) \in T \cup {Null}
    BY <1>1, <1>4, <1>5 DEF Closed
  <1>7. Closed(T) 
    BY <1>6 DEF Closed
  <1>8. m \in T
    BY <1>3, <1>5, <1>6, <1>7 DEF WayClear
  <1> QED
    BY <1>3, <1>8

(* The section: a pass has it from its begin, or the end of a call, to its end, or a call. *)
LEMMA SectionStep == TssTyped /\ SectionInv /\ [TssNext]_tssvars => SectionInv'
  <1> SUFFICES ASSUME TssTyped, SectionInv, [TssNext]_tssvars PROVE SectionInv'
    OBVIOUS
  <1> USE DEF SectionInv, walk, list
  <1>1. CASE UNCHANGED tssvars
    BY <1>1 DEF tssvars
  <1>2. ASSUME NEW u \in Threads, NEW k \in Keys, Create(u, k) \/ Delete(u, k)
        PROVE  SectionInv'
    <2>1. CanEnter(u) /\ InUserCode(u) /\ UNCHANGED pc
      BY <1>2 DEF Create, Delete
    <2> QED
      BY <2>1, ListChangesOutside
  <1>3. ASSUME NEW u \in Threads, NEW k \in Keys, Set(u, k)
        PROVE  SectionInv'
    BY <1>3 DEF Set
  <1>4. ASSUME NEW u \in Threads, ThreadReturns(u) \/ SkipNode(u)
        PROVE  SectionInv'
    BY <1>4 DEF ThreadReturns, SkipNode, TssTyped
  <1>5. ASSUME NEW u \in Threads, Enter(u)
        PROVE  SectionInv'
    <2>1. CanEnter(u) /\ section' = Entered(u) /\ pc' = [pc EXCEPT ![u] = "scan"]
      BY <1>5 DEF Enter, BeginPass, Resume
    <2> QED
      BY <2>1, TssConstantsOK DEF CanEnter, Entered, Nobody, TssTyped
  <1>6. ASSUME NEW u \in Threads, EndPass(u) \/ CallDtor(u)
        PROVE  SectionInv'
    <2>1. section.owner = u
      BY <1>6 DEF EndPass, CallDtor
    <2>2. \A t \in Threads : pc'[t] = "scan" => pc[t] = "scan" /\ t # u
      BY <1>6 DEF EndPass, CallDtor, TssTyped
    <2> QED
      BY <2>1, <2>2
  <1> QED
    BY <1>1, <1>2, <1>3, <1>4, <1>5, <1>6 DEF TssNext, Walk

LEMMA ValuesStep == TssTyped /\ ValuesInv /\ [TssNext]_tssvars => ValuesInv'
  <1> SUFFICES ASSUME TssTyped, ValuesInv, [TssNext]_tssvars PROVE ValuesInv'
    OBVIOUS
  <1> USE DEF walk, list
  <1>1. CASE UNCHANGED tssvars
    BY <1>1 DEF tssvars, ValuesInv
  <1>2. ASSUME NEW u \in Threads, NEW k \in Keys, Create(u, k)
        PROVE  ValuesInv'
    <2>1. UNCHANGED <<value, walk>> /\ allocated \subseteq allocated'
      BY <1>2 DEF Create, FullTable, Insert
    <2> QED
      BY <2>1 DEF ValuesInv
  <1>3. ASSUME NEW u \in Threads, NEW k \in Keys, Set(u, k)
        PROVE  ValuesInv'
    <2>1. /\ k \in allocated /\ UNCHANGED <<walk, allocated>>
          /\ value' = [value EXCEPT ![u][k] = IF pc[u] = "run" THEN 1 ELSE pass[u] + 2]
          /\ pc[u] \in {"run", "call"}
      BY <1>3 DEF Set, InUserCode
    <2>2. \A t \in Threads, c \in Keys :
            value'[t][c] = IF t = u /\ c = k THEN IF pc[u] = "run" THEN 1 ELSE pass[u] + 2
                           ELSE value[t][c]
      BY <2>1 DEF TssTyped
    <2> QED
      BY <2>1, <2>2 DEF ValuesInv, TssTyped
  <1>4. ASSUME NEW u \in Threads, NEW k \in Keys, Delete(u, k)
        PROVE  ValuesInv'
    <2>1. /\ allocated' = allocated \ {k} /\ UNCHANGED walk
          /\ \A t \in Threads : value'[t] = [value[t] EXCEPT ![k] = 0]
      BY <1>4 DEF Delete
    <2>2. ASSUME NEW t \in Threads
          PROVE  \A c \in Keys : value'[t][c] = IF c = k THEN 0 ELSE value[t][c]
      <3>1. value[t] \in [Keys -> Nat] /\ value'[t] = [value[t] EXCEPT ![k] = 0]
        BY <2>1 DEF TssTyped
      <3> QED
        BY <3>1
    <2> QED
      BY <2>1, <2>2 DEF ValuesInv, TssTyped
  <1>5. ASSUME NEW u \in Threads, ThreadReturns(u)
        PROVE  ValuesInv'
    BY <1>5 DEF ThreadReturns, ValuesInv, TssTyped
  <1>6. ASSUME NEW u \in Threads, BeginPass(u)
        PROVE  ValuesInv'
    BY <1>6 DEF BeginPass, ValuesInv, TssTyped
  <1>7. ASSUME NEW u \in Threads, Resume(u)
        PROVE  ValuesInv'
    BY <1>7 DEF Resume, ValuesInv, TssTyped
  <1>8. ASSUME NEW u \in Threads, EndPass(u), LastPass(u)
        PROVE  ValuesInv'
    <2>1. /\ pc' = [pc EXCEPT ![u] = "ended"] /\ pass' = [pass EXCEPT ![u] = 0]
          /\ value' = [value EXCEPT ![u] = [k \in Keys |-> 0]]
          /\ any' = [any EXCEPT ![u] = FALSE]
          /\ allocated' = allocated
      BY <1>8 DEF EndPass
    <2>2. \A t \in Threads, k \in Keys : value'[t][k] = IF t = u THEN 0 ELSE value[t][k]
      BY <2>1 DEF TssTyped
    <2> QED
      BY <2>1, <2>2 DEF ValuesInv, TssTyped
  <1>9. ASSUME NEW u \in Threads, EndPass(u), ~LastPass(u)
        PROVE  ValuesInv'
    <2>1. /\ pc' = [pc EXCEPT ![u] = "enter"] /\ pass' = [pass EXCEPT ![u] = @ + 1]
          /\ UNCHANGED <<value, any, allocated>>
          /\ any[u]
      BY <1>9 DEF EndPass, LastPass
    <2> QED
      BY <2>1 DEF ValuesInv, TssTyped
  <1>10. ASSUME NEW u \in Threads, SkipNode(u)
         PROVE  ValuesInv'
    BY <1>10 DEF SkipNode, ValuesInv
  <1>11. ASSUME NEW u \in Threads, CallDtor(u)
         PROVE  ValuesInv'
    <2>1. /\ value' = [value EXCEPT ![u][key[node[u]]] = 0] /\ pc' = [pc EXCEPT ![u] = "call"]
          /\ UNCHANGED <<pass, any, allocated>>
      BY <1>11 DEF CallDtor
    <2>2. \A t \in Threads, k \in Keys : value'[t][k] = value[t][k] \/ value'[t][k] = 0
      BY <2>1 DEF TssTyped
    <2> QED
      BY <2>1, <2>2 DEF ValuesInv, TssTyped
  <1> QED
    BY <1>1, <1>2, <1>3, <1>4, <1>5, <1>6, <1>7, <1>8, <1>9, <1>10, <1>11 DEF TssNext, Walk, Enter

LEMMA ListStep == TssTyped /\ ListInv /\ [TssNext]_tssvars => ListInv'
  <1> SUFFICES ASSUME TssTyped, ListInv, [TssNext]_tssvars PROVE ListInv'
    OBVIOUS
  <1>1. CASE UNCHANGED <<list, allocated>>
    BY <1>1 DEF list, ListInv, Closed
  <1>2. ASSUME NEW u \in Threads, NEW k \in Keys, Create(u, k)
        PROVE  ListInv'
    BY <1>1, <1>2, InsertKeepsList DEF Create, FullTable
  <1>3. ASSUME NEW u \in Threads, NEW k \in Keys, Delete(u, k)
        PROVE  ListInv'
    BY <1>3, DeleteKeepsList
  <1> QED
    BY <1>1, <1>2, <1>3 DEF TssNext, tssvars, list, Set, ThreadReturns, Enter, BeginPass, Resume, Walk, EndPass,
                            SkipNode, CallDtor

LEMMA WalkStep ==
  ASSUME TssInv, [TssNext]_tssvars
  PROVE  WalkInv'
  <1> USE DEF walk, list
  <1>0. TssTyped /\ ListInv /\ SectionInv /\ ValuesInv /\ WalkInv /\ TssTyped'
    BY TssTypedStep DEF TssInv, ListInv
  <1>1. CASE UNCHANGED tssvars
    <2>1. \A t \in Threads : Onward(t)' = Onward(t)
      BY <1>1 DEF tssvars, Onward
    <2> QED
      BY <1>0, <1>1, <2>1, WayFrame DEF tssvars, WalkInv
  <1>2. ASSUME NEW u \in Threads, NEW k \in Keys, Create(u, k) \/ Delete(u, k)
        PROVE  WalkInv'
    <2> SUFFICES ASSUME NEW t \in Threads, pc'[t] \in {"scan", "call"}
                 PROVE  WayClear(t)'
      BY DEF WalkInv
    <2>1. CanEnter(u) /\ InUserCode(u) /\ UNCHANGED walk
      BY <1>2 DEF Create, Delete
    <2>2. pc[t] = "call" /\ WayClear(t)
      BY <1>0, <2>1, ListChangesOutside DEF WalkInv
    <2>3. CASE Create(u, k) /\ count # TssMax
      BY <1>0, <2>1, <2>2, <2>3, WayInsert DEF Create, FullTable
    <2>4. CASE UNCHANGED <<list, value>>
      <3>1. Onward(t)' = Onward(t)
        BY <2>1, <2>4 DEF Onward
      <3> QED
        BY <1>0, <2>1, <2>2, <2>4, <3>1, WayFrame
    <2>5. CASE Delete(u, k)
      BY <1>0, <2>2, <2>5, WayDelete
    <2> QED
      BY <1>2, <2>3, <2>4, <2>5 DEF Create, FullTable
  <1>3. ASSUME NEW u \in Threads, NEW k \in Keys, Set(u, k)
        PROVE  WalkInv'
    <2> SUFFICES ASSUME NEW t \in Threads, pc'[t] \in {"scan", "call"}
                 PROVE  WayClear(t)'
      BY DEF WalkInv
    <2>1. UNCHANGED <<list, walk>> /\ pc[t] \in {"scan", "call"} /\ WayClear(t)
      BY <1>0, <1>3 DEF Set, WalkInv
    <2>2. value' = [value EXCEPT ![u][k] = IF pc[u] = "run" THEN 1 ELSE pass[u] + 2]
      BY <1>3 DEF Set
    <2>3. \A c \in Keys : value'[t][c] \in {0, value[t][c], pass[t] + 2}
      BY <1>0, <2>1, <2>2 DEF TssTyped
    <2>4. Onward(t)' = Onward(t)
      BY <2>1 DEF Onward
    <2> QED
      BY <1>0, <2>1, <2>3, <2>4, WayFrame
  <1>4. ASSUME NEW u \in Threads, ThreadReturns(u) \/ EndPass(u)
        PROVE  WalkInv'
    <2> SUFFICES ASSUME NEW t \in Threads, pc'[t] \in {"scan", "call"}
                 PROVE  WayClear(t)'
      BY DEF WalkInv
    <2>1. /\ UNCHANGED <<list, node>> /\ t # u
          /\ pc'[t] = pc[t] /\ pass'[t] = pass[t] /\ value'[t] = value[t]
      BY <1>0, <1>4 DEF ThreadReturns, EndPass, TssTyped
    <2>2. Onward(t)' = Onward(t) /\ WayClear(t)
      BY <1>0, <2>1 DEF Onward, WalkInv
    <2> QED
      BY <1>0, <2>1, <2>2, WayFrame
  <1>5. ASSUME NEW u \in Threads, BeginPass(u) \/ Resume(u) \/ SkipNode(u) \/ CallDtor(u),
               NEW t \in Threads, t # u, pc'[t] \in {"scan", "call"}
        PROVE  WayClear(t)'
    <2>1. /\ UNCHANGED <<list, pass>> /\ node'[t] = node[t]
          /\ pc'[t] = pc[t] /\ value'[t] = value[t]
      BY <1>0, <1>5 DEF BeginPass, Resume, SkipNode, CallDtor, TssTyped
    <2>2. Onward(t)' = Onward(t) /\ WayClear(t)
      BY <1>0, <1>5, <2>1 DEF Onward, WalkInv
    <2> QED
      BY <1>0, <2>1, <2>2, WayFrame
  <1>6. ASSUME NEW u \in Threads, BeginPass(u)
        PROVE  WayClear(u)'
    <2>1. UNCHANGED list /\ Onward(u)' = head
      BY <1>0, <1>6 DEF BeginPass, Onward, TssTyped
    <2> SUFFICES ASSUME NEW S \in SUBSET Nodes, Closed(S)', head \in S \cup {Null}
                 PROVE  live' \subseteq S
      BY <2>1 DEF WayClear, Old
    <2> QED
      BY <1>0, <2>1, HeadReaches DEF Closed
  <1>7. ASSUME NEW u \in Threads, Resume(u)
        PROVE  WayClear(u)'
    <2>1. /\ UNCHANGED <<list, pass, value>> /\ pc[u] = "call"
          /\ Onward(u)' = Onward(u)
      BY <1>0, <1>7 DEF Resume, Onward, TssTyped
    <2> QED
      BY <1>0, <2>1, WayFrame DEF WalkInv
  <1>8. ASSUME NEW u \in Threads, SkipNode(u) \/ CallDtor(u)
        PROVE  WayClear(u)'
    <2>1. /\ UNCHANGED <<list, pass>> /\ pc[u] = "scan" /\ node[u] \in Nodes
          /\ Onward(u) = node[u] /\ Onward(u)' = next[node[u]]
      BY <1>0, <1>8 DEF SkipNode, CallDtor, Onward, TssTyped
    <2>2. \A k \in Keys : value'[u][k] = IF k = key[node[u]] THEN 0 ELSE value[u][k]
      BY <1>0, <1>8 DEF SkipNode, CallDtor, TssTyped
    <2>3. \A m \in Nodes : Old(u, m)' => Old(u, m) /\ m # node[u]
      BY <1>0, <2>1, <2>2 DEF Old, ListInv
    <2> SUFFICES ASSUME NEW S \in SUBSET Nodes, Closed(S)', Onward(u)' \in S \cup {Null},
                        NEW m \in Nodes, Old(u, m)'
                 PROVE  m \in S
      BY DEF WayClear
    <2>4. Closed(S \cup {node[u]}) /\ Onward(u) \in S \cup {node[u]}
      BY <2>1 DEF Closed
    <2>5. m \in S \cup {node[u]}
      BY <1>0, <2>1, <2>3, <2>4 DEF WalkInv, WayClear
    <2> QED
      BY <2>3, <2>5
  <1>9. ASSUME NEW u \in Threads, BeginPass(u) \/ Resume(u) \/ SkipNode(u) \/ CallDtor(u)
        PROVE  WalkInv'
    BY <1>5, <1>6, <1>7, <1>8, <1>9 DEF WalkInv
  <1> QED
    BY <1>1, <1>2, <1>3, <1>4, <1>9 DEF TssNext, Enter, Walk

(* Whatever destructors and other threads set, create and delete during its cleanup, for any number of
   threads, keys and passes: what a thread leaves under a key with a destructor was set in the last pass. *)
THEOREM NothingIsLeftBehind == TssSpec => NothingLeftBehind
  <1>1. TssInit => TssInv
    <2> SUFFICES ASSUME TssInit PROVE TssInv
      OBVIOUS
    <2>1. TssTyped
      BY DEF TssInit, TssTyped
    <2>2. ListInv
      BY DEF TssInit, ListInv
    <2>3. SectionInv /\ WalkInv
      BY DEF TssInit, SectionInv, WalkInv
    <2>4. ValuesInv
      BY DEF TssInit, ValuesInv
    <2> QED
      BY <2>1, <2>2, <2>3, <2>4 DEF TssInv
  <1>2. TssInv /\ [TssNext]_tssvars => TssInv'
    <2> SUFFICES ASSUME TssInv, [TssNext]_tssvars PROVE TssInv'
      OBVIOUS
    <2>1. live \subseteq Nodes /\ head \in Nodes \cup {Null}
      BY DEF TssInv, ListInv
    <2> QED
      BY <2>1, TssTypedStep, ListStep, SectionStep, ValuesStep, WalkStep DEF TssInv
  <1>3. TssInv /\ [TssNext]_tssvars => [EndsClean]_tssvars
    <2> SUFFICES ASSUME TssInv, TssNext, NEW t \in Threads, NEW n \in live,
                        pc'[t] = "ended", pc[t] # "ended"
                 PROVE  value[t][key[n]] \in {0, Iterations + 1}
      BY DEF EndsClean
    <2>1. EndPass(t) /\ LastPass(t)
      <3>0. pc \in [Threads -> {"run", "enter", "scan", "call", "ended"}]
        BY DEF TssInv, TssTyped
      <3>1. PICK u \in Threads : EndPass(u)
        <4>1. ASSUME NEW u \in Threads, NEW k \in Keys, Create(u, k) \/ Set(u, k) \/ Delete(u, k)
              PROVE  FALSE
          BY <4>1 DEF Create, Set, Delete, walk
        <4>2. ASSUME NEW u \in Threads, ThreadReturns(u) \/ BeginPass(u) \/ Resume(u)
              PROVE  FALSE
          BY <3>0, <4>2 DEF ThreadReturns, BeginPass, Resume
        <4>3. ASSUME NEW u \in Threads, SkipNode(u) \/ CallDtor(u)
              PROVE  FALSE
          BY <3>0, <4>3 DEF SkipNode, CallDtor
        <4> QED
          BY <4>1, <4>2, <4>3 DEF TssNext, Enter, Walk
      <3> QED
        BY <3>0, <3>1 DEF EndPass
    <2>2. n \in Nodes /\ key[n] \in Keys
      BY DEF TssInv, ListInv
    <2>3. ~Old(t, n)
      <3>1. Closed({}) /\ Onward(t) \in {} \cup {Null} /\ pc[t] = "scan"
        BY <2>1 DEF EndPass, Closed, Onward
      <3> QED
        BY <2>2, <3>1 DEF TssInv, WalkInv, WayClear
    <2>4. value[t][key[n]] \in {0, pass[t] + 2}
      BY <2>2, <2>3 DEF Old, TssInv, ValuesInv, TssTyped
    <2>5. CASE ~any[t]
      <3>1. value[t][key[n]] <= 1
        BY <2>1, <2>2, <2>5 DEF EndPass, TssInv, ValuesInv
      <3> QED
        BY <2>4, <3>1 DEF TssInv, TssTyped
    <2>6. CASE pass[t] + 1 = Iterations
      BY <2>4, <2>6 DEF TssInv, TssTyped
    <2> QED
      BY <2>1, <2>5, <2>6 DEF LastPass
  <1> QED
    BY <1>1, <1>2, <1>3, PTL DEF TssSpec, NothingLeftBehind

-----------------------------------------------------------------------------
(* The test runner.  What has been counted is what comes before the test it is at, among the tests that
   were selected and those of them that run; and without a failure each of these was good throughout. *)
Current == <<suite, test>>
Before == {x \in Tests : x[1] < suite \/ (x[1] = suite /\ x[2] < test)}
Wanted == {x \in Tests : Selected(x[1], x[2])}
Runs(x) == ~Suites[x[1]].tests[x[2]].todo /\ Suites[x[1]].count > 0
Active == {x \in Wanted : Runs(x)}

RunnerTyped ==
  /\ suite \in Nat \ {0} /\ test \in Nat \ {0} /\ iteration \in Nat
  /\ counted \in [n : Nat, pass : Nat, fail : Nat, todo : Nat]
  /\ good \in [Tests -> Nat]

Untouched ==
  /\ suite = 1 /\ test = 1 /\ iteration = 0
  /\ counted = [n |-> 0, pass |-> 0, fail |-> 0, todo |-> 0]
  /\ \A x \in Tests : good[x] = 0

Counted ==
  /\ IsFiniteSet(Before)
  /\ counted.n = Cardinality(Before \cap Wanted)
  /\ counted.pass + counted.fail = Cardinality(Before \cap Active)
  /\ cfg.tap => plan = Cardinality(Wanted)
  /\ counted.fail = 0 => \A x \in Before \cap Active : good[x] = Suites[x[1]].count
  /\ \A x \in Tests \ Before : good[x] = IF x = Current THEN iteration ELSE 0
  /\ InSuite => iteration = 0 \/ iteration < Suites[suite].count

(* Tests end a process of their own only, once the run has begun. *)
ChildrenOnly == exited # {} => Forking /\ phase \notin {"parse", "usage", "listed"}

RunnerInv ==
  /\ RunnerTyped
  /\ phase \in {"parse", "usage", "listed"} => Untouched
  /\ phase \in {"run", "done"} => Counted
  /\ phase = "done" => suite \notin DOMAIN Suites /\ (rc = 0 => counted.fail = 0)
  /\ ChildrenOnly

(* The shape of the table of tests. *)
LEMMA TestsShape ==
  /\ DOMAIN Suites = 1 .. Len(Suites) /\ Len(Suites) \in Nat
  /\ \A a \in DOMAIN Suites :
       /\ Suites[a].count \in Int
       /\ DOMAIN Suites[a].tests = 1 .. Len(Suites[a].tests) /\ Len(Suites[a].tests) \in Nat
  /\ \A x : x \in Tests <=> \E a \in DOMAIN Suites : \E b \in DOMAIN Suites[a].tests : x = <<a, b>>
  <1> DEFINE Test == [name : STRING, todo : BOOLEAN]
             Suite == [name : STRING, count : Int, tests : Seq(Test)]
  <1>1. Suites \in Seq(Suite)
    BY SuitesOK
  <1> HIDE DEF Suite
  <1>2. DOMAIN Suites = 1 .. Len(Suites) /\ Len(Suites) \in Nat /\ \A a \in DOMAIN Suites : Suites[a] \in Suite
    <2>1. DOMAIN Suites = 1 .. Len(Suites) /\ Len(Suites) \in Nat
      BY <1>1
    <2>2. \A a \in 1 .. Len(Suites) : Suites[a] \in Suite
      BY <1>1
    <2> QED
      BY <2>1, <2>2
  <1>3. ASSUME NEW a \in DOMAIN Suites
        PROVE  /\ Suites[a].count \in Int
               /\ DOMAIN Suites[a].tests = 1 .. Len(Suites[a].tests) /\ Len(Suites[a].tests) \in Nat
    <2>1. Suites[a].count \in Int /\ Suites[a].tests \in Seq(Test)
      BY <1>2 DEF Suite
    <2> QED
      BY <2>1
  <1>4. \A x : x \in Tests <=> \E a \in DOMAIN Suites : \E b \in DOMAIN Suites[a].tests : x = <<a, b>>
    BY DEF Tests
  <1> QED
    BY <1>2, <1>3, <1>4

LEMMA CurrentIsATest == RunnerTyped => (InSuite <=> Current \in Tests)
  <1>1. InSuite => Current \in Tests
    BY TestsShape DEF InSuite, Current
  <1>2. Current \in Tests => InSuite
    BY TestsShape DEF InSuite, Current
  <1> QED
    BY <1>1, <1>2

(* One test more behind the runner. *)
LEMMA OneTestMore ==
  ASSUME RunnerTyped, InSuite, NextTest
  PROVE  Before' = Before \cup {Current} /\ Current \notin Before
  <1>1. Current \in Tests /\ suite' = suite /\ test' = test + 1
    BY CurrentIsATest DEF NextTest
  <1>2. ASSUME NEW x \in Tests
        PROVE  x \in Before' <=> x \in Before \cup {Current}
    <2>1. PICK a \in DOMAIN Suites : \E b \in DOMAIN Suites[a].tests : x = <<a, b>>
      BY TestsShape
    <2>2. PICK b \in DOMAIN Suites[a].tests : x = <<a, b>>
      BY <2>1
    <2>3. a \in Nat /\ b \in Nat /\ suite \in Nat /\ test \in Nat
      BY TestsShape DEF RunnerTyped
    <2>4. x \in Before' <=> a < suite \/ (a = suite /\ b < test + 1)
      BY <1>1, <2>2 DEF Before
    <2>5. x \in Before <=> a < suite \/ (a = suite /\ b < test)
      BY <2>2 DEF Before
    <2>6. x = Current <=> a = suite /\ b = test
      BY <2>2 DEF Current
    <2> QED
      BY <2>3, <2>4, <2>5, <2>6
  <1>3. Current \notin Before
    BY DEF Before, Current, RunnerTyped
  <1> QED
    BY <1>1, <1>2, <1>3 DEF Before

LEMMA OneMoreCounts ==
  ASSUME RunnerTyped, InSuite, NextTest, IsFiniteSet(Before), NEW W
  PROVE  /\ IsFiniteSet(Before')
         /\ Cardinality(Before \cap W) \in Nat
         /\ Cardinality(Before' \cap W) = Cardinality(Before \cap W) + IF Current \in W THEN 1 ELSE 0
  <1>1. Before' = Before \cup {Current} /\ Current \notin Before
    BY OneTestMore
  <1>2. IsFiniteSet(Before \cap W)
    BY FS_Subset
  <1>3. Cardinality(Before \cap W) \in Nat /\ IsFiniteSet(Before')
    BY <1>1, <1>2, FS_CardinalityType, FS_AddElement
  <1>4. CASE Current \in W
    <2>1. Before' \cap W = (Before \cap W) \cup {Current} /\ Current \notin Before \cap W
      BY <1>1, <1>4
    <2> QED
      BY <1>2, <1>3, <1>4, <2>1, FS_AddElement
  <1>5. CASE Current \notin W
    <2>1. Before' \cap W = Before \cap W
      BY <1>1, <1>5
    <2>2. Cardinality(Before' \cap W) = Cardinality(Before \cap W)
      BY <2>1
    <2> QED
      BY <1>3, <1>5, <2>2
  <1> QED
    BY <1>4, <1>5

(* The loops over suites and tests. *)
LEMMA NextSuiteStep ==
  ASSUME RunnerTyped, Counted, NextSuite
  PROVE  RunnerTyped' /\ Counted'
  <1>1. /\ suite' = suite + 1 /\ test' = 1 /\ iteration' = 0 /\ suite \in DOMAIN Suites
        /\ test \notin DOMAIN Suites[suite].tests
        /\ UNCHANGED <<cfg, plan, counted, good>>
    BY DEF NextSuite, StayInRun
  <1>2. RunnerTyped'
    BY <1>1 DEF RunnerTyped
  <1>3. ASSUME NEW x \in Tests
        PROVE  (x \in Before' <=> x \in Before) /\ (x = Current' => x \notin Before) /\ x # Current
    <2>1. PICK a \in DOMAIN Suites : \E b \in DOMAIN Suites[a].tests : x = <<a, b>>
      BY TestsShape
    <2>2. PICK b \in DOMAIN Suites[a].tests : x = <<a, b>>
      BY <2>1
    <2>3. /\ a \in Nat /\ b \in Nat \ {0} /\ suite \in Nat /\ test \in Nat \ {0}
          /\ a = suite => b < test
      <3>1. suite \in Nat /\ test \in Nat \ {0}
        BY DEF RunnerTyped
      <3>2. /\ a \in Nat /\ DOMAIN Suites[a].tests = 1 .. Len(Suites[a].tests) /\ Len(Suites[a].tests) \in Nat
            /\ b \in DOMAIN Suites[a].tests /\ (a = suite => test \notin DOMAIN Suites[a].tests)
        BY <1>1, TestsShape
      <3> QED
        BY <3>1, <3>2
    <2>4. x \in Before' <=> a < suite + 1 \/ (a = suite + 1 /\ b < 1)
      BY <1>1, <2>2 DEF Before
    <2>5. x \in Before <=> a < suite \/ (a = suite /\ b < test)
      BY <2>2 DEF Before
    <2>6. (x = Current <=> a = suite /\ b = test) /\ (x = Current' <=> a = suite + 1 /\ b = 1)
      BY <1>1, <2>2 DEF Current
    <2> QED
      BY <2>3, <2>4, <2>5, <2>6
  <1>4. Before' = Before
    BY <1>3 DEF Before
  <1>5. Wanted' = Wanted /\ Active' = Active
    BY <1>1 DEF Wanted, Active, Selected
  <1>6. \A x \in Tests \ Before : good'[x] = IF x = Current' THEN iteration' ELSE 0
    BY <1>1, <1>3 DEF Counted
  <1> QED
    BY <1>1, <1>2, <1>4, <1>5, <1>6 DEF Counted

(* A test left behind: not selected, a TODO, good in all its iterations, or failed. *)
LEMMA NextTestStep ==
  ASSUME RunnerTyped, Counted, InSuite, NextTest, UNCHANGED <<cfg, plan>>,
         good' \in [Tests -> Nat], \A x \in Tests : x # Current => good'[x] = good[x],
         counted' \in [n : Nat, pass : Nat, fail : Nat, todo : Nat],
         counted'.n = counted.n + IF Current \in Wanted THEN 1 ELSE 0,
         counted'.pass + counted'.fail = (counted.pass + counted.fail) + IF Current \in Active THEN 1 ELSE 0,
         counted'.fail = 0 =>
           counted.fail = 0 /\ (Current \in Active => good'[Current] = Suites[suite].count)
  PROVE  RunnerTyped' /\ Counted'
  <1>1. suite' = suite /\ test' = test + 1 /\ iteration' = 0
    BY DEF NextTest
  <1>2. RunnerTyped'
    BY <1>1 DEF RunnerTyped
  <1>3. Wanted' = Wanted /\ Active' = Active
    BY DEF Wanted, Active, Selected
  <1>4. IsFiniteSet(Before')
    BY OneMoreCounts DEF Counted
  <1>5. /\ counted'.n = Cardinality(Before' \cap Wanted')
        /\ counted'.pass + counted'.fail = Cardinality(Before' \cap Active')
    BY <1>3, OneMoreCounts DEF Counted
  <1>6. Before' = Before \cup {Current} /\ Current \notin Before
    BY OneTestMore
  <1>7. counted'.fail = 0 => \A x \in Before' \cap Active' : good'[x] = Suites[x[1]].count
    <2> SUFFICES ASSUME counted'.fail = 0, NEW x \in Before' \cap Active'
                 PROVE  good'[x] = Suites[x[1]].count
      OBVIOUS
    <2>1. CASE x = Current
      BY <1>3, <2>1 DEF Current
    <2>2. CASE x # Current
      BY <1>3, <1>6, <2>2 DEF Counted, Active, Wanted
    <2> QED
      BY <2>1, <2>2
  <1>8. \A x \in Tests \ Before' : good'[x] = IF x = Current' THEN iteration' ELSE 0
    BY <1>1, <1>6 DEF Counted
  <1> QED
    BY <1>1, <1>2, <1>3, <1>4, <1>5, <1>7, <1>8 DEF Counted

LEMMA RunnerTypesKept ==
  ASSUME RunnerTyped, NEW what \in {"pass", "fail", "todo"}, Count(what)
  PROVE  /\ counted' \in [n : Nat, pass : Nat, fail : Nat, todo : Nat]
         /\ counted'.n = counted.n + 1
         /\ counted'.pass = counted.pass + IF what = "pass" THEN 1 ELSE 0
         /\ counted'.fail = counted.fail + IF what = "fail" THEN 1 ELSE 0
  <1>1. counted' = [counted EXCEPT !.n = @ + 1, ![what] = @ + 1]
    BY DEF Count
  <1>2. CASE what = "pass"
    <2>1. counted' = [counted EXCEPT !.n = @ + 1, !.pass = @ + 1]
      BY <1>1, <1>2
    <2>2. /\ counted'.n = counted.n + 1 /\ counted'.pass = counted.pass + 1
          /\ counted'.fail = counted.fail /\ counted'.todo = counted.todo
      BY <2>1 DEF RunnerTyped
    <2>3. counted' = [n |-> counted'.n, pass |-> counted'.pass, fail |-> counted'.fail, todo |-> counted'.todo]
      BY <2>1 DEF RunnerTyped
    <2> QED
      BY <1>2, <2>2, <2>3 DEF RunnerTyped
  <1>3. CASE what = "fail"
    <2>1. counted' = [counted EXCEPT !.n = @ + 1, !.fail = @ + 1]
      BY <1>1, <1>3
    <2>2. /\ counted'.n = counted.n + 1 /\ counted'.fail = counted.fail + 1
          /\ counted'.pass = counted.pass /\ counted'.todo = counted.todo
      BY <2>1 DEF RunnerTyped
    <2>3. counted' = [n |-> counted'.n, pass |-> counted'.pass, fail |-> counted'.fail, todo |-> counted'.todo]
      BY <2>1 DEF RunnerTyped
    <2> QED
      BY <1>3, <2>2, <2>3 DEF RunnerTyped
  <1>4. CASE what = "todo"
    <2>1. counted' = [counted EXCEPT !.n = @ + 1, !.todo = @ + 1]
      BY <1>1, <1>4
    <2>2. /\ counted'.n = counted.n + 1 /\ counted'.todo = counted.todo + 1
          /\ counted'.pass = counted.pass /\ counted'.fail = counted.fail
      BY <2>1 DEF RunnerTyped
    <2>3. counted' = [n |-> counted'.n, pass |-> counted'.pass, fail |-> counted'.fail, todo |-> counted'.todo]
      BY <2>1 DEF RunnerTyped
    <2> QED
      BY <1>4, <2>2, <2>3 DEF RunnerTyped
  <1> QED
    BY <1>2, <1>3, <1>4

(* Another iteration of the same test that went well. *)
LEMMA IterationStep ==
  ASSUME RunnerTyped, Counted, InSuite,
         UNCHANGED <<cfg, plan, suite, test, counted>>, iteration' = iteration + 1,
         iteration + 1 < Suites[suite].count,
         good' = [good EXCEPT ![<<suite, test>>] = @ + 1]
  PROVE  RunnerTyped' /\ Counted'
  <1>1. Current \in Tests /\ Current \notin Before
    BY CurrentIsATest DEF Before, Current, RunnerTyped
  <1>2. /\ good' \in [Tests -> Nat] /\ good'[Current] = good[Current] + 1
        /\ \A x \in Tests : x # Current => good'[x] = good[x]
    BY <1>1 DEF RunnerTyped, Current
  <1>3. RunnerTyped'
    BY <1>2 DEF RunnerTyped
  <1>4. Before' = Before /\ Wanted' = Wanted /\ Active' = Active /\ Current' = Current
    BY DEF Before, Wanted, Active, Selected, Current
  <1>5. good[Current] = iteration /\ iteration \in Nat
    BY <1>1 DEF Counted, RunnerTyped
  <1>6. \A x \in Tests \ Before' : good'[x] = IF x = Current' THEN iteration' ELSE 0
    BY <1>2, <1>4, <1>5 DEF Counted
  <1>7. counted'.fail = 0 => \A x \in Before' \cap Active' : good'[x] = Suites[x[1]].count
    BY <1>1, <1>2, <1>4 DEF Counted, Active, Wanted
  <1> QED
    BY <1>3, <1>4, <1>6, <1>7 DEF Counted

(* The end of an iteration: ok is what the runner takes it for, and it takes none for good that is not. *)
LEMMA ConcludeStep ==
  ASSUME RunnerTyped, Counted, Runnable, UNCHANGED <<cfg, plan>>, NEW ok \in BOOLEAN, Conclude(ok),
         \/ good' = [good EXCEPT ![<<suite, test>>] = @ + 1]
         \/ good' = good /\ ~ok
  PROVE  RunnerTyped' /\ Counted'
  <1>1. InSuite /\ Current \in Tests /\ Current \in Active /\ Current \in Wanted
    <2>1. InSuite /\ Current \in Tests /\ Selected(suite, test) /\ ~Todo /\ suite \in DOMAIN Suites
      BY CurrentIsATest DEF Runnable, InSuite
    <2>2. Runs(Current)
      BY <2>1, TestsShape DEF Todo, Runs, Current
    <2> QED
      BY <2>1, <2>2 DEF Active, Wanted, Current
  <1>2. good' \in [Tests -> Nat] /\ \A x \in Tests : x # Current => good'[x] = good[x]
    BY <1>1 DEF RunnerTyped, Current
  <1>3. CASE ok /\ iteration + 1 < Suites[suite].count
    BY <1>1, <1>3, IterationStep DEF Conclude
  <1>4. CASE ~(ok /\ iteration + 1 < Suites[suite].count)
    <2> DEFINE what == IF ok THEN "pass" ELSE "fail"
    <2>1. NextTest /\ Count(what) /\ what \in {"pass", "fail", "todo"}
      BY <1>4 DEF Conclude
    <2> HIDE DEF what
    <2>2. /\ counted' \in [n : Nat, pass : Nat, fail : Nat, todo : Nat]
          /\ counted'.n = counted.n + 1
          /\ counted'.pass = counted.pass + IF what = "pass" THEN 1 ELSE 0
          /\ counted'.fail = counted.fail + IF what = "fail" THEN 1 ELSE 0
      BY <2>1, RunnerTypesKept
    <2>3. what = "pass" \/ what = "fail"
      BY DEF what
    <2>4. /\ counted.pass \in Nat /\ counted.fail \in Nat
          /\ counted'.pass + counted'.fail = (counted.pass + counted.fail) + 1
      BY <2>2, <2>3 DEF RunnerTyped
    <2>5. counted'.fail = 0 => counted.fail = 0 /\ good'[Current] = Suites[suite].count
      <3> SUFFICES ASSUME counted'.fail = 0
                   PROVE  counted.fail = 0 /\ good'[Current] = Suites[suite].count
        OBVIOUS
      <3>1. what # "fail" /\ counted.fail = 0
        BY <2>2, <2>4
      <3>2. ok
        BY <3>1 DEF what
      <3>3. good'[Current] = good[Current] + 1 /\ Current \notin Before
        BY <1>1, <3>2 DEF RunnerTyped, Current, Before
      <3>4. good[Current] = iteration /\ iteration \in Nat
        BY <1>1, <3>3 DEF Counted, RunnerTyped
      <3>5. Suites[suite].count \in Int /\ Suites[suite].count > 0
        BY <1>1, TestsShape DEF Active, Runs, Current, InSuite
      <3>6. ~(iteration + 1 < Suites[suite].count) /\ (iteration = 0 \/ iteration < Suites[suite].count)
        BY <1>1, <1>4, <3>2 DEF Counted
      <3> QED
        BY <3>1, <3>3, <3>4, <3>5, <3>6
    <2>6. counted'.n = counted.n + IF Current \in Wanted THEN 1 ELSE 0
      BY <1>1, <2>2
    <2>7. counted'.pass + counted'.fail = (counted.pass + counted.fail) + IF Current \in Active THEN 1 ELSE 0
      BY <1>1, <2>4
    <2> QED
      BY <1>1, <1>2, <2>1, <2>2, <2>5, <2>6, <2>7, NextTestStep
  <1> QED
    BY <1>3, <1>4

LEMMA SkipStep ==
  ASSUME RunnerTyped, Counted, Skip
  PROVE  RunnerTyped' /\ Counted'
  <1>1. /\ InSuite /\ NextTest /\ UNCHANGED <<cfg, plan>> /\ good' = good
        /\ ~Selected(suite, test) \/ Todo
        /\ IF Selected(suite, test) THEN Count("todo") ELSE UNCHANGED counted
    BY DEF Skip, StayInRun
  <1>2. Current \in Tests /\ suite \in DOMAIN Suites
    BY <1>1, CurrentIsATest DEF InSuite
  <1>3. Current \notin Active
    <2>1. CASE ~Selected(suite, test)
      BY <2>1 DEF Active, Wanted, Current
    <2>2. CASE Todo
      BY <1>2, <2>2, TestsShape DEF Active, Runs, Current, Todo
    <2> QED
      BY <1>1, <2>1, <2>2
  <1>4. good' \in [Tests -> Nat] /\ \A x \in Tests : x # Current => good'[x] = good[x]
    BY <1>1 DEF RunnerTyped
  <1>5. CASE Selected(suite, test)
    <2>1. Current \in Wanted
      BY <1>2, <1>5 DEF Wanted, Current
    <2>2. /\ counted' \in [n : Nat, pass : Nat, fail : Nat, todo : Nat]
          /\ counted'.n = counted.n + 1
          /\ counted'.pass = counted.pass /\ counted'.fail = counted.fail
      <3>1. Count("todo") /\ counted.pass \in Nat /\ counted.fail \in Nat
        BY <1>1, <1>5 DEF RunnerTyped
      <3>2. /\ counted' \in [n : Nat, pass : Nat, fail : Nat, todo : Nat]
            /\ counted'.n = counted.n + 1
            /\ counted'.pass = counted.pass + IF "todo" = "pass" THEN 1 ELSE 0
            /\ counted'.fail = counted.fail + IF "todo" = "fail" THEN 1 ELSE 0
        BY <3>1, RunnerTypesKept
      <3> QED
        BY <3>1, <3>2
    <2>3. counted'.pass + counted'.fail = (counted.pass + counted.fail) + IF Current \in Active THEN 1 ELSE 0
      BY <1>3, <2>2 DEF RunnerTyped
    <2> QED
      BY <1>1, <1>3, <1>4, <2>1, <2>2, <2>3, NextTestStep
  <1>6. CASE ~Selected(suite, test)
    <2>1. Current \notin Wanted
      BY <1>6 DEF Wanted, Current
    <2>2. counted' = counted /\ counted' \in [n : Nat, pass : Nat, fail : Nat, todo : Nat]
      BY <1>1, <1>6 DEF RunnerTyped
    <2>3. /\ counted'.n = counted.n + IF Current \in Wanted THEN 1 ELSE 0
          /\ counted'.pass + counted'.fail = (counted.pass + counted.fail) + IF Current \in Active THEN 1 ELSE 0
      BY <1>3, <2>1, <2>2
    <2> QED
      BY <1>1, <1>3, <1>4, <2>2, <2>3, NextTestStep
  <1> QED
    BY <1>5, <1>6

(* Before the run nothing is counted, and nothing lies behind the runner. *)
LEMMA NothingBehind ==
  ASSUME RunnerTyped, Untouched
  PROVE  Before = {}
  <1> SUFFICES ASSUME NEW x \in Before PROVE FALSE
    OBVIOUS
  <1>1. x \in Tests
    BY DEF Before
  <1>2. PICK a \in DOMAIN Suites : \E b \in DOMAIN Suites[a].tests : x = <<a, b>>
    BY <1>1, TestsShape
  <1>3. PICK b \in DOMAIN Suites[a].tests : x = <<a, b>>
    BY <1>2
  <1>4. a \in Nat \ {0} /\ b \in Nat \ {0}
    BY TestsShape
  <1> QED
    BY <1>3, <1>4 DEF Before, Untouched

LEMMA FreshIsCounted ==
  RunnerTyped /\ Untouched /\ (cfg.tap => plan = Cardinality(Wanted)) => Counted
  <1> SUFFICES ASSUME RunnerTyped, Untouched, cfg.tap => plan = Cardinality(Wanted)
               PROVE  Counted
    OBVIOUS
  <1>1. Before = {}
    BY NothingBehind
  <1>2. IsFiniteSet(Before) /\ Cardinality(Before \cap Wanted) = 0 /\ Cardinality(Before \cap Active) = 0
    <2>1. Before \cap Wanted = {} /\ Before \cap Active = {}
      BY <1>1
    <2> QED
      BY <1>1, <2>1, FS_EmptySet
  <1>3. \A x \in Tests \ Before : good[x] = IF x = Current THEN iteration ELSE 0
    BY DEF Untouched
  <1> QED
    BY <1>1, <1>2, <1>3 DEF Counted, Untouched

LEMMA RunnerStarts == RunnerInit => RunnerInv
  BY DEF RunnerInit, RunnerInv, RunnerTyped, Untouched, ChildrenOnly

LEMMA ChildrenOnlyStep == ChildrenOnly /\ [RunnerNext]_rvars => ChildrenOnly'
  <1> SUFFICES ASSUME ChildrenOnly, [RunnerNext]_rvars PROVE ChildrenOnly'
    OBVIOUS
  <1>1. CASE ReadArgument \/ Prepare
    <2>1. phase = "parse" /\ exited' = exited
      BY <1>1 DEF ReadArgument, Prepare
    <2> QED
      BY <2>1 DEF ChildrenOnly
  <1>2. CASE RunnerNext /\ ~(ReadArgument \/ Prepare)
    <2>1. /\ UNCHANGED <<canFork, cfg>> /\ phase' \in {"run", "done", "died"}
          /\ exited' = exited \/ Forking
      BY <1>2 DEF RunnerNext, NextSuite, Skip, Iterate, ExitInTest, LoseChild, Signal, Finish, StayInRun,
                  Conclude, End, Runnable
    <2>2. Forking' = Forking
      BY <2>1 DEF Forking
    <2> QED
      BY <2>1, <2>2 DEF ChildrenOnly
  <1>3. CASE UNCHANGED rvars
    BY <1>3 DEF rvars, ChildrenOnly, Forking
  <1> QED
    BY <1>1, <1>2, <1>3

LEMMA PrepareStep ==
  ASSUME RunnerInv, ChildrenOnly', Prepare
  PROVE  RunnerInv'
  <1>1. /\ phase = "parse" /\ UNCHANGED <<cfg, suite, test, iteration, counted, good>>
        /\ \/ phase' \in {"usage", "listed"}
           \/ /\ phase' = "run"
              /\ plan' = IF cfg.tap THEN Cardinality({x \in Tests : Selected(x[1], x[2])}) ELSE plan
    BY DEF Prepare, End
  <1>2. RunnerTyped' /\ Untouched'
    BY <1>1 DEF RunnerInv, RunnerTyped, Untouched
  <1>3. CASE phase' \in {"usage", "listed"}
    BY <1>2, <1>3 DEF RunnerInv
  <1>4. CASE phase' = "run"
    <2>1. cfg'.tap => plan' = Cardinality(Wanted')
      BY <1>1, <1>4 DEF Wanted, Selected
    <2>2. Counted'
      <3>1. (RunnerTyped /\ Untouched /\ (cfg.tap => plan = Cardinality(Wanted)) => Counted)'
        BY FreshIsCounted, PTL
      <3> QED
        BY <1>2, <2>1, <3>1
    <2> QED
      BY <1>2, <1>4, <2>2 DEF RunnerInv
  <1> QED
    BY <1>1, <1>3, <1>4

(* What a test returned and what the runner takes it for. *)
LEMMA IterateStep ==
  ASSUME RunnerTyped, Counted, Iterate
  PROVE  RunnerTyped' /\ Counted'
  <1>1. PICK r \in Returns :
          /\ good' = IF r = 0 THEN [good EXCEPT ![<<suite, test>>] = @ + 1] ELSE good
          /\ Conclude(Verdict(r) = 0)
    BY DEF Iterate
  <1>2. Verdict(r) = 0 => r = 0
    BY DEF Verdict, Status, ChildCode
  <1>3. DEFINE ok == Verdict(r) = 0
  <1>4. ok \in BOOLEAN /\ Conclude(ok)
    BY <1>1
  <1>5. \/ good' = [good EXCEPT ![<<suite, test>>] = @ + 1]
        \/ good' = good /\ ~ok
    BY <1>1, <1>2
  <1>6. Runnable /\ UNCHANGED <<cfg, plan>>
    BY DEF Iterate, StayInRun
  <1> HIDE DEF ok
  <1> QED
    BY <1>4, <1>5, <1>6, ConcludeStep

(* A test that ends its own process: for good at most what the runner takes for good. *)
LEMMA ExitInTestStep ==
  ASSUME RunnerTyped, Counted, ExitInTest
  PROVE  \/ phase' = phase /\ RunnerTyped' /\ Counted'
         \/ phase' = "died" /\ RunnerTyped'
  <1>1. PICK code \in Returns :
          LET ok == Status(code) = 0 IN
          \/ /\ Forking /\ Conclude(ok)
             /\ good' = IF ok THEN [good EXCEPT ![<<suite, test>>] = @ + 1] ELSE good
          \/ /\ ~Forking /\ End("died", Status(code))
             /\ UNCHANGED <<suite, test, iteration, counted, good>>
    BY DEF ExitInTest
  <1> DEFINE ok == Status(code) = 0
  <1>2. Runnable /\ UNCHANGED <<cfg, plan>> /\ ok \in BOOLEAN
    BY DEF ExitInTest, StayInRun
  <1>3. CASE /\ Conclude(ok)
             /\ good' = IF ok THEN [good EXCEPT ![<<suite, test>>] = @ + 1] ELSE good
    <2>1. phase' = phase
      BY <1>3 DEF Conclude
    <2>2. \/ good' = [good EXCEPT ![<<suite, test>>] = @ + 1]
          \/ good' = good /\ ~ok
      BY <1>3
    <2> HIDE DEF ok
    <2> QED
      BY <1>2, <1>3, <2>1, <2>2, ConcludeStep
  <1>4. CASE phase' = "died" /\ UNCHANGED <<suite, test, iteration, counted, good>>
    BY <1>4 DEF RunnerTyped
  <1> QED
    BY <1>1, <1>3, <1>4 DEF End

LEMMA LoseChildStep ==
  ASSUME RunnerTyped, Counted, LoseChild
  PROVE  RunnerTyped' /\ Counted'
  <1>1. Runnable /\ UNCHANGED <<cfg, plan>> /\ Conclude(FALSE)
    BY DEF LoseChild, StayInRun
  <1>2. good' = [good EXCEPT ![<<suite, test>>] = @ + 1] \/ good' = good
    BY DEF LoseChild
  <1> QED
    BY <1>1, <1>2, ConcludeStep

(* Every step keeps the invariant. *)
LEMMA RunnerStep == RunnerInv /\ [RunnerNext]_rvars => RunnerInv'
  <1> SUFFICES ASSUME RunnerInv, [RunnerNext]_rvars PROVE RunnerInv'
    OBVIOUS
  <1>a. ChildrenOnly'
    BY ChildrenOnlyStep DEF RunnerInv
  <1> USE DEF RunnerInv
  <1>1. CASE ReadArgument
    <2>1. phase = "parse" /\ phase' \in {"parse", "usage"} /\ UNCHANGED <<suite, test, iteration, counted, good>>
      BY <1>1 DEF ReadArgument, End
    <2> QED
      BY <1>a, <2>1 DEF RunnerTyped, Untouched
  <1>2. CASE Prepare
    BY <1>2, <1>a, PrepareStep
  <1>3. CASE NextSuite
    BY <1>3, <1>a, NextSuiteStep DEF NextSuite
  <1>4. CASE Skip
    BY <1>4, <1>a, SkipStep DEF Skip
  <1>5. CASE Iterate
    BY <1>5, <1>a, IterateStep DEF Iterate, Runnable, Conclude
  <1>6. CASE LoseChild
    BY <1>6, <1>a, LoseChildStep DEF LoseChild, Runnable, Conclude
  <1>7. CASE Signal
    <2>1. Runnable /\ phase = "run" /\ UNCHANGED <<cfg, plan, good>>
      BY <1>7 DEF Signal, Runnable, StayInRun
    <2>2. CASE Forking
      <3>1. Conclude(FALSE) /\ UNCHANGED phase
        BY <1>7, <2>2 DEF Signal, Conclude
      <3> QED
        BY <1>a, <2>1, <3>1, ConcludeStep
    <2>3. CASE ~Forking
      BY <1>7, <1>a, <2>1, <2>3 DEF Signal, End, RunnerTyped
    <2> QED
      BY <2>2, <2>3
  <1>8. CASE Finish
    <2>1. /\ phase = "run" /\ phase' = "done" /\ suite \notin DOMAIN Suites
          /\ UNCHANGED <<cfg, plan, suite, test, iteration, counted, good>>
          /\ rc' = IF counted.fail > 0 THEN 1 ELSE 0
      BY <1>8 DEF Finish, StayInRun, End
    <2>2. RunnerTyped' /\ Counted'
      BY <2>1 DEF RunnerTyped, Counted, Before, Wanted, Active, Selected, Current, InSuite
    <2>3. rc' = 0 => counted'.fail = 0
      BY <2>1 DEF RunnerTyped
    <2> QED
      BY <1>a, <2>1, <2>2, <2>3
  <1>9. CASE ExitInTest
    <2>1. phase = "run"
      BY <1>9 DEF ExitInTest, Runnable
    <2> QED
      BY <1>9, <1>a, <2>1, ExitInTestStep
  <1>10. CASE UNCHANGED rvars
    BY <1>10, <1>a DEF rvars, RunnerTyped, Untouched, Counted, Before, Wanted, Active, Selected, Current, InSuite
  <1> QED
    BY <1>1, <1>2, <1>3, <1>4, <1>5, <1>6, <1>7, <1>8, <1>9, <1>10 DEF RunnerNext

(* Past the last suite every test lies behind, so all of them have been counted. *)
LEMMA AllBehind ==
  ASSUME RunnerTyped, suite \notin DOMAIN Suites
  PROVE  Before = Tests
  <1> SUFFICES ASSUME NEW x \in Tests PROVE x[1] < suite
    BY DEF Before
  <1>1. PICK a \in DOMAIN Suites : \E b \in DOMAIN Suites[a].tests : x = <<a, b>>
    BY TestsShape
  <1>2. x[1] = a
    BY <1>1
  <1>3. a \in 1 .. Len(Suites) /\ suite \in Nat \ {0} /\ suite \notin 1 .. Len(Suites) /\ Len(Suites) \in Nat
    BY TestsShape DEF RunnerTyped
  <1> QED
    BY <1>2, <1>3

LEMMA RunnerInvIsEnough == RunnerInv => VerdictTrue
  <1> SUFFICES ASSUME RunnerInv PROVE VerdictTrue
    OBVIOUS
  <1> DEFINE wanted == {x \in Tests : Selected(x[1], x[2])}
             active == {x \in wanted : ~Suites[x[1]].tests[x[2]].todo /\ Suites[x[1]].count > 0}
             sound  == {x \in active : good[x] = Suites[x[1]].count}
  <1>1. wanted = Wanted /\ active = Active
    BY DEF Wanted, Active, Runs
  <1>2. ASSUME phase = "done"
        PROVE  /\ rc = 0 => sound = active
               /\ ~Forking => exited = {}
               /\ cfg.tap => counted.n = plan
               /\ counted.n = Cardinality(wanted)
               /\ counted.pass + counted.fail = Cardinality(active)
    <2>1. RunnerTyped /\ Counted /\ suite \notin DOMAIN Suites /\ (rc = 0 => counted.fail = 0)
      BY <1>2 DEF RunnerInv
    <2>2. Before \cap Wanted = Wanted /\ Before \cap Active = Active
      BY <2>1, AllBehind DEF Wanted, Active
    <2>3. counted.n = Cardinality(Wanted) /\ counted.pass + counted.fail = Cardinality(Active)
      BY <2>1, <2>2 DEF Counted
    <2>4. cfg.tap => counted.n = plan
      BY <2>1, <2>3 DEF Counted
    <2>5. rc = 0 => \A x \in Active : good[x] = Suites[x[1]].count
      BY <2>1, <2>2 DEF Counted
    <2>6. ~Forking => exited = {}
      BY DEF RunnerInv, ChildrenOnly
    <2> QED
      BY <1>1, <2>3, <2>4, <2>5, <2>6
  <1>3. phase \in {"usage", "listed"} => \A x \in Tests : good[x] = 0 /\ x \notin exited
    BY DEF RunnerInv, Untouched, ChildrenOnly
  <1> QED
    BY <1>2, <1>3 DEF VerdictTrue

(* pf_test_main() exits with 0 after a run only if every selected test that is no TODO ran all its
   iterations and each returned 0 or, in a child process of its own alone, ended it with status 0, whatever
   the suites, the command line and the codes the tests return; its counts
   and the plan of TAP are those of the selected tests, and a call that runs no test has run none. *)
THEOREM VerdictIsTrue == RunnerSpec => []VerdictTrue
  <1>1. RunnerInit => RunnerInv
    BY RunnerStarts
  <1>2. RunnerInv /\ [RunnerNext]_rvars => RunnerInv'
    BY RunnerStep
  <1>3. RunnerInv => VerdictTrue
    BY RunnerInvIsEnough
  <1> QED
    BY <1>1, <1>2, <1>3, PTL DEF RunnerSpec

-----------------------------------------------------------------------------
(* The cache of CPUID.  Every caller reads the same, so a field that anybody has copied is right for good,
   and who has announced the cache had copied every field. *)
Copied ==
  \A u \in Users : upc[u] = "copying" =>
    /\ reading[u] = Reading
    /\ uncopied[u] \subseteq CacheFields
    /\ \A f \in CacheFields \ uncopied[u] : cache[f] = Reading[f]

CacheInv ==
  /\ machine \in Machines
  /\ cache \in [CacheFields -> {EmptyCache[f] : f \in CacheFields} \cup {Reading[f] : f \in CacheFields}]
  /\ upc \in [Users -> {"out", "reading", "copying", "using"}]
  /\ reading \in [Users -> {EmptyCache, Reading}]
  /\ uncopied \in [Users -> SUBSET CacheFields]
  /\ Copied
  /\ ready => cache = Reading
  /\ \A u \in Users : upc[u] = "using" => ready

LEMMA ReadingFields == Reading = [f \in CacheFields |-> Reading[f]] /\ EmptyCache = [f \in CacheFields |-> EmptyCache[f]]
  BY DEF Reading, EmptyCache, CacheFields

LEMMA CacheStep ==
  ASSUME Ordered, CacheInv, [CpuNext]_cpuvars
  PROVE  CacheInv'
  <1>1. CASE UNCHANGED cpuvars
    BY <1>1 DEF CacheInv, Copied, cpuvars, Reading, MaxLeaf, Cpuid
  <1>2. ASSUME NEW u \in Users, GetCache(u) \/ Read(u) \/ Copy(u) \/ Publish(u) \/ Leave(u)
        PROVE  CacheInv'
    <2>1. machine' = machine /\ Reading' = Reading
      BY <1>2 DEF GetCache, Read, Copy, Publish, Leave, Reading, MaxLeaf, Cpuid
    <2> DEFINE R == Reading
    <2>2. CASE GetCache(u)
      BY <2>1, <2>2 DEF GetCache, CacheInv, Copied
    <2>3. CASE Read(u)
      BY <2>1, <2>3 DEF Read, CacheInv, Copied
    <2>4. CASE Copy(u)
      <3>1. PICK f \in uncopied[u] :
              /\ cache' = [cache EXCEPT ![f] = reading[u][f]]
              /\ uncopied' = [uncopied EXCEPT ![u] = @ \ {f}]
        BY <2>4 DEF Copy
      <3>2. reading[u] = R /\ f \in CacheFields
        BY <2>4 DEF Copy, CacheInv, Copied
      <3>3. cache' = [cache EXCEPT ![f] = R[f]] /\ UNCHANGED <<ready, upc, reading>>
        BY <2>4, <3>1, <3>2 DEF Copy
      <3>4. Copied'
        BY <2>1, <3>1, <3>2, <3>3 DEF CacheInv, Copied
      <3>5. ready => cache' = R
        BY <3>2, <3>3, ReadingFields DEF CacheInv
      <3> QED
        BY <2>1, <3>1, <3>2, <3>3, <3>4, <3>5 DEF CacheInv
    <2>5. CASE Publish(u)
      <3>1. cache = Reading
        BY <2>5, ReadingFields DEF Publish, CacheInv, Copied
      <3> QED
        BY <2>1, <2>5, <3>1 DEF Publish, CacheInv, Copied
    <2>6. CASE Leave(u)
      BY <2>1, <2>6 DEF Leave, CacheInv, Copied
    <2> QED
      BY <1>2, <2>2, <2>3, <2>4, <2>5, <2>6
  <1> QED
    BY <1>1, <1>2 DEF CpuNext

(* The largest of at most eight numbers, one after another. *)
HasMax(S) == \E m \in S : \A y \in S : m >= y
FirstOf(counts, k) == {counts[j] : j \in 1 .. k}

LEMMA OneMoreHasMax ==
  ASSUME NEW counts \in Seq(Nat), NEW k \in Nat \ {0}, k + 1 <= Len(counts), HasMax(FirstOf(counts, k))
  PROVE  HasMax(FirstOf(counts, k + 1))
  <1>1. /\ \A j \in 1 .. k + 1 : counts[j] \in Nat
        /\ k + 1 \in 1 .. k + 1 /\ 1 .. k + 1 = (1 .. k) \cup {k + 1}
    OBVIOUS
  <1>2. FirstOf(counts, k + 1) = FirstOf(counts, k) \cup {counts[k + 1]}
    BY <1>1 DEF FirstOf
  <1>3. PICK m \in FirstOf(counts, k) : \A y \in FirstOf(counts, k) : m >= y
    BY DEF HasMax
  <1>4. m \in Nat /\ counts[k + 1] \in Nat /\ \A y \in FirstOf(counts, k) : y \in Nat
    BY <1>1 DEF FirstOf
  <1>5. CASE m >= counts[k + 1]
    BY <1>2, <1>3, <1>5 DEF HasMax
  <1>6. CASE counts[k + 1] > m
    <2>1. \A y \in FirstOf(counts, k + 1) : counts[k + 1] >= y
      BY <1>2, <1>3, <1>4, <1>6
    <2> QED
      BY <1>2, <2>1 DEF HasMax
  <1> QED
    BY <1>4, <1>5, <1>6

LEMMA UpToEightHaveMax ==
  ASSUME NEW counts \in Seq(Nat), NEW k \in 1 .. 8, k <= Len(counts)
  PROVE  HasMax(FirstOf(counts, k))
  <1>0. Len(counts) \in Nat
    OBVIOUS
  <1>1. HasMax(FirstOf(counts, 1))
    <2>1. FirstOf(counts, 1) = {counts[1]} /\ counts[1] \in Nat
      <3>1. 1 .. 1 = {1} /\ 1 \in 1 .. Len(counts)
        BY <1>0
      <3> QED
        BY <3>1 DEF FirstOf
    <2>2. \A y \in {counts[1]} : counts[1] >= y
      BY <2>1
    <2> QED
      BY <2>1, <2>2 DEF HasMax
  <1>2. k >= 2 => HasMax(FirstOf(counts, 2))
    BY <1>0, <1>1, OneMoreHasMax
  <1>3. k >= 3 => HasMax(FirstOf(counts, 3))
    BY <1>0, <1>2, OneMoreHasMax
  <1>4. k >= 4 => HasMax(FirstOf(counts, 4))
    BY <1>0, <1>3, OneMoreHasMax
  <1>5. k >= 5 => HasMax(FirstOf(counts, 5))
    BY <1>0, <1>4, OneMoreHasMax
  <1>6. k >= 6 => HasMax(FirstOf(counts, 6))
    BY <1>0, <1>5, OneMoreHasMax
  <1>7. k >= 7 => HasMax(FirstOf(counts, 7))
    BY <1>0, <1>6, OneMoreHasMax
  <1>8. k >= 8 => HasMax(FirstOf(counts, 8))
    BY <1>0, <1>7, OneMoreHasMax
  <1> QED
    <2>1. CASE k <= 4
      <3>1. k = 1 \/ k = 2 \/ k = 3 \/ k = 4
        BY <2>1
      <3> QED
        BY <1>1, <1>2, <1>3, <1>4, <3>1
    <2>2. CASE k > 4
      <3>1. k = 5 \/ k = 6 \/ k = 7 \/ k = 8
        BY <2>2
      <3> QED
        BY <1>5, <1>6, <1>7, <1>8, <3>1
    <2> QED
      BY <2>1, <2>2

LEMMA TopologyIsACount ==
  ASSUME machine \in Machines, NEW leaf \in {11, 31}
  PROVE  Topology(leaf) \in Nat
  <1>1. machine.topology[leaf] \in Seq(Nat)
    BY MachinesOK
  <1>2. CASE cache.max_basic < leaf \/ machine.topology[leaf] = <<>>
    BY <1>2 DEF Topology
  <1>3. CASE ~(cache.max_basic < leaf \/ machine.topology[leaf] = <<>>)
    <2> DEFINE counts == machine.topology[leaf]
               k == Min({8, Len(counts)})
    <2>1. counts \in Seq(Nat) /\ Len(counts) \in Nat \ {0}
      BY <1>1, <1>3
    <2>2. k \in 1 .. 8 /\ k <= Len(counts)
      <3>1. \E x \in {8, Len(counts)} : \A y \in {8, Len(counts)} : x =< y
        BY <2>1
      <3>2. k \in {8, Len(counts)} /\ \A y \in {8, Len(counts)} : k =< y
        BY <3>1 DEF Min
      <3> HIDE DEF k
      <3>3. k \in Nat /\ (k = 8 \/ k = Len(counts)) /\ k =< 8 /\ k =< Len(counts)
        BY <2>1, <3>2
      <3> DEFINE n == Len(counts)
      <3> HIDE DEF n, counts
      <3>4. n \in Nat \ {0} /\ k \in Nat /\ (k = 8 \/ k = n) /\ k =< 8 /\ k =< n
        BY <2>1, <3>3 DEF n
      <3>5. k \in 1 .. 8 /\ k <= n
        BY <3>4
      <3> QED
        BY <3>5 DEF n
    <2> HIDE DEF k
    <2>3. HasMax(FirstOf(counts, k))
      BY <2>1, <2>2, UpToEightHaveMax
    <2>4. Max(FirstOf(counts, k)) \in FirstOf(counts, k)
      BY <2>3 DEF HasMax, Max
    <2>5. Max(FirstOf(counts, k)) \in Nat
      <3> HIDE DEF counts
      <3>1. \A j \in 1 .. k : counts[j] \in Nat
        BY <2>1, <2>2
      <3> QED
        BY <2>4, <3>1 DEF FirstOf
    <2> QED
      BY <1>3, <2>5 DEF Topology, FirstOf, k
  <1> QED
    BY <1>2, <1>3

(* With the cache that the processor gives, the macros say what the processor has. *)
LEMMA CacheIsEnough == CacheInv => FeaturesTrue
  <1> SUFFICES ASSUME CacheInv, NEW u \in Users, upc[u] = "using"
               PROVE  /\ cache.max_basic = machine.basic /\ cache.max_ext = machine.ext
                      /\ \A r \in Registers : \A bit \in Macros[r] :
                           LET leaf == IF r \in Leaf1 THEN 1 ELSE 7
                           IN  Flag(r, bit) <=> machine.basic >= leaf /\ bit \in Cpuid(leaf)[r]
                      /\ CanUse.avx512f => {1, 2, 5, 6, 7} \subseteq machine.xcr0 /\ 16 \in machine.l7["ebx7"]
                      /\ CanUse.avx2 => machine.basic >= 7 /\ {1, 2} \subseteq machine.xcr0
                      /\ LogicalCores >= 1 <=> machine.basic # 0
    BY DEF FeaturesTrue
  <1>1. cache = Reading /\ machine \in Machines /\ machine.basic \in Nat
    BY MachinesOK DEF CacheInv
  <1>2. cache.max_basic = machine.basic /\ cache.max_ext = machine.ext
    BY <1>1 DEF Reading, MaxLeaf
  <1>3. /\ cache.l1 = IF machine.basic >= 1 THEN machine.l1 ELSE Nothing
        /\ cache.l7 = IF machine.basic >= 7 THEN machine.l7 ELSE Nothing
    BY <1>1 DEF Reading, MaxLeaf, Cpuid
  <1>4. Cpuid(1) = IF machine.basic >= 1 THEN machine.l1 ELSE machine.garbage
    BY <1>1 DEF Cpuid
  <1>5. Cpuid(7) = IF machine.basic >= 7 THEN machine.l7 ELSE machine.garbage
    BY <1>1 DEF Cpuid
  <1>6. \A r \in Registers : Nothing[r] = {}
    BY DEF Nothing
  <1>7. ASSUME NEW r \in Registers, NEW bit
        PROVE  Flag(r, bit) <=> machine.basic >= (IF r \in Leaf1 THEN 1 ELSE 7)
                                /\ bit \in Cpuid(IF r \in Leaf1 THEN 1 ELSE 7)[r]
    <2>1. CASE r \in Leaf1
      BY <1>1, <1>3, <1>4, <1>6, <2>1 DEF Flag
    <2>2. CASE r \notin Leaf1
      BY <1>1, <1>3, <1>5, <1>6, <2>2 DEF Flag
    <2> QED
      BY <2>1, <2>2
  <1>8. "ebx7" \in Registers /\ "ebx7" \notin Leaf1
    BY DEF Registers, Macros, Leaf1
  <1>9. CanUse.avx512f => {1, 2, 5, 6, 7} \subseteq machine.xcr0 /\ 16 \in machine.l7["ebx7"]
    <2>1. CanUse.avx512f => Flag("ebx7", 16) /\ {1, 2, 5, 6, 7} \subseteq machine.xcr0
      BY DEF CanUse, OsSupports
    <2>2. Flag("ebx7", 16) => 16 \in machine.l7["ebx7"]
      BY <1>5, <1>7, <1>8
    <2> QED
      BY <2>1, <2>2
  <1>10. CanUse.avx2 => machine.basic >= 7 /\ {1, 2} \subseteq machine.xcr0
    <2>1. CanUse.avx2 => Flag("ebx7", 5) /\ {1, 2} \subseteq machine.xcr0
      BY DEF CanUse, OsSupports
    <2>2. Flag("ebx7", 5) => machine.basic >= 7
      BY <1>7, <1>8
    <2> QED
      BY <2>1, <2>2
  <1>11. LogicalCores >= 1 <=> machine.basic # 0
    <2>1. machine.nc \in Nat /\ machine.legacy \in Nat /\ Topology(11) \in Nat /\ Topology(31) \in Nat
      BY <1>1, TopologyIsACount, MachinesOK
    <2>2. CASE machine.basic = 0
      BY <1>2, <2>2 DEF LogicalCores
    <2>3. CASE machine.basic # 0 /\ machine.amd /\ cache.max_ext >= 8
      BY <1>2, <2>1, <2>3 DEF LogicalCores
    <2>4. CASE machine.basic # 0 /\ ~(machine.amd /\ cache.max_ext >= 8)
      <3>1. LogicalCores = LET levels == IF Topology(31) # 0 THEN Topology(31) ELSE Topology(11)
                           IN  IF levels # 0 THEN levels
                               ELSE IF Flag("edx1", 28) /\ machine.legacy # 0 THEN machine.legacy ELSE 1
        BY <1>2, <2>4 DEF LogicalCores
      <3> QED
        BY <2>1, <2>4, <3>1
    <2> QED
      BY <1>1, <2>2, <2>3, <2>4
  <1> QED
    BY <1>2, <1>7, <1>9, <1>10, <1>11

(* Where PF__BARRIER() orders, however many first calls fill the cache at once and whatever the processor:
   nobody uses it before every field is what the processor says, and no feature is reported that a leaf it
   does not have would show. *)
THEOREM FeaturesAreTrue ==
  ASSUME Ordered
  PROVE  CpuSpec => []FeaturesTrue
  <1>1. CpuInit => CacheInv
    BY DEF CpuInit, CacheInv, Copied, EmptyCache, CacheFields
  <1>2. CacheInv /\ [CpuNext]_cpuvars => CacheInv'
    BY CacheStep
  <1> QED
    BY <1>1, <1>2, CacheIsEnough, PTL DEF CpuSpec

-----------------------------------------------------------------------------
(* The growable array of pf_array.h is a deque, for every set of items, every size of a word and every
   allocator; only sums that stay within a word are asked of it, as ArrayConstantsOK says. *)

(* What a byte of a block may hold. *)
Bytes == Items \cup {Junk}

(* The smaller of two lengths. *)
LEMMA MinIs ==
  ASSUME NEW a \in Nat, NEW b \in Nat
  PROVE  Min({a, b}) = IF a <= b THEN a ELSE b
  <1> DEFINE m == IF a <= b THEN a ELSE b
  <1>1. m \in {a, b} /\ \A x \in {a, b} : m <= x
    OBVIOUS
  <1>2. \A y \in {a, b} : (\A x \in {a, b} : y <= x) => y = m
    OBVIOUS
  <1> HIDE DEF m
  <1>3. (CHOOSE y \in {a, b} : \A x \in {a, b} : y <= x) = m
    BY <1>1, <1>2
  <1> QED
    BY <1>3 DEF Min, m

(* What fits a word does not wrap. *)
LEMMA WordFits == ASSUME NEW n \in Nat, n <= SizeMax PROVE Word(n) = n
  BY ArrayConstantsOK DEF Word

(* A block that moved has the bytes that fit. *)
LEMMA ReallocIs ==
  ASSUME NEW buf \in Seq(Bytes), NEW n \in Nat
  PROVE  /\ Realloc(buf, n) \in Seq(Bytes) /\ Len(Realloc(buf, n)) = n
         /\ \A i \in 1 .. n : i <= Len(buf) => Realloc(buf, n)[i] = buf[i]
  <1>1. \A i \in 1 .. n : (IF i <= Len(buf) THEN buf[i] ELSE Junk) \in Bytes
    BY DEF Bytes
  <1>2. Realloc(buf, n) \in [1 .. n -> Bytes]
    BY <1>1 DEF Realloc
  <1> QED
    BY <1>2 DEF Realloc

(* memcpy() to an offset changes the bytes from there on and no others. *)
LEMMA WriteIs ==
  ASSUME NEW buf \in Seq(Bytes), NEW at \in Nat, NEW batch \in Seq(Bytes)
  PROVE  /\ Write(buf, at, batch) \in Seq(Bytes) /\ Len(Write(buf, at, batch)) = Len(buf)
         /\ \A i \in 1 .. Len(buf) :
              Write(buf, at, batch)[i] = IF i > at /\ i <= at + Len(batch) THEN batch[i - at] ELSE buf[i]
  <1>1. \A i \in 1 .. Len(buf) : /\ i - at \in 1 .. Len(batch) <=> i > at /\ i <= at + Len(batch)
                                 /\ i - at \in 1 .. Len(batch) => batch[i - at] \in Bytes
                                 /\ buf[i] \in Bytes
    OBVIOUS
  <1>2. Write(buf, at, batch) \in [1 .. Len(buf) -> Bytes]
    BY <1>1 DEF Write
  <1> QED
    BY <1>1, <1>2 DEF Write

(* memcpy() to the front. *)
LEMMA WriteFront ==
  ASSUME NEW buf \in Seq(Bytes), NEW batch \in Seq(Bytes)
  PROVE  /\ Write(buf, 0, batch) \in Seq(Bytes) /\ Len(Write(buf, 0, batch)) = Len(buf)
         /\ \A i \in 1 .. Len(buf) :
              Write(buf, 0, batch)[i] = IF i <= Len(batch) THEN batch[i] ELSE buf[i]
  <1>1. \A i \in 1 .. Len(buf) :
          Write(buf, 0, batch)[i] = IF i > 0 /\ i <= 0 + Len(batch) THEN batch[i - 0] ELSE buf[i]
    BY WriteIs
  <1>2. \A i \in 1 .. Len(buf) : i > 0 /\ i - 0 = i /\ 0 + Len(batch) = Len(batch)
    OBVIOUS
  <1> QED
    BY <1>1, <1>2, WriteIs

(* The first bytes of a block. *)
LEMMA CutIs ==
  ASSUME NEW buf \in Seq(Bytes), NEW n \in Nat, n <= Len(buf)
  PROVE  /\ SubSeq(buf, 1, n) \in Seq(Bytes) /\ Len(SubSeq(buf, 1, n)) = n
         /\ \A i \in 1 .. n : SubSeq(buf, 1, n)[i] = buf[i]
  BY SubSeqProperties

(* The bytes behind an offset. *)
LEMMA PartIs ==
  ASSUME NEW buf \in Seq(Bytes), NEW at \in Nat, NEW n \in Nat, at + n <= Len(buf)
  PROVE  /\ Part(buf, at, n) \in Seq(Bytes) /\ Len(Part(buf, at, n)) = n
         /\ \A i \in 1 .. n : Part(buf, at, n)[i] = buf[at + i]
  BY SubSeqProperties DEF Part

(* The block and the length. *)
ArrayType ==
  /\ buffer \in Seq(Bytes) /\ Len(buffer) <= MaxBlock
  /\ length \in Nat /\ length <= Len(buffer)
  /\ alive \in BOOLEAN

(* What a reservation that succeeds leaves: room, and the old items. *)
Roomy(a, n) ==
  /\ a.length = length
  /\ a.buffer \in Seq(Bytes) /\ Len(a.buffer) <= MaxBlock
  /\ length + n <= Len(a.buffer)
  /\ \A i \in 1 .. length : a.buffer[i] = buffer[i]

(* realloc() gives nothing, or what was asked for. *)
LEMMA Outcomes ==
  ASSUME NEW n \in Nat, NEW a \in Resized(n)
  PROVE  a = Unchanged \/ (n <= MaxBlock /\ a = Array(TRUE, Realloc(buffer, n), Min({length, n})))
  <1>1. CASE n \in 1 .. MaxBlock
    <2>1. a \in {Unchanged} \cup {Array(TRUE, Realloc(buffer, n), Min({length, n}))}
      BY <1>1, Zenon DEF Resized
    <2>2. n <= MaxBlock
      BY <1>1, ArrayConstantsOK
    <2> QED
      BY <2>1, <2>2
  <1>2. CASE n \notin 1 .. MaxBlock
    BY <1>2, Zenon DEF Resized
  <1> QED
    BY <1>1, <1>2

(* pf__array_reserve() refuses, or there is room and the old items are where they were. *)
LEMMA ReservedIs ==
  ASSUME ArrayType, NEW n \in Nat, (length + n) * 2 <= SizeMax, NEW a \in Reserved(n)
  PROVE  IF a.ok THEN n # 0 /\ Roomy(a, n) ELSE a = Unchanged
  <1> USE DEF ArrayType
  <1>1. CASE n = 0
    BY <1>1 DEF Reserved, Unchanged, Array
  <1>2. CASE n # 0 /\ length + n <= Len(buffer)
    <2>1. Word(length + n) = length + n
      BY ArrayConstantsOK, WordFits
    <2>2. a = Array(TRUE, buffer, length)
      BY <1>2, <2>1 DEF Reserved, Capacity
    <2> QED
      BY <1>2, <2>2 DEF Array, Roomy
  <1>3. CASE n # 0 /\ length + n > Len(buffer)
    <2> DEFINE m == (length + n) * 2
    <2>1. Word(length + n) = length + n /\ Word((length + n) * 2) = m
      BY ArrayConstantsOK, WordFits
    <2>2. Grown(length, n) = m /\ m # 0 /\ m \in Nat /\ length <= m /\ length + n <= m
      BY <1>3, <2>1 DEF Grown
    <2>3. Reserved(n) = Resized(m)
      BY <1>3, <2>1, <2>2 DEF Reserved, Capacity
    <2>4. a = Unchanged \/ (m <= MaxBlock /\ a = Array(TRUE, Realloc(buffer, m), Min({length, m})))
      BY <2>2, <2>3, Outcomes
    <2>5. Min({length, m}) = length
      <3> HIDE DEF m
      <3> QED
        BY <2>2, MinIs
    <2>6. CASE a = Unchanged
      BY <2>6 DEF Unchanged, Array
    <2>7. CASE m <= MaxBlock /\ a = Array(TRUE, Realloc(buffer, m), length)
      <3> HIDE DEF m
      <3>1. /\ Realloc(buffer, m) \in Seq(Bytes) /\ Len(Realloc(buffer, m)) = m
            /\ \A i \in 1 .. m : i <= Len(buffer) => Realloc(buffer, m)[i] = buffer[i]
        BY <2>2, ReallocIs
      <3>2. a.ok /\ a.buffer = Realloc(buffer, m) /\ a.length = length
        BY <2>7 DEF Array
      <3>3. \A i \in 1 .. length : i \in 1 .. m /\ i <= Len(buffer)
        BY <2>2
      <3> QED
        BY <1>3, <2>2, <2>7, <3>1, <3>2, <3>3 DEF Roomy
    <2> QED
      BY <2>4, <2>5, <2>6, <2>7
  <1> QED
    BY <1>1, <1>2, <1>3

(* The outcomes of pf__array_resize(). *)
LEMMA ResizedIs ==
  ASSUME ArrayType, NEW n \in Nat, NEW a \in Resized(n)
  PROVE  \/ a = Unchanged
         \/ /\ a.buffer \in Seq(Bytes) /\ Len(a.buffer) <= MaxBlock
            /\ a.length \in Nat /\ a.length <= Len(a.buffer) /\ a.length <= length
            /\ \A i \in 1 .. a.length : a.buffer[i] = buffer[i]
  <1> USE DEF ArrayType
  <1>1. a = Unchanged \/ (n <= MaxBlock /\ a = Array(TRUE, Realloc(buffer, n), Min({length, n})))
    BY Outcomes
  <1>2. CASE a = Unchanged
    BY <1>2
  <1>3. CASE n <= MaxBlock /\ a = Array(TRUE, Realloc(buffer, n), Min({length, n}))
    <2>1. a.buffer = Realloc(buffer, n) /\ a.length = Min({length, n})
      BY <1>3 DEF Array
    <2>2. a.length \in Nat /\ a.length <= length /\ a.length <= n
      BY <2>1, MinIs
    <2>3. /\ Realloc(buffer, n) \in Seq(Bytes) /\ Len(Realloc(buffer, n)) = n
          /\ \A i \in 1 .. n : i <= Len(buffer) => Realloc(buffer, n)[i] = buffer[i]
      BY ReallocIs
    <2>4. \A i \in 1 .. a.length : i \in 1 .. n /\ i <= Len(buffer)
      BY <2>2
    <2>5. \A i \in 1 .. a.length : a.buffer[i] = buffer[i]
      BY <2>1, <2>3, <2>4
    <2> QED
      BY <1>3, <2>1, <2>2, <2>3, <2>5
  <1> QED
    BY <1>1, <1>2, <1>3

(* Below the bounds of the model, no sum of a program wraps. *)
LEMMA NothingWraps ==
  ASSUME ArrayType, NEW n \in Counts1
  PROVE  n \in Nat /\ (length + n) * 2 <= SizeMax /\ length + n \in Nat
  BY ArrayConstantsOK DEF ArrayType, Counts1

(* The items of a call are bytes. *)
LEMMA BatchIs ==
  ASSUME NEW batch \in Batches
  PROVE  batch \in Seq(Bytes) /\ Len(batch) \in Counts1
  <1>1. PICK n \in Counts1 : batch \in [1 .. n -> Items]
    BY DEF Batches
  <1>2. n \in Nat
    BY <1>1, ArrayConstantsOK DEF Counts1
  <1> QED
    BY <1>1, <1>2 DEF Bytes

(* The caller sees the first length bytes. *)
LEMMA ContentsAre ==
  ASSUME ArrayType, alive
  PROVE  /\ Contents \in Seq(Bytes) /\ Len(Contents) = length
         /\ \A i \in 1 .. length : Contents[i] = buffer[i]
  BY CutIs DEF ArrayType, Contents

(* The same after a step. *)
LEMMA ContentsAreNext ==
  ASSUME ArrayType', alive'
  PROVE  /\ Contents' \in Seq(Bytes) /\ Len(Contents') = length'
         /\ \A i \in 1 .. length' : Contents'[i] = buffer'[i]
  BY CutIs DEF ArrayType, Contents

(* An allocation that fails leaves everything as it was. *)
LEMMA Refusal ==
  ASSUME ArrayType, alive, Become(Unchanged)
  PROVE  ArrayType' /\ Refused
  BY DEF ArrayType, Become, Unchanged, Array, Refused, Contents

(* pf__array_push() adds its items behind the others. *)
LEMMA PushIs ==
  ASSUME ArrayType, NEW batch \in Batches, Push(batch)
  PROVE  ArrayType' /\ (AbstractDeque!AddLast(batch) \/ Refused)
  <1> DEFINE n == Len(batch)
  <1>1. batch \in Seq(Bytes) /\ n \in Counts1
    BY BatchIs
  <1>2. n \in Nat /\ (length + n) * 2 <= SizeMax /\ length + n \in Nat
    BY <1>1, NothingWraps
  <1>3. PICK a \in Reserved(n) :
          Become(IF a.ok THEN [a EXCEPT !.buffer = Write(a.buffer, a.length, batch), !.length = Word(@ + n)]
                 ELSE a)
    BY DEF Push
  <1>4. IF a.ok THEN n # 0 /\ Roomy(a, n) ELSE a = Unchanged
    BY <1>2, ReservedIs
  <1>5. CASE ~a.ok
    BY <1>3, <1>4, <1>5, Refusal DEF Push
  <1>6. CASE a.ok
    <2>1. Roomy(a, n)
      BY <1>4, <1>6
    <2>2. buffer' = Write(a.buffer, length, batch) /\ length' = length + n /\ alive' /\ alive
      BY <1>2, <1>3, <1>6, <2>1, WordFits, ArrayConstantsOK DEF Become, Roomy, Push
    <2>3. /\ buffer' \in Seq(Bytes) /\ Len(buffer') = Len(a.buffer)
          /\ \A i \in 1 .. Len(a.buffer) :
               buffer'[i] = IF i > length /\ i <= length + n THEN batch[i - length] ELSE a.buffer[i]
      BY <1>1, <2>1, <2>2, WriteIs DEF Roomy, ArrayType
    <2>4. ArrayType'
      BY <1>2, <2>1, <2>2, <2>3 DEF ArrayType, Roomy
    <2>5. \A i \in 1 .. length + n :
            Contents'[i] = IF i <= length THEN Contents[i] ELSE batch[i - length]
      <3> SUFFICES ASSUME NEW i \in 1 .. length + n
                   PROVE  Contents'[i] = IF i <= length THEN Contents[i] ELSE batch[i - length]
        OBVIOUS
      <3>1. Contents'[i] = buffer'[i]
        BY <2>2, <2>4, ContentsAreNext
      <3>2. i \in 1 .. Len(a.buffer) /\ (i <= length => i \in 1 .. length)
        BY <1>2, <2>1 DEF Roomy, ArrayType
      <3>3. i <= length => a.buffer[i] = buffer[i] /\ Contents[i] = buffer[i]
        BY <2>1, <2>2, <3>2, ContentsAre DEF Roomy
      <3>4. CASE i <= length
        BY <2>3, <3>1, <3>2, <3>3, <3>4 DEF ArrayType
      <3>5. CASE i > length
        BY <2>3, <3>1, <3>2, <3>5 DEF ArrayType
      <3> QED
        BY <3>4, <3>5 DEF ArrayType
    <2>6. Contents' = Contents \o batch
      <3>1. /\ Contents' \in Seq(Bytes) /\ Len(Contents') = length + n
            /\ Contents \in Seq(Bytes) /\ Len(Contents) = length
        BY <2>2, <2>4, ContentsAre, ContentsAreNext
      <3>2. /\ Contents \o batch \in Seq(Bytes) /\ Len(Contents \o batch) = length + n
            /\ \A i \in 1 .. length + n :
                 (Contents \o batch)[i] = IF i <= length THEN Contents[i] ELSE batch[i - length]
        BY <1>1, <3>1, ConcatProperties
      <3> QED
        BY <2>5, <3>1, <3>2, SeqEqual
    <2> QED
      BY <2>4, <2>6 DEF AbstractDeque!AddLast
  <1> QED
    BY <1>5, <1>6

(* pf__array_unpshift() moves the items up and puts its own before them. *)
LEMMA UnpshiftIs ==
  ASSUME ArrayType, NEW batch \in Batches, Unpshift(batch)
  PROVE  ArrayType' /\ (AbstractDeque!AddFirst(batch) \/ Refused)
  <1> DEFINE n == Len(batch)
             Moved(a) == Write(a.buffer, n, Part(a.buffer, 0, a.length))
  <1>1. batch \in Seq(Bytes) /\ n \in Counts1
    BY BatchIs
  <1>2. n \in Nat /\ (length + n) * 2 <= SizeMax /\ length + n \in Nat
    BY <1>1, NothingWraps
  <1>3. PICK a \in Reserved(n) :
          Become(IF a.ok THEN [a EXCEPT !.buffer = Write(Moved(a), 0, batch), !.length = Word(@ + n)]
                 ELSE a)
    BY DEF Unpshift
  <1>4. IF a.ok THEN n # 0 /\ Roomy(a, n) ELSE a = Unchanged
    BY <1>2, ReservedIs
  <1>5. CASE ~a.ok
    BY <1>3, <1>4, <1>5, Refusal DEF Unpshift
  <1>6. CASE a.ok
    <2>1. Roomy(a, n)
      BY <1>4, <1>6
    <2>2. buffer' = Write(Moved(a), 0, batch) /\ length' = length + n /\ alive' /\ alive
      BY <1>2, <1>3, <1>6, <2>1, WordFits, ArrayConstantsOK DEF Become, Roomy, Unpshift
    <2>3. /\ Part(a.buffer, 0, length) \in Seq(Bytes) /\ Len(Part(a.buffer, 0, length)) = length
          /\ \A i \in 1 .. length : Part(a.buffer, 0, length)[i] = a.buffer[i]
      <3>1. a.buffer \in Seq(Bytes) /\ length \in Nat /\ 0 + length <= Len(a.buffer)
        BY <1>2, <2>1 DEF Roomy, ArrayType
      <3>2. \A i \in 1 .. length : Part(a.buffer, 0, length)[i] = a.buffer[0 + i]
        BY <3>1, PartIs
      <3> QED
        BY <3>1, <3>2, PartIs
    <2>4. /\ Moved(a) \in Seq(Bytes) /\ Len(Moved(a)) = Len(a.buffer)
          /\ \A i \in 1 .. Len(a.buffer) :
               Moved(a)[i] = IF i > n /\ i <= n + length THEN Part(a.buffer, 0, length)[i - n] ELSE a.buffer[i]
      <3>1. Moved(a) = Write(a.buffer, n, Part(a.buffer, 0, length)) /\ a.buffer \in Seq(Bytes)
        BY <2>1 DEF Roomy
      <3> DEFINE part == Part(a.buffer, 0, length)
      <3>2. n \in Nat /\ part \in Seq(Bytes) /\ Len(part) = length /\ Moved(a) = Write(a.buffer, n, part)
        BY <1>2, <2>3, <3>1
      <3> HIDE DEF Moved, n, part
      <3>3. /\ Moved(a) \in Seq(Bytes) /\ Len(Moved(a)) = Len(a.buffer)
            /\ \A i \in 1 .. Len(a.buffer) :
                 Moved(a)[i] = IF i > n /\ i <= n + Len(part) THEN part[i - n] ELSE a.buffer[i]
        BY <3>1, <3>2, WriteIs
      <3>4. /\ Moved(a) \in Seq(Bytes) /\ Len(Moved(a)) = Len(a.buffer)
            /\ \A i \in 1 .. Len(a.buffer) :
                 Moved(a)[i] = IF i > n /\ i <= n + length THEN part[i - n] ELSE a.buffer[i]
        BY <3>2, <3>3
      <3> QED
        BY <3>4 DEF n, part
    <2> HIDE DEF Moved
    <2>5. /\ buffer' \in Seq(Bytes) /\ Len(buffer') = Len(a.buffer)
          /\ \A i \in 1 .. Len(a.buffer) :
               buffer'[i] = IF i <= n THEN batch[i] ELSE Moved(a)[i]
      BY <1>1, <2>2, <2>4, WriteFront
    <2>6. ArrayType'
      BY <1>2, <2>1, <2>2, <2>5 DEF ArrayType, Roomy
    <2>7. ASSUME NEW i \in 1 .. n + length
          PROVE  buffer'[i] = IF i <= n THEN batch[i] ELSE buffer[i - n]
      <3>1. i \in 1 .. Len(a.buffer)
        BY <1>2, <2>1 DEF Roomy, ArrayType
      <3>2. CASE i <= n
        BY <2>5, <3>1, <3>2
      <3>3. CASE i > n
        <4>1. i <= n + length /\ i - n \in 1 .. length /\ ~(i <= n)
          BY <1>2, <3>3 DEF ArrayType
        <4>2. Moved(a)[i] = Part(a.buffer, 0, length)[i - n]
          BY <2>4, <3>1, <3>3, <4>1
        <4>3. Part(a.buffer, 0, length)[i - n] = buffer[i - n]
          BY <2>1, <2>3, <4>1 DEF Roomy
        <4> QED
          BY <2>5, <3>1, <4>1, <4>2, <4>3
      <3>4. i <= n \/ i > n
        BY <1>2 DEF ArrayType
      <3> QED
        BY <3>2, <3>3, <3>4
    <2>8. Contents' = batch \o Contents
      <3>1. /\ Contents' \in Seq(Bytes) /\ Len(Contents') = n + length
            /\ \A i \in 1 .. n + length : Contents'[i] = buffer'[i]
        BY <1>2, <2>2, <2>6, ContentsAreNext DEF ArrayType
      <3>2. /\ Contents \in Seq(Bytes) /\ Len(Contents) = length
            /\ \A i \in 1 .. length : Contents[i] = buffer[i]
        BY <2>2, ContentsAre
      <3>3. /\ batch \o Contents \in Seq(Bytes) /\ Len(batch \o Contents) = n + length
            /\ \A i \in 1 .. n + length :
                 (batch \o Contents)[i] = IF i <= n THEN batch[i] ELSE Contents[i - n]
        BY <1>1, <3>2, ConcatProperties
      <3>4. \A i \in 1 .. n + length : Contents'[i] = (batch \o Contents)[i]
        <4> SUFFICES ASSUME NEW i \in 1 .. n + length PROVE Contents'[i] = (batch \o Contents)[i]
          OBVIOUS
        <4>1. CASE i <= n
          BY <2>7, <3>1, <3>3, <4>1
        <4>2. CASE i > n
          <5>1. i - n \in 1 .. length
            BY <1>2, <4>2 DEF ArrayType
          <5> QED
            BY <1>2, <2>7, <3>1, <3>2, <3>3, <4>2, <5>1
        <4>3. i <= n \/ i > n
          BY <1>2 DEF ArrayType
        <4> QED
          BY <4>1, <4>2, <4>3
      <3> QED
        BY <3>1, <3>3, <3>4, SeqEqual
    <2> QED
      BY <2>6, <2>8 DEF AbstractDeque!AddFirst
  <1> QED
    BY <1>5, <1>6

(* A sequence whose items are those of a longer one is its prefix. *)
LEMMA PrefixIs ==
  ASSUME NEW u \in Seq(Bytes), NEW w \in Seq(Bytes), Len(u) <= Len(w),
         \A i \in 1 .. Len(u) : u[i] = w[i]
  PROVE  IsPrefix(u, w)
  <1>1. SubSeq(u, 1, Len(u)) = u
    BY SubSeqFull
  <1>2. /\ SubSeq(w, 1, Len(u)) \in Seq(Bytes) /\ Len(SubSeq(w, 1, Len(u))) = Len(u)
        /\ \A i \in 1 .. Len(u) : SubSeq(w, 1, Len(u))[i] = w[i]
    BY CutIs
  <1>3. SubSeq(w, 1, Len(u)) = u
    BY <1>2, SeqEqual
  <1> QED
    BY <1>1, <1>3 DEF IsPrefix

(* Only the end moves when the bytes that are counted before and after are the same. *)
LEMMA EndMoves ==
  ASSUME ArrayType, ArrayType', alive, alive',
         \A i \in 1 .. length : i <= length' => buffer'[i] = buffer[i]
  PROVE  AbstractDeque!MoveEnd
  <1>1. /\ Contents \in Seq(Bytes) /\ Len(Contents) = length
        /\ \A i \in 1 .. length : Contents[i] = buffer[i]
    BY ContentsAre
  <1>2. /\ Contents' \in Seq(Bytes) /\ Len(Contents') = length'
        /\ \A i \in 1 .. length' : Contents'[i] = buffer'[i]
    BY ContentsAreNext
  <1>3. CASE length <= length'
    <2>1. ASSUME NEW i \in 1 .. length PROVE Contents[i] = Contents'[i]
      <3>1. i \in 1 .. length' /\ i <= length'
        BY <1>3 DEF ArrayType
      <3> QED
        BY <1>1, <1>2, <3>1
    <2> QED
      BY <1>1, <1>2, <1>3, <2>1, PrefixIs DEF AbstractDeque!MoveEnd, AbstractDeque!IsPrefix, IsPrefix
  <1>4. CASE length' <= length
    <2>1. ASSUME NEW i \in 1 .. length' PROVE Contents[i] = Contents'[i]
      <3>1. i \in 1 .. length /\ i <= length'
        BY <1>4 DEF ArrayType
      <3> QED
        BY <1>1, <1>2, <3>1
    <2> QED
      BY <1>1, <1>2, <1>4, <2>1, PrefixIs DEF AbstractDeque!MoveEnd, AbstractDeque!IsPrefix, IsPrefix
  <1> QED
    BY <1>3, <1>4 DEF ArrayType

(* pf__array_pop() and pf__array_decr() take the last items. *)
LEMMA PopIs ==
  ASSUME ArrayType, NEW n \in Counts1, Pop(n)
  PROVE  ArrayType' /\ AbstractDeque!DropLast(n) /\ AbstractDeque!MoveEnd
  <1>1. n \in Nat /\ n <= length /\ length' = length - n /\ buffer' = buffer /\ alive /\ alive'
    BY NothingWraps DEF Pop, Enough, ArrayType
  <1>2. ArrayType'
    BY <1>1 DEF ArrayType
  <1>3. /\ Contents \in Seq(Bytes) /\ Len(Contents) = length
        /\ \A i \in 1 .. length : Contents[i] = buffer[i]
    BY <1>1, ContentsAre
  <1>4. /\ Contents' \in Seq(Bytes) /\ Len(Contents') = length - n
        /\ \A i \in 1 .. length - n : Contents'[i] = buffer[i]
    BY <1>1, <1>2, ContentsAreNext
  <1>5. length - n \in Nat /\ length - n <= Len(Contents)
    BY <1>1, <1>3 DEF ArrayType
  <1>6. /\ SubSeq(Contents, 1, length - n) \in Seq(Bytes) /\ Len(SubSeq(Contents, 1, length - n)) = length - n
        /\ \A i \in 1 .. length - n : SubSeq(Contents, 1, length - n)[i] = Contents[i]
    BY <1>3, <1>5, CutIs
  <1>7. \A i \in 1 .. length - n : i \in 1 .. length
    BY <1>1 DEF ArrayType
  <1>8. Contents' = SubSeq(Contents, 1, length - n)
    BY <1>3, <1>4, <1>6, <1>7, SeqEqual
  <1>9. AbstractDeque!MoveEnd
    BY <1>1, <1>2, EndMoves
  <1> QED
    BY <1>1, <1>2, <1>3, <1>8, <1>9 DEF AbstractDeque!DropLast

(* pf__array_shift() takes the first items and moves the others down. *)
LEMMA ShiftIs ==
  ASSUME ArrayType, NEW n \in Counts1, Shift(n)
  PROVE  ArrayType' /\ n \in 1 .. Len(Contents) /\ AbstractDeque!DropFirst(n)
  <1> DEFINE rest == Part(buffer, n, length - n)
  <1>1. /\ n \in Nat /\ n # 0 /\ n <= length /\ length - n \in Nat /\ n + (length - n) <= Len(buffer)
        /\ length' = length - n /\ buffer' = Write(buffer, 0, rest) /\ alive /\ alive'
    BY NothingWraps DEF Shift, Enough, ArrayType
  <1>2. /\ rest \in Seq(Bytes) /\ Len(rest) = length - n
        /\ \A i \in 1 .. length - n : rest[i] = buffer[n + i]
    BY <1>1, PartIs DEF ArrayType
  <1> HIDE DEF rest
  <1>3. /\ buffer' \in Seq(Bytes) /\ Len(buffer') = Len(buffer)
        /\ \A i \in 1 .. Len(buffer) : buffer'[i] = IF i <= length - n THEN rest[i] ELSE buffer[i]
    BY <1>1, <1>2, WriteFront DEF ArrayType
  <1>4. ArrayType'
    BY <1>1, <1>3 DEF ArrayType
  <1>5. /\ Contents \in Seq(Bytes) /\ Len(Contents) = length
        /\ \A i \in 1 .. length : Contents[i] = buffer[i]
    BY <1>1, ContentsAre
  <1>6. /\ Contents' \in Seq(Bytes) /\ Len(Contents') = length - n
        /\ \A i \in 1 .. length - n : Contents'[i] = buffer'[i]
    BY <1>1, <1>4, ContentsAreNext
  <1>7. SubSeq(Contents, n + 1, length) = Part(Contents, n, length - n)
    BY <1>1 DEF Part, ArrayType
  <1>8. /\ Part(Contents, n, length - n) \in Seq(Bytes) /\ Len(Part(Contents, n, length - n)) = length - n
        /\ \A i \in 1 .. length - n : Part(Contents, n, length - n)[i] = Contents[n + i]
    <2>1. n + (length - n) <= Len(Contents)
      BY <1>1, <1>5 DEF ArrayType
    <2> QED
      BY <1>1, <1>5, <2>1, PartIs
  <1>9. \A i \in 1 .. length - n : Contents'[i] = Part(Contents, n, length - n)[i]
    <2> SUFFICES ASSUME NEW i \in 1 .. length - n
                 PROVE  Contents'[i] = Part(Contents, n, length - n)[i]
      OBVIOUS
    <2>1. i \in 1 .. Len(buffer) /\ n + i \in 1 .. length /\ i <= length - n
      BY <1>1 DEF ArrayType
    <2> QED
      BY <1>2, <1>3, <1>5, <1>6, <1>8, <2>1
  <1>10. Contents' = SubSeq(Contents, n + 1, Len(Contents))
    BY <1>5, <1>6, <1>7, <1>8, <1>9, SeqEqual
  <1> QED
    BY <1>1, <1>4, <1>5, <1>10 DEF AbstractDeque!DropFirst, ArrayType

(* pf__array_reserve() changes nothing that a caller sees. *)
LEMMA ReserveIs ==
  ASSUME ArrayType, NEW n \in Counts1, Reserve(n)
  PROVE  ArrayType' /\ Refused
  <1>1. PICK a \in Reserved(n) : Become(a)
    BY DEF Reserve
  <1>2. IF a.ok THEN n # 0 /\ Roomy(a, n) ELSE a = Unchanged
    BY NothingWraps, ReservedIs
  <1>3. CASE ~a.ok
    BY <1>1, <1>2, <1>3, Refusal DEF Reserve
  <1>4. CASE a.ok
    <2>1. buffer' = a.buffer /\ length' = length /\ alive /\ alive' /\ Roomy(a, n)
      BY <1>1, <1>2, <1>4 DEF Become, Roomy, Reserve
    <2>2. ArrayType'
      BY <2>1, NothingWraps DEF Roomy, ArrayType
    <2>3. /\ Contents' \in Seq(Bytes) /\ Len(Contents') = length
          /\ \A i \in 1 .. length : Contents'[i] = a.buffer[i]
      BY <2>1, <2>2, ContentsAreNext
    <2>4. Contents' = Contents
      BY <2>1, <2>3, ContentsAre, SeqEqual DEF Roomy
    <2> QED
      BY <2>2, <2>4 DEF Refused
  <1> QED
    BY <1>3, <1>4

(* pf__array_resize() only cuts items off at the end. *)
LEMMA ResizeIs ==
  ASSUME ArrayType, NEW n \in Counts1, Resize(n)
  PROVE  ArrayType' /\ (AbstractDeque!MoveEnd \/ Refused)
  <1>1. PICK a \in Resized(n) : Become(a)
    BY DEF Resize
  <1>2. CASE a = Unchanged
    BY <1>1, <1>2, Refusal DEF Resize
  <1>3. CASE a # Unchanged
    <2>1. /\ a.buffer \in Seq(Bytes) /\ Len(a.buffer) <= MaxBlock
          /\ a.length \in Nat /\ a.length <= Len(a.buffer) /\ a.length <= length
          /\ \A i \in 1 .. a.length : a.buffer[i] = buffer[i]
      BY <1>3, NothingWraps, ResizedIs
    <2>2. buffer' = a.buffer /\ length' = a.length /\ alive /\ alive'
      BY <1>1 DEF Become, Resize
    <2>3. ArrayType'
      BY <2>1, <2>2 DEF ArrayType
    <2>4. \A i \in 1 .. length : i <= length' => buffer'[i] = buffer[i]
      BY <2>1, <2>2 DEF ArrayType
    <2> QED
      BY <2>2, <2>3, <2>4, EndMoves
  <1> QED
    BY <1>2, <1>3

(* pf__array_incr() only lengthens the array at its end. *)
LEMMA IncrIs ==
  ASSUME ArrayType, NEW n \in Counts1, Incr(n)
  PROVE  ArrayType' /\ (AbstractDeque!MoveEnd \/ Refused)
  <1>1. PICK a \in Reserved(n) : Become(IF a.ok THEN [a EXCEPT !.length = Word(@ + n)] ELSE a)
    BY DEF Incr
  <1>2. IF a.ok THEN n # 0 /\ Roomy(a, n) ELSE a = Unchanged
    BY NothingWraps, ReservedIs
  <1>3. CASE ~a.ok
    BY <1>1, <1>2, <1>3, Refusal DEF Incr
  <1>4. CASE a.ok
    <2>1. length + n \in Nat /\ length + n <= SizeMax
      BY NothingWraps, ArrayConstantsOK
    <2>2. buffer' = a.buffer /\ length' = length + n /\ alive /\ alive' /\ Roomy(a, n)
      BY <1>1, <1>2, <1>4, <2>1, WordFits DEF Become, Roomy, Incr
    <2>3. ArrayType'
      BY <2>1, <2>2 DEF Roomy, ArrayType
    <2>4. \A i \in 1 .. length : i <= length' => buffer'[i] = buffer[i]
      BY <2>2 DEF Roomy
    <2> QED
      BY <2>2, <2>3, <2>4, EndMoves
  <1> QED
    BY <1>3, <1>4

(* pf__array_setlen() moves the end. *)
LEMMA SetLenIs ==
  ASSUME ArrayType, NEW n \in Counts1, SetLen(n)
  PROVE  ArrayType' /\ AbstractDeque!MoveEnd
  <1>1. ArrayType' /\ alive /\ alive' /\ buffer' = buffer
    BY NothingWraps DEF SetLen, ArrayType, Capacity
  <1> QED
    BY <1>1, EndMoves

(* An array that is not there yet, or no longer, has no contents. *)
LEMMA LifeIs ==
  ASSUME ArrayType, ArrayType', ~alive \/ ~alive'
  PROVE  AbstractDeque!MoveEnd
  <1>1. Contents \in Seq(Bytes) /\ Contents' \in Seq(Bytes)
    <2>1. <<>> \in Seq(Bytes)
      BY EmptySeq
    <2> QED
      BY <2>1, ContentsAre, ContentsAreNext DEF Contents
  <1>2. ASSUME NEW u \in Seq(Bytes), NEW w \in Seq(Bytes), Len(u) = 0
        PROVE  IsPrefix(u, w)
    <2>1. Len(u) <= Len(w) /\ \A i \in 1 .. Len(u) : u[i] = w[i]
      BY <1>2
    <2> QED
      BY <2>1, PrefixIs
  <1>3. \A w \in Seq(Bytes) : IsPrefix(<<>>, w)
    BY <1>2, EmptySeq
  <1> QED
    BY <1>1, <1>3 DEF Contents, AbstractDeque!MoveEnd, AbstractDeque!IsPrefix, IsPrefix

(* Every step of the array is a step of the deque, or one that the caller does not see. *)
LEMMA ArrayStep ==
  ASSUME ArrayType, [ArrayNext]_avars
  PROVE  ArrayType' /\ [AbstractDeque!DequeNext]_Contents
  <1> USE DEF AbstractDeque!DequeNext, Refused
  <1>1. CASE UNCHANGED avars
    BY <1>1 DEF avars, ArrayType, Contents
  <1>2. ASSUME NEW n \in Counts1, InitArray(n)
        PROVE  ArrayType' /\ AbstractDeque!DequeNext
    <2>1. Fresh(n) \in [1 .. n -> Bytes] /\ n \in Nat /\ n <= MaxBlock
      BY ArrayConstantsOK DEF Fresh, Bytes, Counts1
    <2>2. ArrayType'
      BY <1>2, <2>1 DEF InitArray, ArrayType
    <2> QED
      BY <1>2, <2>2, LifeIs DEF InitArray
  <1>3. ASSUME NEW batch \in Batches, NEW n \in Counts1, Make(batch, n)
        PROVE  ArrayType' /\ AbstractDeque!DequeNext
    <2>1. batch \in Seq(Bytes) /\ Len(batch) \in Nat /\ Len(batch) <= MaxBlock
      BY BatchIs, ArrayConstantsOK DEF Counts1
    <2>2. ArrayType'
      BY <1>3, <2>1 DEF Make, ArrayType
    <2> QED
      BY <1>3, <2>2, LifeIs DEF Make
  <1>4. CASE Free
    <2>1. ArrayType' /\ ~alive'
      BY <1>4 DEF Free, ArrayType
    <2> QED
      BY <2>1, LifeIs
  <1>5. ASSUME NEW n \in Counts1, SetLen(n) \/ Resize(n) \/ Reserve(n) \/ Incr(n) \/ Pop(n)
        PROVE  ArrayType' /\ (AbstractDeque!DequeNext \/ UNCHANGED Contents)
    BY <1>5, SetLenIs, ResizeIs, ReserveIs, IncrIs, PopIs
  <1>6. ASSUME NEW n \in Counts1, Shift(n)
        PROVE  ArrayType' /\ AbstractDeque!DequeNext
    BY <1>6, ShiftIs
  <1>7. ASSUME NEW batch \in Batches, Push(batch) \/ Unpshift(batch)
        PROVE  ArrayType' /\ (AbstractDeque!DequeNext \/ UNCHANGED Contents)
    BY <1>7, PushIs, UnpshiftIs
  <1> QED
    BY <1>1, <1>2, <1>3, <1>4, <1>5, <1>6, <1>7 DEF ArrayNext

(* The length stays within the block. *)
LEMMA ArrayTypeHolds == ArraySpec => []ArrayType
  <1>1. ArrayInit => ArrayType
    <2> SUFFICES ASSUME ArrayInit PROVE ArrayType
      OBVIOUS
    <2>1. buffer \in Seq(Bytes) /\ Len(buffer) = 0
      BY EmptySeq DEF ArrayInit
    <2>2. length = 0 /\ alive \in BOOLEAN
      BY DEF ArrayInit
    <2> QED
      BY <2>1, <2>2, ArrayConstantsOK DEF ArrayType
  <1>2. ArrayType /\ [ArrayNext]_avars => ArrayType'
    BY ArrayStep
  <1> QED
    BY <1>1, <1>2, PTL DEF ArraySpec

(* Every reservation that is granted and whose size does not wrap has room behind all the old items,
   and the length never passes the block, whatever the allocator refuses. *)
THEOREM RoomIsReserved == ArraySpec => []RoomReserved
  <1>1. ArrayType => RoomReserved
    <2> SUFFICES ASSUME ArrayType, NEW n \in 1 .. SizeMax, NEW a \in Reserved(n),
                        a.ok, (length + n) * 2 <= SizeMax
                 PROVE  /\ Len(a.buffer) >= length + n
                        /\ SubSeq(a.buffer, 1, a.length) = SubSeq(buffer, 1, length)
      BY DEF RoomReserved, ArrayType, Capacity
    <2>1. Roomy(a, n)
      BY ReservedIs, ArrayConstantsOK
    <2>2. /\ a.buffer \in Seq(Bytes) /\ a.length = length /\ length \in Nat
          /\ length + n <= Len(a.buffer) /\ length <= Len(a.buffer) /\ n \in Nat
          /\ buffer \in Seq(Bytes) /\ length <= Len(buffer)
      BY <2>1, ArrayConstantsOK DEF Roomy, ArrayType
    <2>3. /\ SubSeq(a.buffer, 1, length) \in Seq(Bytes) /\ Len(SubSeq(a.buffer, 1, length)) = length
          /\ \A i \in 1 .. length : SubSeq(a.buffer, 1, length)[i] = a.buffer[i]
      BY <2>2, CutIs
    <2>4. /\ SubSeq(buffer, 1, length) \in Seq(Bytes) /\ Len(SubSeq(buffer, 1, length)) = length
          /\ \A i \in 1 .. length : SubSeq(buffer, 1, length)[i] = buffer[i]
      BY <2>2, CutIs
    <2>5. SubSeq(a.buffer, 1, length) = SubSeq(buffer, 1, length)
      BY <2>1, <2>3, <2>4, SeqEqual DEF Roomy
    <2> QED
      BY <2>2, <2>5
  <1> QED
    BY <1>1, ArrayTypeHolds, PTL

(* An array of any capacity and any items is a deque, operation by operation. *)
THEOREM ArrayIsADeque == ArraySpec => ArrayImplementsDeque
  <1>1. ArrayInit => AbstractDeque!DequeInit
    BY DEF ArrayInit, AbstractDeque!DequeInit, Contents
  <1>2. ArrayType /\ [ArrayNext]_avars => [AbstractDeque!DequeNext]_Contents
    BY ArrayStep
  <1>3. ArrayType => [OperationsMap]_avars
    BY PushIs, UnpshiftIs, PopIs, ShiftIs, ReserveIs DEF OperationsMap
  <1> QED
    BY ArrayTypeHolds, <1>1, <1>2, <1>3, PTL DEF ArraySpec, ArrayImplementsDeque, AbstractDeque!DequeSpec

-----------------------------------------------------------------------------
(* The named mutex of pf_daemon_start() on Windows implements the singleton lock, for every set of
   processes, with second threads in any of them and any number of handles and re-entries. *)

(* The types; Places are where a call can be. *)
Places == {"idle", "create", "refuse", "wait", "pid", "write", "stop", "unlink"}
CallStates == [place : Places, thread : Workers, wait : {"zero", "positive"}]
WindowsTyped ==
  /\ ownsLock \in [Processes -> BOOLEAN]
  /\ took \in [Processes -> Workers]
  /\ call \in [Processes -> CallStates]
  /\ handles \in [Processes -> Nat]

(* Who waits for the mutex or is refused has a handle and no claim; who claims the lock has a handle. *)
HandleOf(p) ==
  /\ ownsLock[p] \/ At(p, "wait") \/ At(p, "refuse") => handles[p] > 0
  /\ call[p].place \in {"create", "wait", "refuse"} => ~ownsLock[p]
HandleHeld == \A p \in Processes : HandleOf(p)

(* A process that owns the lock has the mutex, by the thread that took it. *)
OwnerHasMutex == \A p \in LockOwners : holder = <<p, took[p]>>

WindowsInv == WindowsTyped /\ HandleHeld /\ OwnerHasMutex

(* The mutex's "nobody" is no thread of a process, and a mutex has one owner. *)
LEMMA OwnersAreOne ==
  ASSUME WindowsInv
  PROVE  /\ LockOwners # {} => holder # NoOwner
         /\ \A p, q \in LockOwners : p = q
  <1> USE DEF WindowsInv, WindowsTyped, OwnerHasMutex, LockOwners, NoOwner, Workers
  <1>1. \A p \in LockOwners : holder = <<p, took[p]>> /\ took[p] \in {"main", "worker"}
    OBVIOUS
  <1> QED
    BY <1>1

LEMMA WindowsStarts == WindowsInit => WindowsInv
  BY DEF WindowsInit, WindowsInv, WindowsTyped, OwnerHasMutex, HandleHeld, HandleOf, At, LockOwners, Workers, Idle,
         Places, CallStates

(* Moving on inside a call. *)
LEMMA GotoPlace ==
  ASSUME WindowsTyped, NEW p \in Processes, NEW place \in Places, Goto(p, place)
  PROVE  /\ call' \in [Processes -> CallStates] /\ call'[p].place = place
         /\ \A q \in Processes \ {p} : call'[q] = call[q]
  BY DEF WindowsTyped, Goto, Idle, Workers, Places, CallStates

(* A handle less. *)
LEMMA HandlesLess ==
  ASSUME WindowsInv, NEW p \in Processes, handles[p] > 0, NEW owner, NEW times, CloseHandle(p, owner, times)
  PROVE  /\ handles' \in [Processes -> Nat]
         /\ \A q \in Processes \ {p} : handles'[q] = handles[q]
         /\ \A q \in Processes \ {p} : handles[q] > 0 => holder' = owner
  <1>1. handles' = [handles EXCEPT ![p] = handles[p] - 1] /\ handles \in [Processes -> Nat]
    BY DEF CloseHandle, Remain, WindowsInv, WindowsTyped
  <1>2. handles[p] - 1 \in Nat
    BY <1>1
  <1>3. handles' \in [Processes -> Nat] /\ \A q \in Processes \ {p} : handles'[q] = handles[q]
    BY <1>1, <1>2
  <1>4. ASSUME NEW q \in Processes \ {p}, handles[q] > 0 PROVE holder' = owner
    <2>1. handles'[q] # 0
      BY <1>1, <1>3, <1>4
    <2> QED
      BY <2>1 DEF CloseHandle, Remain
  <1> QED
    BY <1>3, <1>4

(* What a step of one process leaves of the others keeps them as they were. *)
LEMMA OthersHeld ==
  ASSUME WindowsInv, NEW p \in Processes, HandleOf(p)',
         \A q \in Processes \ {p} : /\ ownsLock'[q] = ownsLock[q] /\ call'[q] = call[q]
                                   /\ handles'[q] = handles[q]
  PROVE  HandleHeld'
  <1> SUFFICES ASSUME NEW q \in Processes PROVE HandleOf(q)'
    BY DEF HandleHeld
  <1>1. CASE q = p
    BY <1>1
  <1>2. CASE q # p
    BY <1>2 DEF WindowsInv, HandleHeld, HandleOf, At
  <1> QED
    BY <1>1, <1>2

(* A step of one process that takes nothing: the owners who remain still have the mutex. *)
LEMMA OthersOwn ==
  ASSUME WindowsInv, NEW p \in Processes,
         ownsLock'[p] => ownsLock[p] /\ took'[p] = took[p],
         \A q \in Processes \ {p} : ownsLock'[q] = ownsLock[q] /\ took'[q] = took[q],
         workers' = workers \/ (~ownsLock'[p] /\ workers' \ {p} = workers \ {p}),
         \A q \in LockOwners : ownsLock'[q] => holder' = holder
  PROVE  OwnerHasMutex' /\ LockOwners' \subseteq LockOwners
  <1>1. ASSUME NEW q \in LockOwners'
        PROVE  q \in LockOwners /\ took'[q] = took[q] /\ ownsLock'[q]
    <2>1. q \in Processes /\ ownsLock'[q] /\ (took'[q] = "worker" => q \in workers')
      BY DEF LockOwners
    <2>2. ownsLock[q] /\ took'[q] = took[q]
      BY <2>1
    <2>3. took[q] = "worker" => q \in workers
      BY <2>1, <2>2
    <2> QED
      BY <2>1, <2>2, <2>3 DEF LockOwners
  <1> QED
    BY <1>1 DEF WindowsInv, OwnerHasMutex

(* Each action keeps the invariant, and all but Acquire add no owner. *)
LEMMA StartStep ==
  ASSUME WindowsInv, NEW p \in Processes, NEW t \in Workers, NEW wait \in {"zero", "positive"},
         Start(p, t, wait)
  PROVE  WindowsInv' /\ LockOwners' \subseteq LockOwners
  <1> USE DEF WindowsInv, WindowsTyped
  <1>1. /\ ownsLock' = [ownsLock EXCEPT ![p] = FALSE] /\ took' = [took EXCEPT ![p] = "main"]
        /\ UNCHANGED <<handles, holder, workers>> /\ call[p].place = "idle"
    BY DEF Start, At
  <1>2. /\ call' \in [Processes -> CallStates] /\ call'[p].place \in {"idle", "create", "pid"}
        /\ \A q \in Processes \ {p} : call'[q] = call[q]
    BY <1>1 DEF Start, CallStates, Places
  <1>3. HandleHeld'
    <2>1. HandleOf(p)'
      BY <1>1, <1>2 DEF HandleOf, At
    <2> QED
      BY <1>1, <1>2, <2>1, OthersHeld
  <1>4. OwnerHasMutex' /\ LockOwners' \subseteq LockOwners
    BY <1>1, OthersOwn
  <1> QED
    BY <1>1, <1>2, <1>3, <1>4 DEF Workers

LEMMA CreateMutexStep ==
  ASSUME WindowsInv, NEW p \in Processes, CreateMutex(p)
  PROVE  WindowsInv' /\ LockOwners' \subseteq LockOwners
  <1> USE DEF WindowsInv, WindowsTyped
  <1>1. /\ handles' = [handles EXCEPT ![p] = @ + 1] /\ call[p].place = "create"
        /\ UNCHANGED <<holder, ownsLock, took, workers>>
    BY DEF CreateMutex, At
  <1>2. /\ call' \in [Processes -> CallStates] /\ call'[p].place \in {"refuse", "wait"}
        /\ \A q \in Processes \ {p} : call'[q] = call[q]
    BY DEF CreateMutex, CallStates, Places
  <1>3. handles' \in [Processes -> Nat] /\ handles'[p] > 0
    BY <1>1
  <1>4. HandleHeld'
    <2>1. HandleOf(p)'
      BY <1>1, <1>2, <1>3 DEF HandleHeld, HandleOf, At
    <2> QED
      BY <1>1, <1>2, <2>1, OthersHeld
  <1>5. OwnerHasMutex' /\ LockOwners' \subseteq LockOwners
    BY <1>1, OthersOwn
  <1> QED
    BY <1>1, <1>2, <1>3, <1>4, <1>5

(* The handle is closed after a refusal or a wait that failed. *)
LEMMA TurnedAwayStep ==
  ASSUME WindowsInv, NEW p \in Processes, Refuse(p) \/ GiveUp(p)
  PROVE  WindowsInv' /\ LockOwners' \subseteq LockOwners
  <1> USE DEF WindowsInv, WindowsTyped
  <1>1. /\ CloseHandle(p, holder, depth) /\ Goto(p, "idle") /\ UNCHANGED <<ownsLock, took, workers>>
        /\ call[p].place \in {"refuse", "wait"}
    BY DEF Refuse, GiveUp, At
  <1>2. /\ call' \in [Processes -> CallStates] /\ call'[p].place = "idle"
        /\ \A q \in Processes \ {p} : call'[q] = call[q]
    BY <1>1, GotoPlace DEF Places
  <1>3. handles[p] > 0 /\ ~ownsLock[p]
    BY <1>1 DEF HandleHeld, HandleOf, At
  <1>4. /\ handles' \in [Processes -> Nat]
        /\ \A q \in Processes \ {p} : handles'[q] = handles[q]
        /\ \A q \in Processes \ {p} : handles[q] > 0 => holder' = holder
    BY <1>1, <1>3, HandlesLess
  <1>5. HandleHeld'
    <2>1. HandleOf(p)'
      BY <1>1, <1>2, <1>3 DEF HandleOf, At
    <2> QED
      BY <1>1, <1>2, <1>4, <2>1, OthersHeld
  <1>6. \A q \in LockOwners : holder' = holder
    BY <1>3, <1>4 DEF LockOwners, HandleHeld, HandleOf
  <1>7. OwnerHasMutex' /\ LockOwners' \subseteq LockOwners
    BY <1>1, <1>6, OthersOwn
  <1> QED
    BY <1>1, <1>2, <1>4, <1>5, <1>7

(* Steps that leave the mutex alone. *)
LEMMA QuietStep ==
  ASSUME WindowsInv, NEW p \in Processes, NEW place \in Places, Goto(p, place),
         place \notin {"create", "wait", "refuse"}, UNCHANGED lockvars, UNCHANGED workers
  PROVE  WindowsInv' /\ LockOwners' \subseteq LockOwners
  <1> USE DEF WindowsInv, WindowsTyped, lockvars
  <1>1. /\ call' \in [Processes -> CallStates] /\ call'[p].place = place
        /\ \A q \in Processes \ {p} : call'[q] = call[q]
    BY GotoPlace
  <1>2. HandleHeld'
    <2>1. HandleOf(p)'
      BY <1>1 DEF HandleHeld, HandleOf, At
    <2> QED
      BY <1>1, <2>1, OthersHeld
  <1>3. OwnerHasMutex' /\ LockOwners' \subseteq LockOwners
    BY OthersOwn
  <1> QED
    BY <1>1, <1>2, <1>3

LEMMA StopStep ==
  ASSUME WindowsInv, NEW p \in Processes, NEW t \in Workers, Stop(p, t)
  PROVE  WindowsInv' /\ LockOwners' \subseteq LockOwners
  <1> USE DEF WindowsInv, WindowsTyped, lockvars
  <1>1. /\ call' \in [Processes -> CallStates] /\ call'[p].place = "stop"
        /\ \A q \in Processes \ {p} : call'[q] = call[q]
        /\ UNCHANGED <<handles, holder, ownsLock, took, workers>>
    BY DEF Stop, CallStates, Places
  <1>2. HandleHeld'
    <2>1. HandleOf(p)'
      BY <1>1 DEF HandleHeld, HandleOf, At
    <2> QED
      BY <1>1, <2>1, OthersHeld
  <1>3. OwnerHasMutex' /\ LockOwners' \subseteq LockOwners
    BY <1>1, OthersOwn
  <1> QED
    BY <1>1, <1>2, <1>3

LEMMA AcquireStep ==
  ASSUME WindowsInv, NEW p \in Processes, Acquire(p)
  PROVE  WindowsInv' /\ (LockOwners = {} \/ LockOwners' \subseteq LockOwners)
  <1> USE DEF WindowsInv, WindowsTyped
  <1>1. /\ call[p].place = "wait" /\ holder \in {NoOwner, Me(p)} /\ holder' = Me(p) /\ Goto(p, "pid")
        /\ ownsLock' = [ownsLock EXCEPT ![p] = TRUE] /\ took' = [took EXCEPT ![p] = call[p].thread]
        /\ UNCHANGED <<handles, workers>>
    BY DEF Acquire, At, Obtainable
  <1>2. /\ call' \in [Processes -> CallStates] /\ call'[p].place = "pid"
        /\ \A q \in Processes \ {p} : call'[q] = call[q]
    BY <1>1, GotoPlace DEF Places
  <1>3. call[p].thread \in Workers
    BY DEF CallStates
  <1>4. HandleHeld'
    <2>1. HandleOf(p)'
      BY <1>1, <1>2 DEF HandleHeld, HandleOf, At
    <2> QED
      BY <1>1, <1>2, <2>1, OthersHeld
  <1>5. LockOwners \subseteq {p}
    BY <1>1, OwnersAreOne DEF OwnerHasMutex, Me
  <1>6. LockOwners' \subseteq {p}
    BY <1>1, <1>5 DEF LockOwners
  <1>7. holder' = <<p, took'[p]>>
    BY <1>1 DEF Me
  <1> QED
    BY <1>1, <1>2, <1>3, <1>4, <1>5, <1>6, <1>7 DEF OwnerHasMutex

LEMMA StopLockStep ==
  ASSUME WindowsInv, NEW p \in Processes, StopLock(p)
  PROVE  WindowsInv' /\ LockOwners' \subseteq LockOwners
  <1> USE DEF WindowsInv, WindowsTyped
  <1>1. Goto(p, "unlink") /\ workers' = workers
    BY DEF StopLock
  <1>2. CASE ~ownsLock[p]
    BY <1>1, <1>2, QuietStep DEF StopLock, lockvars, Places
  <1>3. CASE ownsLock[p]
    <2>1. handles[p] > 0
      BY <1>3 DEF HandleHeld, HandleOf
    <2>2. PICK owner, times : CloseHandle(p, owner, times) /\ (holder = Me(p) \/ owner = holder)
      BY <1>3 DEF StopLock
    <2>3. ownsLock' = [ownsLock EXCEPT ![p] = FALSE] /\ took' = [took EXCEPT ![p] = "main"]
      BY <1>3 DEF StopLock
    <2>4. /\ handles' \in [Processes -> Nat]
          /\ \A q \in Processes \ {p} : handles'[q] = handles[q]
          /\ \A q \in Processes \ {p} : handles[q] > 0 => holder' = owner
      BY <2>1, <2>2, HandlesLess
    <2>5. /\ call' \in [Processes -> CallStates] /\ call'[p].place = "unlink"
          /\ \A q \in Processes \ {p} : call'[q] = call[q]
      BY <1>1, GotoPlace DEF Places
    <2>6. HandleHeld'
      <3>1. HandleOf(p)'
        BY <2>3, <2>5 DEF HandleOf, At
      <3> QED
        BY <2>3, <2>4, <2>5, <3>1, OthersHeld
    <2>7. \A q \in LockOwners : ownsLock'[q] => holder' = holder
      <3> SUFFICES ASSUME NEW q \in LockOwners, ownsLock'[q] PROVE holder' = holder
        OBVIOUS
      <3>1. q \in Processes \ {p} /\ handles[q] > 0 /\ holder = <<q, took[q]>>
        BY <2>3 DEF LockOwners, HandleHeld, HandleOf, OwnerHasMutex
      <3>2. holder' = owner
        BY <2>4, <3>1
      <3>3. holder # Me(p)
        BY <3>1 DEF Me
      <3> QED
        BY <2>2, <3>2, <3>3
    <2>8. OwnerHasMutex' /\ LockOwners' \subseteq LockOwners
      BY <1>1, <2>3, <2>7, OthersOwn
    <2> QED
      BY <1>1, <2>3, <2>4, <2>5, <2>6, <2>8 DEF Workers
  <1> QED
    BY <1>2, <1>3

LEMMA WorkerEndsStep ==
  ASSUME WindowsInv, NEW p \in Processes, WorkerEnds(p)
  PROVE  WindowsInv' /\ LockOwners' \subseteq LockOwners
  <1> USE DEF WindowsInv, WindowsTyped
  <1>1. UNCHANGED <<handles, ownsLock, took, call>> /\ workers' = workers \ {p}
    BY DEF WorkerEnds
  <1>2. HandleHeld'
    BY <1>1 DEF HandleHeld, HandleOf, At
  <1>3. LockOwners' \subseteq LockOwners
    BY <1>1 DEF LockOwners
  <1>4. \A q \in LockOwners' : holder' = <<q, took'[q]>>
    <2> SUFFICES ASSUME NEW q \in LockOwners' PROVE holder' = <<q, took'[q]>>
      OBVIOUS
    <2>1. holder = <<q, took[q]>>
      BY <1>3 DEF OwnerHasMutex
    <2>2. <<q, took[q]>> # <<p, "worker">>
      BY <1>1 DEF LockOwners
    <2> QED
      BY <1>1, <2>1, <2>2 DEF WorkerEnds
  <1> QED
    BY <1>1, <1>2, <1>3, <1>4 DEF OwnerHasMutex

LEMMA DieStep ==
  ASSUME WindowsInv, NEW p \in Processes, Die(p)
  PROVE  WindowsInv' /\ LockOwners' \subseteq LockOwners
  <1> USE DEF WindowsInv, WindowsTyped
  <1>1. /\ ownsLock' = [ownsLock EXCEPT ![p] = FALSE] /\ took' = [took EXCEPT ![p] = "main"]
        /\ handles' = [handles EXCEPT ![p] = 0] /\ Goto(p, "idle")
        /\ workers' \ {p} = workers \ {p}
    BY DEF Die, Remain
  <1>2. /\ call' \in [Processes -> CallStates] /\ call'[p].place = "idle"
        /\ \A q \in Processes \ {p} : call'[q] = call[q]
    BY <1>1, GotoPlace DEF Places
  <1>3. HandleHeld'
    <2>1. HandleOf(p)'
      BY <1>1, <1>2 DEF HandleOf, At
    <2> QED
      BY <1>1, <1>2, <2>1, OthersHeld
  <1>4. \A q \in LockOwners : ownsLock'[q] => holder' = holder
    <2> SUFFICES ASSUME NEW q \in LockOwners, ownsLock'[q] PROVE holder' = holder
      OBVIOUS
    <2>1. q \in Processes \ {p} /\ handles[q] > 0 /\ holder = <<q, took[q]>>
      BY <1>1 DEF LockOwners, HandleHeld, HandleOf, OwnerHasMutex
    <2>2. holder \notin {p} \X Workers
      BY <2>1
    <2>3. [handles EXCEPT ![p] = 0][q] # 0
      BY <2>1
    <2> QED
      BY <2>1, <2>2, <2>3 DEF Die, Remain
  <1>5. OwnerHasMutex' /\ LockOwners' \subseteq LockOwners
    BY <1>1, <1>4, OthersOwn
  <1> QED
    BY <1>1, <1>2, <1>3, <1>5 DEF Workers

(* A step keeps the invariant, and an owner that was none before finds the lock without one. *)
LEMMA WindowsStep ==
  ASSUME WindowsInv, [WindowsNext]_wvars
  PROVE  WindowsInv' /\ (LockOwners' \subseteq LockOwners \/ LockOwners = {})
  <1>1. CASE UNCHANGED wvars
    BY <1>1 DEF wvars, lockvars, filevars, WindowsInv, WindowsTyped, HandleHeld, HandleOf, At, OwnerHasMutex,
                LockOwners
  <1>2. CASE WindowsNext
    <2>1. PICK p \in Processes :
            \/ \E t \in Workers, wait \in {"zero", "positive"} : Start(p, t, wait)
            \/ CreateMutex(p) \/ CreateFails(p) \/ Refuse(p) \/ Acquire(p) \/ GiveUp(p)
            \/ NoPidFile(p) \/ OpenPid(p) \/ WritePid(p)
            \/ \E t \in Workers : Stop(p, t)
            \/ StopLock(p) \/ StopUnlink(p)
            \/ WorkerEnds(p) \/ Die(p)
      BY <1>2 DEF WindowsNext
    <2>2. CASE CreateFails(p) \/ NoPidFile(p) \/ OpenPid(p) \/ WritePid(p) \/ StopUnlink(p)
      <3>1. \E place \in {"idle", "write", "stop"} : Goto(p, place)
        BY <2>2 DEF CreateFails, NoPidFile, OpenPid, WritePid, StopUnlink
      <3>2. UNCHANGED lockvars /\ UNCHANGED workers
        BY <2>2 DEF CreateFails, NoPidFile, OpenPid, WritePid, StopUnlink, lockvars
      <3> QED
        BY <3>1, <3>2, QuietStep DEF Places
    <2> QED
      BY <2>1, <2>2, StartStep, CreateMutexStep, TurnedAwayStep, AcquireStep, StopStep, StopLockStep, WorkerEndsStep,
         DieStep
  <1> QED
    BY <1>1, <1>2

(* Any number of processes with any threads implement the abstract lock with at most one owner: what
   pf_daemon_start() takes with the named mutex nobody else has until it is given up. *)
THEOREM WindowsSingleton == WindowsSpec => WindowsImplementsSingleton
  <1>1. WindowsInit => OneOwner!Init
    BY DEF WindowsInit, OneOwner!Init, LockOwners
  <1>2. WindowsInv /\ [WindowsNext]_wvars => WindowsInv' /\ [OneOwner!Next]_LockOwners
    <2> SUFFICES ASSUME WindowsInv, [WindowsNext]_wvars, LockOwners' # LockOwners
                 PROVE  OneOwner!Next
      BY WindowsStep
    <2>1. WindowsInv'
      BY WindowsStep
    <2>2. /\ \A p, q \in LockOwners : p = q
          /\ \A p, q \in LockOwners' : p = q
      BY <2>1 DEF WindowsInv, OwnerHasMutex
    <2> QED
      BY WindowsStep, <2>2 DEF OneOwner!Next, OneOwner!Acquire, OneOwner!Release, LockOwners
  <1> QED
    BY WindowsStarts, <1>1, <1>2, PTL DEF WindowsSpec, WindowsImplementsSingleton, OneOwner!Spec
=============================================================================
