CONSTANTS
  Callers = {"t1", "t2"}
  WordBits = 2
  WideBits = 2
  Cells <- WideWords
  Modulus <- TypeModulus
  Result <- WideResult
  Interlocked = {TRUE}
  Mixed = TRUE
  Arguments = {1, 3}
SPECIFICATION AtomicFallbackSpec
PROPERTY ImplementsAtomic
CHECK_DEADLOCK FALSE
