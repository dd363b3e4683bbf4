CONSTANTS
  Chosen = {"timeouts", "bits", "checked", "endian", "ctype", "typeid", "cpu", "array", "exception",
            "tss", "windows", "runner", "atomic", "wrap", "prompt", "argparse", "pipe"}
  Times <- MCTimes
  Clocks <- MCClocks
  Infinite = 2500
  LongLimit = 6000
  TickLimit = 50000000
  Width = 8
  IntWidth = 16
  Counts = {0, 1, 3, 7, 8, 9}
  SMax = 7
  UMax = 15
  LLMax = 15
  ULLMax = 31
  Octets = {1, 2, 3}
  WordSizes = {1, 2, 3, 4}
  CharBits = 2
  Suites <- MCSuites
  CommandLines <- MCLines
  Cells <- WideWords
  Modulus <- TypeModulus
  Result <- WideResult
  Callers = {"t1", "t2"}
  Users = {"u1", "u2"}
  Machines <- MCMachines
  Items = {"x", "y"}
  Junk = "junk"
  SizeMax = 19
  MaxBlock = 5
  MaxCount = 2
  Modules = {0, 1}
  Codes = {0, 7}
  StackCapacity = 3
  MaxBlocks = 3
  MaxThrows = 2
  Threads = {"t1", "t2"}
  Keys = {"k1", "k2"}
  Nodes = {1, 2}
  TssMax = 2
  Iterations = 2
  Processes = {"p", "q"}
  Threaded = {"p"}
  MaxHandles = 2
  MaxDepth = 2
  Builds = {TRUE, FALSE}
  Returns = {0, 1, 256}
  WordBits = 2
  WideBits = 3
  Interlocked = {FALSE, TRUE}
  Mixed = FALSE
  Arguments = {1, 7}
  Texts <- MCTexts
  Calls <- MCCalls
  Sizes <- MCSizes
  Answers <- MCAnswers
  Names = {5, 31}
  Indents = {0, 9}
  Terminals = {0, 24, 60}
  SelectSize = 2
  MaxQuestions = 3
  ArgWords <- MCWords
  MaxWords = 2
  Ordered = TRUE
  Peers = {"p", "q"}
  Room = 2
SPECIFICATION LibrarySpec
INVARIANTS NeverForever ThrdWithinAMillisecond SemNeverLate PureFunctionsRight FeaturesTrue RoomReserved NeverCaughtTwice VerdictTrue CommandLineRight TimedReadTimely
PROPERTIES RetryNeverLonger ArrayImplementsDeque NothingLeftBehind CleanupEnds WindowsImplementsSingleton ImplementsAtomic
CHECK_DEADLOCK FALSE
