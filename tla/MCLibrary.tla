----------------------------- MODULE MCLibrary -----------------------------
(* The small machines of the library side by side, one per header: the initial state picks one of them,
   the others rest.  The state space is the sum of theirs, and each keeps its own specification. *)
EXTENDS Timeouts, PureFunctions, CpuInfo, Array, Exception, Tss, DaemonWindows, TestRunner, Atomic,
        AtomicOps, CommandLine, Pipe

CONSTANT Chosen  \* parts to check

VARIABLE part

-----------------------------------------------------------------------------
(* Both sides of each boundary of the conversions of a deadline; 7 s wrap to no wait of a thread and a short
   one of a semaphore, 13 s to a short one of a thread. *)
Nanoseconds == {0, 99, 999999, 1000000, 500000000, 999000001, 999999999}
MCTimes == [sec : {0, 1, 3, 7, 13}, nsec : Nanoseconds]
MCClocks == [sec : {0, 1, 3}, nsec : Nanoseconds]

(* Processors without leaf 7 and with it, with and without saved registers; and every way to count cores. *)
Bit(set) == [ecx1 |-> set, edx1 |-> set, ebx7 |-> set, ecx7 |-> set, edx7 |-> set]
Processor(basics, exts, vendors, firsts, saved, legacies, topologies) ==
  [basic : basics, ext : exts, amd : vendors, nc : {3}, l1 : firsts, l7 : {Bit({5, 16})},
   garbage : {Bit({3, 5, 16, 28})}, xcr0 : saved, legacy : legacies, topology : topologies]
NoLevels == [leaf \in {11, 31} |-> <<>>]
MCMachines ==
  Processor({0, 1, 7}, {0}, {FALSE}, {Bit({28}), Bit({27, 28})}, {{1}, {1, 2, 5, 6, 7}}, {2}, {NoLevels})
  \cup Processor({31}, {0, 8}, BOOLEAN, {Bit({28})}, {{1}}, {0, 2}, {NoLevels, [NoLevels EXCEPT ![11] = <<2, 8>>]})

(* Two tests, one of them a TODO, a suite with the same name of a test, a suite that never runs. *)
MCSuites ==
  <<[name |-> "a", count |-> 2,
     tests |-> <<[name |-> "x", todo |-> FALSE], [name |-> "y", todo |-> TRUE]>>],
    [name |-> "b", count |-> 1, tests |-> <<[name |-> "x", todo |-> FALSE]>>],
    [name |-> "c", count |-> 0, tests |-> <<[name |-> "z", todo |-> FALSE]>>]>>
Plain == {"all", "number", "--", "help", "list", "tap", "fork", "no-fork", "seed", "output", "other"}
MCArguments == [kind : Plain, suite : {"?"}, test : {""}]
               \cup [kind : {"spec"}, suite : {"a", "b"}, test : {"", "x"}]
MCLines == UNION {[1 .. n -> MCArguments] : n \in 0 .. 2}

(* Words of no width, that fit exactly and that never fit; a newline is -1. *)
MCTexts == UNION {[1 .. n -> {-1, 0, 1, 9, 30}] : n \in 0 .. 3}
MCCalls == [first : {0, 4, 30}, next : {0, 12}, width : {0, 5, 24}]

(* Lines on both sides of the end of each buffer. *)
MCSizes == [confirm |-> 32, select |-> 64, ask |-> 40]
MCAnswers == [length : {3, 30, 31, 80}, says : {"yes", "label"}] \cup [length : {0}, says : {"empty"}]

(* Values that are missing, empty, malformed and abbreviated; clusters with a value of their own. *)
Long(name, given) == [kind |-> "long", name |-> name, value |-> given, negated |-> FALSE]
Missing == <<"none">>
MCWords ==
  {[kind |-> "param"], [kind |-> "dashes"],
   [Long("verbose", Missing) EXCEPT !.negated = TRUE], Long("verbose", <<"0">>), Long("help", <<"0">>),
   Long("level", <<"5">>), Long("level", <<>>), Long("level", Missing),
   Long("color", <<"r", "e">>), Long("color", <<"x">>),
   Long("mask", <<"r", "e", "|", "x">>), Long("mask", <<"x">>), Long("mask", <<"x", "|", "r">>)}
  \cup [kind : {"cluster"},
        chars : {<<"v", "l", "5">>, <<"l", "=", "5">>, <<"l", "v">>, <<"h", "x">>, <<"x", "v">>}]

-----------------------------------------------------------------------------

parsing == <<argv, silent, index, at, paused, paramv, assigned, failed, status, stage, delivered>>

(* A state each part can start in, for when another part is the one that runs. *)
LibraryInit ==
  /\ part \in Chosen
  /\ IF part = "timeouts" THEN Init
     ELSE deadline = [sec |-> 0, nsec |-> 0] /\ now = [sec |-> 0, nsec |-> 0]
  /\ IF part = "bits" THEN BitsInit ELSE word = {} /\ turns = 0 /\ tier = "classic"
  /\ IF part = "checked" THEN CheckedInit
     ELSE type = Signed /\ left = 0 /\ right = 0 /\ method = "builtin"
  /\ IF part = "endian" THEN EndianInit
     ELSE image = <<1, 1>> /\ bigEndian = FALSE /\ hasEndianH = TRUE
  /\ IF part = "ctype" THEN CtypeInit ELSE char = 0
  /\ IF part = "typeid" THEN TypeIdInit
     ELSE typeid = 0 /\ memory = 0 /\ abi = "LP64" /\ weirdInt = FALSE
  /\ IF part = "cpu" THEN CpuInit
     ELSE /\ machine = 0 /\ ready = FALSE /\ cache = EmptyCache /\ upc = [u \in Users |-> "out"]
          /\ reading = [u \in Users |-> EmptyCache] /\ uncopied = [u \in Users |-> {}]
  /\ ArrayInit
  /\ IF part = "exception" THEN ExceptionInit
     ELSE /\ messages = "none" /\ stack = <<>> /\ caught = <<>> /\ current = NoException
          /\ kept = NoException /\ control = "try" /\ blocks = 0 /\ thrown = 0
  /\ TssInit
  /\ WindowsInit
  /\ IF part = "runner" THEN RunnerInit
     ELSE /\ args = <<>> /\ canFork = TRUE /\ cfg = 0 /\ phase = "rest" /\ rc = 2 /\ suite = 1
          /\ test = 1 /\ iteration = 0 /\ plan = 0 /\ counted = 0 /\ good = 0 /\ exited = 0
  /\ AtomicFallbackInit /\ (part # "atomic" => win32 = FALSE)
  /\ IF part = "wrap" THEN WrapInit
     ELSE text = <<>> /\ width = 10 /\ indent = 0 /\ nextIndent = 0 /\ col = 0 /\ lines = <<>>
  /\ PromptInit
  /\ IF part = "argparse" THEN ArgInit
     ELSE /\ argv = <<>> /\ silent = FALSE /\ index = 1 /\ at = 1 /\ paused = FALSE /\ paramv = <<>>
          /\ assigned = 0 /\ failed = FALSE /\ status = 0 /\ stage = "rest" /\ delivered = <<>>
  /\ PipeInit

LibraryNext ==
  /\ UNCHANGED part
  /\ IF part = "timeouts" THEN Next ELSE UNCHANGED <<deadline, now>>
  /\ IF part = "bits" THEN BitsNext ELSE UNCHANGED bvars
  /\ IF part = "checked" THEN Accumulate ELSE UNCHANGED cvars
  /\ IF part = "endian" THEN Convert ELSE UNCHANGED evars
  /\ IF part = "ctype" THEN Fold ELSE UNCHANGED char
  /\ IF part = "typeid" THEN TypeIdNext ELSE UNCHANGED idvars
  /\ IF part = "cpu" THEN CpuNext ELSE UNCHANGED cpuvars
  /\ IF part = "array" THEN ArrayNext ELSE UNCHANGED avars
  /\ IF part = "exception" THEN ExceptionNext ELSE UNCHANGED xvars
  /\ IF part = "tss" THEN TssNext ELSE UNCHANGED tssvars
  /\ IF part = "windows" THEN WindowsNext ELSE UNCHANGED wvars
  /\ IF part = "runner" THEN RunnerNext ELSE UNCHANGED rvars
  /\ IF part = "atomic" THEN AtomicFallbackNext ELSE UNCHANGED avariables
  /\ IF part = "wrap" THEN WrapNext ELSE UNCHANGED wrapvars
  /\ IF part = "prompt" THEN PromptNext ELSE UNCHANGED pvars
  /\ IF part = "argparse" THEN ArgNext ELSE UNCHANGED parsing
  /\ IF part = "pipe" THEN PipeNext ELSE UNCHANGED fifovars

everything ==
  <<part, deadline, now, bvars, cvars, evars, char, idvars, cpuvars, avars, xvars, tssvars, wvars,
    rvars, avariables, wrapvars, pvars, parsing, fifovars>>
LibrarySpec == LibraryInit /\ [][LibraryNext]_everything /\ TssFairness
=============================================================================
