----------------------------- MODULE TestRunner -----------------------------
(* pf_test.h: pf_test_main() reads its command line, runs the selected tests, each in a child process
   or in its own, and answers with its exit code.  fork(), waitpid() and what a test does are external. *)
EXTENDS Integers, Sequences, FiniteSets

CONSTANTS Suites,         \* a sequence of [name, count, tests], tests of [name, todo]
          CommandLines,   \* sequences of arguments [kind, suite, test]; test "" names the suite
          Builds,         \* whether the build can fork: BOOLEAN or one of its values
          Returns         \* what a test function may return, 0 for success

ASSUME SuitesOK ==
  Suites \in Seq([name : STRING, count : Int, tests : Seq([name : STRING, todo : BOOLEAN])])

VARIABLES args,           \* arguments not read yet
          canFork,        \* FALSE for PF_TEST_NO_FORK
          cfg,            \* pf__config, and the options of pf_test_main()
          phase, rc,
          suite, test, iteration,   \* s, t and i of pf__run() and pf__run_test()
          plan, counted,  \* total and {n, pass, fail, todo} of pf__run()
          good,           \* history: per test, the iterations that returned 0 or ended their child with 0
          exited          \* history: the tests of which a child ended itself with status 0

rvars == <<args, canFork, cfg, phase, rc, suite, test, iteration, plan, counted, good, exited>>

Tests == UNION {{<<a, b>> : b \in DOMAIN Suites[a].tests} : a \in DOMAIN Suites}

RunnerInit ==
  /\ args \in CommandLines /\ canFork \in Builds
  /\ cfg = [specs |-> {}, fork |-> "default", list |-> FALSE, tap |-> FALSE, output |-> FALSE]
  /\ phase = "parse" /\ rc = 2
  /\ suite = 1 /\ test = 1 /\ iteration = 0
  /\ plan = 0 /\ counted = [n |-> 0, pass |-> 0, fail |-> 0, todo |-> 0]
  /\ good = [x \in Tests |-> 0] /\ exited = {}

End(place, code) == phase' = place /\ rc' = code

-----------------------------------------------------------------------------
(* The loop over the arguments. *)
TestSpec(a) == [suite |-> IF a.kind \in {"spec", "all"} THEN a.suite ELSE "?", test |-> a.test,
            all |-> a.kind = "all"]

Option(a) ==
  [cfg EXCEPT !.fork = IF a.kind \in {"fork", "no-fork"} THEN a.kind ELSE @,
              !.list = @ \/ a.kind = "list",
              !.tap = @ \/ a.kind = "tap"]

(* pf__valopt(): an option with its value in the next argument, whatever that is. *)
TakesValue(a) == a.kind \in {"seed", "output"}
HasValue(a) == Len(args) > 1 /\ (a.kind = "output" \/ args[2].kind = "number")

ReadArgument ==
  /\ phase = "parse" /\ args # <<>>
  /\ LET a == Head(args) IN
     \/ /\ a.kind \in {"spec", "all", "number"}
        /\ cfg' = [cfg EXCEPT !.specs = @ \cup {TestSpec(a)}]
        /\ args' = Tail(args) /\ UNCHANGED <<phase, rc>>
     \/ /\ a.kind = "--"
        /\ cfg' = [cfg EXCEPT !.specs = @ \cup {TestSpec(args[k]) : k \in 2 .. Len(args)}]
        /\ args' = <<>> /\ UNCHANGED <<phase, rc>>
     \/ /\ a.kind = "help"
        /\ End("usage", 0) /\ UNCHANGED <<args, cfg>>
     \/ /\ a.kind \in {"list", "tap", "fork", "no-fork"}
        /\ cfg' = Option(a)
        /\ args' = Tail(args) /\ UNCHANGED <<phase, rc>>
     \/ /\ TakesValue(a) /\ HasValue(a)
        /\ cfg' = [cfg EXCEPT !.output = @ \/ a.kind = "output"]
        /\ args' = Tail(Tail(args)) /\ UNCHANGED <<phase, rc>>
     \/ /\ \/ TakesValue(a) /\ ~HasValue(a)
           \/ a.kind = "other"
        /\ End("usage", 2) /\ UNCHANGED <<args, cfg>>
  /\ UNCHANGED <<canFork, suite, test, iteration, plan, counted, good, exited>>

(* pf__match() and pf__selected(). *)
Matches(x, a, b) == x.suite = a /\ x.test \in {"", b}
Selected(a, b) ==
  cfg.specs = {} \/ \E x \in cfg.specs : x.all \/ Matches(x, Suites[a].name, Suites[a].tests[b].name)
Known(x) ==
  \/ x.all
  \/ \E a \in DOMAIN Suites :
       \/ x.suite = Suites[a].name /\ x.test = ""
       \/ \E b \in DOMAIN Suites[a].tests : Matches(x, Suites[a].name, Suites[a].tests[b].name)

(* After the arguments: names, a build that cannot fork, the output file, the list, the plan of TAP. *)
Prepare ==
  /\ phase = "parse" /\ args = <<>>
  /\ \/ /\ \/ \E x \in cfg.specs : ~Known(x)
           \/ cfg.fork = "fork" /\ ~canFork
           \/ cfg.output                     \* fopen() fails
        /\ End("usage", 2) /\ UNCHANGED plan
     \/ /\ \A x \in cfg.specs : Known(x)
        /\ cfg.fork = "fork" => canFork
        /\ IF cfg.list THEN End("listed", 0) /\ UNCHANGED plan
           ELSE /\ phase' = "run" /\ UNCHANGED rc
                /\ plan' = IF cfg.tap THEN Cardinality({x \in Tests : Selected(x[1], x[2])}) ELSE plan
  /\ UNCHANGED <<args, canFork, cfg, suite, test, iteration, counted, good, exited>>

-----------------------------------------------------------------------------
(* pf__run(): the loops over suites and tests. *)
Forking == canFork /\ cfg.fork # "no-fork"
InSuite == suite \in DOMAIN Suites /\ test \in DOMAIN Suites[suite].tests
Todo == Suites[suite].tests[test].todo \/ Suites[suite].count <= 0
Count(what) == counted' = [counted EXCEPT !.n = @ + 1, ![what] = @ + 1]
NextTest == test' = test + 1 /\ iteration' = 0 /\ UNCHANGED suite
StayInRun == UNCHANGED <<args, canFork, cfg, plan>>

NextSuite ==
  /\ phase = "run" /\ suite \in DOMAIN Suites /\ test \notin DOMAIN Suites[suite].tests
  /\ suite' = suite + 1 /\ test' = 1 /\ iteration' = 0
  /\ StayInRun /\ UNCHANGED <<phase, rc, counted, good, exited>>

Skip ==
  /\ phase = "run" /\ InSuite /\ (~Selected(suite, test) \/ Todo)
  /\ IF Selected(suite, test) THEN Count("todo") ELSE UNCHANGED counted
  /\ NextTest
  /\ StayInRun /\ UNCHANGED <<phase, rc, good, exited>>

(* What waitpid() tells of a child that leaves with this code: eight bits of it. *)
Status(code) == code % 256
ChildCodeRaw(r) == r
ChildCode(r) == IF r # 0 THEN 1 ELSE 0

(* pf__exec(): 0 for success. *)
Verdict(r) == IF Forking THEN Status(ChildCode(r)) ELSE r

(* pf__run_test(): the first bad iteration ends the test. *)
Conclude(ok) ==
  /\ IF ok /\ iteration + 1 < Suites[suite].count
     THEN iteration' = iteration + 1 /\ UNCHANGED <<suite, test, counted>>
     ELSE NextTest /\ Count(IF ok THEN "pass" ELSE "fail")
  /\ UNCHANGED <<phase, rc>>

Runnable == phase = "run" /\ InSuite /\ Selected(suite, test) /\ ~Todo

Iterate ==
  /\ Runnable
  /\ \E r \in Returns :
       /\ good' = IF r = 0 THEN [good EXCEPT ![<<suite, test>>] = @ + 1] ELSE good
       /\ Conclude(Verdict(r) = 0)
  /\ StayInRun /\ UNCHANGED exited

(* The test does not return but ends its process with exit(): to the runner a child's status 0 is a
   success (line 278); without fork() the runner ends with the test's code. *)
ExitInTest ==
  /\ Runnable
  /\ \E code \in Returns :
       LET ok == Status(code) = 0 IN
       \/ /\ Forking /\ Conclude(ok)
          /\ good' = IF ok THEN [good EXCEPT ![<<suite, test>>] = @ + 1] ELSE good
          /\ exited' = IF ok THEN exited \cup {<<suite, test>>} ELSE exited
       \/ /\ ~Forking /\ End("died", Status(code))
          /\ UNCHANGED <<suite, test, iteration, counted, good, exited>>
  /\ StayInRun

(* fork() fails; or the status of a child that may have succeeded is lost (SIGCHLD ignored, line 275). *)
LoseChild ==
  /\ Runnable /\ Forking
  /\ \/ UNCHANGED good
     \/ good' = [good EXCEPT ![<<suite, test>>] = @ + 1]
  /\ Conclude(FALSE)
  /\ StayInRun /\ UNCHANGED exited

(* A signal: the child's alone, or the runner's. *)
Signal ==
  /\ Runnable
  /\ IF Forking THEN Conclude(FALSE) ELSE End("died", 2) /\ UNCHANGED <<suite, test, iteration, counted>>
  /\ StayInRun /\ UNCHANGED <<good, exited>>

Finish ==
  /\ phase = "run" /\ suite \notin DOMAIN Suites
  /\ End("done", IF counted.fail > 0 THEN 1 ELSE 0)
  /\ StayInRun /\ UNCHANGED <<suite, test, iteration, counted, good, exited>>

RunnerNext ==
  ReadArgument \/ Prepare \/ NextSuite \/ Skip \/ Iterate \/ ExitInTest \/ LoseChild \/ Signal \/ Finish
RunnerSpec == RunnerInit /\ [][RunnerNext]_rvars

-----------------------------------------------------------------------------
(* pf_test_main() exits with 0 after a run only if every selected test that is no TODO ran all its
   iterations and each returned 0 or, in a child process alone, ended it with status 0 before it could
   return; whatever code a failing one returned.  Not so the other way: a child whose status is lost
   counts as failed.  Before the run no test is run, and the plan of a TAP report counts the tests
   reported. *)
VerdictTrue ==
  LET wanted == {x \in Tests : Selected(x[1], x[2])}
      active == {x \in wanted : ~Suites[x[1]].tests[x[2]].todo /\ Suites[x[1]].count > 0}
      sound  == {x \in active : good[x] = Suites[x[1]].count}
  IN /\ phase = "done" =>
          /\ rc = 0 => sound = active
          /\ ~Forking => exited = {}
          /\ cfg.tap => counted.n = plan
          /\ counted.n = Cardinality(wanted)
          /\ counted.pass + counted.fail = Cardinality(active)
     /\ phase \in {"usage", "listed"} => \A x \in Tests : good[x] = 0 /\ x \notin exited
=============================================================================
