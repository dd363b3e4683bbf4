# A verification of cpolyfill

cpolyfill is a set of single-header C libraries that supply what a platform or a
C standard lacks. A part of it keeps state that several threads or processes work on
at once (the daemon's lock, the barrier, the mutex, semaphores, thread-specific
storage, the atomics' fallback, the cache of CPUID); the rest is machines of one thread
(an exception stack, an array, parsers, a test runner) and arithmetic.

The directory holds TLA+ modules, TLC configurations and TLAPS proofs.
`PROJECT.json` lists the runs, the code lines each definition translates, the
mutants that show each property can fail, the hazards and the theorems.

## Inventory

The 28 headers of `src/include/`, grouped by what they keep and do. "Hard" names
what a unit test would hardly reach; the tests of the repository cover
`pf_bitwise.h`, `pf_overflow.h`, `pf_endian.h`, `pf_ctype.h` and `pf_macro.h` only.

| Part | State | Operations | Hard | Correct when |
|---|---|---|---|---|
| `pf_daemon.h` (POSIX) | one `pf_daemon_t` per process; the lock file's descriptor and its kernel lock; the PID file | `pf_daemon_start()` (double fork, chdir, closing descriptors, lock with timeout, PID file), `pf_daemon_stop()` | processes interleave at every system call and die anywhere; locks belong to processes; forks copy objects; every call can fail | who claims the lock holds it, at most one; nothing leaks on failure; the PID file names the holder; starts end |
| `pf_daemon.h` (Windows) | a named mutex that a thread owns, its handles, a PID file | as above without forks | `ELOCKED` when the mutex merely exists; a restart takes the mutex again; a failed start cleans up by halves | an owner has the mutex, at most one |
| `pf_threads.h`, barrier (Windows before 8) | counter, generation, event, critical section | `pf_barrier_init/wait/free()` | reads outside the critical section; event set and reset at once | nobody early, everybody wakes, one "serial" thread |
| `pf_threads.h`, mutex (Windows) | kind, `owner`, `count`, a Win32 mutex or a critical section | `mtx_init/lock/trylock/timedlock/unlock/destroy()` | `owner` read without a lock; threads that end with the mutex; reused ids | mutual exclusion; fields agree with the kernel |
| `pf_threads.h`, thread-specific storage (Windows) | a list of keys and destructors, a critical section, a value per thread and key | `tss_create/get/set/delete()`, cleanup at thread exit | destructors run outside the critical section, while others free the node one stands on; an early return inside it | no value is left behind but of the last pass; a thread's end ends |
| `pf_threads.h`, the rest | none of its own | condition variables, `call_once`, threads, sleeping; the pthread layer | | calls are forwarded |
| `pf_threads.h`, `pf_semaphore.h`: deadlines | a deadline, the clock | `pf_thrd_timeout_ms()`, `pf__sem_timeout()` | truncation, caps, retries | never `INFINITE`, never far off |
| `pf_semaphore.h` (Windows) | named and unnamed kernel objects, handles | `sem_init/open/close/unlink/destroy/wait/trywait/timedwait/post/getvalue()` | `sem_getvalue()` is two system calls; names vanish with the last handle | units are conserved; the creator's value holds |
| `pf_exception.h` | a stack of handlers and masks, the current exception | `pf_try_catch()`, `pf_throw()`, `pf_rethrow()` | unwinding by masks, the limit, handlers that stay after their block, a `jmp_buf` of a frame that is gone | an exception goes outwards only |
| `pf_array.h` | length, capacity, items | growth, push, insert at the front, remove at both ends | allocations that fail; `length + size` wraps | a deque; never beyond capacity |
| `pf_atomic.h` | a value with a mutex | load, store, exchange, compare-and-swap, fetch-and-op | locked and interlocked operations on one object | each takes effect at one instant |
| `pf_pipe.h` | a FIFO, its buffer, a descriptor per process | create, open, read, write, read with a timeout | `poll()` and `read()` are two calls: another reader takes what the first one saw | a timed read ends in time |
| `pf_io.h`, `pf_dirent.h`, `pf_filesystem.h` | files, directory positions | read and write whole files, seek in directories, user directories | files change between calls | all or nothing where promised |
| `pf_argparse.h` | a cursor over the arguments, the callback's answers | parameters, long options, clusters, values of five kinds | the cursor moves in three functions; one argument may be another's value | each argument is consumed once, errors fail the run |
| `pf_cli.h` | the column of the terminal; standard input | wrapping, definitions; questions | words wider than a line; lines longer than a buffer | written lines fit; an answer belongs to its question |
| `pf_test.h`, `pf_assert.h` | selection, counters, child processes | run tests in processes, repeatedly, nested | exit codes are narrowed, children die by signals | exit code 0 means that every test was good |
| `pf_bitwise.h`, `pf_overflow.h`, `pf_endian.h`, `pf_ctype.h`, `pf_typeid.h` | none | fallbacks in portable C | edges of the word | equal to the definition |
| `pf_cpuinfo.h` | a cache of CPUID leaves | fill it, ask for features | several threads fill it without a lock | a feature is reported only if the processor has it |
| `pf_socket.h`, `pf_process.h`, `pf_dlsym.h`, `pf_string.h` | the system's | thin wrappers and queries | | |
| `pf_macro.h`, `pf_types.h`, `pf_attribute.h`, `pf_errno.h` | none | compile-time macros | | |

How they interact: `pf_semaphore.h` and `pf_threads.h` share nothing but the way
they turn deadlines into waits, which is why one module models both conversions;
`pf_atomic.h` uses `mtx_t`; the daemon's processes meet in the lock file and the
PID file only; everything else is used by applications directly and shares no state,
which is why the small parts are checked side by side and not composed.

## Modules

### Daemon (`Daemon.tla`, `Singleton.tla`)

`pf_daemon.h` on POSIX. A process is a slot in `Proc`; a dead slot is launched
again or filled by `fork()`, so process ids are reused. `daemon[p]` is the
caller-owned `pf_daemon_t`, one per process; `pc[p]` names the system call that
comes next. Every call that another process can observe is a step: each `fork()`,
`setsid()`, `chdir()`, closing and redirecting descriptors, `open()` of the lock
file, each `lockf()`, each nap, `open()` (with truncation), `write()` and
`unlink()` of the PID file, and in `pf_daemon_stop()` the `close()` that drops the
lock before the `unlink()`. Each can fail where the code handles failure. The
kernel is modelled as the code relies on it: `holder` has the lock, a second
`lockf()` by the same process succeeds, closing ANY descriptor of the file drops
the process's lock (`HolderAfterClose`), a child inherits descriptors and memory
but no lock, and death closes everything and unlinks nothing. An unlinked PID
file that is still open is an `orphan`: what is written to it is seen by nobody.

Not in the model: `F_TLOCK` interrupted by a signal, descriptors that the
application preserves although they are of the lock file, more than one
`pf_daemon_t` in a process, `umask()`, the systemd notification and
`pf_daemon_ignore_signals()`.

`Singleton` is the abstract specification: a set of owners that is empty or has
one member. `ImplementsSingleton` instantiates it with the processes whose object
says `ownsLock`.

A result of the survey that the properties spell out: `pf_daemon_stop()` gives up
the lock BEFORE it unlinks the PID file, so a successor that has started in
between loses its own PID file. `PidFileNeverForeign` therefore allows the file of
a running singleton to be missing, never to name another, and `PidFileLostLate`
says that this window is the only way it disappears.

### Barrier (`Barrier.tla`)

The barrier that `pf_threads.h` builds of a critical section, a manual-reset event
and a generation counter. `Arrive` is the part under the critical section; the last
arriver keeps it through `Bump` and `Signal` and calls `ResetEvent()` after it has
left it (`Reset`). Others read the generation (`Check`) and enter the wait (`Wait`)
as separate steps. `SetEvent()` wakes those asleep at that moment. `arrived`, `left`
and `serial` are history variables. `pf_barrier_free()` is left out: calling it
while a thread is inside is outside its contract.

### Mutex (`Mutex.tla`)

The Windows `mtx_t`: any of the four kinds, chosen in `Init`. `owner` and `count`
are the fields; `holder`, `depth` and `abandoned` are the kernel's mutex or the
critical section; `held[t]` counts what the calls told `t`. Reading `owner`, the
wait, writing `owner` and `ReleaseMutex()` are separate steps. `End` may happen
anywhere for the threads in `Reckless`; a Win32 mutex is then abandoned, a critical
section keeps its dead holder. `Begin` gives an id in `Reused` to a new thread.
Unlocking what one does not hold is outside the contract of `mtx_unlock()` and is
not modelled, and neither is `mtx_destroy()`. The section of `pf_threads.h` this is
in does not compile as committed (line 624 has an unbalanced parenthesis, 622 an
undeclared constant, 662 a variable used before its declaration, all in the
thread-specific storage); the model translates the mutex's own text.

### Semaphore (`Semaphore.tla`)

One named semaphore of `pf_semaphore.h` and the processes that use it. The kernel's
object exists as long as anybody has a handle: a `sem_t` (`sem`) or a temporary handle
that `sem_open()` with `O_EXCL` closes before it reports `EEXIST`, and `sem_unlink()`
before it returns (`pc[p]` in `Temporary`). `sem_getvalue()` is two steps, `GetValue`
and `Restore`; between them a unit is in hand. `value` is what POSIX would call the
semaphore's value; `lossy` records that a process died, or that its
`ReleaseSemaphore()` failed, with a unit in hand. `answer` is what the last step told
a caller about units. Unnamed semaphores are the same kernel object with one owner, and
have no actions of their own. As committed, the header does not compile for Windows:
lines 112 and 271 say `PF_SEM_EACCES`, which line 79 spells `PF_SEM_EACCESS`.

### Deadlines (`Timeouts.tla`)

The two conversions as operators, and a caller that waits again and again for one
deadline while the clock goes on. Both compute in 64 bits and the model wraps where they
do: the signed milliseconds of `pf_threads.h` 304 at `LongLimit` (`LongLong`), the unsigned
ticks of `pf_semaphore.h` 327 at `TickLimit`. Clocks do not wrap, deadlines may be anything:
one that means "for ever" can become a short wait or none (see "Defects"). A wait is never
longer than its deadline is away, also then; that it is not much shorter is claimed of deadlines that
do not wrap. Times are seconds and nanoseconds from the epoch on; a negative `tv_sec`,
which `pf__sem_timeout()` converts to a far future, is not a time of day a caller computes
from the clock and is excluded by `Timespec`.

### The Windows daemon (`DaemonWindows.tla`)

The other half of `pf_daemon.h`: a named mutex in place of a lock file. `handles[p]`
counts the handles a process has, those that a second start on a running object has
forgotten among them; `holder` is a THREAD, because a Win32 mutex belongs to one, and
`took[p]` the thread that took it for the object. `CreateMutex`, `Acquire`, `GiveUp`,
`OpenPid`, `WritePid`, `StopLock` and `StopUnlink` are one system call each; a process
dies anywhere (`Die`), a worker thread ends and abandons the mutex (`WorkerEnds`). The
mutex exists while somebody has a handle of it: with the last one, which `pf_daemon_stop()` closes or
a death does, it is destroyed with its owner and depth, and the next `CreateMutex` makes a free one
(`Remain`, `CloseHandle`). It refines `Singleton` too, with a weaker mapping: a process whose starting thread has
ended still says `ownsLock`, while the abandoned mutex goes to another, so an owner is
a process whose thread that took the mutex lives.

### Thread-specific storage (`Tss.tla`)

The list behind `pf_tss_global`. Nodes are numbers; a freed node keeps its fields in
`key` and `next` and leaves `live`, and its number may be handed out again. An ending
thread walks the list (`BeginPass`, `SkipNode`, `CallDtor`, `Resume`, `EndPass`), leaving the
critical section only around a destructor; destructors and other threads create, set and
delete keys meanwhile (`Create`, `Set`, `Delete`). `lost` says that a freed node was used
after its memory had become something else, after which nothing is specified. A full
table (`FullTable`) is left with the section entered, as the code does, which is why
`CleanupEnds` excuses a thread that another one shuts out that way.

### Exceptions (`Exception.tla`)

The stack of handlers of one thread. A block is one call of `pf_try_catch()`; nothing
removes the handler of a block that ran to its end. A `longjmp()` goes through a
`jmp_buf` in a frame that has returned: the landing is in the block or `"wild"`.

### The array (`Array.tla`, `Deque.tla`)

Items are bytes, `SizeMax` is the word's largest number, sums wrap. Every allocation may
fail. `Deque` is the abstract specification, a sequence without a capacity.
`ArrayImplementsDeque` shows the refinement and, operation by operation, that `Push` is
`AddLast`, `Unpshift` is `AddFirst`, `Pop` and `Shift` are `DropLast` and `DropFirst`, or
that the call has refused and changed nothing.

### Atomics (`Atomic.tla`, `AtomicWord.tla`, `AtomicOps.tla`)

The fallback on a mutex, in three steps (lock, read, write and unlock), beside the
`Interlocked` calls that take one. `AtomicWord` is one integer whose operations take
effect at one instant. The fallback keeps an `intmax_t` (`Cells`) whatever the type: sums are
not reduced to the type's width, only what a call returns is (`Narrow`), an `Interlocked`
call changes the type's bytes alone, and a compare-exchange compares all of the `intmax_t`. So the abstract
word is the low part of the cell, and where the `intmax_t` is the wider of the two the
compare-exchange it implements is one that may fail although the values agree (`Weak`); where they are equally
wide it is the strong one. `pf_atomic_init()`, `_lock()` and `_unlock()` are declared and not
defined by the header; the model takes the names for a mutex that works. The mutex and the `Interlocked` calls are taken as the system's.
The refinement holds as long as no program mixes the two kinds on one object (`Mixed`);
an MSVC build of the header mixes them for some sizes, which `atomic_windows` shows. What an
operation computes is a constant of the model, `Result`, of which only `ResultsNarrow` is assumed: the
low part of a result depends on the low parts of its operands. `AtomicOps` gives it for words of
some bits, so that the proof needs no theory of bit operations.

### The cache of CPUID (`CpuInfo.tla`)

`pf_cpuinfo.h` fills a static cache in the first caller, without a lock: any number
of callers fill it at once (`reading`, `uncopied` of each thread), field by field, while
others use it. What the features derived from it say is compared with the processor.
`Ordered` says that `PF__BARRIER()` keeps the copied fields before the flag, as it does with GCC, Clang and
MSVC; with another compiler it is `((void)0)` (line 88), `Publish` may come first, and nothing
is claimed.

### The test runner (`TestRunner.tla`)

`pf_test_main()` from its command line to its exit code, in the mode that forks and in
the one that does not. What a test does is chosen anew in each iteration: it returns (`Iterate`), dies by a
signal (`Signal`), or calls `exit()` (`ExitInTest`), which in a child ends the iteration and without
`fork()` the runner itself, with the test's code, possibly 0. What `waitpid()` makes of a child is the code's (eight
bits, a signal, a status that is lost; a call that a signal interrupts is made again, which
is a stutter). The code cannot tell a child that called `exit(0)` from one whose test returned 0,
against the header's line 15 (see "Defects"). `good` counts the iterations that returned 0
or ended their child with 0, and `exited` has the tests of which a child did the latter, which is
never the case without `fork()`.

### The command line (`ArgParse.tla`, `Wrap.tla`, `Prompt.tla`, `CommandLine.tla`)

`ArgParse` is `pf_argparser_run()` with a callback of five options, one for each kind of
value. `argv` is already cut into words, clusters and values; who consumes which
and when the run ends is the model. `Meant` says all at once what the items of a word are, and
`Places` where in `argv` they stand; `ArgumentsRight` compares that with what the callback saw
(`ItemsInOrder`), with `paramv` (`ParametersNumbered`), with the application's variables
(`LastDecides`) and with the end of the run (`ErrorsEndTheRun`).
`Wrap` breaks a sequence of words into lines with the indents of `pf_cli_wrap()`
and `pf_cli_help_definition()`. `Prompt` asks questions whose answers are lines that fit
the buffer they are read with, or do not. `CommandLine` puts the three and their properties
together.

### Named pipes (`Pipe.tla`)

The POSIX half of `pf_pipe.h`. An action is one system call, or the part of one that ends
a wait; the kernel's buffer and the rendezvous of `open()` are external. A read with a
timeout is `poll()` and `read()`; `overtaken` records that in between somebody read, or opened a
stream to write that had ended. The end of a stream shows in `poll()` as `POLLHUP` on
some systems and as `POLLIN` on others, so a reader may get `EIO` or go on to `read()`. A signal
kills a process in any call (`Killed`), `SIGPIPE` in a write without readers; one that ignores it gets
`EPIPE`.

### Functions (`Bits.tla`, `Checked.tla`, `Endian.tla`, `Ctype.tla`, `TypeId.tla`, `PureFunctions.tla`)

The portable fallbacks and the branches of the builtins, on words narrow enough to try
every value. `Checked` has the three ways of `pf_overflow.h`: the builtins, the functions of `<intsafe.h>` that an
MSVC build calls, each with the type it takes (so a `long long` is checked as a `long`), and the
portable tests. A word of `Bits` is the set of its one bits; a word of `Endian` a sequence
of bytes. Loops whose number of rounds depends on their operand are recursive functions
(`PortableCtz`, `PortablePopcount`); those over `Width / 2, ..., 1` are six rounds (`Halving`,
`Doubling`), of which a word of less than 64 bits skips some. The number of a word (`Value`, `ToWord`)
and the powers of two (`Powers`) are recursive functions too, which the proofs can follow where
they cannot follow `2 ^ b` and sums over sets. Each module's property compares what the code computes with a
definition that does not know how: a rotation moves bit `b` to `b + n`, an overflow is a
result that does not fit. `Checked` and `Endian` follow the code where it is wrong (see
"Defects"), and their properties exempt that and say so. `PureFunctions` joins the properties of all five.

### The library side by side (`MCLibrary.tla`)

The small machines share no state, so one module checks them all: `part`, chosen from
`Chosen` in the initial state and never changed, names the machine that runs, and all
others rest in a fixed state. The state space is the sum of theirs and not the product, and
each machine keeps the initial states, the steps and the properties of its own module:
`MCLibrary` extends the modules, so that the properties it checks are the very definitions
the proofs are about and TLC evaluates what the proofs assume of the constants. To look at one
part, give `Chosen` that part only. `PureFunctionsRight` and `CommandLineRight` join the
properties of the parts of one kind; a part that rests satisfies its own.

## Runs

| Run | Instance | Shows |
|---|---|---|
| `daemon` | 2 processes; lock tried at once, for 20 ms, for ever; one application restarts running objects; 102,550 states | all safety and liveness properties of the daemon, and the refinement of `Singleton` |
| `daemonized` | 3 processes, symmetric; daemonized starts beside starts with unusable paths; all restart; 663,000 states up to symmetry | the lock ends up with the final daemon process |
| `daemon_parent` | as above | finding: `PF_DAEMON_PARENT` is also given to the session leader |
| `barrier` | 3 threads, symmetric; barrier for 1 to 3; 3 rounds each | nobody early, full groups, one serial thread per group |
| `barrier_wakeup` | 2 threads, 2 rounds, fair | finding: a lost wake-up |
| `mutex` | 3 threads; all kinds; one may end with the mutex, the other ids are reused; 2 locks deep | mutual exclusion, fields against kernel, who can block whom |
| `mutex_owner` | as above, every id is reused | finding: `owner` names a thread that does not have the mutex |
| `semaphore` | 3 processes, counts up to 2, values up to 3, fair; 20,150 states | conservation of units, one creator, answers, waiting |
| `semaphore_close` | 2 processes | finding: the last `sem_close()` ends a named semaphore |
| `library` | 17 parts, see below; 217,279 states, the sum of the parts | sixteen properties, see below |
| `exception_outermost` | stack of two handlers, one exception | finding: a catch-all around the whole program is never found |
| `atomic_windows` | 2 threads, a type of 2 bits as wide as the `intmax_t`, interlocked and locked operations mixed | finding: an update is lost |

Bounds, and why they are enough. Two processes are enough for every conflict over
one lock file and one PID file: the code looks at nothing of another process but
the lock and the file, and a third contender only adds another `Busy`; daemonizing
needs three slots because one start makes three processes. `FdLimit = 2` lets a
process have the descriptor of a running object and of a restart open at once,
which is where closing one drops the other's lock. 20 ms is two naps: below, at and
beyond the timeout all occur. Three threads give the barrier a cycle whose last
arriver, sleeper and early comer of the next cycle differ; three rounds let the next
cycle begin and end while a thread is still on its way out of the first. `GenMod = 8`
exceeds the rounds of the instance; the proofs need only two values, because a
thread is never more than one cycle behind. `MaxHeld = 2` is one re-entry.
A semaphore with `SEM_VALUE_MAX = 2` is full, half full and empty, and three processes
let a wait, a post and a query meet; `MaxValue = 3` lets a post fill the semaphore while
a unit is in hand.

The parts of `library` have 71,835 states (`tss`), 38,799 (`atomic`), 21,449 (`pipe`), 20,075 (`windows`),
16,032 (`wrap`), 11,280 (`cpu`), and between 384 and 7,680 each of the others:

| Property | Part | Says | Bounds that make the case happen |
|---|---|---|---|
| `NeverForever`, `SemNeverLate`, `ThrdWithinAMillisecond`, `RetryNeverLonger` | `timeouts` | the conversions of deadlines, and a wait that is retried | seconds and nanoseconds on both sides of each boundary, scaled: `INFINITE` is 2500, and deadlines wrap at 6000 ms and at 5 s |
| `PureFunctionsRight` | `bits`, `checked`, `endian`, `ctype`, `typeid` | every implementation of a function agrees with its definition | all words of 8 bits beside an `int` of 16, all pairs of numbers of an `int` of 4 bits and of a `long long` of 5, signed and unsigned, words of 1 to 4 bytes, every character |
| `FeaturesTrue` | `cpu` | who has the cache reads what the processor has | two first callers, processors with and without each leaf and with no saved registers, a barrier that orders |
| `RoomReserved`, `ArrayImplementsDeque` | `array` | room is there, the contents are a deque's | blocks of 5 bytes, 2 items at a time, sums that wrap at 19 for `Reserved` |
| `NeverCaughtTwice` | `exception` | an exception goes outwards only | 3 blocks, 2 exceptions, a stack of 3 |
| `NothingLeftBehind`, `CleanupEnds` | `tss` | values of an ending thread, and its end | 2 threads, 2 keys, a table of 2, 2 passes |
| `WindowsImplementsSingleton` | `windows` | the named mutex is a singleton lock | 2 processes, one with a second thread, 2 handles, a re-entry |
| `VerdictTrue` | `runner` | exit code 0 means that every iteration of all tests returned 0, or ended a child of its own with 0 | 3 suites, one never run, 2 iterations, codes 0, 1 and 256, which narrows to 0, returned and given to `exit()`, command lines of up to 2 arguments |
| `ImplementsAtomic` | `atomic` | operations take effect at one instant | 2 threads, a type of 2 bits in an `intmax_t` of 3, both of which wrap, operands beyond the type |
| `CommandLineRight` | `argparse`, `wrap`, `prompt` | arguments are consumed once, lines fit but for one word (beside a name), answers belong to their questions until one was too long | up to 2 words of every shape, 3 words and newlines around the width, answers around the end of each buffer |
| `TimedReadTimely` | `pipe` | a timed read waits on only if another process overtook it, reading or opening to write | 2 processes, 2 bytes of room |

Two threads or processes are enough where the code compares a caller with "somebody
else" only (an owner, a descriptor, a freed node); where a third could matter, for the
destructors of one thread while two others change the list, the critical section lets
in one at a time, and both changes may be made by one thread.

`CHECK_DEADLOCK FALSE` stands in the barrier's configurations because the rounds are
bounded, and because threads do wait for ever when fewer come than are counted, and
in the mutex's because a thread that ends inside a critical section leaves everyone
waiting. It stands in `library` because its parts end (a parser has read its
arguments, a thread has ended) and in the two small findings for the same reason. The
daemon's runs check deadlock.

Fairness. `WF(Library(p))`, `WF(Inside(t))`: the system keeps running a process or a
thread that is inside a call. Nothing makes an application call, stop or let go, and
no strong fairness is assumed for the lock or the mutex: a poller may miss every
moment at which the lock is free, which is why `StarvedOnlyByOthers`,
`WaitsOnlyForOthers` and `WaitsOnlyForUnits` say what a waiter that starves must see again and again, and
why `StartReturns` leaves out starts that wait without limit. `TssFairness` is weak
fairness for a thread's walk inside the critical section, and strong fairness for entering
it: each holder leaves after a bounded number of steps (or returns from a destructor, which
the code waits for without limit), and Windows queues the waiters of a critical section;
`CleanupEnds` is the only property that needs it.

## Proofs

`DaemonProofs`, `BarrierProofs`, `MutexProofs` and `SemaphoreProofs` are about the module of
that name, `LibraryProofs` about the small machines, `CommandLineProofs` about arguments, text and
questions, `ArithmeticProofs` about deadlines and functions, and `Induction` holds what proofs by
induction rest on. The theorems hold for every value of the constants that the `ASSUME` of the
module allows. Every invariant and every action property that a passing run checks, and every
refinement, is one of them; what is only model-checked is at the end.

* `DaemonProofs`: `TypeCorrect`, `OwnersHoldTheLock`, `LockNeverLeaks`,
  `SingletonImplemented`. `OwnerHoldsLock` is not inductive: a failing start closes
  a descriptor, and that would drop the lock of a running object if there were one.
  The strengthening `Shape` says what each control point knows of the object: from
  `pf_daemon_init()` until `lockf()` succeeds it owns nothing and has no descriptor,
  so the close of a failure finds no claim to break; `LockInv` ties claims,
  descriptors and the holder together. The refinement follows: an owner is the
  holder, so there is at most one.

  On top of that, `LockIsTheDaemons`, `TimeoutIsHonoured`, `PidFileIsOnes`,
  `PidFileLostToPredecessor`. `StartInv` is what a start in progress knows: past the first
  `fork()` of a daemonized start it is no application's process any more, and beyond the lock
  it owns it if it asked for one; so the owner is the last child, and whoever writes the PID
  file is alone. `WaitInv` follows the clock: a nap is only entered below the timeout, so
  the wait exceeds it by less than a nap. `PidInv` says that a file that was opened under the
  lock is the process's own or gone, and that a descriptor that is no longer linked has no
  name behind it. `PidFileLostLate` is an action property: with `StartInv`, whoever unlinks
  the file of a running process has stopped, given the lock up and not unlinked yet. Both
  PID-file properties are about options that take the lock whenever they write the file
  (`PidNeedsLock`): a PID file without a lock is anybody's.
* `BarrierProofs`: `BarrierTypes`, `NobodyLeavesTheBarrierEarly`. The invariant
  counts: `Exclusive` (only the last arriver is inside), `Balanced` (`waiting` is the
  number of threads that arrived in the current cycle) and `Cycle` (when as many
  threads use the barrier as it counts, each is in the current cycle or on its way
  out of the one before, and its generation says which).

  `GroupsAreFull` and `OneSerialInEachGroup` are about barriers that more threads use than
  they count, where `Cycle` says nothing, and rest on `Books`: every arrival is in a call or
  has left; all arrivals are the full groups, each with its last arriver, and `waiting`; and
  at least that many threads wait in the current generation. "At least" and not "exactly":
  a thread that sleeps through `GenMod` groups waits with the group in progress without being
  counted. The sums over threads are cardinalities of sets of calls, for which
  `OneCallMore` does the arithmetic.
* `MutexProofs`: `MutexTypes`, `MutualExclusionHolds`, `HeldLocksAreReal`,
  `StraysAreCheated`, all under `FreshIds`: no id of a thread that ended with the
  mutex is given out again; without it they are false, as `mutex_owner` shows.
  `Agreement` says for each thread and control point who the kernel's holder is,
  whom `owner` names and what `count` and `depth` are.
* `SemaphoreProofs`: `SemaphoreTypes`, `UnitsAreConserved`, `OneCreatorOnly`,
  `AnswersAreAlmostTrue`. The four strengthen one another (a wait keeps `value` a natural
  number because units are conserved); `Opened` adds that whoever is inside a call on the
  semaphore has it open, so the object cannot end while a unit is in hand.
* `LibraryProofs`, the small machines:
  * `WindowsSingleton`. `OwnerHasMutex` is the invariant: who claims the lock by a thread that
    lives is the mutex's owner in the kernel, by that thread; with `HandleHeld`, that it has a handle
    then, the mutex is never destroyed under it.
  * `RoomIsReserved`, `ArrayIsADeque`. `ArrayType` bounds the length by the block; `ReservedIs`
    says what each outcome of a reservation leaves; one lemma per operation compares the
    contents before and after, byte by byte.
  * `NobodyCatchesTwice`. `BlocksApart`: every block is on the stack once or has caught once,
    never both, and blocks still to come are on neither. Nothing is assumed of masks and stack.
  * `TimedReadsAreTimely`. `PipeInv`: who is past `poll()` and in `read()` still finds bytes there or
    the stream ended, or was overtaken.
  * `FallbackIsAtomic`, under `~Mixed`: between its read and its write a caller has the mutex
    and `prev` is the cell's value, so the write (or the only access) is the instant at which
    the operation takes effect; taking the mutex and reading are stutters of `AtomicWord`. The
    abstract word is what the cell keeps of the type: `NarrowPerform` and `NarrowExchange`
    carry each operation from the `intmax_t` down to it. Both widths are
    anything; where they are equal the theorem gives strong compare-exchanges.
  * `NothingIsLeftBehind`, an action property of a list whose nodes are freed while threads
    stand on them. `ListInv` says without recursion that the list is one: every set that has
    the head and is closed under `next` has all of it. `WalkInv` says the same of a walk: what
    is closed under `next` and has the node a thread stands on, freed or not, has every node
    whose value is still old for this pass; `ValuesInv` dates the values by passes. It holds
    because `pf_tss_global` is changed only inside the critical section, and a freed node
    keeps its successor until its memory is used again, after which (`lost`) nothing is claimed.
  * `VerdictIsTrue`. `Counted`: the tests behind the runner (`Before`), cut with those selected
    and those that run, are what its counters say, and without a failure each was good in
    every iteration: it returned 0, or ended its child with 0, which `ChildrenOnly` confines to runs that
    fork. The names of suites and the command line may be anything.
  * `FeaturesAreTrue`, under `Ordered`. `Copied`: all callers read the same leaves, so a field that anybody has
    copied is right for good, and who announces the cache has copied every field.
* `CommandLineProofs`:
  * `WrappedLinesFit`. `Cursor`: the open line is no longer than the column the code has in
    mind, except while it holds at most one word and the column is at or beyond the width;
    `NamesPlaced` and `NamedLine` say where the name of a definition stands and what is beside it: one
    word may be too wide there, because ten columns are taken for enough. A word is one only if it
    shows (`Visible`).
  * `AnswersComeInTurn`. A line that waits belongs to the open question and is the only one, or
    it came no earlier than a line that was longer than its buffer (`Overdue`).
  * `ArgumentsComeRight`. `ArgumentsRight` speaks of the end of a run; `ArgInv` says what holds in
    its middle. `Whereabouts`: the cursor (`index`, `at`) is at a place of `argv`, and `paused` iff
    a double dash is behind it. `SeenSoFar`: the callback has seen exactly the places before the
    cursor, each once and in order, unless it wanted no more. From there one lemma per claim
    (`ParametersStep`, `LastDecidesStep`, `HelpSoFarStep`, `ErrorsStep`) adds one item to the
    history, whichever of the three actions delivered it. A cluster needs `ClusterItems`: the
    code reads its letters one by one and may stop at a value, and what it makes of each is the
    item that `Meant` gives for the whole cluster.
  * `CommandLineIsRight`, for programs that do all three, with what each of them exempts: a single
    word that is too wide for its line or for the room beside a name, and answers after a line that was longer
    than its buffer.
* `ArithmeticProofs`, deadlines and the functions:
  * `NoWaitIsForever`, `SemaphoreNeverLate`, `ThreadWithinAMillisecond`, `RetriesShrink`, for all
    times, any `Infinite` and words of any width. What is upper bounds (not for ever, not late) holds of all
    deadlines, because wrapping only brings one nearer; what bounds a wait from below, and that a
    thread's retries shrink, holds of those that do not wrap.
  * `OverflowIsDetected`, for words with any limits, by each of the three ways to test: the portable tests
    compare with the limits of the type without leaving it (the product by dividing), and a lemma per
    operation and kind of type shows that the comparison means what it stands for. Not
    for a `long long` with MSVC, nor for the portable product whose second operand is zero or
    negative, where the code is wrong.
  * `BitsAreCounted` and `BitsAreMoved`, for words of 2 to 64 bits. `ValueByBits` and
    `WordByBits` give the number of a word bit by bit, `HighestBitDecides` orders numbers by the
    highest bit in which their words differ, `WordAndBack` says that the two conversions are inverse; hence
    what subtracting one does to a word (`OneLess`, `LowestBitGone`), which the loops over
    `x & (x - 1)` repeat, and where the powers of two are (`PowerBelow`, `PowerAbove`). The loops
    in rounds have an invariant each (`ClzAt`, `SmearAt`, `ReverseAt`), which one round takes
    to half or to twice the shift.
  * `BytesInOrder`, for words of any number of bytes: `MirrorSwaps` follows the loop of the
    conversion from the first byte to the last, also where it reads what it has overwritten.
  * `CtypeClassesAgree`, over all characters, the classes being finite sets of codes.
  * `IdsHold`, for each data model and any width of a character: the limits of two types that
    differ in size differ (`MaximaDiffer`, `TwiceTheMaximum`), which is all that
    `pf_type_int_as_base()` looks at; loading and storing are inverse modulo the size.
  * `PureFunctionsAreRight` puts these together, with what each of them exempts: the two cases of
    `OverflowIsDetected` and the conversions of words in place of `<endian.h>`.
* `Induction`. The provers cannot instantiate the induction theorems of the library, which take a
  predicate; `Least`, `Induct` and `InductTo` take a set of numbers and follow from the well-foundedness
  of the order. `Recursion` and `RecursionTo` say that a function defined from `0` upwards
  exists, without which nothing is known of a recursive definition.

The assumptions on constants are what the code takes for granted: block sizes and times are
numbers, a processor's leaves are lists of numbers, the table of tests is a sequence of
suites, sentinels are no threads, clocks and deadlines are not before 1970 and the clock is not where the
conversions wrap (a signed overflow wraps, as it does with the compilers of Windows), the low part of
an atomic's result depends on low parts only (`ResultsNarrow`), and for the
cache of CPUID the barrier orders (`Ordered`). No theorem bounds the number of processes, threads, values or
the length of a text; the bounds of the runs (`MaxRounds`, `MaxHeld`, `MaxQuestions`) are
constants the theorems quantify over.

Only model-checked:

* liveness under fairness (`StartReturns`, `StarvedOnlyByOthers`, `WaitsOnlyForOthers`,
  `WaitsOnlyForUnits`, `CleanupEnds`), which is beyond the prover, as is `ENABLED`.

`NoLeakedLock` says nothing of processes that restart running objects, where it does not hold.
No module declares a RECURSIVE operator: recursion is by functions, of which the proofs know what
`Induction` shows.

## Not modelled

* `pf_io.h`, `pf_dirent.h`, `pf_filesystem.h`, `pf_socket.h`, `pf_process.h`, `pf_dlsym.h`: one
  call of the system after another, whose state is the system's and nobody's invariant. A
  file that changes between `ftell()` and `fread()`, or between truncation and write, is
  as the code promises nothing about it.
* `pf_string.h` and `pf_macro.h`: no state.
* Condition variables, `call_once`, threads, and everything that forwards to pthreads.
* The systemd notification and the signal helper of `pf_daemon.h`.
* `mtx_destroy()`, `pf_barrier_free()`, `sem_init()` and `sem_destroy()`: they may be called only
  while nobody uses the object, and make or close one kernel object.
* Names and brands of `pf_cpuinfo.h`, colours, links and rules of `pf_cli.h`: text.
* A second run of `pf_argparser_run()` over the same `argv`, which the first one has changed.
* The Windows half of `pf_pipe.h`, and `pf_pipe_peek()`.

## Defects

Besides the findings of `PROJECT.json`, the survey met places where the code cannot be
right. Where a model has to follow the code through one, it does, and says so; where
the code does not compile, the model follows its text.

* `pf_endian.h`: the conversions without `<endian.h>` are inverted (124, 125), and a `;` is
  missing (92); `lextoh()` names the big-endian conversion, whose result is overwritten (168).
* `pf_overflow.h`: the portable test of a product divides by its second operand, 0 too, and is
  wrong for a negative one. With MSVC a `long long` is checked by `LongAdd()`, `ULongAdd()` and their
  like, which are those of 32 bits (262, 265). `OverflowDetected` exempts both.
* `pf_threads.h` (304), `pf_semaphore.h` (327): a deadline that is meant to be for ever, such as a
  `tv_sec` of `INT64_MAX`, wraps when it is multiplied, and the wait is short or none. The products wrap from
  about 9.2e15 and 1.84e12 seconds on.
* `pf_atomic.h`: a value is kept as an `intmax_t` and converted to its type only when it is returned.
  After an addition has left the type's range (0xFFFFFFFF + 1 of 32 bits), a compare-exchange with
  the value that a load returns fails, the strong one too; `*expected` is read as an
  `intmax_t` whatever it points to (271-280). `pf_atomic_init()`, `_lock()` and `_unlock()` are declared (202-207) and
  not defined.
* `pf_array.h`: `PF_ARRAY_POP` calls `pf__array_push()` (135), `PF_ARRAY_UNSHIFT` a function
  that does not exist (140), and a reservation whose size wraps counts as made (299).
* `pf_threads.h`, Windows: the thread-specific storage does not compile (622, 624, 662); the
  count of keys is never decremented, a full table leaves the section entered (621), `any` is
  read uninitialised (693), a freed node is walked from (706).
* `pf_exception.h`: the test for the message buffer is inverted (216), a `jmp_buf` belongs to a
  frame that has returned (149).
* `pf_daemon.h`, Windows: timeout 0 answers `ELOCKED` although the mutex may be free (936); a
  restart forgets a handle; the PID file is deleted after the lock is released.
* `pf_semaphore.h`: line 79 spells `PF_SEM_EACCESS`, 112 and 271 do not.
* `pf_test.h`: a test that calls `exit(0)` or `_exit(0)` (or `exit(256)`) in its child counts as passed (274-280), although
  line 15 wants a test to return zero; without `fork()` it ends the whole run, with its own code. A
  child whose status is lost counts as a failed test.
* `pf_cli.h`: the long-name branch of a definition does not indent its first line; beside a shorter name
  ten columns are taken for enough, and a wider first word goes over the edge of the terminal (722-731);
  `pf_cli_fill()` ignores its character; a line that is longer than its buffer answers the next
  question, one of exactly its size leaves a newline that does.
* `pf_argparse.h`: `pf_option_flags()` tests its match the wrong way round and reads past the
  constants, a parameter is dereferenced before it is compared with `NULL`.
* `pf_pipe.h`: `pf_pipe_create()` tests `flags & PF_PIPE_RDWR`, which either direction
  satisfies, so a creator always has both ends and never sees the end of the stream; errors are
  positive `errno` values where the enumeration has negative ones; a failed `open()` leaves the
  FIFO (132).
* `pf_filesystem.h`: errors are `-PF_FS_ENOENT`, which is positive, so callers that
  test for `< 0` miss them (620-625). `pf_dirent.h`: `seekdir()` from position 0 skips an entry.

## What is left

Every invariant, action property and refinement that a passing run checks is proved; of what is
checked, liveness stays with TLC. The conditional statements could be sharpened: the mutex with
reused ids, the atomics with mixed operations. Larger instances of `tss` (a third thread) take
longer than the other runs together; its safety no longer depends on them, its liveness does.
Nine of the hazards have no property that would catch them, because the code falls to them: a spurious
`ELOCKED`, an abandoned mutex that is obtained and not reported, a full table of keys, jumps into frames that
have returned, a stack of handlers that fills up, a size that wraps, a `read()` that another reader
leaves waiting, answers out of turn, a file truncated before it is written. A property that forbids one is
false of every build; the models have all but the last, in the open or as what a property exempts, and
the first thing to do with a repaired version is to drop the exemption.
