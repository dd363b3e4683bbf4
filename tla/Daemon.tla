------------------------------- MODULE Daemon -------------------------------
(***************************************************************************)
(* pf_daemon.h on POSIX: processes that call pf_daemon_start() and         *)
(* pf_daemon_stop() on one pf_daemon_t each, competing for one lock file   *)
(* and one PID file.                                                       *)
(*                                                                         *)
(* Every system call that another process can observe is a step of its     *)
(* own; pc[p] names the next one.  A process may die between any two of    *)
(* them: the kernel then closes its descriptors and drops its lock, and    *)
(* leaves the PID file where it is.  lockf() locks belong to a process,    *)
(* are not inherited through fork(), and are dropped as soon as the        *)
(* process closes ANY descriptor of the lock file.                         *)
(***************************************************************************)
EXTENDS Integers

CONSTANTS
  Proc,      \* process slots; a dead slot is reused, like a process id
  NoProc,    \* nobody
  NoFile,    \* the PID file does not exist
  Empty,     \* the PID file exists and holds no process id
  Forever,   \* lockTimeoutMs = UINT32_MAX
  Options,   \* the pf_daemon_options_t the applications start with
  FdLimit,   \* BOUND: descriptors of the lock file a process can have open
  Restarters \* the processes whose application may call pf_daemon_start() again
             \* on an object that is running

Path == {"null", "empty", "path"}

OptionType ==
  [daemonize : BOOLEAN, workingDirectory : BOOLEAN, closeFds : BOOLEAN,
   redirectStdio : BOOLEAN, lockPath : Path, pidPath : Path,
   lockTimeoutMs : Nat \cup {Forever}]

\* What pf_daemon_options_t_init() fills in.
DefaultOptions ==
  [daemonize |-> FALSE, workingDirectory |-> FALSE, closeFds |-> TRUE,
   redirectStdio |-> TRUE, lockPath |-> "null", pidPath |-> "null",
   lockTimeoutMs |-> 0]

ASSUME ConstantsOK ==
  /\ NoProc \notin Proc
  /\ NoFile \notin Proc
  /\ Empty \notin Proc
  /\ NoFile # Empty
  /\ Forever \notin Nat
  /\ Options \subseteq OptionType
  /\ FdLimit \in Nat
  /\ Restarters \subseteq Proc

\* The sleep between two attempts at the lock, in milliseconds.
NapMs == 10

Failures == {"EINVAL", "EFORK", "ESETSID", "ECHDIR", "EIO", "ELOCKED",
             "ETIMEDOUT", "ESTDIO", "EPIDFILE", "ELOCKFILE"}
Codes == Failures \cup {"OK", "PARENT"}

\* Where a process is: dead, in the application, or before a system call of
\* the library.
InStart == {"fork1", "setsid", "fork2", "chdir", "stdio", "lockopen",
            "trylock", "nap", "pidopen", "pidwrite", "pidunlink"}
InStop == {"stopclose", "stopunlink"}
PC == {"dead", "idle"} \cup InStart \cup InStop

DaemonType == [lockFd : BOOLEAN, started : BOOLEAN, ownsLock : BOOLEAN,
               pidFileCreated : BOOLEAN, error : Codes]

VARIABLES
  pc,        \* pc[p]: control
  opt,       \* opt[p]: the options of the start in progress or last made
  daemon,    \* daemon[p]: the caller-owned pf_daemon_t
  elapsed,   \* elapsed[p]: milliseconds slept while waiting for the lock
  rc,        \* rc[p]: what the last pf_daemon_start() returned ("none": nothing)
  original,  \* original[p]: p was launched, not forked by pf_daemon_daemonize()
  fds,       \* fds[p]: descriptors of the lock file that p has open
  holder,    \* the process the kernel lets hold the lock
  pidFile,   \* NoFile, Empty, or the process whose id the PID file holds
  pidFd      \* pidFd[p]: p's descriptor of the PID file: closed, linked at the
             \* path, or an orphan because the path was unlinked meanwhile

procVars == <<opt, elapsed, original>>
lockVars == <<fds, holder>>
pidVars == <<pidFile, pidFd>>
vars == <<pc, opt, daemon, elapsed, rc, original, fds, holder, pidFile, pidFd>>

\* pf_daemon_init()
Fresh == [lockFd |-> FALSE, started |-> FALSE, ownsLock |-> FALSE,
          pidFileCreated |-> FALSE, error |-> "OK"]

Init ==
  /\ pc = [p \in Proc |-> "dead"]
  /\ opt = [p \in Proc |-> DefaultOptions]
  /\ daemon = [p \in Proc |-> Fresh]
  /\ elapsed = [p \in Proc |-> 0]
  /\ rc = [p \in Proc |-> "none"]
  /\ original = [p \in Proc |-> TRUE]
  /\ fds = [p \in Proc |-> 0]
  /\ holder = NoProc
  /\ pidFile = NoFile
  /\ pidFd = [p \in Proc |-> "closed"]

-----------------------------------------------------------------------------
Goto(p, l) == pc' = [pc EXCEPT ![p] = l]

\* Leave pf_daemon_start() with a code that pf_daemon_set_error() records.
Fail(p, code) ==
  /\ Goto(p, "idle")
  /\ daemon' = [daemon EXCEPT ![p].error = code]
  /\ rc' = [rc EXCEPT ![p] = code]

\* Leave pf_daemon_start() with a code and the object as it is.
Return(p, code) ==
  /\ Goto(p, "idle")
  /\ rc' = [rc EXCEPT ![p] = code]
  /\ UNCHANGED daemon

\* The holder once p has closed a descriptor of the lock file.
HolderAfterClose(p) == IF holder = p THEN NoProc ELSE holder

CloseLockFile(p) ==
  /\ fds' = [fds EXCEPT ![p] = @ - 1]
  /\ holder' = HolderAfterClose(p)

\* Remove the PID file's name; whoever has the file open writes to an orphan.
UnlinkPidPath(p) ==
  /\ pidFile' = NoFile
  /\ pidFd' = [q \in Proc |-> IF q = p THEN "closed"
                              ELSE IF pidFd[q] = "linked" THEN "orphan"
                              ELSE pidFd[q]]

-----------------------------------------------------------------------------
(* The applications. *)

Launch(p) ==
  /\ pc[p] = "dead"
  /\ Goto(p, "idle")
  /\ UNCHANGED <<procVars, daemon, rc, lockVars, pidVars>>

\* The end of a process, by exit or by a signal, whatever it was doing.
Die(p) ==
  /\ pc[p] # "dead"
  /\ Goto(p, "dead")
  /\ opt' = [opt EXCEPT ![p] = DefaultOptions]
  /\ daemon' = [daemon EXCEPT ![p] = Fresh]
  /\ elapsed' = [elapsed EXCEPT ![p] = 0]
  /\ rc' = [rc EXCEPT ![p] = "none"]
  /\ original' = [original EXCEPT ![p] = TRUE]
  /\ fds' = [fds EXCEPT ![p] = 0]
  /\ holder' = HolderAfterClose(p)
  /\ pidFd' = [pidFd EXCEPT ![p] = "closed"]
  /\ UNCHANGED pidFile

\* Mutant of Start: pf_daemon_init() is not called.
StartWithoutInit(p, o) ==
  /\ pc[p] = "idle"
  /\ p \in Restarters \/ ~daemon[p].started
  /\ opt' = [opt EXCEPT ![p] = o]
  /\ elapsed' = [elapsed EXCEPT ![p] = 0]
  /\ rc' = [rc EXCEPT ![p] = "none"]
  /\ Goto(p, IF o.daemonize THEN "fork1" ELSE "chdir")
  /\ UNCHANGED <<daemon, original, lockVars, pidVars>>

\* pf_daemon_start(): the object is zeroed, whatever it held before.
Start(p, o) ==
  /\ pc[p] = "idle"
  /\ p \in Restarters \/ ~daemon[p].started
  /\ daemon' = [daemon EXCEPT ![p] = Fresh]
  /\ opt' = [opt EXCEPT ![p] = o]
  /\ elapsed' = [elapsed EXCEPT ![p] = 0]
  /\ rc' = [rc EXCEPT ![p] = "none"]
  /\ Goto(p, IF o.daemonize THEN "fork1" ELSE "chdir")
  /\ UNCHANGED <<original, lockVars, pidVars>>

Stop(p) ==
  /\ pc[p] = "idle"
  /\ Goto(p, "stopclose")
  /\ rc' = [rc EXCEPT ![p] = "none"]
  /\ UNCHANGED <<procVars, daemon, lockVars, pidVars>>

-----------------------------------------------------------------------------
(* pf_daemon_daemonize() *)

\* Mutant of Fork: the parent goes on and the child returns.
ForkSwapped(p, at, next) ==
  /\ pc[p] = at
  /\ \E q \in Proc :
       /\ pc[q] = "dead"
       /\ pc' = [pc EXCEPT ![p] = next, ![q] = "idle"]
       /\ rc' = [rc EXCEPT ![q] = "PARENT"]
       /\ daemon' = [daemon EXCEPT ![q] = daemon[p]]
       /\ opt' = [opt EXCEPT ![q] = opt[p]]
       /\ elapsed' = [elapsed EXCEPT ![q] = elapsed[p]]
       /\ original' = [original EXCEPT ![q] = FALSE]
       /\ fds' = [fds EXCEPT ![q] = fds[p]]
  /\ UNCHANGED <<holder, pidVars>>

\* fork() from `at': the parent returns, the child goes on at `next' with a
\* copy of the parent's memory and descriptors, and without its lock.
Fork(p, at, next) ==
  /\ pc[p] = at
  /\ \/ /\ Fail(p, "EFORK")
        /\ UNCHANGED <<procVars, lockVars>>
     \/ \E q \in Proc :
          /\ pc[q] = "dead"
          /\ pc' = [pc EXCEPT ![p] = "idle", ![q] = next]
          /\ rc' = [rc EXCEPT ![p] = "PARENT"]
          /\ daemon' = [daemon EXCEPT ![q] = daemon[p]]
          /\ opt' = [opt EXCEPT ![q] = opt[p]]
          /\ elapsed' = [elapsed EXCEPT ![q] = elapsed[p]]
          /\ original' = [original EXCEPT ![q] = FALSE]
          /\ fds' = [fds EXCEPT ![q] = fds[p]]
          /\ UNCHANGED holder
  /\ UNCHANGED pidVars

FirstFork(p) == Fork(p, "fork1", "setsid")
SecondFork(p) == Fork(p, "fork2", "chdir")

SetSid(p) ==
  /\ pc[p] = "setsid"
  /\ \/ Goto(p, "fork2") /\ UNCHANGED <<daemon, rc>>
     \/ Fail(p, "ESETSID")
  /\ UNCHANGED <<procVars, lockVars, pidVars>>

\* The same chdir() for a daemonized start and for any other.
ChangeDir(p) ==
  /\ pc[p] = "chdir"
  /\ \/ /\ Goto(p, IF opt[p].daemonize THEN "stdio" ELSE "lockopen")
        /\ UNCHANGED <<daemon, rc>>
     \/ /\ opt[p].workingDirectory
        /\ Fail(p, "ECHDIR")
  /\ UNCHANGED <<procVars, lockVars, pidVars>>

\* pf_daemon_closeFds() and pf_daemon_redirectStdio()
ResetDescriptors(p) ==
  /\ pc[p] = "stdio"
  /\ IF opt[p].closeFds
     THEN /\ fds' = [fds EXCEPT ![p] = 0]
          /\ holder' = HolderAfterClose(p)
     ELSE UNCHANGED lockVars
  /\ \/ Goto(p, "lockopen") /\ UNCHANGED <<daemon, rc>>
     \/ opt[p].redirectStdio /\ Fail(p, "ESTDIO")
  /\ UNCHANGED <<procVars, pidVars>>

-----------------------------------------------------------------------------
(* pf_daemon_build_lockPath() and pf_daemon_lock_posix() *)

LockOpen(p) ==
  /\ pc[p] = "lockopen"
  /\ \/ /\ opt[p].lockPath = "null"
        /\ Goto(p, "pidopen")
        /\ UNCHANGED <<daemon, rc, fds>>
     \/ /\ opt[p].lockPath = "empty"
        /\ Return(p, "EINVAL")
        /\ UNCHANGED fds
     \/ /\ opt[p].lockPath = "path"
        /\ Fail(p, "ELOCKFILE")
        /\ UNCHANGED fds
     \/ /\ opt[p].lockPath = "path"
        /\ fds[p] < FdLimit
        /\ fds' = [fds EXCEPT ![p] = @ + 1]
        /\ Goto(p, "trylock")
        /\ UNCHANGED <<daemon, rc>>
  /\ UNCHANGED <<procVars, holder, pidVars>>

\* Mutant of Busy: flock() semantics, a second descriptor of the owner conflicts.
BusyWithItself(p) == holder # NoProc

\* Another process holds the lock.
Busy(p) == holder \notin {NoProc, p}

\* Mutant of WaitedEnough: > for >=.
WaitedTooLong(p) ==
  /\ opt[p].lockTimeoutMs # Forever
  /\ elapsed[p] > opt[p].lockTimeoutMs

WaitedEnough(p) ==
  /\ opt[p].lockTimeoutMs # Forever
  /\ elapsed[p] >= opt[p].lockTimeoutMs

\* Mutant of LockAcquire: the result of lockf() is ignored.
LockAcquireUnasked(p) ==
  /\ pc[p] = "trylock"
  /\ holder' = IF Busy(p) THEN holder ELSE p
  /\ daemon' = [daemon EXCEPT ![p].lockFd = TRUE, ![p].ownsLock = TRUE]
  /\ Goto(p, "pidopen")
  /\ UNCHANGED <<procVars, rc, fds, pidVars>>

LockAcquire(p) ==
  /\ pc[p] = "trylock"
  /\ ~Busy(p)
  /\ holder' = p
  /\ daemon' = [daemon EXCEPT ![p].lockFd = TRUE, ![p].ownsLock = TRUE]
  /\ Goto(p, "pidopen")
  /\ UNCHANGED <<procVars, rc, fds, pidVars>>

\* Mutant of LockGiveUp: pf_daemon_start() goes on after the error.
LockFailureIgnored(p) ==
  /\ pc[p] = "trylock"
  /\ CloseLockFile(p)
  /\ Goto(p, "pidopen")
  /\ UNCHANGED <<procVars, daemon, rc, pidVars>>

\* The lock is not obtained: give up at once, give up in time, or after an
\* error other than EACCES, EAGAIN and EINTR.
LockGiveUp(p) ==
  /\ pc[p] = "trylock"
  /\ \/ Fail(p, "EIO")
     \/ Busy(p) /\ opt[p].lockTimeoutMs = 0 /\ Fail(p, "ELOCKED")
     \/ Busy(p) /\ opt[p].lockTimeoutMs # 0 /\ WaitedEnough(p) /\ Fail(p, "ETIMEDOUT")
  /\ CloseLockFile(p)
  /\ UNCHANGED <<procVars, pidVars>>

LockRetry(p) ==
  /\ pc[p] = "trylock"
  /\ Busy(p)
  /\ ~WaitedEnough(p)
  /\ Goto(p, "nap")
  /\ UNCHANGED <<procVars, daemon, rc, lockVars, pidVars>>

\* Mutant of Nap: the time slept is not counted.
NapUncounted(p) ==
  /\ pc[p] = "nap"
  /\ Goto(p, "trylock")
  /\ UNCHANGED <<procVars, daemon, rc, lockVars, pidVars>>

Nap(p) ==
  /\ pc[p] = "nap"
  /\ Goto(p, "trylock")
  /\ elapsed' = [elapsed EXCEPT
       ![p] = IF opt[p].lockTimeoutMs = Forever THEN @ ELSE @ + NapMs]
  /\ UNCHANGED <<opt, original, daemon, rc, lockVars, pidVars>>

-----------------------------------------------------------------------------
(* pf_daemon_write_pid_file(), and the end of pf_daemon_start() *)

\* Mutant of PidFailure: return without pf_daemon_stop().
PidFailureKeepsLock(p, code) == Fail(p, code)

\* The PID file could not be created: pf_daemon_stop() runs before the return.
PidFailure(p, code) ==
  /\ Goto(p, "stopclose")
  /\ daemon' = [daemon EXCEPT ![p].error = IF code = "EINVAL" THEN @ ELSE code]
  /\ rc' = [rc EXCEPT ![p] = code]

PidOpen(p) ==
  /\ pc[p] = "pidopen"
  /\ \/ /\ opt[p].pidPath = "null"
        /\ Goto(p, "idle")
        /\ daemon' = [daemon EXCEPT ![p].started = TRUE]
        /\ rc' = [rc EXCEPT ![p] = "OK"]
        /\ UNCHANGED pidVars
     \/ /\ opt[p].pidPath = "empty"
        /\ PidFailure(p, "EINVAL")
        /\ UNCHANGED pidVars
     \/ /\ opt[p].pidPath = "path"
        /\ PidFailure(p, "EPIDFILE")
        /\ UNCHANGED pidVars
     \/ /\ opt[p].pidPath = "path"
        /\ Goto(p, "pidwrite")
        /\ pidFile' = Empty
        /\ pidFd' = [pidFd EXCEPT ![p] = "linked"]
        /\ UNCHANGED <<daemon, rc>>
  /\ UNCHANGED <<procVars, lockVars>>

PidWrite(p) ==
  /\ pc[p] = "pidwrite"
  /\ pidFd' = [pidFd EXCEPT ![p] = "closed"]
  /\ \/ /\ pidFile' = IF pidFd[p] = "linked" THEN p ELSE pidFile
        /\ Goto(p, "idle")
        /\ daemon' = [daemon EXCEPT ![p].pidFileCreated = TRUE, ![p].started = TRUE]
        /\ rc' = [rc EXCEPT ![p] = "OK"]
     \/ /\ Goto(p, "pidunlink")
        /\ UNCHANGED <<pidFile, daemon, rc>>
  /\ UNCHANGED <<procVars, lockVars>>

PidUnlink(p) ==
  /\ pc[p] = "pidunlink"
  /\ UnlinkPidPath(p)
  /\ PidFailure(p, "EPIDFILE")
  /\ UNCHANGED <<procVars, lockVars>>

-----------------------------------------------------------------------------
(* pf_daemon_stop(): first the lock goes, then the PID file. *)

\* Mutant of StopClose: lockFd >= 0 is not checked.
StopCloseAlways(p) ==
  /\ pc[p] = "stopclose"
  /\ Goto(p, "stopunlink")
  /\ CloseLockFile(p)
  /\ daemon' = [daemon EXCEPT ![p].lockFd = FALSE, ![p].ownsLock = FALSE]
  /\ UNCHANGED <<procVars, rc, pidVars>>

StopClose(p) ==
  /\ pc[p] = "stopclose"
  /\ Goto(p, "stopunlink")
  /\ IF daemon[p].lockFd THEN CloseLockFile(p) ELSE UNCHANGED lockVars
  /\ daemon' = [daemon EXCEPT ![p].lockFd = FALSE, ![p].ownsLock = FALSE]
  /\ UNCHANGED <<procVars, rc, pidVars>>

\* Mutant of StopUnlink: pidFileCreated is not checked.
StopUnlinkAlways(p) ==
  /\ pc[p] = "stopunlink"
  /\ Goto(p, "idle")
  /\ UnlinkPidPath(p)
  /\ daemon' = [daemon EXCEPT ![p].started = FALSE]
  /\ UNCHANGED <<procVars, rc, lockVars>>

StopUnlink(p) ==
  /\ pc[p] = "stopunlink"
  /\ Goto(p, "idle")
  /\ IF daemon[p].pidFileCreated THEN UnlinkPidPath(p) ELSE UNCHANGED pidVars
  /\ daemon' = [daemon EXCEPT ![p].pidFileCreated = FALSE, ![p].started = FALSE]
  /\ UNCHANGED <<procVars, rc, lockVars>>

-----------------------------------------------------------------------------
Daemonize(p) == FirstFork(p) \/ SetSid(p) \/ SecondFork(p) \/ ChangeDir(p)
                \/ ResetDescriptors(p)
Lock(p) == LockOpen(p) \/ LockAcquire(p) \/ LockGiveUp(p) \/ LockRetry(p) \/ Nap(p)
WritePid(p) == PidOpen(p) \/ PidWrite(p) \/ PidUnlink(p)

\* A step the library takes on its own once it has been called.
Library(p) == Daemonize(p) \/ Lock(p) \/ WritePid(p) \/ StopClose(p) \/ StopUnlink(p)

Application(p) == Launch(p) \/ Die(p) \/ Stop(p) \/ \E o \in Options : Start(p, o)

Next == \E p \in Proc : Library(p) \/ Application(p)

Spec == Init /\ [][Next]_vars

\* The operating system keeps running a process that is inside the library.
\* Nothing makes an application call it, and nothing makes the lock free at the
\* moments a waiting process looks.
Fairness == \A p \in Proc : WF_vars(Library(p))

FairSpec == Spec /\ Fairness

-----------------------------------------------------------------------------
(* Properties. *)

TypeOK ==
  /\ pc \in [Proc -> PC]
  /\ opt \in [Proc -> OptionType]
  /\ daemon \in [Proc -> DaemonType]
  /\ elapsed \in [Proc -> Nat]
  /\ rc \in [Proc -> Codes \cup {"none"}]
  /\ original \in [Proc -> BOOLEAN]
  /\ fds \in [Proc -> 0 .. FdLimit]
  /\ holder \in Proc \cup {NoProc}
  /\ pidFile \in Proc \cup {NoFile, Empty}
  /\ pidFd \in [Proc -> {"closed", "linked", "orphan"}]

\* pf_daemon_is_running()
IsRunning(p) == daemon[p].started /\ daemon[p].ownsLock

Owners == {p \in Proc : daemon[p].ownsLock}

\* An object that says it owns the lock belongs to the process that the kernel
\* lets hold it, and still knows an open descriptor that releases it: no earlier
\* start, failure or close made by that process has dropped the lock behind the
\* object's back.
OwnerHoldsLock ==
  \A p \in Proc : daemon[p].ownsLock =>
    /\ holder = p
    /\ daemon[p].lockFd
    /\ fds[p] > 0

\* "Do not leave the singleton lock held if PID-file creation failed", and the
\* same for every other way out of pf_daemon_start() and pf_daemon_stop(): an
\* application that never starts a running object never holds the lock without
\* an object that owns it.
NoLeakedLock == \A p \in Proc \ Restarters : holder = p => p \in Owners

\* While a process runs with the lock and a PID file it wrote, the PID file never
\* names another process and is never half written, provided that nobody uses a
\* PID file without the lock.  It may be missing: see PidFileLostLate.
PidFileNeverForeign ==
  (\A o \in Options : o.pidPath = "path" => o.lockPath = "path") =>
    \A p \in Proc : IsRunning(p) /\ daemon[p].pidFileCreated => pidFile \in {p, NoFile}

\* What a step may do to the PID file of a running singleton: a predecessor that had
\* given up the lock, and not yet unlinked the path, unlinks it now.
LostLate ==
  \A p \in Proc :
    /\ \A o \in Options : o.pidPath = "path" => o.lockPath = "path"
    /\ IsRunning(p)
    /\ pidFile = p
    /\ pidFile' # p
    => \E q \in Proc \ {p} :
         /\ pc[q] = "stopunlink"
         /\ daemon[q].pidFileCreated
         /\ holder # q

\* The PID file of a running singleton disappears in that one way only: no start, no
\* failure, no death and no other stop takes it away.
PidFileLostLate == [][LostLate]_vars

\* A wait for the lock ends with ETIMEDOUT only after the whole timeout, and
\* never lasts a nap longer than it.
TimeoutHonoured ==
  \A p \in Proc : opt[p].lockTimeoutMs # Forever =>
    /\ elapsed[p] < opt[p].lockTimeoutMs + NapMs
    /\ rc[p] = "ETIMEDOUT" => elapsed[p] >= opt[p].lockTimeoutMs

\* The header says of PF_DAEMON_PARENT "returned to the original parent after
\* fork".  The session leader that pf_daemon_daemonize() forks gets it as well.
ParentIsOriginal == \A p \in Proc : rc[p] = "PARENT" => original[p]

\* "Daemonization happens before acquiring the singleton lock.  Therefore the lock
\* belongs to the final daemon process": the owner after a daemonized start is a
\* process the library forked, and no process that got PF_DAEMON_PARENT owns it.
LockBelongsToDaemon ==
  \A p \in Owners :
    /\ opt[p].daemonize => ~original[p]
    /\ rc[p] # "PARENT"

\* pf_daemon_start() returns, or its process dies, unless it waits without limit.
StartReturns ==
  \A p \in Proc :
    (pc[p] \in InStart /\ opt[p].lockTimeoutMs # Forever) ~> (pc[p] \in {"idle", "dead"})

\* A process that waits without limit starves only while others keep taking the
\* lock: once the lock stays free, however its holder went, a waiter gets out.
StarvedOnlyByOthers ==
  \A p \in Proc :
    <>[](pc[p] \in {"trylock", "nap"}) => []<>(holder \notin {NoProc, p})

Abstract == INSTANCE Singleton WITH owners <- Owners

\* Owning the lock through pf_daemon_t is owning the abstract singleton lock.
ImplementsSingleton == Abstract!Spec
=============================================================================
