---------------------------- MODULE DaemonProofs ----------------------------
(***************************************************************************)
(* Proofs about Daemon, for every set of processes, every set of options   *)
(* and every descriptor limit.                                             *)
(*                                                                         *)
(* The invariants that TLC checks are not inductive.  Shape adds what each *)
(* control point says of the caller's object: from pf_daemon_init() until  *)
(* lockf() succeeds it owns nothing, so a forked child inherits no claim   *)
(* and a failing start has nothing of the object to release.               *)
(***************************************************************************)
EXTENDS Daemon, TLAPS

\* From pf_daemon_init() to the successful lockf().
BeforeLock == {"fork1", "setsid", "fork2", "chdir", "stdio", "lockopen",
               "trylock", "nap"}

ShapeOf(p) ==
  /\ pc[p] = "dead" => daemon[p] = Fresh /\ rc[p] = "none" /\ fds[p] = 0
  /\ pc[p] \in BeforeLock => ~daemon[p].lockFd /\ ~daemon[p].ownsLock
  /\ pc[p] \in InStart => ~daemon[p].started /\ ~daemon[p].pidFileCreated
  /\ pc[p] \in {"trylock", "nap"} => fds[p] > 0
  /\ daemon[p].lockFd => fds[p] > 0
  /\ pc[p] = "stopunlink" => ~daemon[p].ownsLock

Shape == \A p \in Proc : ShapeOf(p)

\* What pf_daemon_init() leaves is a pf_daemon_t.
LEMMA FreshIsDaemon == Fresh \in DaemonType
  BY DEF Fresh, DaemonType, Codes

\* What pf_daemon_options_t_init() leaves is a pf_daemon_options_t.
LEMMA DefaultIsOption == DefaultOptions \in OptionType
  BY DEF DefaultOptions, OptionType, Path

\* What the library's assignments to a pf_daemon_t leave is a pf_daemon_t.
LEMMA ObjectUpdates ==
  ASSUME NEW d \in DaemonType, NEW c \in Codes
  PROVE  /\ [d EXCEPT !.error = c] \in DaemonType
         /\ [d EXCEPT !.started = TRUE] \in DaemonType
         /\ [d EXCEPT !.lockFd = TRUE, !.ownsLock = TRUE] \in DaemonType
         /\ [d EXCEPT !.lockFd = FALSE, !.ownsLock = FALSE] \in DaemonType
         /\ [d EXCEPT !.pidFileCreated = TRUE, !.started = TRUE] \in DaemonType
         /\ [d EXCEPT !.pidFileCreated = FALSE, !.started = FALSE] \in DaemonType
  BY DEF DaemonType

\* Leaving pf_daemon_start() with a recorded error keeps the types.
LEMMA FailTypes ==
  ASSUME TypeOK, NEW p \in Proc, NEW c \in Codes, Fail(p, c)
  PROVE  /\ pc' \in [Proc -> PC]
         /\ daemon' \in [Proc -> DaemonType]
         /\ rc' \in [Proc -> Codes \cup {"none"}]
  <1>1. daemon' = [daemon EXCEPT ![p] = [daemon[p] EXCEPT !.error = c]]
    BY DEF Fail
  <1>2. [daemon[p] EXCEPT !.error = c] \in DaemonType
    BY ObjectUpdates DEF TypeOK
  <1>3. daemon' \in [Proc -> DaemonType]
    BY <1>1, <1>2 DEF TypeOK
  <1> QED
    BY <1>3 DEF TypeOK, Fail, Goto, PC

\* Failing to create the PID file keeps the types.
LEMMA PidFailureTypes ==
  ASSUME TypeOK, NEW p \in Proc, NEW c \in Codes, PidFailure(p, c)
  PROVE  /\ pc' \in [Proc -> PC]
         /\ daemon' \in [Proc -> DaemonType]
         /\ rc' \in [Proc -> Codes \cup {"none"}]
  <1> DEFINE e == IF c = "EINVAL" THEN daemon[p].error ELSE c
  <1>1. daemon' = [daemon EXCEPT ![p] = [daemon[p] EXCEPT !.error = e]]
    BY DEF PidFailure
  <1>2. daemon[p].error \in Codes
    BY DEF TypeOK, DaemonType
  <1>3. [daemon[p] EXCEPT !.error = e] \in DaemonType
    BY <1>2, ObjectUpdates DEF TypeOK
  <1>4. daemon' \in [Proc -> DaemonType]
    BY <1>1, <1>3 DEF TypeOK
  <1> QED
    BY <1>4 DEF TypeOK, PidFailure, Goto, PC, InStop

\* The result codes, written out once for the provers.
LEMMA CodesListed ==
  {"EFORK", "ESETSID", "ECHDIR", "ESTDIO", "EINVAL", "ELOCKFILE", "EIO", "ELOCKED",
   "ETIMEDOUT", "EPIDFILE", "PARENT", "OK"} \subseteq Codes
  BY DEF Codes, Failures

\* The control points, written out once for the provers.
LEMMA PCListed ==
  {"dead", "idle", "fork1", "setsid", "fork2", "chdir", "stdio", "lockopen", "trylock",
   "nap", "pidopen", "pidwrite", "pidunlink", "stopclose", "stopunlink"} \subseteq PC
  BY DEF PC, InStart, InStop

\* Every action keeps the types: in particular no count of open descriptors goes
\* below zero, because Shape says that what is closed is open.
LEMMA TypeStep == TypeOK /\ Shape /\ [Next]_vars => TypeOK'
  <1> SUFFICES ASSUME TypeOK, Shape, [Next]_vars
               PROVE  TypeOK'
    OBVIOUS
  <1> USE ConstantsOK, FreshIsDaemon, DefaultIsOption, CodesListed, PCListed
  <1>1. CASE UNCHANGED vars
    BY <1>1 DEF vars, TypeOK
  <1>2. ASSUME NEW p \in Proc, Application(p)
        PROVE  TypeOK'
    <2>1. CASE Launch(p)
      BY <2>1 DEF TypeOK, Launch, Goto, procVars, lockVars, pidVars
    <2>2. CASE Die(p)
      BY <2>2 DEF TypeOK, Die, Goto, HolderAfterClose
    <2>3. CASE Stop(p)
      BY <2>3 DEF TypeOK, Stop, Goto, procVars, lockVars, pidVars
    <2>4. ASSUME NEW o \in Options, Start(p, o)
          PROVE  TypeOK'
      BY <2>4 DEF TypeOK, Start, Goto, lockVars, pidVars
    <2> QED
      BY <1>2, <2>1, <2>2, <2>3, <2>4 DEF Application
  <1>3. ASSUME NEW p \in Proc, NEW at, NEW next \in PC, Fork(p, at, next)
        PROVE  TypeOK'
    <2>1. CASE Fail(p, "EFORK") /\ UNCHANGED <<procVars, lockVars>>
      BY <1>3, <2>1, FailTypes DEF TypeOK, Fork, procVars, lockVars, pidVars
    <2>2. ASSUME NEW q \in Proc,
                 pc' = [pc EXCEPT ![p] = "idle", ![q] = next],
                 rc' = [rc EXCEPT ![p] = "PARENT"],
                 daemon' = [daemon EXCEPT ![q] = daemon[p]],
                 opt' = [opt EXCEPT ![q] = opt[p]],
                 elapsed' = [elapsed EXCEPT ![q] = elapsed[p]],
                 original' = [original EXCEPT ![q] = FALSE],
                 fds' = [fds EXCEPT ![q] = fds[p]],
                 UNCHANGED <<holder, pidVars>>
          PROVE  TypeOK'
      BY <2>2 DEF TypeOK, pidVars
    <2> QED
      BY <1>3, <2>1, <2>2 DEF Fork
  <1>4. ASSUME NEW p \in Proc, Daemonize(p)
        PROVE  TypeOK'
    <2>1. CASE FirstFork(p)
      BY <2>1, <1>3 DEF FirstFork
    <2>2. CASE SetSid(p)
      BY <2>2, FailTypes DEF TypeOK, SetSid, Goto, procVars, lockVars, pidVars
    <2>3. CASE SecondFork(p)
      BY <2>3, <1>3 DEF SecondFork
    <2>4. CASE ChangeDir(p)
      BY <2>4, FailTypes DEF TypeOK, ChangeDir, Goto, procVars, lockVars, pidVars
    <2>5. CASE ResetDescriptors(p)
      <3>1. fds' \in [Proc -> 0 .. FdLimit] /\ holder' \in Proc \cup {NoProc}
        BY <2>5 DEF TypeOK, ResetDescriptors, HolderAfterClose, lockVars
      <3>2. /\ pc' \in [Proc -> PC]
            /\ daemon' \in [Proc -> DaemonType]
            /\ rc' \in [Proc -> Codes \cup {"none"}]
        BY <2>5, FailTypes DEF TypeOK, ResetDescriptors, Goto
      <3> QED
        BY <2>5, <3>1, <3>2 DEF TypeOK, ResetDescriptors, procVars, pidVars
    <2> QED
      BY <1>4, <2>1, <2>2, <2>3, <2>4, <2>5 DEF Daemonize
  <1>5. ASSUME NEW p \in Proc, Lock(p)
        PROVE  TypeOK'
    <2>1. CASE LockOpen(p)
      <3>1. fds' \in [Proc -> 0 .. FdLimit]
        BY <2>1 DEF TypeOK, LockOpen
      <3>2. /\ pc' \in [Proc -> PC]
            /\ daemon' \in [Proc -> DaemonType]
            /\ rc' \in [Proc -> Codes \cup {"none"}]
        BY <2>1, FailTypes DEF TypeOK, LockOpen, Return, Goto
      <3> QED
        BY <2>1, <3>1, <3>2 DEF TypeOK, LockOpen, procVars, pidVars
    <2>2. CASE LockAcquire(p)
      <3>1. daemon' = [daemon EXCEPT ![p] =
                         [daemon[p] EXCEPT !.lockFd = TRUE, !.ownsLock = TRUE]]
        BY <2>2 DEF LockAcquire
      <3>2. daemon' \in [Proc -> DaemonType]
        BY <3>1, ObjectUpdates DEF TypeOK
      <3> QED
        BY <2>2, <3>2 DEF TypeOK, LockAcquire, Goto, procVars, pidVars
    <2>3. CASE LockGiveUp(p)
      <3>1. fds[p] > 0 /\ fds[p] \in 0 .. FdLimit
        BY <2>3 DEF TypeOK, LockGiveUp, Shape, ShapeOf
      <3>2. fds' \in [Proc -> 0 .. FdLimit] /\ holder' \in Proc \cup {NoProc}
        BY <2>3, <3>1 DEF TypeOK, LockGiveUp, CloseLockFile, HolderAfterClose
      <3>3. /\ pc' \in [Proc -> PC]
            /\ daemon' \in [Proc -> DaemonType]
            /\ rc' \in [Proc -> Codes \cup {"none"}]
        BY <2>3, FailTypes DEF LockGiveUp
      <3> QED
        BY <2>3, <3>2, <3>3 DEF TypeOK, LockGiveUp, procVars, pidVars
    <2>4. CASE LockRetry(p)
      BY <2>4 DEF TypeOK, LockRetry, Goto, procVars, lockVars, pidVars
    <2>5. CASE Nap(p)
      BY <2>5 DEF TypeOK, Nap, NapMs, Goto, lockVars, pidVars
    <2> QED
      BY <1>5, <2>1, <2>2, <2>3, <2>4, <2>5 DEF Lock
  <1>6. ASSUME NEW p \in Proc, WritePid(p)
        PROVE  TypeOK'
    <2>1. CASE PidOpen(p)
      <3>1. CASE opt[p].pidPath = "null"
        <4>1. daemon' = [daemon EXCEPT ![p] = [daemon[p] EXCEPT !.started = TRUE]]
          BY <2>1, <3>1 DEF PidOpen
        <4>2. daemon' \in [Proc -> DaemonType]
          BY <4>1, ObjectUpdates DEF TypeOK
        <4> QED
          BY <2>1, <3>1, <4>2 DEF TypeOK, PidOpen, Goto, procVars, lockVars, pidVars
      <3>2. CASE opt[p].pidPath # "null"
        BY <2>1, <3>2, PidFailureTypes
           DEF TypeOK, PidOpen, Goto, procVars, lockVars, pidVars
      <3> QED
        BY <3>1, <3>2
    <2>2. CASE PidWrite(p)
      <3>1. CASE UNCHANGED <<pidFile, daemon, rc>>
        BY <2>2, <3>1 DEF TypeOK, PidWrite, Goto, procVars, lockVars
      <3>2. CASE ~UNCHANGED <<pidFile, daemon, rc>>
        <4>1. daemon' = [daemon EXCEPT ![p] =
                           [daemon[p] EXCEPT !.pidFileCreated = TRUE, !.started = TRUE]]
          BY <2>2, <3>2 DEF PidWrite
        <4>2. daemon' \in [Proc -> DaemonType]
          BY <4>1, ObjectUpdates DEF TypeOK
        <4> QED
          BY <2>2, <3>2, <4>2 DEF TypeOK, PidWrite, Goto, procVars, lockVars
      <3> QED
        BY <3>1, <3>2
    <2>3. CASE PidUnlink(p)
      BY <2>3, PidFailureTypes DEF TypeOK, PidUnlink, UnlinkPidPath, procVars, lockVars
    <2> QED
      BY <1>6, <2>1, <2>2, <2>3 DEF WritePid
  <1>7. ASSUME NEW p \in Proc, StopClose(p)
        PROVE  TypeOK'
    <2>1. daemon' = [daemon EXCEPT ![p] =
                       [daemon[p] EXCEPT !.lockFd = FALSE, !.ownsLock = FALSE]]
      BY <1>7 DEF StopClose
    <2>2. daemon' \in [Proc -> DaemonType]
      BY <2>1, ObjectUpdates DEF TypeOK
    <2>3. daemon[p].lockFd => fds[p] > 0
      BY DEF Shape, ShapeOf
    <2>4. fds' \in [Proc -> 0 .. FdLimit] /\ holder' \in Proc \cup {NoProc}
      BY <1>7, <2>3 DEF TypeOK, StopClose, CloseLockFile, HolderAfterClose, lockVars
    <2> QED
      BY <1>7, <2>2, <2>4 DEF TypeOK, StopClose, Goto, procVars, pidVars
  <1>8. ASSUME NEW p \in Proc, StopUnlink(p)
        PROVE  TypeOK'
    <2>1. daemon' = [daemon EXCEPT ![p] =
                       [daemon[p] EXCEPT !.pidFileCreated = FALSE, !.started = FALSE]]
      BY <1>8 DEF StopUnlink
    <2>2. daemon' \in [Proc -> DaemonType]
      BY <2>1, ObjectUpdates DEF TypeOK
    <2> QED
      BY <1>8, <2>2 DEF TypeOK, StopUnlink, UnlinkPidPath, Goto, procVars, lockVars, pidVars
  <1> QED
    BY <1>1, <1>2, <1>4, <1>5, <1>6, <1>7, <1>8 DEF Next, Library

\* Every action keeps the shape of every object.
LEMMA ShapeStep == TypeOK /\ Shape /\ [Next]_vars => Shape'
  <1> SUFFICES ASSUME TypeOK, Shape, [Next]_vars, NEW r \in Proc
               PROVE  ShapeOf(r)'
    BY DEF Shape
  <1>0. ShapeOf(r) /\ daemon[r] \in DaemonType
    BY DEF Shape, TypeOK
  <1> USE <1>0 DEF ShapeOf, TypeOK, BeforeLock, InStart, InStop
  <1>1. CASE UNCHANGED vars
    BY <1>1 DEF vars
  <1>2. ASSUME NEW p \in Proc, Application(p)
        PROVE  ShapeOf(r)'
    <2>1. CASE Launch(p)
      BY <2>1 DEF Launch, Goto, procVars, lockVars, pidVars, Fresh
    <2>2. CASE Die(p)
      BY <2>2 DEF Die, Goto, Fresh
    <2>3. CASE Stop(p)
      BY <2>3 DEF Stop, Goto, procVars, lockVars, pidVars
    <2>4. ASSUME NEW o \in Options, Start(p, o)
          PROVE  ShapeOf(r)'
      BY <2>4 DEF Start, Goto, lockVars, pidVars, Fresh
    <2> QED
      BY <1>2, <2>1, <2>2, <2>3, <2>4 DEF Application
  <1>8. ASSUME NEW p \in Proc, NEW at, NEW next, Fork(p, at, next),
               at \in {"fork1", "fork2"}, next \in {"setsid", "chdir"}
        PROVE  ShapeOf(r)'
    <2>0. ShapeOf(p) /\ daemon[p] \in DaemonType /\ pc[p] = at
      BY <1>8 DEF Shape, Fork
    <2>1. CASE Fail(p, "EFORK") /\ UNCHANGED <<procVars, lockVars>>
      BY <1>8, <2>0, <2>1 DEF Fail, Goto, procVars, lockVars, DaemonType
    <2>2. ASSUME NEW q \in Proc, pc[q] = "dead",
                 pc' = [pc EXCEPT ![p] = "idle", ![q] = next],
                 rc' = [rc EXCEPT ![p] = "PARENT"],
                 daemon' = [daemon EXCEPT ![q] = daemon[p]],
                 fds' = [fds EXCEPT ![q] = fds[p]]
          PROVE  ShapeOf(r)'
      <3>1. CASE r = q
        BY <1>8, <2>0, <2>2, <3>1
      <3>2. CASE r = p
        BY <1>8, <2>0, <2>2, <3>2
      <3>3. CASE r \notin {p, q}
        BY <2>2, <3>3
      <3> QED
        BY <3>1, <3>2, <3>3
    <2> QED
      BY <1>8, <2>1, <2>2 DEF Fork
  <1>3. ASSUME NEW p \in Proc, Daemonize(p)
        PROVE  ShapeOf(r)'
    <2> USE DEF Goto, Fail, procVars, lockVars, pidVars
    <2>1. CASE FirstFork(p)
      BY <1>8, <2>1 DEF FirstFork
    <2>2. CASE SetSid(p)
      BY <2>2 DEF SetSid, DaemonType
    <2>3. CASE SecondFork(p)
      BY <1>8, <2>3 DEF SecondFork
    <2>4. CASE ChangeDir(p)
      BY <2>4 DEF ChangeDir, DaemonType
    <2>5. CASE ResetDescriptors(p)
      BY <2>5 DEF ResetDescriptors, DaemonType
    <2> QED
      BY <1>3, <2>1, <2>2, <2>3, <2>4, <2>5 DEF Daemonize
  <1>4. ASSUME NEW p \in Proc, Lock(p)
        PROVE  ShapeOf(r)'
    <2> USE DEF Goto, Fail, Return, procVars, lockVars, pidVars, DaemonType
    <2>1. CASE LockOpen(p)
      BY <2>1 DEF LockOpen
    <2>2. CASE LockAcquire(p)
      BY <2>2 DEF LockAcquire
    <2>3. CASE LockGiveUp(p)
      <3>1. CASE r = p
        <4>1. pc[r] = "trylock" /\ ~daemon[r].lockFd
          BY <2>3, <3>1 DEF LockGiveUp
        <4>2. \E c : daemon' = [daemon EXCEPT ![r].error = c] /\ pc'[r] = "idle"
          BY <2>3, <3>1 DEF LockGiveUp
        <4> QED
          BY <4>1, <4>2
      <3>2. CASE r # p
        BY <2>3, <3>2 DEF LockGiveUp, CloseLockFile
      <3> QED
        BY <3>1, <3>2
    <2>4. CASE LockRetry(p)
      BY <2>4 DEF LockRetry
    <2>5. CASE Nap(p)
      BY <2>5 DEF Nap
    <2> QED
      BY <1>4, <2>1, <2>2, <2>3, <2>4, <2>5 DEF Lock
  <1>5. ASSUME NEW p \in Proc, WritePid(p)
        PROVE  ShapeOf(r)'
    <2> USE DEF Goto, PidFailure, procVars, lockVars, pidVars, DaemonType
    <2>1. CASE PidOpen(p)
      BY <2>1 DEF PidOpen
    <2>2. CASE PidWrite(p)
      BY <2>2 DEF PidWrite
    <2>3. CASE PidUnlink(p)
      BY <2>3 DEF PidUnlink
    <2> QED
      BY <1>5, <2>1, <2>2, <2>3 DEF WritePid
  <1>6. ASSUME NEW p \in Proc, StopClose(p)
        PROVE  ShapeOf(r)'
    BY <1>6 DEF StopClose, CloseLockFile, Goto, procVars, lockVars, pidVars, DaemonType
  <1>7. ASSUME NEW p \in Proc, StopUnlink(p)
        PROVE  ShapeOf(r)'
    BY <1>7 DEF StopUnlink, Goto, procVars, lockVars, DaemonType
  <1> QED
    BY <1>1, <1>2, <1>3, <1>4, <1>5, <1>6, <1>7 DEF Next, Library

-----------------------------------------------------------------------------
(* The lock. *)

\* The step leaves what r's object claims as it is.
SameClaims(r) ==
  /\ daemon'[r].lockFd = daemon[r].lockFd
  /\ daemon'[r].started = daemon[r].started
  /\ daemon'[r].ownsLock = daemon[r].ownsLock
  /\ daemon'[r].pidFileCreated = daemon[r].pidFileCreated

\* pf_daemon_set_error() changes no claim.
LEMMA FailClaims ==
  ASSUME TypeOK, NEW p \in Proc, NEW c, Fail(p, c) \/ PidFailure(p, c), NEW r \in Proc
  PROVE  SameClaims(r)
  <1>0. daemon[r] \in DaemonType
    BY DEF TypeOK
  <1>1. CASE Fail(p, c)
    BY <1>0, <1>1 DEF TypeOK, Fail, SameClaims, DaemonType
  <1>2. CASE PidFailure(p, c)
    <2> DEFINE e == IF c = "EINVAL" THEN daemon[p].error ELSE c
    <2>1. daemon' = [daemon EXCEPT ![p].error = e]
      BY <1>2 DEF PidFailure
    <2> HIDE DEF e
    <2> QED
      BY <1>0, <2>1 DEF TypeOK, SameClaims, DaemonType
  <1> QED
    BY <1>1, <1>2

\* What relates the object of r to the kernel's lock.
LockOf(r) ==
  /\ daemon[r].ownsLock => holder = r /\ daemon[r].lockFd
  /\ daemon[r].ownsLock => \/ pc[r] \in {"pidopen", "pidwrite", "pidunlink", "stopclose"}
                           \/ pc[r] = "idle" /\ daemon[r].started
  /\ r \notin Restarters /\ holder = r => daemon[r].ownsLock

LockInv == \A r \in Proc : LockOf(r)

Inv == TypeOK /\ Shape /\ LockInv

\* Every action keeps LockInv.  Only three can disturb it: acquiring the lock
\* needs that no other process holds it; a close by a process that owns it goes
\* through pf_daemon_stop(), which disowns it; and a start on a running object
\* forgets the lock, which is why Restarters are left out of the last conjunct.
LEMMA LockStep == Inv /\ [Next]_vars => LockInv'
  <1> SUFFICES ASSUME TypeOK, Shape, LockInv, [Next]_vars, NEW r \in Proc
               PROVE  LockOf(r)'
    BY DEF LockInv, Inv
  <1>0. LockOf(r) /\ ShapeOf(r) /\ daemon[r] \in DaemonType
    BY DEF Shape, TypeOK, LockInv
  <1> USE <1>0, ConstantsOK DEF LockOf, ShapeOf, TypeOK, BeforeLock, InStart, InStop
  <1>1. CASE UNCHANGED vars
    BY <1>1 DEF vars
  <1>2. ASSUME NEW p \in Proc, Application(p)
        PROVE  LockOf(r)'
    <2>1. CASE Launch(p)
      BY <2>1 DEF Launch, Goto, procVars, lockVars, pidVars, Fresh
    <2>2. CASE Die(p)
      BY <2>2 DEF Die, Goto, Fresh, HolderAfterClose
    <2>3. CASE Stop(p)
      BY <2>3 DEF Stop, Goto, procVars, lockVars, pidVars
    <2>4. ASSUME NEW o \in Options, Start(p, o)
          PROVE  LockOf(r)'
      BY <2>4 DEF Start, Goto, lockVars, pidVars, Fresh
    <2> QED
      BY <1>2, <2>1, <2>2, <2>3, <2>4 DEF Application
  <1>3. ASSUME NEW p \in Proc, NEW at, NEW next, Fork(p, at, next),
               at \in {"fork1", "fork2"}
        PROVE  LockOf(r)'
    <2>0. ShapeOf(p) /\ daemon[p] \in DaemonType /\ pc[p] = at
      BY <1>3 DEF Shape, Fork
    <2>1. CASE Fail(p, "EFORK") /\ UNCHANGED <<procVars, lockVars>>
      BY <1>3, <2>0, <2>1 DEF Fail, Goto, procVars, lockVars, DaemonType
    <2>2. ASSUME NEW q \in Proc, pc[q] = "dead",
                 pc' = [pc EXCEPT ![p] = "idle", ![q] = next],
                 daemon' = [daemon EXCEPT ![q] = daemon[p]],
                 UNCHANGED holder
          PROVE  LockOf(r)'
      <3>1. CASE r = q
        BY <1>3, <2>0, <2>2, <3>1 DEF Fresh
      <3>2. CASE r = p
        BY <1>3, <2>0, <2>2, <3>2
      <3>3. CASE r \notin {p, q}
        BY <2>2, <3>3
      <3> QED
        BY <3>1, <3>2, <3>3
    <2> QED
      BY <1>3, <2>1, <2>2 DEF Fork
  <1>4. ASSUME NEW p \in Proc, Daemonize(p)
        PROVE  LockOf(r)'
    <2> USE DEF Goto, Fail, procVars, lockVars, pidVars, DaemonType
    <2>1. CASE FirstFork(p)
      BY <1>3, <2>1 DEF FirstFork
    <2>2. CASE SetSid(p)
      BY <2>2 DEF SetSid
    <2>3. CASE SecondFork(p)
      BY <1>3, <2>3 DEF SecondFork
    <2>4. CASE ChangeDir(p)
      BY <2>4 DEF ChangeDir
    <2>5. CASE ResetDescriptors(p)
      BY <2>5 DEF ResetDescriptors, HolderAfterClose
    <2> QED
      BY <1>4, <2>1, <2>2, <2>3, <2>4, <2>5 DEF Daemonize
  <1>5. ASSUME NEW p \in Proc, Lock(p)
        PROVE  LockOf(r)'
    <2> USE DEF Goto, Fail, Return, procVars, lockVars, pidVars, DaemonType
    <2>1. CASE LockOpen(p)
      BY <2>1 DEF LockOpen
    <2>2. CASE LockAcquire(p)
      BY <2>2 DEF LockAcquire, Busy
    <2>3. CASE LockGiveUp(p)
      <3>1. CASE r = p
        <4>1. pc[r] = "trylock" /\ ~daemon[r].ownsLock /\ holder' # r
          BY <2>3, <3>1 DEF LockGiveUp, CloseLockFile, HolderAfterClose
        <4>2. \E c : daemon' = [daemon EXCEPT ![r].error = c]
          BY <2>3, <3>1 DEF LockGiveUp
        <4> QED
          BY <4>1, <4>2
      <3>2. CASE r # p
        BY <2>3, <3>2 DEF LockGiveUp, CloseLockFile, HolderAfterClose
      <3> QED
        BY <3>1, <3>2
    <2>4. CASE LockRetry(p)
      BY <2>4 DEF LockRetry
    <2>5. CASE Nap(p)
      BY <2>5 DEF Nap
    <2> QED
      BY <1>5, <2>1, <2>2, <2>3, <2>4, <2>5 DEF Lock
  <1>6. ASSUME NEW p \in Proc, WritePid(p)
        PROVE  LockOf(r)'
    <2> USE DEF Goto, PidFailure, procVars, lockVars, pidVars, DaemonType
    <2>1. CASE PidOpen(p)
      <3>1. CASE opt[p].pidPath = "null"
        BY <2>1, <3>1 DEF PidOpen
      <3>2. CASE \E c : PidFailure(p, c)
        <4>1. SameClaims(r)
          BY <3>2, FailClaims
        <4> QED
          BY <2>1, <3>2, <4>1 DEF PidOpen, SameClaims
      <3>3. CASE UNCHANGED daemon
        BY <2>1, <3>3 DEF PidOpen
      <3> QED
        BY <2>1, <3>1, <3>2, <3>3 DEF PidOpen
    <2>2. CASE PidWrite(p)
      BY <2>2 DEF PidWrite
    <2>3. CASE PidUnlink(p)
      BY <2>3 DEF PidUnlink
    <2> QED
      BY <1>6, <2>1, <2>2, <2>3 DEF WritePid
  <1>7. ASSUME NEW p \in Proc, StopClose(p)
        PROVE  LockOf(r)'
    BY <1>7 DEF StopClose, CloseLockFile, HolderAfterClose, Goto, lockVars, DaemonType
  <1>8. ASSUME NEW p \in Proc, StopUnlink(p)
        PROVE  LockOf(r)'
    BY <1>8 DEF StopUnlink, Goto, procVars, lockVars, DaemonType
  <1> QED
    BY <1>1, <1>2, <1>4, <1>5, <1>6, <1>7, <1>8 DEF Next, Library

\* The invariant holds before any process is launched.
LEMMA InitInv == Init => Inv
  <1> SUFFICES ASSUME Init
               PROVE  Inv
    OBVIOUS
  <1> USE ConstantsOK, FreshIsDaemon, DefaultIsOption, PCListed
  <1>1. TypeOK
    BY DEF Init, TypeOK
  <1>2. Shape
    BY DEF Init, Shape, ShapeOf, BeforeLock, InStart, Fresh
  <1>3. LockInv
    BY DEF Init, LockInv, LockOf, Fresh
  <1> QED
    BY <1>1, <1>2, <1>3 DEF Inv

\* The invariant holds in every reachable state.
LEMMA Invariance == Spec => []Inv
  <1>1. Inv /\ [Next]_vars => Inv'
    BY TypeStep, ShapeStep, LockStep DEF Inv
  <1> QED
    BY InitInv, <1>1, PTL DEF Spec

\* Every variable of every process keeps its type: no descriptor count goes
\* negative or past the limit, whatever the order of calls, failures and deaths.
THEOREM TypeCorrect == Spec => []TypeOK
  BY Invariance, PTL DEF Inv

\* An object that claims the singleton lock has it in the kernel and can release it.
THEOREM OwnersHoldTheLock == Spec => []OwnerHoldsLock
  <1>1. Inv => OwnerHoldsLock
    BY DEF Inv, LockInv, LockOf, Shape, ShapeOf, OwnerHoldsLock
  <1> QED
    BY Invariance, <1>1, PTL

\* A lock that pf_daemon_start() took is owned by an object until it is released,
\* on every path through a failure, in every process that does not start a
\* running object again.
THEOREM LockNeverLeaks == Spec => []NoLeakedLock
  <1>1. Inv => NoLeakedLock
    BY DEF Inv, LockInv, LockOf, NoLeakedLock, Owners
  <1> QED
    BY Invariance, <1>1, PTL

\* Only lockf() makes an owner: whoever comes to own the lock in a step found it
\* free, or its own.
LEMMA OwnedOnlyWhenFree ==
  ASSUME Inv, [Next]_vars, NEW r \in Proc, ~daemon[r].ownsLock, daemon'[r].ownsLock
  PROVE  ~Busy(r)
  <1>0. TypeOK /\ Shape /\ daemon[r] \in DaemonType
    BY DEF Inv, TypeOK
  <1> USE <1>0 DEF TypeOK
  <1>1. CASE UNCHANGED vars
    BY <1>1 DEF vars
  <1>2. ASSUME NEW p \in Proc, Application(p)
        PROVE  ~Busy(r)
    BY <1>2 DEF Application, Launch, Die, Stop, Start, Fresh
  <1>3. ASSUME NEW p \in Proc, NEW at, NEW next, Fork(p, at, next),
               at \in {"fork1", "fork2"}
        PROVE  ~Busy(r)
    <2>1. ~daemon[p].ownsLock
      BY <1>3 DEF Fork, Shape, ShapeOf, BeforeLock
    <2> QED
      BY <1>3, <2>1, FailClaims DEF Fork, SameClaims
  <1>4. ASSUME NEW p \in Proc, Daemonize(p)
        PROVE  ~Busy(r)
    BY <1>4, <1>3, FailClaims DEF Daemonize, FirstFork, SecondFork, SetSid, ChangeDir,
                                  ResetDescriptors, SameClaims
  <1>5. ASSUME NEW p \in Proc, Lock(p)
        PROVE  ~Busy(r)
    <2>1. CASE LockAcquire(p)
      BY <2>1 DEF LockAcquire, DaemonType
    <2> QED
      BY <1>5, <2>1, FailClaims DEF Lock, LockOpen, LockGiveUp, LockRetry, Nap, Return,
                                    SameClaims
  <1>6. ASSUME NEW p \in Proc, WritePid(p) \/ StopClose(p) \/ StopUnlink(p)
        PROVE  ~Busy(r)
    <2>1. CASE PidOpen(p)
      BY <2>1 DEF PidOpen, PidFailure, DaemonType
    <2>2. CASE PidWrite(p)
      BY <2>2 DEF PidWrite, DaemonType
    <2>3. CASE PidUnlink(p)
      BY <2>3 DEF PidUnlink, PidFailure, DaemonType
    <2>4. CASE StopClose(p) \/ StopUnlink(p)
      BY <2>4 DEF StopClose, StopUnlink, DaemonType
    <2> QED
      BY <1>6, <2>1, <2>2, <2>3, <2>4 DEF WritePid
  <1> QED
    BY <1>1, <1>2, <1>4, <1>5, <1>6 DEF Next, Library

\* Any number of processes calling pf_daemon_start() and pf_daemon_stop(), and
\* dying, implement the abstract lock with at most one owner.
THEOREM SingletonImplemented == Spec => ImplementsSingleton
  <1>1. Init => Abstract!Init
    BY DEF Init, Abstract!Init, Owners, Fresh
  <1>2. Inv /\ [Next]_vars /\ Inv' => [Abstract!Next]_Owners
    <2> SUFFICES ASSUME Inv, Inv', Owners' # Owners, [Next]_vars
                 PROVE  Abstract!Next
      OBVIOUS
    <2>1. Owners \subseteq {holder} /\ Owners' \subseteq {holder'}
      BY DEF Inv, LockInv, LockOf, Owners
    <2>2. ASSUME NEW q \in Proc, Owners' = {q}
          PROVE  Owners = {}
      <3>1. ~daemon[q].ownsLock /\ daemon'[q].ownsLock
        BY <2>1, <2>2 DEF Owners
      <3>2. holder \in {NoProc, q}
        BY <3>1, OwnedOnlyWhenFree DEF Busy
      <3> QED
        BY <2>1, <3>1, <3>2, ConstantsOK DEF Owners
    <2>3. CASE Owners' = {}
      <3>1. PICK p \in Proc : Owners = {p}
        BY <2>1, <2>3 DEF Owners
      <3> QED
        BY <2>3, <3>1 DEF Abstract!Next, Abstract!Release
    <2>4. CASE Owners' # {}
      <3>1. PICK q \in Proc : Owners' = {q}
        BY <2>1, <2>4 DEF Owners
      <3> QED
        BY <2>2, <3>1 DEF Abstract!Next, Abstract!Acquire
    <2> QED
      BY <2>3, <2>4
  <1> QED
    BY Invariance, <1>1, <1>2, PTL DEF Spec, ImplementsSingleton, Abstract!Spec

-----------------------------------------------------------------------------
(* The daemon that ends up with the lock, the wait for it, and the PID file. *)

\* What a start in progress knows: its options, that it is the library's own process
\* if it has daemonized, and behind the lock that it has the lock if it asked for one.
StartOf(r) ==
  /\ pc[r] \in InStart => opt[r] \in Options /\ rc[r] = "none"
  /\ pc[r] \in InStart \ {"fork1"} /\ opt[r].daemonize => ~original[r]
  /\ pc[r] \in {"trylock", "nap"} => opt[r].lockPath = "path"
  /\ pc[r] \in {"pidopen", "pidwrite", "pidunlink"} /\ opt[r].lockPath = "path"
       => daemon[r].ownsLock
  /\ pc[r] \in {"pidwrite", "pidunlink"} => opt[r].pidPath = "path"
  /\ daemon[r].ownsLock => (opt[r].daemonize => ~original[r]) /\ rc[r] # "PARENT"

StartInv == \A r \in Proc : StartOf(r)

\* Every action keeps StartInv.  A child gets its options with the rest of its
\* parent's memory, and it is the child, never the parent, that goes on to the lock.
LEMMA StartStep == Inv /\ StartInv /\ [Next]_vars => StartInv'
  <1> SUFFICES ASSUME TypeOK, Shape, StartInv, [Next]_vars, NEW r \in Proc
               PROVE  StartOf(r)'
    BY DEF StartInv, Inv
  <1>0. StartOf(r) /\ ShapeOf(r) /\ daemon[r] \in DaemonType
    BY DEF Shape, TypeOK, StartInv
  <1> USE <1>0 DEF StartOf, ShapeOf, TypeOK, BeforeLock, InStart, InStop
  <1>1. CASE UNCHANGED vars
    BY <1>1 DEF vars
  <1>2. ASSUME NEW p \in Proc, Application(p)
        PROVE  StartOf(r)'
    <2>1. CASE Launch(p)
      BY <2>1 DEF Launch, Goto, procVars, lockVars, pidVars, Fresh
    <2>2. CASE Die(p)
      BY <2>2 DEF Die, Goto, Fresh
    <2>3. CASE Stop(p)
      BY <2>3 DEF Stop, Goto, procVars, lockVars, pidVars
    <2>4. ASSUME NEW o \in Options, Start(p, o)
          PROVE  StartOf(r)'
      BY <2>4 DEF Start, Goto, lockVars, pidVars, Fresh
    <2> QED
      BY <1>2, <2>1, <2>2, <2>3, <2>4 DEF Application
  <1>3. ASSUME NEW p \in Proc, NEW at, NEW next, Fork(p, at, next),
               at \in {"fork1", "fork2"}, next \in {"setsid", "chdir"}
        PROVE  StartOf(r)'
    <2>0. ShapeOf(p) /\ StartOf(p) /\ daemon[p] \in DaemonType /\ pc[p] = at
      BY <1>3 DEF Shape, StartInv, Fork
    <2>1. CASE Fail(p, "EFORK") /\ UNCHANGED <<procVars, lockVars>>
      <3>1. SameClaims(r)
        BY <2>1, FailClaims
      <3> QED
        BY <1>3, <2>0, <2>1, <3>1 DEF Fail, Goto, procVars, lockVars, SameClaims
    <2>2. ASSUME NEW q \in Proc, pc[q] = "dead",
                 pc' = [pc EXCEPT ![p] = "idle", ![q] = next],
                 rc' = [rc EXCEPT ![p] = "PARENT"],
                 daemon' = [daemon EXCEPT ![q] = daemon[p]],
                 opt' = [opt EXCEPT ![q] = opt[p]],
                 original' = [original EXCEPT ![q] = FALSE]
          PROVE  StartOf(r)'
      <3>1. CASE r = q
        BY <1>3, <2>0, <2>2, <3>1
      <3>2. CASE r = p
        BY <1>3, <2>0, <2>2, <3>2
      <3>3. CASE r \notin {p, q}
        BY <2>2, <3>3
      <3> QED
        BY <3>1, <3>2, <3>3
    <2> QED
      BY <1>3, <2>1, <2>2 DEF Fork
  <1>4. ASSUME NEW p \in Proc, Daemonize(p)
        PROVE  StartOf(r)'
    <2> USE DEF Goto, Fail, procVars, lockVars, pidVars, DaemonType
    <2>1. CASE FirstFork(p)
      BY <1>3, <2>1 DEF FirstFork
    <2>2. CASE SetSid(p)
      BY <2>2 DEF SetSid
    <2>3. CASE SecondFork(p)
      BY <1>3, <2>3 DEF SecondFork
    <2>4. CASE ChangeDir(p)
      BY <2>4 DEF ChangeDir
    <2>5. CASE ResetDescriptors(p)
      BY <2>5 DEF ResetDescriptors
    <2> QED
      BY <1>4, <2>1, <2>2, <2>3, <2>4, <2>5 DEF Daemonize
  <1>5. ASSUME NEW p \in Proc, Lock(p)
        PROVE  StartOf(r)'
    <2> USE DEF Goto, Fail, Return, procVars, lockVars, pidVars, DaemonType
    <2>1. CASE LockOpen(p)
      BY <2>1 DEF LockOpen
    <2>2. CASE LockAcquire(p)
      BY <2>2 DEF LockAcquire
    <2>3. CASE LockGiveUp(p)
      <3>1. CASE r = p
        <4>1. pc[r] = "trylock" /\ ~daemon[r].ownsLock /\ pc'[r] = "idle"
          BY <2>3, <3>1 DEF LockGiveUp
        <4>2. \E c : daemon' = [daemon EXCEPT ![r].error = c]
          BY <2>3, <3>1 DEF LockGiveUp
        <4> QED
          BY <4>1, <4>2
      <3>2. CASE r # p
        BY <2>3, <3>2 DEF LockGiveUp
      <3> QED
        BY <3>1, <3>2
    <2>4. CASE LockRetry(p)
      BY <2>4 DEF LockRetry
    <2>5. CASE Nap(p)
      BY <2>5 DEF Nap
    <2> QED
      BY <1>5, <2>1, <2>2, <2>3, <2>4, <2>5 DEF Lock
  <1>6. ASSUME NEW p \in Proc, WritePid(p)
        PROVE  StartOf(r)'
    <2>0. ASSUME NEW c, PidFailure(p, c)
          PROVE  SameClaims(r)
      BY <2>0, FailClaims
    <2> USE DEF Goto, PidFailure, procVars, lockVars, pidVars, DaemonType
    <2>1. CASE PidOpen(p)
      <3>1. CASE opt[p].pidPath = "null"
        BY <2>1, <3>1 DEF PidOpen
      <3>2. CASE PidFailure(p, "EINVAL") \/ PidFailure(p, "EPIDFILE")
        <4>1. SameClaims(r)
          BY <2>0, <3>2
        <4> QED
          BY <2>1, <3>2, <4>1 DEF PidOpen, SameClaims
      <3>3. CASE UNCHANGED daemon
        BY <2>1, <3>3 DEF PidOpen
      <3> QED
        BY <2>1, <3>1, <3>2, <3>3 DEF PidOpen
    <2>2. CASE PidWrite(p)
      BY <2>2 DEF PidWrite
    <2>3. CASE PidUnlink(p)
      BY <2>3 DEF PidUnlink
    <2> QED
      BY <1>6, <2>1, <2>2, <2>3 DEF WritePid
  <1>7. ASSUME NEW p \in Proc, StopClose(p)
        PROVE  StartOf(r)'
    BY <1>7 DEF StopClose, Goto, procVars, DaemonType
  <1>8. ASSUME NEW p \in Proc, StopUnlink(p)
        PROVE  StartOf(r)'
    BY <1>8 DEF StopUnlink, Goto, procVars, DaemonType
  <1> QED
    BY <1>1, <1>2, <1>4, <1>5, <1>6, <1>7, <1>8 DEF Next, Library

\* What a wait for the lock has cost so far.
WaitOf(r) ==
  opt[r].lockTimeoutMs # Forever =>
    /\ elapsed[r] < opt[r].lockTimeoutMs + NapMs
    /\ pc[r] = "nap" => elapsed[r] < opt[r].lockTimeoutMs
    /\ rc[r] = "ETIMEDOUT" => elapsed[r] >= opt[r].lockTimeoutMs

WaitInv == \A r \in Proc : WaitOf(r)

\* Every action keeps WaitInv: a nap follows only a look at the clock.
LEMMA WaitStep == Inv /\ StartInv /\ WaitInv /\ [Next]_vars => WaitInv'
  <1> SUFFICES ASSUME TypeOK, Shape, StartInv, WaitInv, [Next]_vars, NEW r \in Proc
               PROVE  WaitOf(r)'
    BY DEF WaitInv, Inv
  <1>0. WaitOf(r) /\ elapsed[r] \in Nat /\ opt[r].lockTimeoutMs \in Nat \cup {Forever}
    BY DEF TypeOK, WaitInv, OptionType
  <1> USE <1>0, ConstantsOK DEF WaitOf, NapMs
  <1>1. CASE UNCHANGED <<pc, opt, elapsed, rc>>
    BY <1>1
  <1>2. ASSUME NEW p \in Proc, UNCHANGED <<opt, elapsed>>,
               \A q \in Proc : pc'[q] = "nap" => pc[q] = "nap",
               \A q \in Proc : rc'[q] = "ETIMEDOUT" => rc[q] = "ETIMEDOUT"
        PROVE  WaitOf(r)'
    BY <1>2
  <1>3. ASSUME NEW p \in Proc, Application(p)
        PROVE  WaitOf(r)'
    <2>1. CASE Launch(p) \/ Stop(p)
      BY <2>1, <1>2 DEF TypeOK, Launch, Stop, Goto, procVars
    <2>2. CASE Die(p)
      <3>1. CASE r = p
        BY <2>2, <3>1 DEF TypeOK, Die, Goto, DefaultOptions
      <3>2. CASE r # p
        BY <2>2, <3>2 DEF TypeOK, Die, Goto
      <3> QED
        BY <3>1, <3>2
    <2>3. ASSUME NEW o \in Options, Start(p, o)
          PROVE  WaitOf(r)'
      <3>1. o.lockTimeoutMs \in Nat \cup {Forever}
        BY DEF OptionType
      <3>2. CASE r = p
        BY <2>3, <3>1, <3>2 DEF TypeOK, Start, Goto
      <3>3. CASE r # p
        BY <2>3, <3>3 DEF TypeOK, Start, Goto
      <3> QED
        BY <3>2, <3>3
    <2> QED
      BY <1>3, <2>1, <2>2, <2>3 DEF Application
  <1>4. ASSUME NEW p \in Proc, NEW at, NEW next, Fork(p, at, next),
               at \in {"fork1", "fork2"}, next \in {"setsid", "chdir"}
        PROVE  WaitOf(r)'
    <2>1. CASE Fail(p, "EFORK") /\ UNCHANGED <<procVars, lockVars>>
      BY <2>1, <1>2 DEF TypeOK, Fail, Goto, procVars
    <2>2. ASSUME NEW q \in Proc, pc[q] = "dead",
                 pc' = [pc EXCEPT ![p] = "idle", ![q] = next],
                 rc' = [rc EXCEPT ![p] = "PARENT"],
                 opt' = [opt EXCEPT ![q] = opt[p]],
                 elapsed' = [elapsed EXCEPT ![q] = elapsed[p]]
          PROVE  WaitOf(r)'
      <3>1. CASE r = q
        <4>1. WaitOf(p) /\ rc[q] = "none" /\ p # q
          BY <1>4, <2>2 DEF WaitInv, Shape, ShapeOf, Fork
        <4> QED
          BY <1>4, <2>2, <3>1, <4>1 DEF TypeOK
      <3>2. CASE r # q
        BY <1>4, <2>2, <3>2 DEF TypeOK
      <3> QED
        BY <3>1, <3>2
    <2> QED
      BY <1>4, <2>1, <2>2 DEF Fork
  <1>5. ASSUME NEW p \in Proc, Daemonize(p)
        PROVE  WaitOf(r)'
    <2>1. CASE FirstFork(p) \/ SecondFork(p)
      BY <2>1, <1>4 DEF FirstFork, SecondFork
    <2>2. CASE SetSid(p)
      BY <2>2, <1>2 DEF TypeOK, SetSid, Fail, Goto, procVars
    <2>3. CASE ChangeDir(p)
      BY <2>3, <1>2 DEF TypeOK, ChangeDir, Fail, Goto, procVars
    <2>4. CASE ResetDescriptors(p)
      BY <2>4, <1>2 DEF TypeOK, ResetDescriptors, Fail, Goto, procVars
    <2> QED
      BY <1>5, <2>1, <2>2, <2>3, <2>4 DEF Daemonize
  <1>6. ASSUME NEW p \in Proc, Lock(p)
        PROVE  WaitOf(r)'
    <2>1. CASE LockOpen(p)
      BY <2>1, <1>2 DEF TypeOK, LockOpen, Fail, Return, Goto, procVars
    <2>2. CASE LockAcquire(p)
      BY <2>2, <1>2 DEF TypeOK, LockAcquire, Goto, procVars
    <2>3. CASE LockGiveUp(p)
      <3>1. CASE Fail(p, "EIO") \/ Fail(p, "ELOCKED")
        BY <2>3, <3>1, <1>2 DEF TypeOK, LockGiveUp, Fail, Goto, procVars
      <3>2. CASE WaitedEnough(p) /\ Fail(p, "ETIMEDOUT")
        BY <2>3, <3>2 DEF TypeOK, LockGiveUp, WaitedEnough, Fail, Goto, procVars
      <3> QED
        BY <2>3, <3>1, <3>2 DEF LockGiveUp
    <2>4. CASE LockRetry(p)
      <3>1. rc[p] = "none" /\ pc[p] = "trylock"
        BY <2>4 DEF LockRetry, StartInv, StartOf, InStart
      <3> QED
        BY <2>4, <3>1 DEF TypeOK, LockRetry, WaitedEnough, Goto, procVars
    <2>5. CASE Nap(p)
      <3>1. CASE r = p
        <4>1. rc'[r] # "ETIMEDOUT" /\ pc[r] = "nap" /\ pc'[r] # "nap"
          BY <2>5, <3>1 DEF TypeOK, Nap, StartInv, StartOf, InStart, Goto
        <4> QED
          BY <2>5, <3>1, <4>1 DEF TypeOK, Nap
      <3>2. CASE r # p
        BY <2>5, <3>2 DEF TypeOK, Nap, Goto
      <3> QED
        BY <3>1, <3>2
    <2> QED
      BY <1>6, <2>1, <2>2, <2>3, <2>4, <2>5 DEF Lock
  <1>7. ASSUME NEW p \in Proc, WritePid(p) \/ StopClose(p) \/ StopUnlink(p)
        PROVE  WaitOf(r)'
    <2>1. CASE PidOpen(p)
      BY <2>1, <1>2 DEF TypeOK, PidOpen, PidFailure, Goto, procVars
    <2>2. CASE PidWrite(p)
      BY <2>2, <1>2 DEF TypeOK, PidWrite, Goto, procVars
    <2>3. CASE PidUnlink(p)
      BY <2>3, <1>2 DEF TypeOK, PidUnlink, PidFailure, Goto, procVars
    <2>4. CASE StopClose(p) \/ StopUnlink(p)
      BY <2>4, <1>2 DEF TypeOK, StopClose, StopUnlink, Goto, procVars
    <2> QED
      BY <1>7, <2>1, <2>2, <2>3, <2>4 DEF WritePid
  <1> QED
    BY <1>1, <1>3, <1>5, <1>6, <1>7 DEF Next, Library, vars

\* Nobody uses a PID file without the lock.
PidNeedsLock == \A o \in Options : o.pidPath = "path" => o.lockPath = "path"

\* What the PID file is to a process that has written it, or is about to: its own,
\* or gone.
PidOf(r) ==
  /\ IsRunning(r) /\ daemon[r].pidFileCreated => pidFile \in {r, NoFile}
  /\ pc[r] = "pidwrite" => pidFd[r] = "linked" \/ pidFile = NoFile

PidInv == PidNeedsLock => \A r \in Proc : PidOf(r)

\* Behind the lock of the PID file there is one process.
LEMMA PidWriterOwns ==
  ASSUME Inv, StartInv, PidNeedsLock, NEW p \in Proc,
         \/ pc[p] \in {"pidwrite", "pidunlink"}
         \/ pc[p] = "pidopen" /\ opt[p].pidPath = "path"
  PROVE  holder = p /\ \A q \in Proc \ {p} : ~daemon[q].ownsLock
  <1>1. opt[p] \in Options /\ opt[p].pidPath = "path"
    BY DEF StartInv, StartOf, InStart
  <1>2. daemon[p].ownsLock
    BY <1>1 DEF PidNeedsLock, StartInv, StartOf
  <1> QED
    BY <1>2 DEF Inv, LockInv, LockOf

\* Every action keeps PidInv: the name changes only under the lock or to nothing.
LEMMA PidStep == Inv /\ StartInv /\ PidInv /\ [Next]_vars => PidInv'
  <1> SUFFICES ASSUME Inv, StartInv, \A r \in Proc : PidOf(r), PidNeedsLock, [Next]_vars,
                      NEW r \in Proc
               PROVE  PidOf(r)'
    BY DEF PidInv, PidNeedsLock
  <1>0. /\ PidOf(r) /\ ShapeOf(r) /\ daemon[r] \in DaemonType /\ TypeOK
        /\ pc[r] \in {"pidwrite", "pidunlink"} => daemon[r].ownsLock
    <2>1. pc[r] \in {"pidwrite", "pidunlink"} => daemon[r].ownsLock
      BY DEF StartInv, StartOf, InStart, PidNeedsLock
    <2> QED
      BY <2>1 DEF Inv, Shape, TypeOK
  <1> USE <1>0 DEF PidOf, IsRunning, TypeOK
  <1>1. CASE UNCHANGED vars
    BY <1>1 DEF vars
  \* A step that writes no PID file, makes no object run and brings nobody to the write.
  <1>2. ASSUME UNCHANGED pidVars, pc'[r] = "pidwrite" => pc[r] = "pidwrite",
               daemon'[r].started => daemon[r].started,
               daemon'[r].ownsLock => daemon[r].ownsLock \/ ~daemon'[r].started,
               daemon'[r].pidFileCreated => daemon[r].pidFileCreated
        PROVE  PidOf(r)'
    BY <1>2 DEF pidVars
  <1>3. ASSUME NEW p \in Proc, Application(p)
        PROVE  PidOf(r)'
    <2>1. CASE Launch(p) \/ Stop(p)
      BY <2>1, <1>2 DEF Launch, Stop, Goto
    <2>2. CASE Die(p)
      BY <2>2 DEF Die, Goto, Fresh
    <2>3. ASSUME NEW o \in Options, Start(p, o)
          PROVE  PidOf(r)'
      BY <2>3, <1>2 DEF Start, Goto, Fresh
    <2> QED
      BY <1>3, <2>1, <2>2, <2>3 DEF Application
  <1>4. ASSUME NEW p \in Proc, NEW at, NEW next, Fork(p, at, next),
               at \in {"fork1", "fork2"}, next \in {"setsid", "chdir"}
        PROVE  PidOf(r)'
    <2>1. CASE Fail(p, "EFORK") /\ UNCHANGED <<procVars, lockVars>>
      <3>1. SameClaims(r)
        BY <2>1, FailClaims
      <3> QED
        BY <1>2, <1>4, <2>1, <3>1 DEF Fork, Fail, Goto, SameClaims
    <2>2. ASSUME NEW q \in Proc, pc[q] = "dead", pc[p] = at,
                 pc' = [pc EXCEPT ![p] = "idle", ![q] = next],
                 daemon' = [daemon EXCEPT ![q] = daemon[p]]
          PROVE  PidOf(r)'
      <3>1. ~daemon[p].started /\ ~daemon[p].ownsLock /\ ~daemon[p].pidFileCreated
        BY <1>4, <2>2 DEF Inv, Shape, ShapeOf, BeforeLock, InStart
      <3> QED
        BY <1>2, <1>4, <2>2, <3>1 DEF Fork
    <2> QED
      BY <1>4, <2>1, <2>2 DEF Fork
  <1>5. ASSUME NEW p \in Proc, Daemonize(p)
        PROVE  PidOf(r)'
    <2>1. CASE FirstFork(p) \/ SecondFork(p)
      BY <2>1, <1>4 DEF FirstFork, SecondFork
    <2>2. CASE SetSid(p) \/ ChangeDir(p) \/ ResetDescriptors(p)
      <3>1. SameClaims(r)
        BY <2>2, FailClaims DEF SetSid, ChangeDir, ResetDescriptors, SameClaims
      <3>2. UNCHANGED pidVars /\ (pc'[r] = "pidwrite" => pc[r] = "pidwrite")
        BY <2>2 DEF SetSid, ChangeDir, ResetDescriptors, Goto, Fail
      <3> QED
        BY <1>2, <3>1, <3>2 DEF SameClaims
    <2> QED
      BY <1>5, <2>1, <2>2 DEF Daemonize
  <1>6. ASSUME NEW p \in Proc, Lock(p)
        PROVE  PidOf(r)'
    <2>1. UNCHANGED pidVars /\ (pc'[r] = "pidwrite" => pc[r] = "pidwrite")
      BY <1>6 DEF Lock, LockOpen, LockAcquire, LockGiveUp, LockRetry, Nap, Goto, Fail, Return
    <2>2. CASE LockAcquire(p)
      BY <1>2, <2>1, <2>2 DEF LockAcquire, DaemonType, ShapeOf, InStart
    <2>3. CASE ~LockAcquire(p)
      <3>1. SameClaims(r)
        BY <1>6, <2>3, FailClaims DEF Lock, LockOpen, LockGiveUp, LockRetry, Nap, Return, SameClaims
      <3> QED
        BY <1>2, <2>1, <3>1 DEF SameClaims
    <2> QED
      BY <2>2, <2>3
  <1>7. ASSUME NEW p \in Proc, WritePid(p)
        PROVE  PidOf(r)'
    <2>1. CASE PidOpen(p)
      <3>1. CASE opt[p].pidPath = "null"
        BY <2>1, <3>1 DEF PidOpen, pidVars, Goto, DaemonType, ShapeOf, InStart
      <3>2. CASE PidFailure(p, "EINVAL") \/ PidFailure(p, "EPIDFILE")
        <4>1. SameClaims(r)
          BY <3>2, FailClaims
        <4>2. opt[p].pidPath # "null" /\ pc'[p] = "stopclose"
          BY <2>1, <3>2 DEF PidOpen, PidFailure, Goto
        <4>3. UNCHANGED pidVars /\ (pc'[r] = "pidwrite" => pc[r] = "pidwrite")
          BY <2>1, <3>2, <4>2 DEF PidOpen, PidFailure, Goto
        <4> QED
          BY <1>2, <4>1, <4>3 DEF SameClaims
      <3>3. CASE /\ opt[p].pidPath = "path" /\ Goto(p, "pidwrite")
                 /\ pidFd' = [pidFd EXCEPT ![p] = "linked"] /\ UNCHANGED daemon
        <4>1. \A q \in Proc \ {p} : ~daemon[q].ownsLock
          BY <2>1, <3>3, PidWriterOwns DEF PidOpen
        <4> QED
          BY <2>1, <3>3, <4>1 DEF PidOpen, Goto, ShapeOf, InStart
      <3> QED
        BY <2>1, <3>1, <3>2, <3>3 DEF PidOpen
    <2>2. CASE PidWrite(p)
      <3>1. \A q \in Proc \ {p} : ~daemon[q].ownsLock
        BY <2>2, PidWriterOwns DEF PidWrite
      <3>2. CASE r = p
        BY <2>2, <3>2 DEF PidWrite, Goto, ShapeOf, InStart, DaemonType
      <3>3. CASE r # p
        BY <2>2, <3>1, <3>3 DEF PidWrite, Goto
      <3> QED
        BY <3>2, <3>3
    <2>3. CASE PidUnlink(p)
      BY <2>3 DEF PidUnlink, UnlinkPidPath, PidFailure, Goto
    <2> QED
      BY <1>7, <2>1, <2>2, <2>3 DEF WritePid
  <1>8. ASSUME NEW p \in Proc, StopClose(p)
        PROVE  PidOf(r)'
    BY <1>2, <1>8 DEF StopClose, Goto, DaemonType
  <1>9. ASSUME NEW p \in Proc, StopUnlink(p)
        PROVE  PidOf(r)'
    <2>1. CASE daemon[p].pidFileCreated
      BY <1>9, <2>1 DEF StopUnlink, UnlinkPidPath, Goto
    <2>2. CASE ~daemon[p].pidFileCreated
      BY <1>2, <1>9, <2>2 DEF StopUnlink, Goto, DaemonType
    <2> QED
      BY <2>1, <2>2
  <1> QED
    BY <1>1, <1>3, <1>5, <1>6, <1>7, <1>8, <1>9 DEF Next, Library

\* The whole invariant holds in every reachable state.
LEMMA WholeInvariance == Spec => [](Inv /\ StartInv /\ WaitInv /\ PidInv)
  <1>1. Init => StartInv /\ WaitInv /\ PidInv
    <2> SUFFICES ASSUME Init
                 PROVE  StartInv /\ WaitInv /\ PidInv
      OBVIOUS
    <2> USE DEF Init, Fresh
    <2>1. StartInv
      BY DEF StartInv, StartOf, InStart
    <2>2. WaitInv
      BY DEF WaitInv, WaitOf, DefaultOptions, NapMs
    <2>3. PidInv
      BY DEF PidInv, PidOf, IsRunning
    <2> QED
      BY <2>1, <2>2, <2>3
  <1>2. Inv /\ StartInv /\ WaitInv /\ PidInv /\ [Next]_vars => StartInv' /\ WaitInv' /\ PidInv'
    BY StartStep, WaitStep, PidStep
  <1> QED
    BY Invariance, <1>1, <1>2, PTL DEF Spec

\* The lock belongs to the process that daemonizing leaves, and never to one that was
\* told that it is the parent, whatever fails or dies on the way.
THEOREM LockIsTheDaemons == Spec => []LockBelongsToDaemon
  <1>1. StartInv => LockBelongsToDaemon
    BY DEF StartInv, StartOf, LockBelongsToDaemon, Owners
  <1> QED
    BY WholeInvariance, <1>1, PTL

\* A wait for the lock fails no earlier than the timeout and sleeps no nap past it,
\* for every timeout, however the others take and release the lock meanwhile.
THEOREM TimeoutIsHonoured == Spec => []TimeoutHonoured
  <1>1. WaitInv => TimeoutHonoured
    BY DEF WaitInv, WaitOf, TimeoutHonoured
  <1> QED
    BY WholeInvariance, <1>1, PTL

\* The PID file of a running singleton never names another process and is never
\* half written, as long as every start that uses it takes the lock.
THEOREM PidFileIsOnes == Spec => []PidFileNeverForeign
  <1>1. PidInv => PidFileNeverForeign
    BY DEF PidInv, PidNeedsLock, PidOf, PidFileNeverForeign
  <1> QED
    BY WholeInvariance, <1>1, PTL

\* The PID file of a running singleton is lost to a predecessor's late unlink() only.
THEOREM PidFileLostToPredecessor == Spec => PidFileLostLate
  <1>1. Inv /\ StartInv /\ [Next]_vars => LostLate
    <2> SUFFICES ASSUME Inv, StartInv, [Next]_vars, NEW p \in Proc, PidNeedsLock,
                        IsRunning(p), pidFile = p, pidFile' # p
                 PROVE  \E q \in Proc \ {p} : /\ pc[q] = "stopunlink"
                                              /\ daemon[q].pidFileCreated
                                              /\ holder # q
      BY DEF LostLate, PidNeedsLock
    <2>1. PICK q \in Proc : PidOpen(q) \/ PidWrite(q) \/ PidUnlink(q) \/ StopUnlink(q)
      BY DEF Next, Library, Application, Daemonize, Lock, WritePid, vars, pidVars,
             Launch, Die, Start, Stop, FirstFork, SecondFork, Fork, SetSid, ChangeDir,
             ResetDescriptors, LockOpen, LockAcquire, LockGiveUp, LockRetry, Nap, StopClose
    <2>2. holder = p /\ daemon[p].ownsLock /\ daemon[p].started
      BY DEF Inv, LockInv, LockOf, IsRunning
    <2>3. CASE StopUnlink(q)
      <3>1. pc[q] = "stopunlink" /\ daemon[q].pidFileCreated
        BY <2>3 DEF StopUnlink, pidVars
      <3>2. q # p
        BY <2>2, <3>1 DEF Inv, Shape, ShapeOf
      <3> QED
        BY <2>2, <3>1, <3>2
    <2>4. CASE PidOpen(q) \/ PidWrite(q) \/ PidUnlink(q)
      <3>1. \/ pc[q] \in {"pidwrite", "pidunlink"}
            \/ pc[q] = "pidopen" /\ opt[q].pidPath = "path"
        BY <2>4 DEF PidOpen, PidWrite, PidUnlink, pidVars
      <3>2. p = q
        BY <2>2, <3>1, PidWriterOwns
      <3> QED
        BY <2>2, <3>1, <3>2 DEF Inv, Shape, ShapeOf, InStart
    <2> QED
      BY <2>1, <2>3, <2>4
  <1>2. Spec => [](Inv /\ StartInv) /\ [][Next]_vars
    BY WholeInvariance, PTL DEF Spec
  <1> QED
    BY <1>1, <1>2, PTL DEF PidFileLostLate
=============================================================================
