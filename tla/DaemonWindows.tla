--------------------------- MODULE DaemonWindows ---------------------------
(* pf_daemon_start() and pf_daemon_stop() on Windows: the singleton lock is a named mutex, which belongs
   to a thread of the process, and its object lives as long as a handle to it: with the last one it is
   gone, whoever owned it, and the name then stands for a fresh, free mutex.  The paths that refuse a name
   before any call is made are one choice of Start.  Kernel objects and files are external. *)
EXTENDS Naturals, FiniteSets

CONSTANTS Processes,
          Threaded,    \* those with a second thread that starts and stops the daemon
          MaxHandles,  \* bound: handles a process has open, those a second start forgot among them
          MaxDepth     \* bound: times a thread takes the mutex, by starting again

Workers == {"main", "worker"}     \* main lives as long as its process
NoOwner == <<"nobody", "none">>
NoFile == "none"

VARIABLES handles,    \* per process: handles to the mutex
          holder,     \* the thread that owns the mutex: <<process, thread>>
          depth,      \* how often it took it
          ownsLock,   \* per process: daemon->ownsLock, set and cleared with daemon->mutex
          created,    \* per process: daemon->pidFileCreated
          took,       \* per process that owns the lock: the thread that took it
          call,       \* per process: where in a start or stop it is, in which thread, lockTimeoutMs
          workers,    \* the worker threads that have not ended: processes
          pid         \* the PID file: its content, a process or "empty" or "none", and who has it open

lockvars == <<handles, holder, depth, ownsLock, took>>
filevars == <<created, pid>>
wvars == <<lockvars, filevars, call, workers>>

Idle == [place |-> "idle", thread |-> "main", wait |-> "zero"]

WindowsInit ==
  /\ handles = [p \in Processes |-> 0]
  /\ holder = NoOwner /\ depth = 0
  /\ ownsLock = [p \in Processes |-> FALSE]
  /\ created = [p \in Processes |-> FALSE]
  /\ took = [p \in Processes |-> "main"]
  /\ call = [p \in Processes |-> Idle]
  /\ workers = Threaded
  /\ pid = [content |-> NoFile, opener |-> NoFile]

Exists == \E p \in Processes : handles[p] > 0
At(p, place) == call[p].place = place
Me(p) == <<p, call[p].thread>>
Goto(p, place) ==
  call' = [call EXCEPT ![p] = IF place = "idle" THEN Idle ELSE [@ EXCEPT !.place = place]]

(* What is left of the mutex when these handles are, and this owner, so many times, if there still is one. *)
Remain(rest, owner, times) ==
  /\ handles' = rest
  /\ IF \A q \in Processes : rest[q] = 0 THEN holder' = NoOwner /\ depth' = 0
     ELSE holder' = owner /\ depth' = times
CloseHandle(p, owner, times) == Remain([handles EXCEPT ![p] = @ - 1], owner, times)

-----------------------------------------------------------------------------
(* pf_daemon_start(): pf_daemon_init() forgets what the object held.  The working directory or the
   name may be refused; there may be no lock to take. *)
Start(p, t, wait) ==
  /\ At(p, "idle") /\ (t = "worker" => p \in workers)
  /\ ownsLock' = [ownsLock EXCEPT ![p] = FALSE]
  /\ created' = [created EXCEPT ![p] = FALSE]
  /\ took' = [took EXCEPT ![p] = "main"]
  /\ \/ UNCHANGED call                                            \* refused
     \/ \E place \in {"create", "pid"} :                         \* with a lock, without
          call' = [call EXCEPT ![p] = [place |-> place, thread |-> t,
                                          wait |-> IF place = "create" THEN wait ELSE "zero"]]
  /\ UNCHANGED <<handles, holder, depth, workers, pid>>

(* CreateMutexW(): a mutex that exists counts as locked for the timeout 0. *)
CreateMutex(p) ==
  /\ At(p, "create") /\ handles[p] < MaxHandles
  /\ handles' = [handles EXCEPT ![p] = @ + 1]
  /\ call' = [call EXCEPT ![p].place = IF Exists /\ call[p].wait = "zero" THEN "refuse" ELSE "wait",
                          ![p].wait = "zero"]
  /\ UNCHANGED <<holder, depth, ownsLock, took, filevars, workers>>

CreateFails(p) ==
  /\ At(p, "create")
  /\ Goto(p, "idle")
  /\ UNCHANGED <<lockvars, filevars, workers>>

Refuse(p) ==
  /\ At(p, "refuse")
  /\ CloseHandle(p, holder, depth)
  /\ Goto(p, "idle")
  /\ UNCHANGED <<ownsLock, took, filevars, workers>>

(* A mutex whose owner ended is abandoned, and free; one of the caller's own is taken once more. *)
ObtainableAlways(p) == TRUE
Obtainable(p) == holder \in {NoOwner, Me(p)}

Acquire(p) ==
  /\ At(p, "wait") /\ Obtainable(p) /\ depth < MaxDepth
  /\ holder' = Me(p) /\ depth' = depth + 1
  /\ ownsLock' = [ownsLock EXCEPT ![p] = TRUE]
  /\ took' = [took EXCEPT ![p] = call[p].thread]
  /\ Goto(p, "pid")
  /\ UNCHANGED <<handles, filevars, workers>>

(* WAIT_TIMEOUT, or the wait fails, which ends one without a timeout too. *)
GiveUp(p) ==
  /\ At(p, "wait")
  /\ CloseHandle(p, holder, depth)
  /\ Goto(p, "idle")
  /\ UNCHANGED <<ownsLock, took, filevars, workers>>

(* pf_daemon_write_pid_file(): CREATE_ALWAYS empties the file of anyone who has not got it open. *)
NoPidFile(p) ==
  /\ At(p, "pid")
  /\ Goto(p, "idle")
  /\ UNCHANGED <<lockvars, filevars, workers>>

OpenPid(p) ==
  /\ At(p, "pid")
  /\ \/ pid.opener = NoFile /\ pid' = [content |-> "empty", opener |-> p] /\ Goto(p, "write")
     \/ Goto(p, "stop") /\ UNCHANGED pid                          \* open elsewhere, or it fails
  /\ UNCHANGED <<lockvars, created, workers>>

WritePid(p) ==
  /\ At(p, "write")
  /\ \/ /\ pid' = [content |-> p, opener |-> NoFile]
        /\ created' = [created EXCEPT ![p] = TRUE]
        /\ Goto(p, "idle")
     \/ /\ pid' = [content |-> NoFile, opener |-> NoFile]
        /\ Goto(p, "stop")
        /\ UNCHANGED created
  /\ UNCHANGED <<lockvars, workers>>

-----------------------------------------------------------------------------
(* pf_daemon_stop(), called by the program or by a start without its PID file: the mutex first. *)
Stop(p, t) ==
  /\ At(p, "idle") /\ (t = "worker" => p \in workers)
  /\ call' = [call EXCEPT ![p] = [place |-> "stop", thread |-> t, wait |-> "zero"]]
  /\ UNCHANGED <<lockvars, filevars, workers>>

(* ReleaseMutex() does nothing for a thread that does not own the mutex. *)
StopLock(p) ==
  /\ At(p, "stop")
  /\ Goto(p, "unlink")
  /\ IF ownsLock[p]
     THEN /\ IF holder = Me(p)
             THEN CloseHandle(p, IF depth = 1 THEN NoOwner ELSE holder, depth - 1)
             ELSE CloseHandle(p, holder, depth)
          /\ ownsLock' = [ownsLock EXCEPT ![p] = FALSE]
          /\ took' = [took EXCEPT ![p] = "main"]
     ELSE UNCHANGED <<depth, holder, handles, ownsLock, took>>
  /\ UNCHANGED <<filevars, workers>>

(* DeleteFileW() fails while somebody has the file open, and asks nobody whose file it is. *)
StopUnlink(p) ==
  /\ At(p, "unlink")
  /\ pid' = IF created[p] /\ pid.opener = NoFile THEN [pid EXCEPT !.content = NoFile] ELSE pid
  /\ created' = [created EXCEPT ![p] = FALSE]
  /\ Goto(p, "idle")
  /\ UNCHANGED <<lockvars, workers>>

-----------------------------------------------------------------------------
(* The worker thread ends with its function, its process goes on. *)
WorkerEnds(p) ==
  /\ p \in workers /\ call[p].thread = "main"
  /\ workers' = workers \ {p}
  /\ IF holder = <<p, "worker">> THEN holder' = NoOwner /\ depth' = 0 ELSE UNCHANGED <<holder, depth>>
  /\ UNCHANGED <<handles, ownsLock, took, filevars, call>>

(* The process dies anywhere; a new one may take its place. *)
Die(p) ==
  /\ LET rest == [handles EXCEPT ![p] = 0]
     IN  IF holder \in {p} \X Workers THEN Remain(rest, NoOwner, 0) ELSE Remain(rest, holder, depth)
  /\ ownsLock' = [ownsLock EXCEPT ![p] = FALSE]
  /\ created' = [created EXCEPT ![p] = FALSE]
  /\ pid' = IF pid.opener = p THEN [pid EXCEPT !.opener = NoFile] ELSE pid
  /\ took' = [took EXCEPT ![p] = "main"]
  /\ workers' = workers \cup ({p} \cap Threaded)
  /\ Goto(p, "idle")

WindowsNext ==
  \E p \in Processes :
    \/ \E t \in Workers, wait \in {"zero", "positive"} : Start(p, t, wait)
    \/ CreateMutex(p) \/ CreateFails(p) \/ Refuse(p) \/ Acquire(p) \/ GiveUp(p)
    \/ NoPidFile(p) \/ OpenPid(p) \/ WritePid(p)
    \/ \E t \in Workers : Stop(p, t)
    \/ StopLock(p) \/ StopUnlink(p)
    \/ WorkerEnds(p) \/ Die(p)

WindowsSpec == WindowsInit /\ [][WindowsNext]_wvars

-----------------------------------------------------------------------------
(* The processes that own the lock and whose thread that took it has not ended: the mutex knows threads
   only, so a process keeps ownsLock after the thread that started it is gone and another has the lock. *)
LockOwners == {p \in Processes : ownsLock[p] /\ (took[p] = "worker" => p \in workers)}
OneOwner == INSTANCE Singleton WITH Proc <- Processes, owners <- LockOwners

(* Through every order of starts, stops from either thread, deaths and waits, the named mutex gives what
   the lock file gives on POSIX: at most one process owns the lock, and it changes hands through nobody. *)
WindowsImplementsSingleton == OneOwner!Spec
=============================================================================
