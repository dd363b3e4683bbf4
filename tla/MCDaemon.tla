------------------------------ MODULE MCDaemon ------------------------------
(* Instances of Daemon for TLC. *)
EXTENDS Daemon, TLC

CONSTANTS p1, p2, p3

Locked(timeout) ==
  [DefaultOptions EXCEPT !.lockPath = "path", !.pidPath = "path",
                         !.lockTimeoutMs = timeout]

\* A start that fails at once when the lock is taken, one that waits 20 ms (two
\* naps) and one that waits for ever.
PlainOptions == {Locked(0), Locked(20), Locked(Forever)}

\* A start that becomes a daemon first and uses no PID file, beside starts with
\* unusable paths.
DaemonOptions ==
  {[Locked(0) EXCEPT !.daemonize = TRUE, !.workingDirectory = TRUE, !.pidPath = "null"],
   [Locked(0) EXCEPT !.lockPath = "empty"],
   [Locked(0) EXCEPT !.lockPath = "null", !.pidPath = "empty", !.daemonize = TRUE,
                     !.closeFds = FALSE]}

Symmetry == Permutations(Proc)
=============================================================================
