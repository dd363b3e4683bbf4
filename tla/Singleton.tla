------------------------------ MODULE Singleton ------------------------------
(***************************************************************************)
(* What the singleton lock of pf_daemon.h promises its callers, with no    *)
(* lock file, no descriptor and no polling: the processes that own the     *)
(* lock are a set with at most one member.                                 *)
(***************************************************************************)
CONSTANT Proc

VARIABLE owners

Init == owners = {}

Acquire(p) ==
  /\ owners = {}
  /\ owners' = {p}

\* By pf_daemon_stop(), by a new pf_daemon_start(), or by dying.
Release(p) ==
  /\ owners = {p}
  /\ owners' = {}

Next == \E p \in Proc : Acquire(p) \/ Release(p)

Spec == Init /\ [][Next]_owners
=============================================================================
