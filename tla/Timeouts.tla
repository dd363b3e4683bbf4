------------------------------ MODULE Timeouts ------------------------------
(***************************************************************************)
(* How the Windows code turns an absolute deadline into the milliseconds   *)
(* that a wait takes: pf_thrd_timeout_ms() of pf_threads.h, behind         *)
(* mtx_timedlock() and cnd_timedwait(), and pf__sem_timeout() of           *)
(* pf_semaphore.h, behind sem_timedwait().  A caller keeps its deadline    *)
(* and calls again, after a spurious wake or a refusal, as time passes.    *)
(* Both compute in 64 bits, and a deadline that is far enough wraps; the   *)
(* clock does not.  Deadlines and clocks are not before 1970.              *)
(***************************************************************************)
EXTENDS Integers

CONSTANTS
  Times,      \* deadlines that occur
  Clocks,     \* times of day that occur
  Infinite,   \* INFINITE, 2^32 - 1 in the code: the wait without a limit
  LongLimit,  \* 2^63 in the code: one more than the largest LONGLONG
  TickLimit   \* 2^64 in the code: one more than the largest uint64_t

Timespec == {ts \in [sec : Nat, nsec : Nat] : ts.nsec < 1000000000}

\* Hundreds of nanoseconds since 1970, the unit of a FILETIME.
ExactTicks(ts) == ts.sec * 10000000 + ts.nsec \div 100

ASSUME TimeoutConstantsOK ==
  /\ Times \subseteq Timespec
  /\ Clocks \subseteq Timespec
  /\ Infinite \in Nat \ {0}
  /\ LongLimit \in Nat \ {0}
  /\ TickLimit \in Nat \ {0}
  /\ \A ts \in Clocks : ts.sec * 1000 + 1000 <= LongLimit /\ ExactTicks(ts) < TickLimit

VARIABLES
  deadline,  \* what the caller asks for
  now        \* what the clock says

\* Division of C: the quotient is truncated towards zero.
TruncDiv(a, b) == IF a >= 0 THEN a \div b ELSE -((-a) \div b)

\* What a LONGLONG keeps of a number.  The overflow is undefined in C; the compilers
\* of Windows wrap.
LongLong(v) == ((v + LongLimit) % (2 * LongLimit)) - LongLimit

\* The milliseconds from one time to another, the nanoseconds truncated.
Milliseconds(abs, at) ==
  (abs.sec - at.sec) * 1000 + TruncDiv(abs.nsec - at.nsec, 1000000)

\* Mutant of ThrdTimeout: no cap.
ThrdUncapped(abs, at) ==
  LET diff == LongLong(Milliseconds(abs, at))
  IN  IF diff <= 0 THEN 0 ELSE diff

\* Mutant of ThrdTimeout: the nanoseconds are taken for microseconds.
ThrdWrongUnit(abs, at) ==
  LET diff == LongLong((abs.sec - at.sec) * 1000 + TruncDiv(abs.nsec - at.nsec, 1000))
  IN  IF diff <= 0 THEN 0
      ELSE IF diff > Infinite - 1 THEN Infinite - 1
      ELSE diff

\* Mutant of ThrdTimeout: the sign of the difference is lost.
ThrdUnsigned(abs, at) ==
  LET apart == IF abs.nsec >= at.nsec THEN abs.nsec - at.nsec ELSE at.nsec - abs.nsec
      diff == LongLong((abs.sec - at.sec) * 1000 + apart \div 1000000)
  IN  IF diff <= 0 THEN 0
      ELSE IF diff > Infinite - 1 THEN Infinite - 1
      ELSE diff

\* pf_thrd_timeout_ms()
ThrdTimeout(abs, at) ==
  LET diff == LongLong(Milliseconds(abs, at))
  IN  IF diff <= 0 THEN 0
      ELSE IF diff > Infinite - 1 THEN Infinite - 1
      ELSE diff

\* A timespec in ticks, in a uint64_t.
Ticks(ts) == ExactTicks(ts) % TickLimit

\* Mutant of SemTimeout: the milliseconds are rounded up.
SemRoundedUp(abs, at) ==
  LET delta == Ticks(abs) - Ticks(at)
      ms == (delta + 9999) \div 10000
  IN  IF delta <= 0 THEN 0
      ELSE IF ms >= Infinite THEN Infinite - 1
      ELSE ms

\* pf__sem_timeout()
SemTimeout(abs, at) ==
  LET delta == Ticks(abs) - Ticks(at)
      ms == delta \div 10000
  IN  IF delta <= 0 THEN 0
      ELSE IF ms >= Infinite THEN Infinite - 1
      ELSE ms

-----------------------------------------------------------------------------
Earlier(a, b) == a.sec < b.sec \/ (a.sec = b.sec /\ a.nsec <= b.nsec)

Init == deadline \in Times /\ now \in Clocks

\* Time passes, and the caller waits again for the same deadline.
Retry ==
  /\ now' \in {t \in Clocks : Earlier(now, t)}
  /\ UNCHANGED deadline

Next == Retry

tvars == <<deadline, now>>
Spec == Init /\ [][Next]_tvars

-----------------------------------------------------------------------------
\* No deadline, however far, becomes the wait that never ends.
NeverForever ==
  /\ ThrdTimeout(deadline, now) \in 0 .. Infinite - 1
  /\ SemTimeout(deadline, now) \in 0 .. Infinite - 1

\* The difference that pf_thrd_timeout_ms() computes fits a LONGLONG.
InReach == Milliseconds(deadline, now) < LongLimit

\* A thread's wait never ends a millisecond or more after its deadline, however far
\* that is.  Nor does it end a millisecond or more before it, unless it is too long
\* for one wait or the product of pf_threads.h:304 wraps: then nothing is said of how
\* early it ends, and it may be at once.
ThrdWithinAMillisecond ==
  LET ms == ThrdTimeout(deadline, now)
      secs == deadline.sec - now.sec
      nsecs == deadline.nsec - now.nsec
      down == secs * 1000 + nsecs \div 1000000
      up == secs * 1000 - ((-nsecs) \div 1000000)
  IN  /\ ms = 0 \/ ms <= up
      /\ InReach => down <= ms \/ ms = Infinite - 1

\* A wait for a semaphore never lasts past its deadline, however far that is, and
\* gives up less than a millisecond before it, unless it is too long for one wait or
\* the product of pf_semaphore.h:327 wraps: then it may give up ages before.
SemNeverLate ==
  LET ms == SemTimeout(deadline, now)
      remaining == ExactTicks(deadline) - ExactTicks(now)
  IN  /\ ms = 0 \/ ms * 10000 <= remaining
      /\ ExactTicks(deadline) < TickLimit => remaining < (ms + 1) * 10000 \/ ms = Infinite - 1

\* A caller that waits again for the same deadline never waits longer than it would
\* have before; a thread only if its deadline is in reach.
RetryNeverLonger ==
  [][/\ InReach => ThrdTimeout(deadline, now)' <= ThrdTimeout(deadline, now)
     /\ SemTimeout(deadline, now)' <= SemTimeout(deadline, now)]_tvars
=============================================================================
