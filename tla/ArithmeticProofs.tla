-------------------------- MODULE ArithmeticProofs --------------------------
(* Proofs about the arithmetic of the library, for every value of its constants: the waits that deadlines
   are turned into, from what truncating division does, the checked arithmetic of pf_overflow.h, the
   classes of characters, the order of bytes, the bit operations and the ids of types. *)
EXTENDS Timeouts, PureFunctions, Induction, SequenceTheorems, FiniteSetTheorems, TLAPS

\* The deadline is a timespec, and the clock one that does not wrap.
Typed == deadline \in Timespec /\ now \in Clocks

\* Division rounds down by less than the divisor.
LEMMA DivBounds ==
  ASSUME NEW a \in Nat, NEW b \in Nat \ {0}
  PROVE  /\ a \div b \in Nat
         /\ b * (a \div b) <= a
         /\ a < b * (a \div b) + b
OBVIOUS

\* Truncated division rounds towards zero by less than the divisor.
LEMMA TruncBounds ==
  ASSUME NEW a \in Int
  PROVE  /\ TruncDiv(a, 1000000) \in Int
         /\ a - 1000000 * TruncDiv(a, 1000000) < 1000000
         /\ a - 1000000 * TruncDiv(a, 1000000) > -1000000
         /\ a >= 0 => TruncDiv(a, 1000000) >= 0 /\ 1000000 * TruncDiv(a, 1000000) <= a
         /\ a <= 0 => TruncDiv(a, 1000000) <= 0 /\ 1000000 * TruncDiv(a, 1000000) >= a
<1>1. CASE a >= 0
  <2>1. a \in Nat /\ TruncDiv(a, 1000000) = a \div 1000000
    BY <1>1 DEF TruncDiv
  <2>2. QED BY <1>1, <2>1, DivBounds
<1>2. CASE a < 0
  <2>1. -a \in Nat /\ TruncDiv(a, 1000000) = -((-a) \div 1000000)
    BY <1>2 DEF TruncDiv
  <2>2. /\ (-a) \div 1000000 \in Nat
        /\ 1000000 * ((-a) \div 1000000) <= -a
        /\ -a < 1000000 * ((-a) \div 1000000) + 1000000
    BY <2>1, DivBounds
  <2>3. QED BY <1>2, <2>1, <2>2
<1>3. QED BY <1>1, <1>2

\* Truncated division is monotonic.
LEMMA TruncMonotone ==
  ASSUME NEW a \in Int, NEW b \in Int, a <= b
  PROVE  TruncDiv(a, 1000000) <= TruncDiv(b, 1000000)
<1> DEFINE x == TruncDiv(a, 1000000)
           y == TruncDiv(b, 1000000)
<1>1. /\ x \in Int /\ a - 1000000 * x > -1000000
      /\ a >= 0 => x >= 0 /\ 1000000 * x <= a
      /\ a <= 0 => x <= 0
  BY TruncBounds
<1>2. /\ y \in Int /\ b - 1000000 * y < 1000000
      /\ b >= 0 => y >= 0
      /\ b <= 0 => y <= 0 /\ 1000000 * y >= b
  BY TruncBounds
<1> HIDE DEF x, y
<1>3. x <= y
  BY <1>1, <1>2
<1>4. QED BY <1>3 DEF x, y

(* The remainder of a number in range is the number; no remainder is greater than its number. *)
LEMMA SmallRemainder ==
  ASSUME NEW m \in Nat \ {0}, NEW x \in 0 .. m - 1
  PROVE  x % m = x
  OBVIOUS

LEMMA RemainderBounds ==
  ASSUME NEW m \in Nat \ {0}, NEW x \in Int
  PROVE  x % m \in 0 .. m - 1 /\ (x >= 0 => x % m <= x)
<1>1. x % m \in 0 .. m - 1
  OBVIOUS
<1>2. ASSUME x >= 0 PROVE x % m <= x
  <2>1. CASE x < m
    BY <1>2, <2>1, SmallRemainder
  <2>2. CASE x >= m
    BY <1>1, <2>2
  <2>3. QED BY <2>1, <2>2
<1>3. QED BY <1>1, <1>2

\* A timespec is a whole number of ticks, of a later one there are no fewer, and a
\* uint64_t holds no more of them; it holds all ticks of a clock.
LEMMA TicksOrdered ==
  /\ \A a \in Timespec : /\ ExactTicks(a) \in Nat /\ Ticks(a) \in Nat
                         /\ Ticks(a) <= ExactTicks(a)
                         /\ ExactTicks(a) < TickLimit => Ticks(a) = ExactTicks(a)
  /\ \A a \in Clocks : a \in Timespec /\ Ticks(a) = ExactTicks(a)
  /\ \A a, b \in Timespec : Earlier(a, b) => ExactTicks(a) <= ExactTicks(b)
<1>1. ASSUME NEW a \in Timespec
      PROVE  /\ a.sec \in Nat /\ a.nsec \in Nat /\ a.nsec < 1000000000
             /\ a.nsec \div 100 \in Nat
             /\ 100 * (a.nsec \div 100) <= a.nsec
             /\ a.nsec < 100 * (a.nsec \div 100) + 100
  BY DivBounds DEF Timespec
<1>2. ASSUME NEW a \in Timespec
      PROVE  /\ ExactTicks(a) \in Nat /\ Ticks(a) \in Nat
             /\ Ticks(a) <= ExactTicks(a)
             /\ ExactTicks(a) < TickLimit => Ticks(a) = ExactTicks(a)
  <2>1. ExactTicks(a) \in Nat /\ TickLimit \in Nat \ {0}
    BY <1>1, TimeoutConstantsOK DEF ExactTicks
  <2>2. QED BY <2>1, SmallRemainder, RemainderBounds DEF Ticks
<1>3. \A a \in Clocks : a \in Timespec /\ Ticks(a) = ExactTicks(a)
  BY <1>2, TimeoutConstantsOK
<1>4. ASSUME NEW a \in Timespec, NEW b \in Timespec, Earlier(a, b)
      PROVE  ExactTicks(a) <= ExactTicks(b)
  <2>1. a.sec < b.sec \/ (a.sec = b.sec /\ a.nsec <= b.nsec)
    BY <1>4 DEF Earlier
  <2>2. QED BY <1>1, <2>1 DEF ExactTicks
<1>5. QED BY <1>2, <1>3, <1>4

\* A LONGLONG keeps no more of the milliseconds to a deadline than there are, and all
\* of them if the deadline is in reach: the clock is too early for the other end.
LEMMA MillisecondsKept ==
  ASSUME NEW abs \in Timespec, NEW at \in Clocks
  PROVE  LET v == Milliseconds(abs, at)
         IN  /\ v \in Int /\ LongLong(v) \in Int
             /\ LongLong(v) <= v
             /\ v < LongLimit => LongLong(v) = v
<1> DEFINE v == Milliseconds(abs, at)
           t == TruncDiv(abs.nsec - at.nsec, 1000000)
           m == 2 * LongLimit
<1>1. /\ LongLimit \in Nat \ {0} /\ m \in Nat \ {0}
      /\ at \in Timespec /\ at.sec * 1000 + 1000 <= LongLimit
  BY TimeoutConstantsOK
<1>2. /\ abs.sec \in Nat /\ at.sec \in Nat
      /\ abs.nsec - at.nsec \in Int /\ abs.nsec - at.nsec > -1000000000
  BY <1>1 DEF Timespec
<1>3. t \in Int /\ t > -1000
  BY <1>2, TruncBounds
<1>4. v \in Int /\ v + LongLimit >= 0
  <2> HIDE DEF t
  <2>1. v = (abs.sec - at.sec) * 1000 + t
    BY DEF t, Milliseconds
  <2>2. QED BY <1>1, <1>2, <1>3, <2>1
<1>5. LongLong(v) = ((v + LongLimit) % m) - LongLimit
  BY DEF LongLong
<1> HIDE DEF v, m
<1>6. /\ (v + LongLimit) % m \in 0 .. m - 1
      /\ (v + LongLimit) % m <= v + LongLimit
      /\ v + LongLimit < m => (v + LongLimit) % m = v + LongLimit
  <2> DEFINE x == v + LongLimit
  <2>1. x \in Int /\ x >= 0 /\ m \in Nat \ {0}
    BY <1>1, <1>4 DEF m
  <2> HIDE DEF x
  <2>2. x % m \in 0 .. m - 1 /\ x % m <= x
    BY <2>1, RemainderBounds
  <2>3. x < m => x % m = x
    BY <2>1, SmallRemainder
  <2>4. QED BY <2>2, <2>3 DEF x
<1>7. v < LongLimit => v + LongLimit < m
  BY <1>1, <1>4 DEF m
<1>8. LongLong(v) \in Int /\ LongLong(v) <= v /\ (v < LongLimit => LongLong(v) = v)
  BY <1>1, <1>4, <1>5, <1>6, <1>7
<1>9. QED BY <1>4, <1>8 DEF v

-----------------------------------------------------------------------------
\* The types are inductive.
LEMMA TypedInvariant == Spec => []Typed
<1>1. Init => Typed
  BY TimeoutConstantsOK DEF Init, Typed
<1>2. Typed /\ [Next]_tvars => Typed'
  BY DEF Typed, Next, Retry, tvars
<1>3. QED BY <1>1, <1>2, PTL DEF Spec

\* No finite deadline becomes INFINITE, in either conversion.
THEOREM NoWaitIsForever == Spec => []NeverForever
<1>1. Typed => NeverForever
  <2> SUFFICES ASSUME Typed PROVE NeverForever
    OBVIOUS
  <2>1. Infinite \in Nat \ {0}
    BY TimeoutConstantsOK
  <2>2. ThrdTimeout(deadline, now) \in 0 .. Infinite - 1
    <3>1. LongLong(Milliseconds(deadline, now)) \in Int
      BY MillisecondsKept DEF Typed
    <3>2. QED BY <2>1, <3>1 DEF ThrdTimeout
  <2>3. SemTimeout(deadline, now) \in 0 .. Infinite - 1
    <3>1. Ticks(deadline) \in Nat /\ Ticks(now) \in Nat
      BY TicksOrdered DEF Typed
    <3>2. CASE Ticks(deadline) - Ticks(now) <= 0
      BY <2>1, <3>2 DEF SemTimeout
    <3>3. CASE Ticks(deadline) - Ticks(now) > 0
      <4>1. (Ticks(deadline) - Ticks(now)) \div 10000 \in Nat
        BY <3>1, <3>3, DivBounds
      <4>2. QED BY <2>1, <3>1, <3>3, <4>1 DEF SemTimeout
    <3>4. QED BY <3>1, <3>2, <3>3
  <2>4. QED BY <2>2, <2>3 DEF NeverForever
<1>2. QED BY TypedInvariant, <1>1, PTL

\* A wait for a semaphore never lasts past its deadline, however far that is, and ends less
\* than a millisecond before it if the deadline does not wrap (pf_semaphore.h:327) and is not too far for one wait.
THEOREM SemaphoreNeverLate == Spec => []SemNeverLate
<1>1. Typed => SemNeverLate
  <2> SUFFICES ASSUME Typed PROVE SemNeverLate
    OBVIOUS
  <2> DEFINE ahead == Ticks(deadline) - Ticks(now)
             apart == ExactTicks(deadline) - ExactTicks(now)
             ms == SemTimeout(deadline, now)
  <2>1. /\ Infinite \in Nat \ {0} /\ ahead \in Int /\ apart \in Int
        /\ ahead <= apart
        /\ ExactTicks(deadline) < TickLimit => ahead = apart
    BY TimeoutConstantsOK, TicksOrdered DEF Typed
  <2>2. ms = IF ahead <= 0 THEN 0
             ELSE IF ahead \div 10000 >= Infinite THEN Infinite - 1 ELSE ahead \div 10000
    BY DEF SemTimeout
  <2>3. ahead > 0 => /\ ahead \div 10000 \in Nat
                     /\ 10000 * (ahead \div 10000) <= ahead
                     /\ ahead < 10000 * (ahead \div 10000) + 10000
    BY <2>1, DivBounds
  <2> HIDE DEF ahead, apart, ms
  <2>4. /\ ms = 0 \/ ms * 10000 <= apart
        /\ ExactTicks(deadline) < TickLimit => apart < (ms + 1) * 10000 \/ ms = Infinite - 1
    BY <2>1, <2>2, <2>3
  <2>5. QED BY <2>4 DEF SemNeverLate, apart, ms
<1>2. QED BY TypedInvariant, <1>1, PTL

\* A thread's wait never ends a millisecond after its deadline, and none before it if the
\* product of pf_threads.h:304 does not wrap and the deadline is not too far for one wait.
THEOREM ThreadWithinAMillisecond == Spec => []ThrdWithinAMillisecond
<1>1. Typed => ThrdWithinAMillisecond
  <2> SUFFICES ASSUME Typed PROVE ThrdWithinAMillisecond
    OBVIOUS
  <2> DEFINE secs == deadline.sec - now.sec
             nsecs == deadline.nsec - now.nsec
             t == TruncDiv(nsecs, 1000000)
             v == Milliseconds(deadline, now)
             kept == LongLong(v)
             ms == ThrdTimeout(deadline, now)
             floor == nsecs \div 1000000
             ceiling == -((-nsecs) \div 1000000)
  <2>1. /\ Infinite \in Nat \ {0}
        /\ secs \in Int /\ nsecs \in Int
    BY TimeoutConstantsOK DEF Typed, Timespec
  <2>2. v = secs * 1000 + t
    BY DEF Milliseconds
  <2>3. /\ v \in Int /\ kept \in Int /\ kept <= v
        /\ v < LongLimit => kept = v
    BY MillisecondsKept DEF Typed
  <2>4. ms = IF kept <= 0 THEN 0 ELSE IF kept > Infinite - 1 THEN Infinite - 1 ELSE kept
    BY DEF ThrdTimeout
  <2>5. /\ t \in Int /\ floor \in Int /\ ceiling \in Int
        /\ floor <= t /\ t <= ceiling
    <3> HIDE DEF nsecs
    <3>1. CASE nsecs >= 0
      BY <2>1, <3>1 DEF TruncDiv
    <3>2. CASE nsecs < 0
      BY <2>1, <3>2 DEF TruncDiv
    <3>3. QED BY <2>1, <3>1, <3>2
  <2> HIDE DEF secs, nsecs, t, v, kept, ms, floor, ceiling
  <2>6. /\ ms = 0 \/ ms <= secs * 1000 + ceiling
        /\ v < LongLimit => secs * 1000 + floor <= ms \/ ms = Infinite - 1
    BY <2>1, <2>2, <2>3, <2>4, <2>5
  <2>7. secs * 1000 + ceiling = secs * 1000 - ((-nsecs) \div 1000000)
    BY <2>1 DEF ceiling
  <2>8. QED BY <2>6, <2>7 DEF ThrdWithinAMillisecond, InReach, secs, nsecs, v, ms, floor
<1>2. QED BY TypedInvariant, <1>1, PTL

\* Waiting again for the same deadline never takes longer, for a thread unless the product
\* of pf_threads.h:304 wraps.
THEOREM RetriesShrink == Spec => RetryNeverLonger
<1> DEFINE Shrinks == /\ InReach => ThrdTimeout(deadline, now)' <= ThrdTimeout(deadline, now)
                      /\ SemTimeout(deadline, now)' <= SemTimeout(deadline, now)
<1>1. Typed /\ Typed' /\ [Next]_tvars => [Shrinks]_tvars
  <2> SUFFICES ASSUME Typed, Typed', Next PROVE Shrinks
    OBVIOUS
  <2>1. deadline' = deadline /\ Earlier(now, now') /\ Infinite \in Nat \ {0}
    BY TimeoutConstantsOK DEF Next, Retry
  <2>2. \A ts \in {deadline, now, now'} :
          ts \in Timespec /\ ts.sec \in Nat /\ ts.nsec \in Nat /\ ts.nsec < 1000000000
    BY <2>1, TimeoutConstantsOK DEF Typed, Timespec
  <2>3. ASSUME InReach
        PROVE  ThrdTimeout(deadline, now') <= ThrdTimeout(deadline, now)
    <3> DEFINE x == deadline.nsec - now.nsec
               y == deadline.nsec - now'.nsec
               a == TruncDiv(x, 1000000)
               b == TruncDiv(y, 1000000)
    <3>0. x \in Int /\ y \in Int /\ x > -1000000000 /\ y < 1000000000 /\ y < x + 1000000000
      BY <2>2
    <3> HIDE DEF x, y
    <3>1. /\ a \in Int /\ x - 1000000 * a < 1000000
          /\ b \in Int /\ y - 1000000 * b > -1000000
          /\ x >= 0 => a >= 0
          /\ x <= 0 => 1000000 * a >= x
          /\ y >= 0 => 1000000 * b <= y
          /\ y <= 0 => b <= 0
      BY <3>0, TruncBounds
    <3>2. (deadline.sec - now'.sec) * 1000 + b <= (deadline.sec - now.sec) * 1000 + a
      <4>1. CASE now.sec = now'.sec /\ now.nsec <= now'.nsec
        <5>1. y <= x
          BY <2>2, <4>1 DEF x, y
        <5>2. b <= a
          BY <3>0, <5>1, TruncMonotone
        <5>3. QED BY <2>2, <3>1, <4>1, <5>2
      <4>2. CASE now.sec < now'.sec
        <5>1. b <= a + 1000
          <6> HIDE DEF a, b
          <6>1. QED BY <3>0, <3>1
        <5>2. QED BY <2>2, <3>1, <4>2, <5>1
      <4>3. QED BY <2>1, <4>1, <4>2 DEF Earlier
    <3> DEFINE v == Milliseconds(deadline, now)
               w == Milliseconds(deadline, now')
    <3>3. v \in Int /\ w \in Int /\ w <= v /\ v < LongLimit
      BY <2>2, <2>3, <3>1, <3>2 DEF InReach, Milliseconds, x, y
    <3>4. LongLong(v) = v /\ LongLong(w) = w
      <4>1. w < LongLimit /\ now' \in Clocks
        BY <3>3, TimeoutConstantsOK DEF Typed
      <4> HIDE DEF v, w
      <4>2. LongLong(v) = v
        BY <3>3, MillisecondsKept DEF Typed, v
      <4>3. LongLong(w) = w
        BY <2>2, <4>1, MillisecondsKept DEF w
      <4>4. QED BY <4>2, <4>3
    <3> HIDE DEF v, w
    <3>5. QED BY <2>1, <3>3, <3>4 DEF ThrdTimeout, v, w
  <2>4. SemTimeout(deadline, now') <= SemTimeout(deadline, now)
    <3> DEFINE a == Ticks(deadline) - Ticks(now)
               b == Ticks(deadline) - Ticks(now')
    <3>1. a \in Int /\ b \in Int /\ b <= a
      BY <2>1, <2>2, TicksOrdered DEF Typed
    <3>2. SemTimeout(deadline, now) = IF a <= 0 THEN 0
            ELSE IF a \div 10000 >= Infinite THEN Infinite - 1 ELSE a \div 10000
      BY DEF SemTimeout
    <3>3. SemTimeout(deadline, now') = IF b <= 0 THEN 0
            ELSE IF b \div 10000 >= Infinite THEN Infinite - 1 ELSE b \div 10000
      BY DEF SemTimeout
    <3> HIDE DEF a, b
    <3>4. a > 0 => /\ a \div 10000 \in Nat /\ 10000 * (a \div 10000) <= a
                   /\ a < 10000 * (a \div 10000) + 10000
      BY <3>1, DivBounds
    <3>5. b > 0 => /\ b \div 10000 \in Nat /\ 10000 * (b \div 10000) <= b
                   /\ b < 10000 * (b \div 10000) + 10000
      BY <3>1, DivBounds
    <3>6. QED BY <2>1, <3>1, <3>2, <3>3, <3>4, <3>5
  <2>5. QED BY <2>1, <2>3, <2>4
<1>2. QED BY TypedInvariant, <1>1, PTL DEF Spec, RetryNeverLonger

-----------------------------------------------------------------------------
(* What the comparisons rely on: a type has 0 and 1, and its smallest value is not above 0. *)
TypeBounds(t) == t.min \in Int /\ t.max \in Int /\ t.min <= 0 /\ t.max >= 1

(* The least and the greatest value of each type. *)
LEMMA BoundsOfTypes ==
  \A t \in Types : TypeBounds(t) /\ TypeBounds(t.msvc) /\ (t.min = 0 \/ t.min = -t.max - 1)
  <1>1. /\ SMax \in Int /\ UMax \in Int /\ LLMax \in Int /\ ULLMax \in Int
        /\ SMax >= 1 /\ UMax >= 1 /\ LLMax >= 1 /\ ULLMax >= 1
    BY CheckedConstantsOK
  <1>2. /\ Signed.min = -SMax - 1 /\ Signed.max = SMax /\ Signed.msvc = LongLimits
        /\ Unsigned.min = 0 /\ Unsigned.max = UMax /\ Unsigned.msvc = ULongLimits
        /\ SignedLLong.min = -LLMax - 1 /\ SignedLLong.max = LLMax /\ SignedLLong.msvc = LongLimits
        /\ UnsignedLLong.min = 0 /\ UnsignedLLong.max = ULLMax /\ UnsignedLLong.msvc = ULongLimits
        /\ LongLimits.min = -SMax - 1 /\ LongLimits.max = SMax
        /\ ULongLimits.min = 0 /\ ULongLimits.max = UMax
    BY DEF Signed, Unsigned, SignedLLong, UnsignedLLong, LongLimits, ULongLimits, Integer, Limits
  <1>3. TypeBounds(LongLimits) /\ TypeBounds(ULongLimits)
    BY <1>1, <1>2 DEF TypeBounds
  <1>4. \A t \in Types : TypeBounds(t) /\ (t.min = 0 \/ t.min = -t.max - 1)
    BY <1>1, <1>2 DEF TypeBounds, Types
  <1>5. \A t \in Types : t.msvc \in {LongLimits, ULongLimits}
    BY <1>2 DEF Types
  <1> QED
    BY <1>3, <1>4, <1>5

(* What fits in the type is not changed by it. *)
LEMMA WrapOfFitting ==
  ASSUME NEW t, TypeBounds(t), NEW v \in Int, Fits(t, v)
  PROVE  Wrap(t, v) = v
  <1> DEFINE m == t.max - t.min + 1
  <1>1. m \in Nat \ {0} /\ v - t.min \in 0 .. m - 1
    BY DEF TypeBounds, Fits
  <1>2. (v - t.min) % m = v - t.min
    <2> HIDE DEF m
    <2> QED
      BY <1>1, SmallRemainder
  <1> QED
    BY <1>2 DEF Wrap, TypeBounds

(* The tests of a sum and of a difference tell whether it fits. *)
LEMMA SumOverflow ==
  ASSUME NEW t, TypeBounds(t), NEW x \in Span(t), NEW y \in Span(t)
  PROVE  /\ AddOverflows(t, x, y) <=> ~Fits(t, x + y)
         /\ SubOverflows(t, x, y) <=> ~Fits(t, x - y)
  BY DEF TypeBounds, Span, AddOverflows, SubOverflows, Fits

(* The product: dividing by a positive factor decides, because the quotient truncates towards 0. *)
LEMMA Scaled ==
  ASSUME NEW x \in Int, NEW y \in Nat \ {0}, NEW q \in Nat, NEW a \in Nat, y * q <= a, a < y * q + y
  PROVE  (x > q <=> x * y > a) /\ (x < -q <=> x * y < -a)
  <1>1. ASSUME x > q PROVE x * y > a
    <2>1. x >= q + 1
      BY <1>1
    <2>2. x * y >= (q + 1) * y
      BY <2>1
    <2>3. (q + 1) * y = y * q + y
      OBVIOUS
    <2> QED
      BY <2>2, <2>3
  <1>2. ASSUME x <= q PROVE x * y <= a
    <2>1. x * y <= q * y
      BY <1>2
    <2> QED
      BY <2>1
  <1>3. ASSUME x < -q PROVE x * y < -a
    <2>1. x <= -(q + 1)
      BY <1>3
    <2>2. x * y <= (-(q + 1)) * y
      BY <2>1
    <2>3. (-(q + 1)) * y = -(y * q + y)
      OBVIOUS
    <2> QED
      BY <2>2, <2>3
  <1>4. ASSUME x >= -q PROVE x * y >= -a
    <2>1. x * y >= (-q) * y
      BY <1>4
    <2>2. (-q) * y = -(y * q)
      OBVIOUS
    <2> QED
      BY <2>1, <2>2
  <1> QED
    BY <1>1, <1>2, <1>3, <1>4

(* The test by division tells whether a product fits, when the second factor is positive. *)
LEMMA ProductOverflow ==
  ASSUME NEW t, TypeBounds(t), NEW x \in Int, NEW y \in Nat \ {0}
  PROVE  MulOverflows(t, x, y) <=> ~Fits(t, x * y)
  <1> DEFINE top == t.max \div y
             low == (-t.min) \div y
  <1>0. t.max \in Nat /\ -t.min \in Nat
    BY DEF TypeBounds
  <1>1. top \in Nat /\ y * top <= t.max /\ t.max < y * top + y
    BY <1>0, DivBounds
  <1>2. low \in Nat /\ y * low <= -t.min /\ -t.min < y * low + y
    BY <1>0, DivBounds
  <1>3. Quotient(t.max, y) = top
    BY DEF Quotient, TypeBounds
  <1>4. Quotient(t.min, y) = -low
    <2>1. CASE t.min < 0
      BY <2>1 DEF Quotient, TypeBounds
    <2>2. CASE t.min = 0
      <3>1. Quotient(t.min, y) = 0 \div y
        BY <2>2 DEF Quotient
      <3>2. 0 \div y = 0
        <4> DEFINE q == 0 \div y
        <4>1. q \in Nat /\ y * q <= 0
          BY DivBounds
        <4> HIDE DEF q
        <4>2. q >= 1 => y * q >= y
          BY <4>1
        <4>3. q = 0
          BY <4>1, <4>2
        <4> QED
          BY <4>3 DEF q
      <3>3. -t.min = 0
        <4>1. t.min \in Int /\ t.min >= 0 /\ -t.min >= 0
          BY <1>0, <2>2 DEF TypeBounds
        <4>2. \A n \in Int : n >= 0 /\ -n >= 0 => -n = 0
          OBVIOUS
        <4> QED
          BY <4>1, <4>2
      <3> QED
        BY <3>1, <3>2, <3>3
    <2> QED
      BY <2>1, <2>2 DEF TypeBounds
  <1> HIDE DEF top, low
  <1>5. x > top <=> x * y > t.max
    BY <1>1, Scaled DEF TypeBounds
  <1>6. x < -low <=> x * y < t.min
    <2>1. x < -low <=> x * y < -(-t.min)
      BY <1>2, Scaled DEF TypeBounds
    <2> QED
      BY <2>1 DEF TypeBounds
  <1>7. x * y \in Int
    OBVIOUS
  <1> QED
    BY <1>3, <1>4, <1>5, <1>6, <1>7 DEF MulOverflows, Fits, TypeBounds

(* The ways of testing, and a test that is one for the type. *)
Methods == {"builtin", "msvc", "portable"}
Own(t) == method = "msvc" => t.msvc = Limits(t.min, t.max)

(* A result that is not called wrong is the true one, reduced to the type. *)
LEMMA UnflaggedOutcome ==
  ASSUME NEW t, NEW exact, NEW narrow, NEW portable \in BOOLEAN, method \in Methods,
         ~Outcome(t, exact, narrow, portable).flag
  PROVE  Outcome(t, exact, narrow, portable).out = Wrap(t, exact)
  BY DEF Outcome, Methods

(* The functions of <intsafe.h> see the operands as they are if they are those of the type. *)
LEMMA OwnOperands ==
  ASSUME NEW t, TypeBounds(t), method = "msvc", Own(t)
  PROVE  /\ \A v : Fits(t.msvc, v) <=> Fits(t, v)
         /\ \A x \in Span(t) : Low(t, x) = x
  <1>1. t.msvc.min = t.min /\ t.msvc.max = t.max
    BY DEF Own, Limits
  <1>2. \A v : Fits(t.msvc, v) <=> Fits(t, v)
    BY <1>1 DEF Fits
  <1>3. ASSUME NEW x \in Span(t) PROVE Low(t, x) = x
    <2>1. TypeBounds(t.msvc)
      BY <1>1 DEF TypeBounds
    <2>2. x \in Int /\ Fits(t.msvc, x)
      BY <1>1 DEF Fits, Span, TypeBounds
    <2> QED
      BY <2>1, <2>2, WrapOfFitting DEF Low
  <1> QED
    BY <1>2, <1>3

(* The flag of an outcome is right if the portable test and the narrow operands are. *)
LEMMA FlagOfOutcome ==
  ASSUME NEW t, NEW exact, NEW narrow, NEW portable \in BOOLEAN, method \in Methods,
         method = "portable" => (portable <=> ~Fits(t, exact)),
         method = "msvc" => (Fits(t.msvc, narrow) <=> Fits(t, exact))
  PROVE  Outcome(t, exact, narrow, portable).flag <=> ~Fits(t, exact)
  <1>1. CASE method = "builtin"
    BY <1>1 DEF Outcome
  <1>2. CASE method = "msvc"
    BY <1>2 DEF Outcome
  <1>3. CASE method = "portable"
    BY <1>3 DEF Outcome
  <1> QED
    BY <1>1, <1>2, <1>3 DEF Methods

(* The flags of all three operations. *)
LEMMA FlagsAreRight ==
  ASSUME NEW t, TypeBounds(t), NEW x \in Span(t), NEW y \in Span(t), method \in Methods, Own(t)
  PROVE  /\ OverflowAdd(t, x, y).flag <=> ~Fits(t, x + y)
         /\ OverflowSub(t, x, y).flag <=> ~Fits(t, x - y)
         /\ (method = "portable" => y > 0) => (OverflowMul(t, x, y).flag <=> ~Fits(t, x * y))
  <1>1. y > 0 => (MulOverflows(t, x, y) <=> ~Fits(t, x * y))
    BY ProductOverflow DEF Span, TypeBounds
  <1>2. method = "msvc" => /\ Low(t, x) = x /\ Low(t, y) = y
                           /\ \A v : Fits(t.msvc, v) <=> Fits(t, v)
    BY OwnOperands
  <1>3. OverflowAdd(t, x, y).flag <=> ~Fits(t, x + y)
    <2>1. AddOverflows(t, x, y) \in BOOLEAN /\ (AddOverflows(t, x, y) <=> ~Fits(t, x + y))
      BY SumOverflow DEF AddOverflows
    <2> QED
      BY <1>2, <2>1, FlagOfOutcome DEF OverflowAdd
  <1>4. OverflowSub(t, x, y).flag <=> ~Fits(t, x - y)
    <2>1. SubOverflows(t, x, y) \in BOOLEAN /\ (SubOverflows(t, x, y) <=> ~Fits(t, x - y))
      BY SumOverflow DEF SubOverflows
    <2> QED
      BY <1>2, <2>1, FlagOfOutcome DEF OverflowSub
  <1>5. ASSUME method = "portable" => y > 0
        PROVE  OverflowMul(t, x, y).flag <=> ~Fits(t, x * y)
    <2>1. MulOverflows(t, x, y) \in BOOLEAN
      BY DEF MulOverflows
    <2> QED
      BY <1>1, <1>2, <1>5, <2>1, FlagOfOutcome DEF OverflowMul
  <1> QED
    BY <1>3, <1>4, <1>5

(* A result that is not called wrong, for each operation. *)
LEMMA UnflaggedResults ==
  ASSUME NEW t, NEW x, NEW y, method \in Methods
  PROVE  /\ ~OverflowAdd(t, x, y).flag => OverflowAdd(t, x, y).out = Wrap(t, x + y)
         /\ ~OverflowSub(t, x, y).flag => OverflowSub(t, x, y).out = Wrap(t, x - y)
         /\ ~OverflowMul(t, x, y).flag => OverflowMul(t, x, y).out = Wrap(t, x * y)
  <1>1. AddOverflows(t, x, y) \in BOOLEAN /\ SubOverflows(t, x, y) \in BOOLEAN /\ MulOverflows(t, x, y) \in BOOLEAN
    BY DEF AddOverflows, SubOverflows, MulOverflows
  <1> QED
    BY <1>1, UnflaggedOutcome DEF OverflowAdd, OverflowSub, OverflowMul

(* As an unsigned value -1 is the largest. *)
LEMMA WrapOfMinusOne ==
  ASSUME NEW t, TypeBounds(t), t.min = 0
  PROVE  Wrap(t, -1) = t.max
  <1> DEFINE m == t.max + 1
             q == (-1) \div m
             r == (-1) % m
  <1>1. t.max \in Int /\ m \in Nat \ {0} /\ t.max = m - 1
    BY DEF TypeBounds
  <1>2. q \in Int /\ r \in 0 .. m - 1 /\ -1 = m * q + r
    BY <1>1
  <1>3. Wrap(t, -1) = r
    <2>1. (-1) - t.min = -1 /\ t.max - t.min + 1 = m
      BY <1>1
    <2>2. Wrap(t, -1) = (((-1) - t.min) % (t.max - t.min + 1)) + t.min
      BY DEF Wrap
    <2>3. Wrap(t, -1) = r + t.min
      BY <2>1, <2>2
    <2> QED
      BY <1>2, <2>3
  <1> HIDE DEF m, q, r
  <1>4. q >= 0 => m * q >= 0
    BY <1>1, <1>2
  <1>5. q <= -2 => m * q <= m * (-2)
    BY <1>1, <1>2
  <1>6. q = -1
    BY <1>1, <1>2, <1>4, <1>5
  <1> QED
    BY <1>1, <1>2, <1>3, <1>6

(* An overflow is one way or the other as the operands tell, so the saturating operations clamp. *)
LEMMA SumsSaturate ==
  ASSUME NEW t \in Types, NEW x \in Span(t), NEW y \in Span(t), method \in Methods, Own(t)
  PROVE  /\ SaturatedAdd(t, x, y) = Clamp(t, x + y)
         /\ SaturatedSub(t, x, y) = Clamp(t, x - y)
  <1>1. TypeBounds(t) /\ x \in Int /\ y \in Int /\ Fits(t, x) /\ Fits(t, y)
    BY BoundsOfTypes DEF Span, TypeBounds, Fits
  <1>2. SaturatedAdd(t, x, y) = Clamp(t, x + y)
    <2>1. CASE Fits(t, x + y)
      <3>1. SaturatedAdd(t, x, y) = Wrap(t, x + y)
        BY <1>1, <2>1, FlagsAreRight, UnflaggedResults DEF SaturatedAdd
      <3> QED
        BY <1>1, <2>1, <3>1, WrapOfFitting DEF Clamp, Fits, TypeBounds
    <2>2. CASE ~Fits(t, x + y)
      <3>1. SaturatedAdd(t, x, y) = IF x > 0 THEN t.max ELSE t.min
        BY <1>1, <2>2, FlagsAreRight DEF SaturatedAdd
      <3> QED
        BY <1>1, <2>2, <3>1 DEF Clamp, Fits, TypeBounds
    <2> QED
      BY <2>1, <2>2
  <1>3. SaturatedSub(t, x, y) = Clamp(t, x - y)
    <2>1. CASE Fits(t, x - y)
      <3>1. SaturatedSub(t, x, y) = Wrap(t, x - y)
        BY <1>1, <2>1, FlagsAreRight, UnflaggedResults DEF SaturatedSub
      <3> QED
        BY <1>1, <2>1, <3>1, WrapOfFitting DEF Clamp, Fits, TypeBounds
    <2>2. CASE ~Fits(t, x - y)
      <3>1. SaturatedSub(t, x, y) = IF ~(BelowMinusOne(t, x) /\ y > 0) THEN t.max ELSE t.min
        BY <1>1, <2>2, FlagsAreRight DEF SaturatedSub
      <3>2. CASE t.min = -t.max - 1
        <4>1. Wrap(t, -1) = -1
          BY <1>1, <3>2, WrapOfFitting DEF TypeBounds, Fits
        <4> QED
          BY <1>1, <2>2, <3>1, <3>2, <4>1 DEF Clamp, Fits, TypeBounds, BelowMinusOne
      <3>3. CASE t.min = 0
        <4>1. Wrap(t, -1) = t.max
          BY <1>1, <3>3, WrapOfMinusOne
        <4> QED
          BY <1>1, <2>2, <3>1, <3>3, <4>1 DEF Clamp, Fits, TypeBounds, BelowMinusOne
      <3> QED
        BY <3>2, <3>3, BoundsOfTypes
    <2> QED
      BY <2>1, <2>2
  <1> QED
    BY <1>2, <1>3

(* The sign of a product. *)
LEMMA SignOfProduct ==
  ASSUME NEW x \in Int, NEW y \in Int
  PROVE  /\ (x > 0 /\ y > 0) \/ (x < 0 /\ y < 0) => x * y > 0
         /\ ~((x > 0 /\ y > 0) \/ (x < 0 /\ y < 0)) => x * y <= 0
  OBVIOUS

(* A product that does not fit saturates at the end it went over. *)
LEMMA ProductsSaturate ==
  ASSUME NEW t \in Types, NEW x \in Span(t), NEW y \in Span(t), method \in Methods, Own(t),
         method = "portable" => y > 0
  PROVE  SaturatedMul(t, x, y) = Clamp(t, x * y)
  <1> DEFINE z == x * y
  <1>1. TypeBounds(t) /\ x \in Int /\ y \in Int /\ z \in Int
    BY BoundsOfTypes DEF Span, TypeBounds
  <1>2. OverflowMul(t, x, y).flag <=> ~Fits(t, z)
    BY <1>1, FlagsAreRight
  <1>3. ~OverflowMul(t, x, y).flag => OverflowMul(t, x, y).out = Wrap(t, z)
    BY UnflaggedResults
  <1>4. /\ (x > 0 /\ y > 0) \/ (x < 0 /\ y < 0) => z > 0
        /\ ~((x > 0 /\ y > 0) \/ (x < 0 /\ y < 0)) => z <= 0
    BY <1>1, SignOfProduct
  <1> HIDE DEF z
  <1>5. CASE Fits(t, z)
    <2>1. SaturatedMul(t, x, y) = Wrap(t, z)
      BY <1>2, <1>3, <1>5 DEF SaturatedMul
    <2>2. Wrap(t, z) = z
      BY <1>1, <1>5, WrapOfFitting
    <2>3. Clamp(t, z) = z
      BY <1>1, <1>5 DEF Clamp, Fits, TypeBounds
    <2> QED
      BY <2>1, <2>2, <2>3 DEF z
  <1>6. CASE ~Fits(t, z)
    <2>1. SaturatedMul(t, x, y) = IF (x > 0 /\ y > 0) \/ (x < 0 /\ y < 0) THEN t.max ELSE t.min
      BY <1>2, <1>6 DEF SaturatedMul
    <2>2. Clamp(t, z) = IF z > 0 THEN t.max ELSE t.min
      BY <1>1, <1>6 DEF Clamp, Fits, TypeBounds
    <2>3. SaturatedMul(t, x, y) = Clamp(t, z)
      BY <1>1, <1>4, <2>1, <2>2
    <2> QED
      BY <2>3 DEF z
  <1> QED
    BY <1>5, <1>6

CheckedInv == type \in Types /\ left \in Span(type) /\ right \in Span(type) /\ method \in Methods

(* Whatever is in *out is a value of the type, and so is a saturated one. *)
LEMMA WrapInSpan == ASSUME NEW t, TypeBounds(t), NEW v \in Int PROVE Wrap(t, v) \in Span(t)
  <1> DEFINE m == t.max - t.min + 1
  <1>1. m \in Nat \ {0} /\ v - t.min \in Int /\ t.min \in Int /\ t.max \in Int /\ t.max = m - 1 + t.min
    BY DEF TypeBounds
  <1>2. (v - t.min) % m \in 0 .. m - 1
    <2> HIDE DEF m
    <2> QED
      BY <1>1, RemainderBounds
  <1>3. Wrap(t, v) = ((v - t.min) % m) + t.min
    BY DEF Wrap
  <1> HIDE DEF m
  <1> QED
    BY <1>1, <1>2, <1>3 DEF Span

LEMMA OutcomeInSpan ==
  ASSUME NEW t, TypeBounds(t), TypeBounds(t.msvc), NEW exact \in Int, NEW narrow, NEW portable,
         method \in Methods
  PROVE  Outcome(t, exact, narrow, portable).out \in Span(t)
  <1>1. Wrap(t, exact) \in Span(t)
    BY WrapInSpan
  <1>2. AllOnes(t, Wrap(t, exact)) \in Span(t)
    <2> DEFINE v == Wrap(t, exact)
               m == t.msvc.max - t.msvc.min + 1
    <2>1. v \in Int /\ m \in Nat \ {0}
      BY <1>1 DEF Span, TypeBounds
    <2> HIDE DEF v, m
    <2>2. (v \div m) \in Int
      BY <2>1
    <2>3. (v \div m) * m \in Int
      BY <2>1, <2>2
    <2>4. (v \div m) * m + m - 1 \in Int
      BY <2>1, <2>3
    <2>5. Wrap(t, (v \div m) * m + m - 1) \in Span(t)
      BY <2>4, WrapInSpan
    <2> QED
      BY <2>5 DEF AllOnes, v, m
  <1> QED
    BY <1>1, <1>2 DEF Outcome, Methods

LEMMA SaturatedInSpan ==
  ASSUME NEW t \in Types, NEW x \in Span(t), NEW y \in Span(t), method \in Methods
  PROVE  SaturatedAdd(t, x, y) \in Span(t) /\ SaturatedSub(t, x, y) \in Span(t)
  <1>1. TypeBounds(t) /\ TypeBounds(t.msvc)
    BY BoundsOfTypes
  <1>2. x + y \in Int /\ x - y \in Int
    BY <1>1 DEF Span, TypeBounds
  <1>3. OverflowAdd(t, x, y).out \in Span(t) /\ OverflowSub(t, x, y).out \in Span(t)
    BY <1>1, <1>2, OutcomeInSpan DEF OverflowAdd, OverflowSub
  <1>4. t.max \in Span(t) /\ t.min \in Span(t)
    BY <1>1 DEF Span, TypeBounds
  <1> QED
    BY <1>3, <1>4 DEF SaturatedAdd, SaturatedSub

(* For every width of int and of long long, in long chains of saturating operations: an overflow is
   reported when and only when the result does not fit, and the saturating operation gives the nearest
   value.  Exempt are long long with MSVC and the portable test of a product whose second operand is not
   above zero: there the code is wrong. *)
THEOREM OverflowIsDetected == CheckedSpec => []OverflowDetected
  <1>1. CheckedInit => CheckedInv
    BY DEF CheckedInit, CheckedInv, Methods
  <1>2. CheckedInv /\ [Accumulate]_cvars => CheckedInv'
    <2> SUFFICES ASSUME CheckedInv, [Accumulate]_cvars PROVE CheckedInv'
      OBVIOUS
    <2>1. CASE Accumulate
      <3>1. left' \in Span(type)
        BY <2>1, SaturatedInSpan DEF CheckedInv, Accumulate
      <3> QED
        BY <2>1, <3>1 DEF CheckedInv, Accumulate
    <2>2. CASE UNCHANGED cvars
      BY <2>2 DEF CheckedInv, cvars
    <2> QED
      BY <2>1, <2>2
  <1>3. CheckedInv => OverflowDetected
    <2> SUFFICES ASSUME CheckedInv, OwnTest PROVE OverflowDetected
      BY DEF OverflowDetected
    <2>1. TypeBounds(type) /\ Own(type)
      BY BoundsOfTypes DEF CheckedInv, OwnTest, Own
    <2> QED
      BY <2>1, FlagsAreRight, SumsSaturate, ProductsSaturate DEF CheckedInv, OverflowDetected
  <1> QED
    BY <1>1, <1>2, <1>3, PTL DEF CheckedSpec

-----------------------------------------------------------------------------
(* Characters. *)

(* The low byte of a character. *)
LEMMA LowByte ==
  ASSUME NEW c \in Chars
  PROVE  c % 256 \in 0 .. 255 /\ c % 256 = IF c < 0 THEN c + 256 ELSE c
  BY DEF Chars

(* The masks of utf8_clen() are ranges of the first byte. *)
LEMMA SequenceLength ==
  ASSUME NEW c \in Chars
  PROVE  utf8_clen(c) = IF c % 256 < 128 THEN 1 ELSE IF c % 256 < 192 THEN 0 ELSE IF c % 256 < 224 THEN 2
                        ELSE IF c % 256 < 240 THEN 3 ELSE IF c % 256 < 248 THEN 4 ELSE 0
  <1>1. PICK byte \in 0 .. 255 : byte = c % 256
    BY LowByte
  <1>2. /\ byte \div 8 = 30 <=> byte >= 240 /\ byte < 248
        /\ byte \div 16 = 14 <=> byte >= 224 /\ byte < 240
        /\ byte \div 32 = 6 <=> byte >= 192 /\ byte < 224
    OBVIOUS
  <1>3. utf8_clen(c) = IF byte \div 8 = 30 THEN 4 ELSE IF byte \div 16 = 14 THEN 3
                       ELSE IF byte \div 32 = 6 THEN 2 ELSE IF byte < 128 THEN 1 ELSE 0
    BY <1>1, SMT DEF utf8_clen
  <1> QED
    BY <1>1, <1>2, <1>3

(* The length is right not only for the lowest code point of each first byte but for every one. *)
LEMMA EveryCodePoint ==
  ASSUME NEW c \in Chars, NEW n \in Nat, n <= 1114111, Lead(n) = c % 256
  PROVE  utf8_clen(c) = Octets8(n)
  <1>1. PICK byte \in 0 .. 255 : byte = c % 256
    BY LowByte
  <1>2. utf8_clen(c) = IF byte < 128 THEN 1 ELSE IF byte < 192 THEN 0 ELSE IF byte < 224 THEN 2
                       ELSE IF byte < 240 THEN 3 ELSE IF byte < 248 THEN 4 ELSE 0
    BY <1>1, SequenceLength
  <1>3. CASE n < 128
    <2>1. Lead(n) = n
      BY <1>3 DEF Lead
    <2> QED
      BY <1>1, <1>2, <1>3, <2>1 DEF Octets8
  <1>4. CASE n >= 128 /\ n < 2048
    <2>1. Lead(n) = 192 + n \div 64
      BY <1>4 DEF Lead
    <2>2. n \div 64 \in 0 .. 31
      BY <1>4
    <2> QED
      BY <1>1, <1>2, <1>4, <2>1, <2>2 DEF Octets8
  <1>5. CASE n >= 2048 /\ n < 65536
    <2>1. Lead(n) = 224 + n \div 4096
      BY <1>5 DEF Lead
    <2>2. n \div 4096 \in 0 .. 15
      BY <1>5
    <2> QED
      BY <1>1, <1>2, <1>5, <2>1, <2>2 DEF Octets8
  <1>6. CASE n >= 65536
    <2>1. Lead(n) = 240 + n \div 262144
      BY <1>6 DEF Lead
    <2>2. n \div 262144 \in 0 .. 4
      OBVIOUS
    <2> QED
      BY <1>1, <1>2, <1>6, <2>1, <2>2 DEF Octets8
  <1> QED
    BY <1>3, <1>4, <1>5, <1>6

(* The case functions stay among the characters. *)
LEMMA FoldStep == ASSUME char \in Chars, Fold PROVE char' \in Chars
  BY DEF Fold, Chars, tolower, toupper, isupper, islower

(* The invariant is enough: each class one by one. *)
LEMMA ClassesOfChar == ASSUME char \in Chars PROVE ClassesAgree
  <1>1. /\ isdigit(char) <=> char \in DIGIT
        /\ isxdigit(char) <=> char \in XDIGIT
        /\ isupper(char) <=> char \in UPPER
        /\ islower(char) <=> char \in LOWER
        /\ isalpha(char) <=> char \in ALPHA
        /\ isalnum(char) <=> char \in ALNUM
    BY DEF Chars, isdigit, DIGIT, isxdigit, XDIGIT, isupper, UPPER, islower, LOWER, isalpha, ALPHA, isalnum, ALNUM
  <1>2. /\ isspace(char) <=> char \in SPACE
        /\ isblank(char) <=> char \in BLANK
    BY DEF Chars, isspace, SPACE, isblank, BLANK
  <1>3. ispunct(char) <=> char \in PUNCT
    BY DEF Chars, ispunct, PUNCT, isgraph, isalnum, isalpha, isupper, islower, isdigit
  <1>4. /\ isgraph(char) <=> char \in GRAPH
        /\ isprint(char) <=> char \in PRINT
        /\ iscntrl(char) <=> char \in CNTRL
    BY DEF Chars, isgraph, GRAPH, isprint, PRINT, iscntrl, CNTRL
  <1>5. /\ (char # tolower(char)) <=> char \in UPPER
        /\ char \in UPPER => toupper(tolower(char)) = char
    BY DEF Chars, tolower, toupper, isupper, islower, UPPER
  <1>6. ASSUME NEW n \in Samples, Lead(n) = char % 256 PROVE utf8_clen(char) = Octets8(n)
    <2>1. n \in Nat
      BY DEF Samples
    <2>2. n <= 1114111
      BY DEF Samples
    <2> QED
      BY <1>6, <2>1, <2>2, EveryCodePoint
  <1>7. char % 256 \in 128 .. 191 => ~isutf8(char)
    BY SequenceLength, LowByte DEF isutf8
  <1> QED
    BY <1>1, <1>2, <1>3, <1>4, <1>5, <1>6, <1>7 DEF ClassesAgree

(* For every character, of either sign, the functions of pf_ctype.h and its strings name the same classes,
   and the first byte of a UTF-8 sequence tells its length. *)
THEOREM CtypeClassesAgree == CtypeSpec => []ClassesAgree
  <1>1. CtypeInit => char \in Chars
    BY DEF CtypeInit
  <1>2. char \in Chars /\ [Fold]_char => (char \in Chars)'
    BY FoldStep
  <1> QED
    BY <1>1, <1>2, ClassesOfChar, PTL DEF CtypeSpec

-----------------------------------------------------------------------------
(* Byte order. *)

(* The loop that copies octets from the other end reverses them. *)
LEMMA MirrorSwaps ==
  ASSUME NEW in \in Seq(Octets), NEW out \in [1 .. Len(in) -> Octets]
  PROVE  Mirror(out, in, FALSE) = Bswap(in)
  <1> DEFINE N == Len(in)
             F(h) == [i \in 0 .. N |-> IF i = 0 THEN out ELSE [h[i - 1] EXCEPT ![i] = in[N + 1 - i]]]
             G == [i \in 0 .. N |-> [k \in 1 .. N |-> IF k <= i THEN in[N + 1 - k] ELSE out[k]]]
             W == CHOOSE h : h = F(h)
  <1>1. N \in Nat /\ DOMAIN in = 1 .. N
    OBVIOUS
  <1>2. Mirror(out, in, FALSE) = W[N]
    BY DEF Mirror
  <1>3. G = F(G)
    <2>1. G[0] = out
      BY <1>1
    <2>2. ASSUME NEW i \in 1 .. N PROVE G[i] = [G[i - 1] EXCEPT ![i] = in[N + 1 - i]]
      <3>1. i \in 0 .. N /\ i - 1 \in 0 .. N
        BY <1>1
      <3>2. G[i] = [k \in 1 .. N |-> IF k <= i THEN in[N + 1 - k] ELSE out[k]]
        BY <3>1
      <3>3. G[i - 1] = [k \in 1 .. N |-> IF k <= i - 1 THEN in[N + 1 - k] ELSE out[k]]
        BY <3>1
      <3>4. \A k \in 1 .. N : k # i => (k <= i <=> k <= i - 1)
        BY <1>1
      <3> HIDE DEF G
      <3>5. [G[i - 1] EXCEPT ![i] = in[N + 1 - i]]
            = [k \in 1 .. N |-> IF k = i THEN in[N + 1 - i] ELSE G[i - 1][k]]
        BY <3>3
      <3>6. \A k \in 1 .. N : (IF k <= i THEN in[N + 1 - k] ELSE out[k])
                             = (IF k = i THEN in[N + 1 - i] ELSE G[i - 1][k])
        <4>1. i <= i
          BY <1>1
        <4> QED
          BY <3>3, <3>4, <4>1
      <3> QED
        BY <3>2, <3>5, <3>6
    <2>3. \A i \in 0 .. N : i # 0 => i \in 1 .. N
      BY <1>1
    <2>4. \A i \in 0 .. N : G[i] = IF i = 0 THEN out ELSE [G[i - 1] EXCEPT ![i] = in[N + 1 - i]]
      BY <2>1, <2>2, <2>3
    <2>5. G = [i \in 0 .. N |-> G[i]]
      OBVIOUS
    <2> HIDE DEF G
    <2> QED
      BY <2>4, <2>5
  <1>4. W = F(W)
    BY <1>3
  <1>8. \A h : h = F(h) => h[0] = out /\ \A i \in 0 .. N - 1 : h[i + 1] = [h[i] EXCEPT ![i + 1] = in[N + 1 - (i + 1)]]
    <2>1. 0 \in 0 .. N
      BY <1>1
    <2>2. \A i \in 0 .. N - 1 : i + 1 \in 0 .. N /\ i + 1 # 0 /\ i + 1 - 1 = i
      BY <1>1
    <2>3. ASSUME NEW h, h = F(h) PROVE h[0] = out
      <3>1. F(h)[0] = out
        BY <2>1
      <3> HIDE DEF F
      <3> QED
        BY <2>3, <3>1
    <2>4. ASSUME NEW h, h = F(h), NEW i \in 0 .. N - 1 PROVE h[i + 1] = [h[i] EXCEPT ![i + 1] = in[N + 1 - (i + 1)]]
      <3>1. F(h)[i + 1] = [h[i] EXCEPT ![i + 1] = in[N + 1 - (i + 1)]]
        <4> HIDE DEF N
        <4>1. F(h)[i + 1] = [h[i + 1 - 1] EXCEPT ![i + 1] = in[N + 1 - (i + 1)]]
          BY <2>2
        <4> QED
          BY <2>2, <4>1
      <3> HIDE DEF F
      <3> QED
        BY <2>4, <3>1
    <2> HIDE DEF F
    <2> QED
      BY <2>3, <2>4
  <1> HIDE DEF F
  <1>10. W[0] = out /\ \A i \in 0 .. N - 1 : W[i + 1] = [W[i] EXCEPT ![i + 1] = in[N + 1 - (i + 1)]]
    BY <1>4, <1>8
  <1>11. G[0] = out /\ \A i \in 0 .. N - 1 : G[i + 1] = [G[i] EXCEPT ![i + 1] = in[N + 1 - (i + 1)]]
    BY <1>3, <1>8
  <1>5. \A i \in 0 .. N : G[i] = [k \in 1 .. N |-> IF k <= i THEN in[N + 1 - k] ELSE out[k]]
    OBVIOUS
  <1> HIDE DEF W, G
  <1>6. \A i \in 0 .. N : W[i] = G[i]
    <2> DEFINE S == {i \in 0 .. N : W[i] = G[i]}
    <2>1. 0 \in S
      BY <1>1, <1>10, <1>11
    <2>2. ASSUME NEW i \in 0 .. N - 1, i \in S PROVE i + 1 \in S
      <3>1. i + 1 \in 0 .. N /\ W[i] = G[i]
        BY <1>1, <2>2
      <3> QED
        BY <1>10, <1>11, <2>2, <3>1
    <2> HIDE DEF S
    <2>3. \A i \in 0 .. N : i \in S
      BY <1>1, <2>1, <2>2, InductTo
    <2> QED
      BY <2>3 DEF S
  <1>7. G[N] = [k \in 1 .. N |-> in[N + 1 - k]]
    <2>1. N \in 0 .. N /\ \A k \in 1 .. N : k <= N
      BY <1>1
    <2> QED
      BY <1>5, <2>1
  <1>9. W[N] = G[N]
    BY <1>1, <1>6
  <1> QED
    BY <1>1, <1>2, <1>7, <1>9 DEF Bswap

(* A conversion copies or reverses. *)
LEMMA ConversionOfBytes ==
  ASSUME NEW in \in Seq(Octets), NEW swaps \in BOOLEAN, NEW copies \in BOOLEAN, bigEndian \in BOOLEAN
  PROVE  ConvertX(swaps, copies, in, FALSE) = IF copies THEN in ELSE Bswap(in)
  <1>1. Len(in) \in Nat /\ DOMAIN in = 1 .. Len(in) /\ in \in [1 .. Len(in) -> Octets]
    OBVIOUS
  <1>2. ASSUME NEW w \in [1 .. Len(in) -> Octets]
        PROVE  Len(w) = Len(in) /\ Memory(w) \in [1 .. Len(in) -> Octets] /\ Bswap(w) \in [1 .. Len(in) -> Octets]
    <2>1. w \in Seq(Octets) /\ Len(w) = Len(in) /\ DOMAIN w = 1 .. Len(in)
      BY <1>1
    <2>2. \A k \in 1 .. Len(in) : Len(w) + 1 - k \in 1 .. Len(in)
      BY <1>1, <2>1
    <2> QED
      BY <2>1, <2>2 DEF Memory, Bswap
  <1>3. (IF Len(in) \in {2, 4, 8} THEN Memory(Conversion(swaps, Load(in))) ELSE in) \in [1 .. Len(in) -> Octets]
    <2>1. Load(in) \in [1 .. Len(in) -> Octets]
      BY <1>1, <1>2 DEF Load
    <2>2. Conversion(swaps, Load(in)) \in [1 .. Len(in) -> Octets]
      BY <1>2, <2>1 DEF Conversion
    <2> QED
      BY <1>1, <1>2, <2>2
  <1> QED
    BY <1>3, MirrorSwaps DEF ConvertX

(* Reversing twice is doing nothing. *)
LEMMA SwapTwice ==
  ASSUME NEW w \in Seq(Octets)
  PROVE  Bswap(w) \in Seq(Octets) /\ Bswap(Bswap(w)) = w
  <1>1. PICK n \in Nat : n = Len(w) /\ DOMAIN w = 1 .. n
    OBVIOUS
  <1>2. \A k \in 1 .. n : n + 1 - k \in 1 .. n /\ n + 1 - (n + 1 - k) = k
    BY <1>1
  <1>3. Bswap(w) = [k \in 1 .. n |-> w[n + 1 - k]]
    BY <1>1 DEF Bswap
  <1>4. Bswap(w) \in Seq(Octets) /\ Len(Bswap(w)) = n /\ DOMAIN Bswap(w) = 1 .. n
    BY <1>1, <1>2, <1>3
  <1>5. Bswap(Bswap(w)) = [k \in 1 .. n |-> Bswap(w)[n + 1 - k]]
    BY <1>4 DEF Bswap
  <1>6. \A k \in 1 .. n : Bswap(w)[n + 1 - k] = w[k]
    BY <1>2, <1>3
  <1>7. w = [k \in 1 .. n |-> w[k]]
    BY <1>1
  <1> QED
    BY <1>4, <1>5, <1>6, <1>7

EndianInv == image \in Seq(Octets) /\ bigEndian \in BOOLEAN /\ hasEndianH \in BOOLEAN

(* Any image is converted right. *)
LEMMA ByteOrderOfImage == ASSUME EndianInv PROVE ByteOrderRight
  <1>1. image \in Seq(Octets) /\ bigEndian \in BOOLEAN /\ hasEndianH \in BOOLEAN
    BY DEF EndianInv
  <1>2. \A w : Memory(w) = IF bigEndian THEN Bswap(w) ELSE w
    BY DEF Memory, Bswap
  <1>3. SwapsForBig \in BOOLEAN /\ SwapsForLittle \in BOOLEAN
    BY <1>1 DEF SwapsForBig, SwapsForLittle
  <1>4. ASSUME NEW in \in Seq(Octets)
        PROVE  /\ Htobex(in, FALSE) = IF bigEndian THEN in ELSE Bswap(in)
               /\ Bextoh(in, FALSE) = IF bigEndian THEN in ELSE Bswap(in)
               /\ Htolex(in, FALSE) = IF bigEndian THEN Bswap(in) ELSE in
               /\ Lextoh(in, FALSE) = IF bigEndian THEN Bswap(in) ELSE in
    BY <1>1, <1>3, ConversionOfBytes DEF Htobex, Htolex, Bextoh, Lextoh
  <1>5. Bswap(image) \in Seq(Octets) /\ Bswap(Bswap(image)) = image
    BY <1>1, SwapTwice
  <1>6. hasEndianH => ToBig(Load(image)) = (IF bigEndian THEN Load(image) ELSE Bswap(Load(image)))
                      /\ ToLittle(Load(image)) = (IF bigEndian THEN Bswap(Load(image)) ELSE Load(image))
    BY <1>1 DEF ToBig, ToLittle, Conversion, SwapsForBig, SwapsForLittle
  <1>7. hasEndianH /\ bigEndian => Htobex(image, TRUE) = image
    <2> SUFFICES ASSUME hasEndianH, bigEndian PROVE Htobex(image, TRUE) = image
      OBVIOUS
    <2>1. ~SwapsForBig
      BY DEF SwapsForBig
    <2>2. Memory(Conversion(SwapsForBig, Load(image))) = image
      BY <1>2, <1>5, <2>1 DEF Conversion, Load
    <2> QED
      BY <2>2 DEF Htobex, ConvertX
  <1> DEFINE w == Load(image)
             big == Bswap(w)
  <1>8. w \in Seq(Octets) /\ w = (IF bigEndian THEN Bswap(image) ELSE image)
        /\ big = (IF bigEndian THEN image ELSE Bswap(image))
    BY <1>1, <1>2, <1>5 DEF Load
  <1> HIDE DEF w, big
  <1>9. hasEndianH /\ bigEndian => Htobex(image, TRUE) = big
    BY <1>7, <1>8
  <1>10. Htobex(image, FALSE) = big /\ Htolex(image, FALSE) = w
    BY <1>1, <1>4, <1>8
  <1>11. Bextoh(Htobex(image, FALSE), FALSE) = image /\ Lextoh(Htolex(image, FALSE), FALSE) = image
    BY <1>1, <1>4, <1>5
  <1>12. hasEndianH => Memory(ToBig(w)) = big /\ Memory(ToLittle(w)) = w
    <2>1. Bswap(w) = big /\ Bswap(Bswap(w)) = w
      BY <1>8, SwapTwice DEF big
    <2> QED
      BY <1>2, <1>6, <2>1 DEF w
  <1> QED
    BY <1>9, <1>10, <1>11, <1>12 DEF ByteOrderRight, w, big

(* A conversion leaves an image. *)
LEMMA ConvertStep == ASSUME EndianInv, [Convert]_evars PROVE EndianInv'
  <1>1. CASE UNCHANGED evars
    BY <1>1 DEF EndianInv, evars
  <1>2. CASE Convert
    <2>1. /\ Htobex(image, FALSE) \in Seq(Octets) /\ Htolex(image, FALSE) \in Seq(Octets)
          /\ Bextoh(image, FALSE) \in Seq(Octets) /\ Lextoh(image, FALSE) \in Seq(Octets)
      BY ConversionOfBytes, SwapTwice DEF EndianInv, Htobex, Htolex, Bextoh, Lextoh, SwapsForBig, SwapsForLittle
    <2> QED
      BY <1>2, <2>1 DEF EndianInv, Convert
  <1> QED
    BY <1>1, <1>2

(* For words of any number of octets, on machines of either order, the conversions of pf_endian.h put the
   octets in the order that their names say and back. *)
THEOREM BytesInOrder == EndianSpec => []ByteOrderRight
  <1>1. EndianInit => EndianInv
    <2> SUFFICES ASSUME EndianInit PROVE EndianInv
      OBVIOUS
    <2>1. PICK n \in WordSizes : image \in [1 .. n -> Octets]
      BY DEF EndianInit
    <2>2. n \in Nat
      BY EndianConstantsOK
    <2> QED
      BY <2>1, <2>2 DEF EndianInit, EndianInv
  <1> QED
    BY <1>1, ConvertStep, ByteOrderOfImage, PTL DEF EndianSpec

-----------------------------------------------------------------------------
(* Powers of two, numbers and their bits: pf_bitwise.h. *)

(* Powers of two. *)
LEMMA PowerStep ==
  /\ Power \in [Nat -> Nat] /\ Power[0] = 1
  /\ \A n \in Nat : Power[n + 1] = 2 * Power[n]
  <1> DEFINE F(h) == [n \in Nat |-> IF n = 0 THEN 1 ELSE 2 * h[n - 1]]
             step == [n \in Nat |-> [m \in Nat |-> 2 * m]]
             W == CHOOSE h : h = F(h)
  <1>1. step \in Steps(Nat) /\ 1 \in Nat
    BY DEF Steps
  <1>2. PICK f : Follows(f, Nat, 1, step)
    <2> HIDE DEF step
    <2> QED
      BY <1>1, Recursion
  <1>3. f \in [Nat -> Nat] /\ f[0] = 1 /\ \A n \in Nat : f[n + 1] = step[n][f[n]]
    BY <1>2 DEF Follows
  <1>4. \A n \in Nat : f[n + 1] = 2 * f[n]
    BY <1>3
  <1>5. f = F(f)
    <2>1. ASSUME NEW n \in Nat PROVE f[n] = IF n = 0 THEN 1 ELSE 2 * f[n - 1]
      <3>1. CASE n = 0
        BY <1>3, <3>1
      <3>2. CASE n # 0
        <4>1. n - 1 \in Nat /\ n - 1 + 1 = n
          BY <3>2
        <4> QED
          BY <1>4, <3>2, <4>1
      <3> QED
        BY <3>1, <3>2
    <2> HIDE DEF step
    <2> QED
      BY <1>3, <2>1
  <1>6. W = F(W)
    BY <1>5
  <1>7. Power = W
    BY DEF Power
  <1>8. \A n \in Nat : Power[n] = IF n = 0 THEN 1 ELSE 2 * Power[n - 1]
    <2>1. Power = F(Power)
      BY <1>6, <1>7
    <2>2. \A n \in Nat : F(Power)[n] = IF n = 0 THEN 1 ELSE 2 * Power[n - 1]
      OBVIOUS
    <2> HIDE DEF F
    <2> QED
      BY <2>1, <2>2
  <1>9. Power[0] = 1
    BY <1>8
  <1>10. ASSUME NEW n \in Nat PROVE Power[n + 1] = 2 * Power[n]
    <2>1. n + 1 \in Nat /\ n + 1 # 0 /\ n + 1 - 1 = n
      OBVIOUS
    <2> QED
      BY <1>8, <2>1
  <1>11. \A n \in Nat : Power[n] \in Nat
    <2> DEFINE T == {n \in Nat : Power[n] \in Nat}
    <2>1. 0 \in T
      BY <1>9
    <2>2. ASSUME NEW n \in Nat, n \in T PROVE n + 1 \in T
      BY <1>10, <2>2
    <2> HIDE DEF T
    <2>3. \A n \in Nat : n \in T
      BY <2>1, <2>2, Induct
    <2> QED
      BY <2>3 DEF T
  <1>12. Power = [n \in Nat |-> Power[n]]
    <2>1. Power = F(Power)
      BY <1>6, <1>7
    <2>2. \A h : F(h) = [n \in Nat |-> F(h)[n]]
      OBVIOUS
    <2> HIDE DEF F, W
    <2> QED
      BY <2>1, <2>2
  <1> QED
    BY <1>9, <1>10, <1>11, <1>12

(* Powers are positive. *)
LEMMA PowerPositive == \A n \in Nat : Power[n] \in Nat /\ Power[n] >= 1
  <1> DEFINE T == {n \in Nat : Power[n] \in Nat /\ Power[n] >= 1}
  <1>1. 0 \in T
    BY PowerStep
  <1>2. ASSUME NEW n \in Nat, n \in T PROVE n + 1 \in T
    <2>1. Power[n + 1] = 2 * Power[n] /\ Power[n] \in Nat /\ Power[n] >= 1
      BY <1>2, PowerStep
    <2> QED
      BY <2>1
  <1> HIDE DEF T
  <1>3. \A n \in Nat : n \in T
    BY <1>1, <1>2, Induct
  <1> QED
    BY <1>3 DEF T

(* Of two powers the one with the larger exponent is the larger. *)
LEMMA PowerGrows ==
  ASSUME NEW m \in Nat, NEW n \in Nat, m < n
  PROVE  2 * Power[m] <= Power[n] /\ Power[m] < Power[n]
  <1> DEFINE T == {d \in Nat : 2 * Power[m] <= Power[m + 1 + d]}
  <1>1. 0 \in T
    <2>1. m + 1 + 0 = m + 1 /\ Power[m + 1] = 2 * Power[m] /\ Power[m] \in Nat
      BY PowerStep, PowerPositive
    <2> QED
      BY <2>1
  <1>2. ASSUME NEW d \in Nat, d \in T PROVE d + 1 \in T
    <2>1. m + 1 + d \in Nat /\ m + 1 + (d + 1) = m + 1 + d + 1
      OBVIOUS
    <2>2. Power[m + 1 + (d + 1)] = 2 * Power[m + 1 + d] /\ Power[m + 1 + d] \in Nat /\ Power[m] \in Nat
      BY <2>1, PowerStep, PowerPositive
    <2>3. 2 * Power[m] <= Power[m + 1 + d]
      BY <1>2
    <2> QED
      BY <2>2, <2>3
  <1>3. \A d \in Nat : d \in T
    <2> HIDE DEF T
    <2> QED
      BY <1>1, <1>2, Induct
  <1>4. n - (m + 1) \in Nat /\ m + 1 + (n - (m + 1)) = n
    OBVIOUS
  <1>5. 2 * Power[m] <= Power[n]
    BY <1>3, <1>4
  <1>6. Power[m] \in Nat /\ Power[m] >= 1 /\ Power[n] \in Nat
    BY PowerPositive
  <1> QED
    BY <1>5, <1>6

(* The product of two powers. *)
LEMMA PowerProduct ==
  ASSUME NEW m \in Nat, NEW n \in Nat
  PROVE  Power[m + n] = Power[m] * Power[n]
  <1> DEFINE T == {d \in Nat : Power[m + d] = Power[m] * Power[d]}
  <1>1. 0 \in T
    BY PowerStep, PowerPositive
  <1>2. ASSUME NEW d \in Nat, d \in T PROVE d + 1 \in T
    <2>1. m + d \in Nat /\ m + (d + 1) = m + d + 1
      OBVIOUS
    <2>2. Power[m + (d + 1)] = 2 * Power[m + d] /\ Power[d + 1] = 2 * Power[d]
      BY <2>1, PowerStep
    <2>3. Power[m + d] = Power[m] * Power[d]
      BY <1>2
    <2>4. Power[m] \in Nat /\ Power[d] \in Nat
      BY PowerPositive
    <2>5. \A a, b \in Nat : 2 * (a * b) = a * (2 * b)
      OBVIOUS
    <2> QED
      BY <2>2, <2>3, <2>4, <2>5
  <1>3. \A d \in Nat : d \in T
    <2> HIDE DEF T
    <2> QED
      BY <1>1, <1>2, Induct
  <1> QED
    BY <1>3

(* The number of a word and the word of a number, bit after bit. *)
Horner(x, v) ==
  /\ v \in [0 .. Width -> Nat] /\ v[0] = 0
  /\ \A k \in 0 .. Width - 1 : v[k + 1] = 2 * v[k] + (IF Width - (k + 1) \in x THEN 1 ELSE 0)
Halved(n, h) ==
  /\ h \in [0 .. Width -> Nat] /\ h[0] = n
  /\ \A b \in 0 .. Width - 1 : h[b + 1] = h[b] \div 2

(* The widths are numbers. *)
LEMMA WidthNumber == Width \in Nat /\ Width >= 2 /\ IntWidth \in Nat /\ IntWidth >= Width
  BY BitsConstantsOK

(* The number of a word, by the recursion from its highest bit down. *)
LEMMA ValueByBits == ASSUME NEW x PROVE \E v : Horner(x, v) /\ Value(x) = v[Width]
  <1> DEFINE Bit(k) == IF Width - k \in x THEN 1 ELSE 0
             F(h) == [k \in 0 .. Width |-> IF k = 0 THEN 0 ELSE 2 * h[k - 1] + (IF Width - k \in x THEN 1 ELSE 0)]
             step == [k \in Nat |-> [m \in Nat |-> 2 * m + Bit(k + 1)]]
             W == CHOOSE h : h = F(h)
  <1>1. step \in Steps(Nat) /\ 0 \in Nat /\ Width \in Nat
    BY WidthNumber DEF Steps
  <1>0. PICK f : FollowsTo(f, Width, Nat, 0, step)
    <2> HIDE DEF step
    <2> QED
      BY <1>1, RecursionTo
  <1>2. f \in [0 .. Width -> Nat] /\ f[0] = 0 /\ \A n \in 0 .. Width - 1 : f[n + 1] = step[n][f[n]]
    BY <1>0 DEF FollowsTo
  <1>3. \A n \in 0 .. Width - 1 : f[n + 1] = 2 * f[n] + Bit(n + 1)
    <2>0. \A n \in 0 .. Width - 1 : n \in Nat /\ n \in 0 .. Width
      BY <1>1
    <2>1. \A n \in 0 .. Width - 1 : n \in Nat /\ f[n] \in Nat
      <3> HIDE DEF step
      <3> QED
        BY <1>2, <2>0
    <2>2. \A n, m \in Nat : step[n][m] = 2 * m + Bit(n + 1)
      OBVIOUS
    <2> HIDE DEF step, Bit
    <2> QED
      BY <1>2, <2>1, <2>2
  <1>4. f = F(f)
    <2>1. ASSUME NEW n \in 0 .. Width PROVE f[n] = IF n = 0 THEN 0 ELSE 2 * f[n - 1] + Bit(n)
      <3>1. CASE n = 0
        BY <1>2, <3>1
      <3>2. CASE n # 0
        <4>1. n - 1 \in 0 .. Width - 1 /\ n - 1 + 1 = n
          BY <1>1, <3>2
        <4> HIDE DEF Bit
        <4> QED
          BY <1>3, <3>2, <4>1
      <3> HIDE DEF Bit
      <3> QED
        BY <3>1, <3>2
    <2> HIDE DEF step
    <2> QED
      BY <1>2, <2>1
  <1>5. W = F(W)
    BY <1>4
  <1>6. Value(x) = W[Width]
    BY DEF Value
  <1>7. \A h : F(h)[0] = 0 /\ \A n \in 0 .. Width - 1 : F(h)[n + 1] = 2 * h[n] + Bit(n + 1)
    <2>1. 0 \in 0 .. Width /\ \A n \in 0 .. Width - 1 : n + 1 \in 0 .. Width /\ n + 1 # 0 /\ n + 1 - 1 = n
      BY <1>1
    <2>2. \A h : F(h)[0] = 0
      BY <2>1
    <2>3. ASSUME NEW h, NEW n \in 0 .. Width - 1 PROVE F(h)[n + 1] = 2 * h[n] + Bit(n + 1)
      <3>1. F(h)[n + 1] = 2 * h[n + 1 - 1] + Bit(n + 1)
        BY <2>1
      <3> HIDE DEF F, Bit
      <3> QED
        BY <2>1, <3>1
    <2> HIDE DEF F, Bit
    <2> QED
      BY <2>2, <2>3
  <1>8. W[0] = 0 /\ \A n \in 0 .. Width - 1 : W[n + 1] = 2 * W[n] + Bit(n + 1)
    <2> HIDE DEF F, Bit, W
    <2> QED
      BY <1>5, <1>7
  <1>9. \A n \in 0 .. Width : W[n] = f[n]
    <2> DEFINE T == {n \in 0 .. Width : W[n] = f[n]}
    <2>1. 0 \in T
      <3> HIDE DEF W, step
      <3> QED
        BY <1>1, <1>2, <1>8
    <2>2. ASSUME NEW n \in 0 .. Width - 1, n \in T PROVE n + 1 \in T
      <3>1. n + 1 \in 0 .. Width /\ W[n] = f[n]
        BY <1>1, <2>2
      <3> HIDE DEF W, Bit
      <3> QED
        BY <1>3, <1>8, <3>1
    <2> HIDE DEF T
    <2>3. \A n \in 0 .. Width : n \in T
      BY <1>1, <2>1, <2>2, InductTo
    <2> QED
      BY <2>3 DEF T
  <1>10. Value(x) = f[Width]
    <2>1. Width \in 0 .. Width
      BY <1>1
    <2> HIDE DEF W
    <2> QED
      BY <1>6, <1>9, <2>1
  <1>11. Horner(x, f)
    BY <1>2, <1>3 DEF Horner
  <1> QED
    BY <1>10, <1>11

(* The word of a number, by the recursion that halves it. *)
LEMMA WordByBits ==
  ASSUME NEW n \in Nat
  PROVE  \E h : Halved(n, h) /\ ToWord(n) = {b \in Bits : h[b] % 2 = 1}
  <1> DEFINE F(h) == [b \in 0 .. Width |-> IF b = 0 THEN n ELSE h[b - 1] \div 2]
             step == [b \in Nat |-> [m \in Nat |-> m \div 2]]
             W == CHOOSE h : h = F(h)
  <1>1. step \in Steps(Nat) /\ Width \in Nat
    BY WidthNumber DEF Steps
  <1>0. PICK f : FollowsTo(f, Width, Nat, n, step)
    <2> HIDE DEF step
    <2> QED
      BY <1>1, RecursionTo
  <1>2. f \in [0 .. Width -> Nat] /\ f[0] = n /\ \A b \in 0 .. Width - 1 : f[b + 1] = step[b][f[b]]
    BY <1>0 DEF FollowsTo
  <1>3. \A b \in 0 .. Width - 1 : f[b + 1] = f[b] \div 2
    <2>0. \A b \in 0 .. Width - 1 : b \in Nat /\ b \in 0 .. Width
      BY <1>1
    <2>1. \A b \in 0 .. Width - 1 : b \in Nat /\ f[b] \in Nat
      <3> HIDE DEF step
      <3> QED
        BY <1>2, <2>0
    <2>2. ASSUME NEW b \in 0 .. Width - 1 PROVE f[b + 1] = f[b] \div 2
      <3>1. b \in Nat /\ f[b] \in Nat
        BY <2>1
      <3>2. step[b][f[b]] = f[b] \div 2
        BY <3>1
      <3> HIDE DEF step
      <3> QED
        BY <1>2, <3>2
    <2> QED
      BY <2>2
  <1>4. f = F(f)
    <2>1. ASSUME NEW b \in 0 .. Width PROVE f[b] = IF b = 0 THEN n ELSE f[b - 1] \div 2
      <3>1. CASE b = 0
        BY <1>2, <3>1
      <3>2. CASE b # 0
        <4>1. b - 1 \in 0 .. Width - 1 /\ b - 1 + 1 = b
          BY <1>1, <3>2
        <4> QED
          BY <1>3, <3>2, <4>1
      <3> QED
        BY <3>1, <3>2
    <2> HIDE DEF step
    <2> QED
      BY <1>2, <2>1
  <1>5. W = F(W)
    BY <1>4
  <1>6. ToWord(n) = {b \in Bits : W[b] % 2 = 1}
    BY DEF ToWord
  <1>7. \A h : F(h)[0] = n /\ \A b \in 0 .. Width - 1 : F(h)[b + 1] = h[b] \div 2
    <2>1. 0 \in 0 .. Width /\ \A b \in 0 .. Width - 1 : b + 1 \in 0 .. Width /\ b + 1 # 0 /\ b + 1 - 1 = b
      BY <1>1
    <2>2. \A h : F(h)[0] = n
      BY <2>1
    <2>3. ASSUME NEW h, NEW b \in 0 .. Width - 1 PROVE F(h)[b + 1] = h[b] \div 2
      <3>1. F(h)[b + 1] = h[b + 1 - 1] \div 2
        BY <2>1
      <3> HIDE DEF F
      <3> QED
        BY <2>1, <3>1
    <2> HIDE DEF F
    <2> QED
      BY <2>2, <2>3
  <1>8. W[0] = n /\ \A b \in 0 .. Width - 1 : W[b + 1] = W[b] \div 2
    <2> HIDE DEF F, W
    <2> QED
      BY <1>5, <1>7
  <1>9. \A b \in 0 .. Width : W[b] = f[b]
    <2> DEFINE T == {b \in 0 .. Width : W[b] = f[b]}
    <2>1. 0 \in T
      <3> HIDE DEF W, step
      <3> QED
        BY <1>1, <1>2, <1>8
    <2>2. ASSUME NEW b \in 0 .. Width - 1, b \in T PROVE b + 1 \in T
      <3>1. b + 1 \in 0 .. Width /\ W[b] = f[b]
        BY <1>1, <2>2
      <3> HIDE DEF W
      <3> QED
        BY <1>3, <1>8, <3>1
    <2> HIDE DEF T
    <2>3. \A b \in 0 .. Width : b \in T
      BY <1>1, <2>1, <2>2, InductTo
    <2> QED
      BY <2>3 DEF T
  <1>10. ToWord(n) = {b \in Bits : f[b] % 2 = 1}
    <2>1. \A b \in Bits : W[b] = f[b]
      BY <1>1, <1>9 DEF Bits
    <2> HIDE DEF W
    <2> QED
      BY <1>6, <2>1
  <1>11. Halved(n, f)
    BY <1>2, <1>3 DEF Halved
  <1> QED
    BY <1>10, <1>11

(* A word goes to its number and back. *)
LEMMA WordAndBack ==
  ASSUME NEW x \in Words
  PROVE  Value(x) \in Nat /\ Value(x) < Power[Width] /\ ToWord(Value(x)) = x
  <1>0. Width \in Nat /\ Width >= 2
    BY WidthNumber
  <1>1. PICK v : Horner(x, v) /\ Value(x) = v[Width]
    BY ValueByBits
  <1>2. /\ v \in [0 .. Width -> Nat] /\ v[0] = 0
        /\ \A k \in 0 .. Width - 1 : v[k + 1] = 2 * v[k] + (IF Width - (k + 1) \in x THEN 1 ELSE 0)
    BY <1>1 DEF Horner
  <1>3. Value(x) \in Nat
    BY <1>0, <1>1, <1>2
  <1>4. \A k \in 0 .. Width : v[k] < Power[k]
    <2> DEFINE T == {k \in 0 .. Width : v[k] < Power[k]}
    <2>1. 0 \in T
      BY <1>0, <1>2, PowerStep
    <2>2. ASSUME NEW k \in 0 .. Width - 1, k \in T PROVE k + 1 \in T
      <3>1. k \in Nat /\ k \in 0 .. Width /\ k + 1 \in 0 .. Width /\ v[k] < Power[k]
        BY <1>0, <2>2
      <3>2. v[k] \in Nat /\ Power[k] \in Nat /\ Power[k + 1] = 2 * Power[k]
        BY <1>2, <3>1, PowerStep, PowerPositive
      <3>3. v[k + 1] \in {2 * v[k], 2 * v[k] + 1}
        <4>1. v[k + 1] = 2 * v[k] + (IF Width - (k + 1) \in x THEN 1 ELSE 0)
          BY <1>2
        <4> QED
          BY <3>2, <4>1
      <3>4. v[k + 1] < Power[k + 1]
        BY <3>1, <3>2, <3>3
      <3> QED
        BY <3>1, <3>4
    <2> HIDE DEF T
    <2>3. \A k \in 0 .. Width : k \in T
      BY <1>0, <2>1, <2>2, InductTo
    <2> QED
      BY <2>3 DEF T
  <1>5. PICK h : Halved(Value(x), h) /\ ToWord(Value(x)) = {b \in Bits : h[b] % 2 = 1}
    BY <1>3, WordByBits
  <1>6. h \in [0 .. Width -> Nat] /\ h[0] = v[Width] /\ \A b \in 0 .. Width - 1 : h[b + 1] = h[b] \div 2
    BY <1>1, <1>5 DEF Halved
  <1>7. ASSUME NEW b \in 0 .. Width - 1
        PROVE  /\ Width - b - 1 \in 0 .. Width - 1
               /\ v[Width - b - 1] \in Nat
               /\ v[Width - b] = 2 * v[Width - b - 1] + (IF b \in x THEN 1 ELSE 0)
    <2>1. Width - b - 1 \in 0 .. Width - 1 /\ Width - b - 1 \in 0 .. Width
          /\ Width - b - 1 + 1 = Width - b /\ Width - (Width - b) = b
      BY <1>0
    <2>2. v[Width - b - 1 + 1] = 2 * v[Width - b - 1] + (IF Width - (Width - b - 1 + 1) \in x THEN 1 ELSE 0)
      BY <1>2, <2>1
    <2> QED
      BY <1>2, <2>1, <2>2
  <1>8. \A b \in 0 .. Width : h[b] = v[Width - b]
    <2> DEFINE T == {b \in 0 .. Width : h[b] = v[Width - b]}
    <2>1. 0 \in T
      BY <1>0, <1>6
    <2>2. ASSUME NEW b \in 0 .. Width - 1, b \in T PROVE b + 1 \in T
      <3>1. b + 1 \in 0 .. Width /\ h[b] = v[Width - b] /\ Width - (b + 1) = Width - b - 1
        BY <1>0, <2>2
      <3>2. h[b + 1] = v[Width - b] \div 2
        BY <1>6, <3>1
      <3>3. \A m \in Nat : (2 * m) \div 2 = m /\ (2 * m + 1) \div 2 = m
        OBVIOUS
      <3>4. v[Width - b] \div 2 = v[Width - b - 1]
        BY <1>7, <3>3
      <3> QED
        BY <3>1, <3>2, <3>4
    <2> HIDE DEF T
    <2>3. \A b \in 0 .. Width : b \in T
      BY <1>0, <2>1, <2>2, InductTo
    <2> QED
      BY <2>3 DEF T
  <1>9. ASSUME NEW b \in Bits PROVE h[b] % 2 = 1 <=> b \in x
    <2>1. b \in 0 .. Width - 1 /\ b \in 0 .. Width
      BY <1>0 DEF Bits
    <2>2. \A m \in Nat : (2 * m) % 2 = 0 /\ (2 * m + 1) % 2 = 1
      OBVIOUS
    <2>3. CASE b \in x
      <3>1. h[b] = 2 * v[Width - b - 1] + 1
        BY <1>7, <1>8, <2>1, <2>3
      <3> QED
        BY <1>7, <2>1, <2>2, <2>3, <3>1
    <2>4. CASE b \notin x
      <3>1. h[b] = 2 * v[Width - b - 1]
        BY <1>7, <1>8, <2>1, <2>4
      <3> QED
        BY <1>7, <2>1, <2>2, <2>4, <3>1
    <2> QED
      BY <2>3, <2>4
  <1>10. ToWord(Value(x)) = x
    <2>1. x \subseteq Bits
      BY DEF Words
    <2> QED
      BY <1>5, <1>9, <2>1
  <1>11. Value(x) < Power[Width]
    BY <1>0, <1>1, <1>4
  <1> QED
    BY <1>3, <1>10, <1>11

(* The highest bit where two words differ decides which number is the larger; and the numbers are next to
   each other when the larger has no bit below it and the smaller has all of them. *)
LEMMA HighestBitDecides ==
  ASSUME NEW x \in Words, NEW y \in Words, NEW b \in Bits, b \in y, b \notin x,
         \A c \in Bits : c > b => (c \in x <=> c \in y)
  PROVE  /\ Value(x) < Value(y)
         /\ (\A c \in Bits : c < b => c \in x /\ c \notin y) => Value(y) = Value(x) + 1
  <1>0. Width \in Nat /\ Width >= 2 /\ b \in 0 .. Width - 1
    BY WidthNumber DEF Bits
  <1>1. PICK v : Horner(x, v) /\ Value(x) = v[Width]
    BY ValueByBits
  <1>2. PICK w : Horner(y, w) /\ Value(y) = w[Width]
    BY ValueByBits
  <1>3. /\ v \in [0 .. Width -> Nat] /\ v[0] = 0
        /\ \A k \in 0 .. Width - 1 : v[k + 1] = 2 * v[k] + (IF Width - (k + 1) \in x THEN 1 ELSE 0)
        /\ w \in [0 .. Width -> Nat] /\ w[0] = 0
        /\ \A k \in 0 .. Width - 1 : w[k + 1] = 2 * w[k] + (IF Width - (k + 1) \in y THEN 1 ELSE 0)
    BY <1>1, <1>2 DEF Horner
  <1> DEFINE low == \A c \in Bits : c < b => c \in x /\ c \notin y
             Compared(k) == /\ k < Width - b => v[k] = w[k]
                            /\ k >= Width - b => v[k] < w[k] /\ (low => w[k] = v[k] + 1)
             T == {k \in 0 .. Width : Compared(k)}
  <1>4. 0 \in T
    BY <1>0, <1>3
  <1>5. ASSUME NEW k \in 0 .. Width - 1, k \in T PROVE k + 1 \in T
    <2>0. k \in Nat /\ k \in 0 .. Width /\ k + 1 \in 0 .. Width /\ Width - (k + 1) \in Bits
      BY <1>0 DEF Bits
    <2>1. /\ k \in Nat /\ k \in 0 .. Width /\ k + 1 \in 0 .. Width /\ Width - (k + 1) \in Bits
          /\ v[k] \in Nat /\ w[k] \in Nat /\ v[k + 1] \in Nat /\ w[k + 1] \in Nat
      BY <1>3, <2>0
    <2>2. Compared(k)
      BY <1>5
    <2>3. /\ v[k + 1] = 2 * v[k] + (IF Width - (k + 1) \in x THEN 1 ELSE 0)
          /\ w[k + 1] = 2 * w[k] + (IF Width - (k + 1) \in y THEN 1 ELSE 0)
      BY <1>3
    <2> DEFINE c == Width - (k + 1)
    <2>4. CASE c > b
      <3>1. c \in x <=> c \in y
        BY <2>1, <2>4
      <3>2. k < Width - b /\ k + 1 < Width - b
        BY <1>0, <2>1, <2>4
      <3>3. v[k + 1] = w[k + 1]
        BY <2>2, <2>3, <3>1, <3>2
      <3>4. Compared(k + 1)
        BY <3>2, <3>3, <1>0
      <3> QED
        BY <2>1, <3>4
    <2>5. CASE c = b
      <3>1. k < Width - b /\ k + 1 = Width - b
        BY <1>0, <2>1, <2>5
      <3>2. v[k + 1] = 2 * v[k] /\ w[k + 1] = 2 * v[k] + 1
        BY <2>1, <2>2, <2>3, <2>5, <3>1
      <3>3. Compared(k + 1)
        BY <1>0, <2>1, <3>1, <3>2
      <3> QED
        BY <2>1, <3>3
    <2>6. CASE c < b
      <3>1. k >= Width - b /\ k + 1 >= Width - b
        BY <1>0, <2>1, <2>6
      <3>2. v[k] < w[k] /\ (low => w[k] = v[k] + 1)
        BY <2>2, <3>1
      <3>3. v[k + 1] \in {2 * v[k], 2 * v[k] + 1} /\ w[k + 1] \in {2 * w[k], 2 * w[k] + 1}
        BY <2>1, <2>3
      <3>4. v[k + 1] < w[k + 1]
        BY <2>1, <3>2, <3>3
      <3>5. ASSUME low PROVE w[k + 1] = v[k + 1] + 1
        <4>1. c \in x /\ c \notin y
          BY <2>1, <2>6, <3>5
        <4>2. v[k + 1] = 2 * v[k] + 1 /\ w[k + 1] = 2 * w[k]
          BY <2>1, <2>3, <4>1
        <4> QED
          BY <2>1, <3>2, <3>5, <4>2
      <3>6. Compared(k + 1)
        <4> HIDE DEF low
        <4> QED
          BY <1>0, <2>1, <3>1, <3>4, <3>5
      <3> QED
        BY <2>1, <3>6
    <2> QED
      BY <1>0, <2>1, <2>4, <2>5, <2>6
  <1>6. \A k \in 0 .. Width : k \in T
    <2> HIDE DEF T
    <2> QED
      BY <1>0, <1>4, <1>5, InductTo
  <1>7. Width \in 0 .. Width /\ Width >= Width - b
    BY <1>0
  <1>8. Compared(Width)
    BY <1>6, <1>7
  <1> QED
    BY <1>1, <1>2, <1>7, <1>8

(* The numbers of a single bit and of all bits below one. *)
LEMMA ValueOfBit ==
  ASSUME NEW b \in Bits
  PROVE  {b} \in Words /\ Value({b}) = Power[b]
  <1>0. Width \in Nat /\ Width >= 2 /\ b \in 0 .. Width - 1
    BY WidthNumber DEF Bits
  <1>1. PICK v : Horner({b}, v) /\ Value({b}) = v[Width]
    BY ValueByBits
  <1>2. /\ v \in [0 .. Width -> Nat] /\ v[0] = 0
        /\ \A k \in 0 .. Width - 1 : v[k + 1] = 2 * v[k] + (IF Width - (k + 1) \in {b} THEN 1 ELSE 0)
    BY <1>1 DEF Horner
  <1> DEFINE Want(k) == IF k < Width - b THEN 0 ELSE Power[k - (Width - b)]
             T == {k \in 0 .. Width : v[k] = Want(k)}
  <1>3. 0 \in T
    BY <1>0, <1>2
  <1>4. ASSUME NEW k \in 0 .. Width - 1, k \in T PROVE k + 1 \in T
    <2>1. k \in 0 .. Width /\ k + 1 \in 0 .. Width /\ v[k] \in Nat
      BY <1>0, <1>2
    <2>2. v[k + 1] = 2 * v[k] + (IF Width - (k + 1) = b THEN 1 ELSE 0)
      <3>1. v[k + 1] = 2 * v[k] + (IF Width - (k + 1) \in {b} THEN 1 ELSE 0)
        BY <1>2
      <3>2. Width - (k + 1) \in {b} <=> Width - (k + 1) = b
        OBVIOUS
      <3> QED
        BY <3>1, <3>2
    <2>3. v[k] = IF k < Width - b THEN 0 ELSE Power[k - (Width - b)]
      BY <1>4
    <2>4. CASE k + 1 < Width - b
      <3>1. v[k + 1] = 0
        BY <1>0, <2>1, <2>2, <2>3, <2>4
      <3> QED
        BY <2>1, <2>4, <3>1
    <2>5. CASE k + 1 = Width - b
      <3>1. v[k + 1] = 1 /\ k + 1 - (Width - b) = 0 /\ ~(k + 1 < Width - b)
        BY <1>0, <2>1, <2>2, <2>3, <2>5
      <3>2. v[k + 1] = Power[k + 1 - (Width - b)]
        BY <3>1, PowerStep
      <3>3. Want(k + 1) = Power[k + 1 - (Width - b)]
        BY <1>0, <2>1, <3>1
      <3> HIDE DEF Want
      <3> QED
        BY <2>1, <3>2, <3>3
    <2>6. CASE k + 1 > Width - b
      <3>1. ~(k < Width - b) /\ ~(k + 1 < Width - b) /\ Width - (k + 1) # b
        BY <1>0, <2>1, <2>6
      <3>2. k - (Width - b) \in Nat /\ k + 1 - (Width - b) = k - (Width - b) + 1
        BY <1>0, <2>1, <2>6
      <3>3. Power[k + 1 - (Width - b)] = 2 * Power[k - (Width - b)]
        BY <3>2, PowerStep
      <3>4. v[k + 1] = 2 * v[k]
        BY <2>1, <2>2, <3>1
      <3>5. Want(k + 1) = Power[k + 1 - (Width - b)]
        BY <1>0, <2>1, <3>1
      <3>6. v[k + 1] = Power[k + 1 - (Width - b)]
        BY <2>3, <3>1, <3>3, <3>4
      <3> HIDE DEF Want
      <3> QED
        BY <2>1, <3>5, <3>6
    <2> QED
      BY <1>0, <2>1, <2>4, <2>5, <2>6
  <1>5. \A k \in 0 .. Width : k \in T
    <2> HIDE DEF T
    <2> QED
      BY <1>0, <1>3, <1>4, InductTo
  <1>6. Width \in 0 .. Width /\ ~(Width < Width - b) /\ Width - (Width - b) = b
    BY <1>0
  <1>7. v[Width] = Power[b]
    BY <1>5, <1>6
  <1> QED
    BY <1>1, <1>7 DEF Words

(* All ones below a bit. *)
LEMMA ValueOfLow ==
  ASSUME NEW n \in 0 .. Width
  PROVE  0 .. n - 1 \in Words /\ Value(0 .. n - 1) = Power[n] - 1
  <1>0. Width \in Nat /\ Width >= 2
    BY WidthNumber
  <1>1. PICK v : Horner(0 .. n - 1, v) /\ Value(0 .. n - 1) = v[Width]
    BY ValueByBits
  <1>2. /\ v \in [0 .. Width -> Nat] /\ v[0] = 0
        /\ \A k \in 0 .. Width - 1 : v[k + 1] = 2 * v[k] + (IF Width - (k + 1) \in 0 .. n - 1 THEN 1 ELSE 0)
    BY <1>1 DEF Horner
  <1> DEFINE Want(k) == IF k < Width - n THEN 0 ELSE Power[k - (Width - n)] - 1
             T == {k \in 0 .. Width : v[k] = Want(k)}
  <1>3. 0 \in T
    <2>1. CASE n = Width
      <3>1. 0 - (Width - n) = 0 /\ ~(0 < Width - n)
        BY <1>0, <2>1
      <3>2. Power[0 - (Width - n)] = 1
        BY <3>1, PowerStep
      <3>3. Want(0) = Power[0 - (Width - n)] - 1
        BY <3>1
      <3>4. Want(0) = 0
        BY <3>2, <3>3
      <3> HIDE DEF Want
      <3> QED
        BY <1>0, <1>2, <3>4
    <2>2. CASE n # Width
      BY <1>0, <1>2, <2>2
    <2> QED
      BY <2>1, <2>2
  <1>4. ASSUME NEW k \in 0 .. Width - 1, k \in T PROVE k + 1 \in T
    <2>1. k \in 0 .. Width /\ k + 1 \in 0 .. Width /\ v[k] \in Nat
      BY <1>0, <1>2
    <2>2. v[k + 1] = 2 * v[k] + (IF Width - (k + 1) \in 0 .. n - 1 THEN 1 ELSE 0)
      BY <1>2
    <2>3. v[k] = IF k < Width - n THEN 0 ELSE Power[k - (Width - n)] - 1
      BY <1>4
    <2>4. CASE k + 1 < Width - n
      <3>1. Width - (k + 1) \notin 0 .. n - 1 /\ k < Width - n
        BY <1>0, <2>1, <2>4
      <3>2. v[k + 1] = 0
        BY <2>2, <2>3, <3>1
      <3> QED
        BY <2>1, <2>4, <3>2
    <2>5. CASE k + 1 = Width - n
      <3>1. k + 1 - (Width - n) = 0 /\ ~(k + 1 < Width - n) /\ k < Width - n /\ Width - (k + 1) \notin 0 .. n - 1
        BY <1>0, <2>1, <2>5
      <3>2. v[k + 1] = 0
        BY <2>2, <2>3, <3>1
      <3>3. Power[k + 1 - (Width - n)] = 1
        BY <3>1, PowerStep
      <3>4. Want(k + 1) = Power[k + 1 - (Width - n)] - 1
        BY <1>0, <2>1, <3>1
      <3>5. Want(k + 1) = 0
        BY <3>3, <3>4
      <3> HIDE DEF Want
      <3> QED
        BY <2>1, <3>2, <3>5
    <2>6. CASE k + 1 > Width - n
      <3>1. ~(k < Width - n) /\ ~(k + 1 < Width - n) /\ Width - (k + 1) \in 0 .. n - 1
        BY <1>0, <2>1, <2>6
      <3>2. k - (Width - n) \in Nat /\ k + 1 - (Width - n) = k - (Width - n) + 1
        BY <1>0, <2>1, <2>6
      <3>3. Power[k + 1 - (Width - n)] = 2 * Power[k - (Width - n)] /\ Power[k - (Width - n)] \in Nat
        BY <3>2, PowerStep, PowerPositive
      <3>4. v[k + 1] = 2 * v[k] + 1 /\ v[k] = Power[k - (Width - n)] - 1
        BY <2>2, <2>3, <3>1
      <3>5. v[k + 1] = Power[k + 1 - (Width - n)] - 1
        BY <3>3, <3>4
      <3>6. Want(k + 1) = Power[k + 1 - (Width - n)] - 1
        BY <1>0, <2>1, <3>1
      <3> HIDE DEF Want
      <3> QED
        BY <2>1, <3>5, <3>6
    <2> QED
      BY <1>0, <2>1, <2>4, <2>5, <2>6
  <1>5. \A k \in 0 .. Width : k \in T
    <2> HIDE DEF T
    <2> QED
      BY <1>0, <1>3, <1>4, InductTo
  <1>6. Width \in 0 .. Width /\ ~(Width < Width - n) /\ Width - (Width - n) = n
    BY <1>0
  <1>7. v[Width] = Power[n] - 1
    BY <1>5, <1>6
  <1>8. 0 .. n - 1 \subseteq Bits
    BY <1>0 DEF Bits
  <1> QED
    BY <1>1, <1>7, <1>8 DEF Words

(* Distinct words have distinct numbers. *)
LEMMA ValueTells == ASSUME NEW x \in Words, NEW y \in Words, Value(x) = Value(y) PROVE x = y
  BY WordAndBack

(* The lowest and the highest bit. *)
LEMMA Extremes ==
  ASSUME NEW x \in Words, x # {}
  PROVE  /\ Min(x) \in x /\ Min(x) \in Bits /\ \A b \in x : Min(x) <= b
         /\ Max(x) \in x /\ Max(x) \in Bits /\ \A b \in x : b <= Max(x)
  <1>0. Width \in Nat /\ x \subseteq 0 .. Width - 1
    BY WidthNumber DEF Words, Bits
  <1>1. x \in SUBSET Nat
    BY <1>0
  <1>2. \E b \in x : \A c \in x : b <= c
    BY <1>1, Least
  <1>3. Min(x) \in x /\ \A b \in x : Min(x) <= b
    BY <1>2 DEF Min
  <1> DEFINE T == {n \in Nat : \A c \in x : c <= n}
  <1>4. Width \in T
    BY <1>0
  <1>5. PICK m \in T : \A n \in T : m <= n
    <2>1. T \in SUBSET Nat /\ T # {}
      BY <1>4
    <2> HIDE DEF T
    <2> QED
      BY <2>1, Least
  <1>6. m \in x
    <2> SUFFICES ASSUME m \notin x PROVE FALSE
      OBVIOUS
    <2>1. \A c \in x : c < m /\ c \in Nat
      BY <1>0
    <2>2. m - 1 \in Nat /\ \A c \in x : c <= m - 1
      BY <2>1
    <2>3. m - 1 \in T
      BY <2>2
    <2>4. m <= m - 1
      <3> HIDE DEF T
      <3> QED
        BY <1>5, <2>3
    <2> QED
      BY <2>4
  <1>7. \E b \in x : \A c \in x : b >= c
    <2>1. \A c \in x : m >= c
      BY <1>0
    <2> QED
      BY <1>6, <2>1
  <1>8. Max(x) \in x /\ \A b \in x : Max(x) >= b
    BY <1>7 DEF Max
  <1>9. \A b \in x : b <= Max(x)
    BY <1>0, <1>8
  <1> QED
    BY <1>3, <1>8, <1>9 DEF Words

(* x - 1: the lowest bit goes and those below it come. *)
LEMMA OneLess ==
  ASSUME NEW x \in Words, x # {}
  PROVE  /\ Less1(x) \in Words
         /\ Less1(x) = (x \ {Min(x)}) \cup {b \in Bits : b < Min(x)}
         /\ Value(Less1(x)) + 1 = Value(x)
         /\ x \cap Less1(x) = x \ {Min(x)}
  <1> DEFINE y == (x \ {Min(x)}) \cup {b \in Bits : b < Min(x)}
  <1>0. PICK m : m = Min(x)
    OBVIOUS
  <1>1. /\ m \in x /\ m \in Bits /\ x \subseteq Bits /\ Bits \subseteq Int
        /\ \A b \in x : m <= b
    BY <1>0, Extremes, WidthNumber DEF Words, Bits
  <1>2. y \in Words
    BY <1>1 DEF Words
  <1>3. m \notin y
    BY <1>0, <1>1
  <1>4. \A c \in Bits : c > m => (c \in y <=> c \in x)
    BY <1>0, <1>1
  <1>5. \A c \in Bits : c < m => c \in y /\ c \notin x
    BY <1>0, <1>1
  <1>6. Value(x) = Value(y) + 1
    <2> HIDE DEF y
    <2> QED
      BY <1>1, <1>2, <1>3, <1>4, <1>5, HighestBitDecides
  <1>7. /\ Value(y) \in Nat /\ Value(y) < Power[Width] /\ ToWord(Value(y)) = y
    <2> HIDE DEF y
    <2> QED
      BY <1>2, WordAndBack
  <1>8. (Value(x) - 1) % Power[Width] = Value(y)
    <2>1. Power[Width] \in Nat
      BY WidthNumber, PowerPositive
    <2>2. Value(x) - 1 = Value(y)
      BY <1>6, <1>7
    <2>3. \A a, c \in Nat : a < c => a % c = a
      OBVIOUS
    <2> HIDE DEF y
    <2> QED
      BY <1>7, <2>1, <2>2, <2>3
  <1>9. Less1(x) = y
    BY <1>7, <1>8 DEF Less1
  <1>10. x \cap y = x \ {m}
    BY <1>0, <1>1
  <1>11. Value(Less1(x)) + 1 = Value(x)
    <2> HIDE DEF y
    <2> QED
      BY <1>6, <1>9
  <1> QED
    BY <1>0, <1>2, <1>9, <1>10, <1>11

(* What the portable loops compute: the counts. *)
LEMMA Populations ==
  ASSUME NEW x \in Words
  PROVE  IsFiniteSet(x) /\ Cardinality(x) \in 0 .. Width /\ Cardinality(Complement(x)) = Width - Cardinality(x)
  <1>1. Width \in Nat /\ Width >= 2
    BY WidthNumber
  <1>2. IsFiniteSet(Bits) /\ Cardinality(Bits) = Width
    BY <1>1, FS_Interval DEF Bits
  <1>3. x \subseteq Bits /\ Bits \ (Bits \ x) = x
    BY DEF Words
  <1>4. IsFiniteSet(x) /\ Cardinality(x) <= Width /\ Cardinality(x) \in Nat
    BY <1>2, <1>3, FS_Subset, FS_CardinalityType
  <1>5. Cardinality(Bits \ x) = Cardinality(Bits) - Cardinality(Bits \cap x)
    BY <1>2, FS_Difference
  <1>6. Bits \cap x = x
    BY <1>3
  <1>7. Cardinality(Complement(x)) = Width - Cardinality(x)
    BY <1>2, <1>5, <1>6 DEF Complement
  <1> QED
    BY <1>1, <1>4, <1>7

(* Without its lowest bit a word has one bit less. *)
LEMMA LowestBitGone ==
  ASSUME NEW x \in Words, x # {}
  PROVE  x \cap Less1(x) \in Words /\ Cardinality(x \cap Less1(x)) = Cardinality(x) - 1 /\ Cardinality(x) >= 1
  <1>1. x \cap Less1(x) = x \ {Min(x)} /\ Min(x) \in x
    BY OneLess, Extremes
  <1>2. IsFiniteSet(x) /\ Cardinality(x) \in Nat
    BY Populations
  <1>3. Cardinality(x \ {Min(x)}) = Cardinality(x) - 1
    BY <1>1, <1>2, FS_RemoveElement
  <1>4. Cardinality(x) # 0
    BY <1>2, FS_EmptySet
  <1>5. x \ {Min(x)} \in Words
    BY DEF Words
  <1> QED
    BY <1>1, <1>2, <1>3, <1>4, <1>5

(* The loop that clears the lowest bit again and again counts the bits. *)
LEMMA PopcountOfWord == ASSUME NEW x \in Words PROVE PortablePopcount[x] = Cardinality(x)
  <1> DEFINE F(h) == [y \in Words |-> IF y = {} THEN 0 ELSE 1 + h[y \cap Less1(y)]]
             G == [y \in Words |-> Cardinality(y)]
             W == CHOOSE h : h = F(h)
             T == {n \in 0 .. Width : \A y \in Words : Cardinality(y) = n => W[y] = n}
  <1>1. ASSUME NEW y \in Words, y # {}
        PROVE  /\ y \cap Less1(y) \in Words
               /\ Cardinality(y) \in Nat /\ Cardinality(y \cap Less1(y)) = Cardinality(y) - 1
    BY <1>1, LowestBitGone, Populations, WidthNumber
  <1>2. G = F(G)
    <2>1. ASSUME NEW y \in Words PROVE G[y] = IF y = {} THEN 0 ELSE 1 + G[y \cap Less1(y)]
      <3>1. CASE y = {}
        BY <3>1, FS_EmptySet
      <3>2. CASE y # {}
        <4>1. G[y] = Cardinality(y) /\ G[y \cap Less1(y)] = Cardinality(y) - 1 /\ Cardinality(y) \in Nat
          BY <1>1, <3>2
        <4> HIDE DEF G
        <4> QED
          BY <3>2, <4>1
      <3> QED
        BY <3>1, <3>2
    <2>2. G = [y \in Words |-> G[y]]
      OBVIOUS
    <2> HIDE DEF G
    <2> QED
      BY <2>1, <2>2
  <1>3. W = F(W)
    BY <1>2
  <1>4. PortablePopcount = W
    BY DEF PortablePopcount
  <1>5. \A y \in Words : W[y] = IF y = {} THEN 0 ELSE 1 + W[y \cap Less1(y)]
    <2>1. \A h : \A y \in Words : F(h)[y] = IF y = {} THEN 0 ELSE 1 + h[y \cap Less1(y)]
      OBVIOUS
    <2> HIDE DEF F, W
    <2> QED
      BY <1>3, <2>1
  <1> HIDE DEF W
  <1>6. 0 \in T
    <2>1. \A y \in Words : Cardinality(y) = 0 => y = {}
      BY Populations, FS_EmptySet
    <2>2. 0 \in 0 .. Width
      BY WidthNumber
    <2> QED
      BY <1>5, <2>1, <2>2
  <1>7. ASSUME NEW n \in 0 .. Width - 1, n \in T PROVE n + 1 \in T
    <2>1. n + 1 \in 0 .. Width /\ n \in Nat /\ n + 1 # 0
      BY WidthNumber
    <2>2. ASSUME NEW y \in Words, Cardinality(y) = n + 1 PROVE W[y] = n + 1
      <3>1. y # {}
        BY <2>1, <2>2, FS_EmptySet
      <3>2. y \cap Less1(y) \in Words /\ Cardinality(y \cap Less1(y)) = n
        BY <1>1, <2>1, <2>2, <3>1
      <3>3. W[y \cap Less1(y)] = n
        BY <1>7, <3>2
      <3> QED
        BY <1>5, <2>1, <3>1, <3>3
    <2> QED
      BY <2>1, <2>2
  <1>8. \A n \in 0 .. Width : n \in T
    <2> HIDE DEF T
    <2> QED
      BY <1>6, <1>7, InductTo, WidthNumber
  <1> QED
    BY <1>4, <1>8, Populations

(* The same loop for parity. *)
LEMMA ParityOfWord == ASSUME NEW x \in Words PROVE PortableParity[x] = Cardinality(x) % 2
  <1> DEFINE F(h) == [y \in Words |-> IF y = {} THEN 0 ELSE 1 - h[y \cap Less1(y)]]
             G == [y \in Words |-> Cardinality(y) % 2]
             W == CHOOSE h : h = F(h)
             T == {n \in 0 .. Width : \A y \in Words : Cardinality(y) = n => W[y] = n % 2}
  <1>0. \A n \in Nat : (n + 1) % 2 = 1 - (n % 2)
    OBVIOUS
  <1>1. ASSUME NEW y \in Words, y # {}
        PROVE  /\ y \cap Less1(y) \in Words
               /\ Cardinality(y \cap Less1(y)) \in Nat /\ Cardinality(y) = Cardinality(y \cap Less1(y)) + 1
    BY <1>1, LowestBitGone, Populations, WidthNumber
  <1>2. G = F(G)
    <2>1. ASSUME NEW y \in Words PROVE G[y] = IF y = {} THEN 0 ELSE 1 - G[y \cap Less1(y)]
      <3>1. CASE y = {}
        BY <3>1, FS_EmptySet
      <3>2. CASE y # {}
        <4>1. G[y] = Cardinality(y) % 2 /\ G[y \cap Less1(y)] = Cardinality(y \cap Less1(y)) % 2
          BY <1>1, <3>2
        <4> HIDE DEF G
        <4>2. Cardinality(y) % 2 = 1 - (Cardinality(y \cap Less1(y)) % 2)
          BY <1>0, <1>1, <3>2
        <4>3. G[y] = 1 - (Cardinality(y \cap Less1(y)) % 2)
          BY <4>1, <4>2, Zenon
        <4>4. G[y] = 1 - G[y \cap Less1(y)]
          BY <4>1, <4>3, Zenon
        <4> QED
          BY <3>2, <4>4
      <3> QED
        BY <3>1, <3>2
    <2>2. G = [y \in Words |-> G[y]]
      OBVIOUS
    <2> HIDE DEF G
    <2> QED
      BY <2>1, <2>2
  <1>3. W = F(W)
    BY <1>2
  <1>4. PortableParity = W
    BY DEF PortableParity
  <1>5. \A y \in Words : W[y] = IF y = {} THEN 0 ELSE 1 - W[y \cap Less1(y)]
    <2>1. \A h : \A y \in Words : F(h)[y] = IF y = {} THEN 0 ELSE 1 - h[y \cap Less1(y)]
      OBVIOUS
    <2> HIDE DEF F, W
    <2> QED
      BY <1>3, <2>1
  <1> HIDE DEF W
  <1>6. 0 \in T
    <2>1. \A y \in Words : Cardinality(y) = 0 => y = {}
      BY Populations, FS_EmptySet
    <2>2. 0 \in 0 .. Width /\ 0 % 2 = 0
      BY WidthNumber
    <2> QED
      BY <1>5, <2>1, <2>2
  <1>7. ASSUME NEW n \in 0 .. Width - 1, n \in T PROVE n + 1 \in T
    <2>1. n + 1 \in 0 .. Width /\ n \in Nat /\ n + 1 # 0
      BY WidthNumber
    <2>2. ASSUME NEW y \in Words, Cardinality(y) = n + 1 PROVE W[y] = (n + 1) % 2
      <3>1. y # {}
        BY <2>1, <2>2, FS_EmptySet
      <3>2. y \cap Less1(y) \in Words /\ Cardinality(y \cap Less1(y)) = n
        BY <1>1, <2>1, <2>2, <3>1
      <3>3. W[y \cap Less1(y)] = n % 2
        BY <1>7, <3>2
      <3>4. W[y] = 1 - W[y \cap Less1(y)]
        BY <1>5, <3>1
      <3> QED
        BY <1>0, <2>1, <3>3, <3>4
    <2> QED
      BY <2>1, <2>2
  <1>8. \A n \in 0 .. Width : n \in T
    <2> HIDE DEF T
    <2> QED
      BY <1>6, <1>7, InductTo, WidthNumber
  <1> QED
    BY <1>4, <1>8, Populations

(* The loop that shifts until the lowest bit is one finds the lowest one. *)
LEMMA CtzOfWord ==
  ASSUME NEW x \in Words
  PROVE  PortableCtz[x] = IF x = {} THEN Width ELSE Min(x)
  <1> DEFINE F(h) == [y \in Words |-> IF y = {} THEN Width ELSE IF 0 \in y THEN 0 ELSE 1 + h[ShiftR(y, 1)]]
             G == [y \in Words |-> IF y = {} THEN Width ELSE Min(y)]
             W == CHOOSE h : h = F(h)
             T == {n \in 0 .. Width : \A y \in Words : y # {} /\ Min(y) = n => W[y] = n}
  <1>0. Width \in Nat /\ Bits = 0 .. Width - 1
    BY WidthNumber DEF Bits
  <1>1. ASSUME NEW y \in Words, y # {}, 0 \notin y
        PROVE  /\ ShiftR(y, 1) \in Words /\ ShiftR(y, 1) # {}
               /\ Min(y) \in Nat /\ Min(y) = Min(ShiftR(y, 1)) + 1 /\ Min(ShiftR(y, 1)) \in Nat
    <2>1. Min(y) \in y /\ Min(y) \in Bits /\ \A b \in y : Min(y) <= b
      BY <1>1, Extremes
    <2>2. Min(y) - 1 \in Bits /\ Min(y) - 1 + 1 = Min(y)
      BY <1>0, <1>1, <2>1
    <2>3. ShiftR(y, 1) \in Words /\ Min(y) - 1 \in ShiftR(y, 1)
      BY <2>1, <2>2 DEF ShiftR, Words
    <2> DEFINE z == ShiftR(y, 1)
    <2>4. Min(z) \in z /\ Min(z) \in Bits /\ \A b \in z : Min(z) <= b
      <3> HIDE DEF z
      <3> QED
        BY <2>3, Extremes DEF z
    <2>5. Min(z) + 1 \in y
      BY <2>4 DEF ShiftR
    <2>6. Min(z) <= Min(y) - 1 /\ Min(y) <= Min(z) + 1
      BY <2>1, <2>3, <2>4, <2>5
    <2> HIDE DEF z
    <2>7. Min(y) = Min(z) + 1
      BY <1>0, <2>1, <2>4, <2>6
    <2>8. Min(y) \in Nat /\ Min(z) \in Nat
      BY <1>0, <2>1, <2>4
    <2> QED
      BY <2>3, <2>7, <2>8 DEF z
  <1>2. ASSUME NEW y \in Words, 0 \in y PROVE Min(y) = 0
    <2>1. Min(y) \in Bits /\ Min(y) <= 0
      BY <1>2, Extremes
    <2> QED
      BY <1>0, <2>1
  <1>3. G = F(G)
    <2>1. ASSUME NEW y \in Words PROVE G[y] = IF y = {} THEN Width ELSE IF 0 \in y THEN 0 ELSE 1 + G[ShiftR(y, 1)]
      <3>1. CASE y = {}
        BY <3>1
      <3>2. CASE y # {} /\ 0 \in y
        BY <1>2, <3>2
      <3>3. CASE y # {} /\ 0 \notin y
        <4>1. /\ G[y] = Min(y) /\ G[ShiftR(y, 1)] = Min(ShiftR(y, 1))
              /\ Min(y) = Min(ShiftR(y, 1)) + 1 /\ Min(ShiftR(y, 1)) \in Nat
          BY <1>1, <3>3
        <4> HIDE DEF G
        <4> QED
          BY <3>3, <4>1
      <3> QED
        BY <3>1, <3>2, <3>3
    <2>2. G = [y \in Words |-> G[y]]
      OBVIOUS
    <2> HIDE DEF G
    <2> QED
      BY <2>1, <2>2
  <1>4. W = F(W)
    BY <1>3
  <1>5. PortableCtz = W
    BY DEF PortableCtz
  <1>6. \A y \in Words : W[y] = IF y = {} THEN Width ELSE IF 0 \in y THEN 0 ELSE 1 + W[ShiftR(y, 1)]
    <2>1. \A h : \A y \in Words : F(h)[y] = IF y = {} THEN Width ELSE IF 0 \in y THEN 0 ELSE 1 + h[ShiftR(y, 1)]
      OBVIOUS
    <2> HIDE DEF F, W
    <2> QED
      BY <1>4, <2>1
  <1> HIDE DEF W
  <1>7. 0 \in T
    <2>1. \A y \in Words : y # {} /\ Min(y) = 0 => 0 \in y
      BY Extremes
    <2> QED
      BY <1>0, <1>6, <2>1
  <1>8. ASSUME NEW n \in 0 .. Width - 1, n \in T PROVE n + 1 \in T
    <2>1. n + 1 \in 0 .. Width /\ n \in Nat /\ n + 1 # 0
      BY <1>0
    <2>2. ASSUME NEW y \in Words, y # {}, Min(y) = n + 1 PROVE W[y] = n + 1
      <3>1. 0 \notin y
        BY <1>2, <2>1, <2>2
      <3>2. ShiftR(y, 1) \in Words /\ ShiftR(y, 1) # {} /\ Min(ShiftR(y, 1)) = n
        <4>1. /\ ShiftR(y, 1) \in Words /\ ShiftR(y, 1) # {} /\ Min(ShiftR(y, 1)) \in Nat
              /\ Min(y) = Min(ShiftR(y, 1)) + 1
          BY <1>1, <2>2, <3>1
        <4> QED
          BY <2>1, <2>2, <4>1
      <3>3. W[ShiftR(y, 1)] = n
        BY <1>8, <3>2
      <3> QED
        BY <1>6, <2>1, <2>2, <3>1, <3>3
    <2> QED
      BY <2>1, <2>2
  <1>9. \A n \in 0 .. Width : n \in T
    <2> HIDE DEF T
    <2> QED
      BY <1>0, <1>7, <1>8, InductTo
  <1>10. CASE x = {}
    BY <1>5, <1>6, <1>10
  <1>11. CASE x # {}
    <2>1. Min(x) \in 0 .. Width
      BY <1>0, <1>11, Extremes
    <2>2. W[x] = Min(x)
      BY <1>9, <1>11, <2>1
    <2> QED
      BY <1>5, <1>11, <2>2
  <1> QED
    BY <1>10, <1>11

(* The word that is left of x, and the answer so far, after it was shifted by d. *)
ClzAt(x, d) == [out |-> Width - 1 - d, x |-> ShiftR(x, d)]

(* A round of the portable clz keeps what is left to find. *)
LEMMA ClzHalved ==
  ASSUME NEW x \in Words, x # {}, NEW i \in Nat, i > 0, NEW d \in 0 .. Max(x), Max(x) - d < 2 * i
  PROVE  \E e \in 0 .. Max(x) : Max(x) - e < i /\ ClzRound(ClzAt(x, d), i) = ClzAt(x, e)
  <1>0. PICK m : m = Max(x)
    OBVIOUS
  <1>1. /\ m \in x /\ m \in 0 .. Width - 1 /\ Width \in Nat /\ x \subseteq 0 .. Width - 1 /\ Bits = 0 .. Width - 1
        /\ \A b \in x : b <= m
    BY <1>0, Extremes, WidthNumber DEF Words, Bits
  <1>2. d \in 0 .. m /\ m - d < 2 * i
    BY <1>0
  <1> DEFINE acc == ClzAt(x, d)
  <1>3. acc.out = Width - 1 - d /\ acc.x = ShiftR(x, d)
    BY DEF ClzAt
  <1>4. CASE i >= Width
    <2>1. ClzRound(acc, i) = acc /\ m - d < i
      BY <1>1, <1>2, <1>4 DEF ClzRound
    <2> QED
      BY <1>0, <1>2, <2>1
  <1>5. CASE i < Width /\ ShiftR(acc.x, i) = {}
    <2>1. ClzRound(acc, i) = acc
      BY <1>5 DEF ClzRound
    <2>2. m - d < i
      <3> SUFFICES ASSUME m - d >= i PROVE FALSE
        BY <1>1, <1>2
      <3>1. m - d - i \in Bits /\ m - d \in Bits /\ m - d + d = m /\ m - d - i + i = m - d
        BY <1>1, <1>2
      <3>2. m - d \in acc.x
        BY <1>1, <1>3, <3>1 DEF ShiftR
      <3>3. m - d - i \in ShiftR(acc.x, i)
        BY <3>1, <3>2 DEF ShiftR
      <3> QED
        BY <1>5, <3>3
    <2> QED
      BY <1>0, <1>2, <2>1, <2>2
  <1>6. CASE i < Width /\ ShiftR(acc.x, i) # {}
    <2>1. ClzRound(acc, i) = [out |-> acc.out - i, x |-> ShiftR(acc.x, i)]
      BY <1>1, <1>6 DEF ClzRound
    <2>2. ShiftR(acc.x, i) = ShiftR(x, d + i)
      <3>1. ASSUME NEW b \in Bits PROVE b + i \in ShiftR(x, d) <=> b + (d + i) \in x
        <4>1. b + i + d = b + (d + i) /\ b + i \in Nat
          BY <1>1, <1>2
        <4>2. b + i + d \in x => b + i \in Bits
          BY <1>1, <1>2, <4>1
        <4> QED
          BY <4>1, <4>2 DEF ShiftR
      <3>2. \A b \in Bits : b + i \in acc.x <=> b + (d + i) \in x
        BY <1>3, <3>1
      <3> HIDE DEF acc
      <3> QED
        BY <3>2 DEF ShiftR
    <2>3. PICK b \in Bits : b + (d + i) \in x
      BY <1>6, <2>2 DEF ShiftR
    <2>4. d + i \in 0 .. m /\ m - (d + i) < i
      BY <1>1, <1>2, <2>3
    <2>5. acc.out - i = Width - 1 - (d + i)
      BY <1>1, <1>2, <1>3
    <2>6. ClzRound(acc, i) = ClzAt(x, d + i)
      BY <2>1, <2>2, <2>5 DEF ClzAt
    <2> QED
      BY <1>0, <2>4, <2>6
  <1> QED
    BY <1>1, <1>4, <1>5, <1>6

(* Its six rounds find the highest one. *)
LEMMA ClzOfWord ==
  ASSUME NEW x \in Words
  PROVE  PortableClz(x) = IF x = {} THEN Width ELSE Width - 1 - Max(x)
  <1>1. CASE x = {}
    BY <1>1 DEF PortableClz
  <1>2. CASE x # {}
    <2>0. Width \in Nat /\ Width <= 64 /\ Max(x) \in 0 .. Width - 1
      BY <1>2, Extremes, BitsConstantsOK DEF Bits
    <2> DEFINE d0 == 0
    <2>1. d0 \in 0 .. Max(x) /\ Max(x) - d0 < 2 * 32
      BY <2>0
    <2>2. ClzAt(x, 0) = [out |-> Width - 1, x |-> x]
      <3>1. \A b \in Bits : b + 0 = b
        BY <2>0 DEF Bits
      <3>2. ShiftR(x, 0) = x
        BY <3>1 DEF ShiftR, Words
      <3> QED
        BY <2>0, <3>2 DEF ClzAt
    <2>3. PICK d1 \in 0 .. Max(x) : Max(x) - d1 < 32 /\ ClzRound(ClzAt(x, 0), 32) = ClzAt(x, d1)
      BY <1>2, <2>1, ClzHalved
    <2>4. PICK d2 \in 0 .. Max(x) : Max(x) - d2 < 16 /\ ClzRound(ClzAt(x, d1), 16) = ClzAt(x, d2)
      <3>1. Max(x) - d1 < 2 * 16
        BY <2>3
      <3> QED
        BY <1>2, <3>1, ClzHalved
    <2>5. PICK d3 \in 0 .. Max(x) : Max(x) - d3 < 8 /\ ClzRound(ClzAt(x, d2), 8) = ClzAt(x, d3)
      <3>1. Max(x) - d2 < 2 * 8
        BY <2>4
      <3> QED
        BY <1>2, <3>1, ClzHalved
    <2>6. PICK d4 \in 0 .. Max(x) : Max(x) - d4 < 4 /\ ClzRound(ClzAt(x, d3), 4) = ClzAt(x, d4)
      <3>1. Max(x) - d3 < 2 * 4
        BY <2>5
      <3> QED
        BY <1>2, <3>1, ClzHalved
    <2>7. PICK d5 \in 0 .. Max(x) : Max(x) - d5 < 2 /\ ClzRound(ClzAt(x, d4), 2) = ClzAt(x, d5)
      <3>1. Max(x) - d4 < 2 * 2
        BY <2>6
      <3> QED
        BY <1>2, <3>1, ClzHalved
    <2>8. PICK d6 \in 0 .. Max(x) : Max(x) - d6 < 1 /\ ClzRound(ClzAt(x, d5), 1) = ClzAt(x, d6)
      <3>1. Max(x) - d5 < 2 * 1
        BY <2>7
      <3> QED
        BY <1>2, <3>1, ClzHalved
    <2>9. Halving(ClzRound, [out |-> Width - 1, x |-> x]) = ClzAt(x, d6)
      BY <2>2, <2>3, <2>4, <2>5, <2>6, <2>7, <2>8, Zenon DEF Halving
    <2>10. d6 = Max(x)
      BY <2>0, <2>8
    <2>11. ClzAt(x, d6).out = Width - 1 - Max(x)
      BY <2>10 DEF ClzAt
    <2> QED
      BY <1>2, <2>9, <2>11 DEF PortableClz
  <1> QED
    BY <1>1, <1>2

(* The word after shifts by all distances below i. *)
SmearAt(x, i) == {b \in Bits : \E d \in 0 .. i - 1 : b + d \in x}

(* A round doubles how far each one has been spread. *)
LEMMA SmearTwice ==
  ASSUME NEW x \in Words, NEW i \in Nat, i > 0
  PROVE  SmearRound(SmearAt(x, i), i) = SmearAt(x, 2 * i)
  <1>0. Width \in Nat /\ x \subseteq 0 .. Width - 1 /\ Bits = 0 .. Width - 1
    BY WidthNumber DEF Words, Bits
  <1>1. CASE i >= Width
    <2>1. SmearRound(SmearAt(x, i), i) = SmearAt(x, i)
      BY <1>1 DEF SmearRound
    <2>2. ASSUME NEW b \in Bits
          PROVE  (\E d \in 0 .. i - 1 : b + d \in x) <=> (\E d \in 0 .. 2 * i - 1 : b + d \in x)
      <3>1. ASSUME NEW d \in 0 .. 2 * i - 1, b + d \in x PROVE d \in 0 .. i - 1
        BY <1>0, <1>1, <3>1
      <3>2. 0 .. i - 1 \subseteq 0 .. 2 * i - 1
        OBVIOUS
      <3> QED
        BY <3>1, <3>2
    <2> QED
      BY <2>1, <2>2 DEF SmearAt
  <1>2. CASE i < Width
    <2>1. SmearRound(SmearAt(x, i), i) = SmearAt(x, i) \cup ShiftR(SmearAt(x, i), i)
      BY <1>0, <1>2 DEF SmearRound
    <2>2. ASSUME NEW b \in Bits, b \in SmearAt(x, i) PROVE b \in SmearAt(x, 2 * i)
      <3>1. PICK d \in 0 .. i - 1 : b + d \in x
        BY <2>2 DEF SmearAt
      <3>2. d \in 0 .. 2 * i - 1
        OBVIOUS
      <3> QED
        BY <3>1, <3>2 DEF SmearAt
    <2>3. ASSUME NEW b \in Bits, b \in ShiftR(SmearAt(x, i), i) PROVE b \in SmearAt(x, 2 * i)
      <3>1. PICK d \in 0 .. i - 1 : b + i + d \in x
        BY <2>3 DEF SmearAt, ShiftR
      <3>2. d + i \in 0 .. 2 * i - 1 /\ b + (d + i) = b + i + d
        BY <1>0
      <3> QED
        BY <3>1, <3>2 DEF SmearAt
    <2>4. ASSUME NEW b \in Bits, b \in SmearAt(x, 2 * i)
          PROVE  b \in SmearAt(x, i) \/ b \in ShiftR(SmearAt(x, i), i)
      <3>1. PICK d \in 0 .. 2 * i - 1 : b + d \in x
        BY <2>4 DEF SmearAt
      <3>2. CASE d < i
        <4>1. d \in 0 .. i - 1
          BY <3>2
        <4> QED
          BY <3>1, <4>1 DEF SmearAt
      <3>3. CASE d >= i
        <4>1. d - i \in 0 .. i - 1 /\ b + i + (d - i) = b + d /\ b + i \in Bits
          BY <1>0, <3>1, <3>3
        <4>2. b + i \in SmearAt(x, i)
          BY <3>1, <4>1 DEF SmearAt
        <4> QED
          BY <4>2 DEF ShiftR
      <3> QED
        BY <3>2, <3>3
    <2>5. /\ SmearAt(x, i) \subseteq Bits /\ SmearAt(x, 2 * i) \subseteq Bits
          /\ ShiftR(SmearAt(x, i), i) \subseteq Bits
      BY DEF SmearAt, ShiftR
    <2> QED
      BY <2>1, <2>2, <2>3, <2>4, <2>5
  <1> QED
    BY <1>0, <1>1, <1>2

(* After all rounds every one is spread to the bottom. *)
LEMMA SmearOfWord ==
  ASSUME NEW x \in Words
  PROVE  Smear(x) = {b \in Bits : \E c \in x : b <= c}
  <1>0. Width \in Nat /\ Width <= 64 /\ x \subseteq 0 .. Width - 1 /\ Bits = 0 .. Width - 1
    BY BitsConstantsOK DEF Words, Bits
  <1>1. SmearAt(x, 1) = x
    <2>1. \A b \in Bits : b + 0 = b
      BY <1>0
    <2>2. 0 .. 1 - 1 = {0}
      OBVIOUS
    <2> QED
      BY <1>0, <2>1, <2>2 DEF SmearAt
  <1>2. SmearRound(SmearAt(x, 1), 1) = SmearAt(x, 2)
    <2>1. SmearRound(SmearAt(x, 1), 1) = SmearAt(x, 2 * 1)
      BY SmearTwice
    <2> QED
      BY <2>1
  <1>3. SmearRound(SmearAt(x, 2), 2) = SmearAt(x, 4)
    <2>1. SmearRound(SmearAt(x, 2), 2) = SmearAt(x, 2 * 2)
      BY SmearTwice
    <2> QED
      BY <2>1
  <1>4. SmearRound(SmearAt(x, 4), 4) = SmearAt(x, 8)
    <2>1. SmearRound(SmearAt(x, 4), 4) = SmearAt(x, 2 * 4)
      BY SmearTwice
    <2> QED
      BY <2>1
  <1>5. SmearRound(SmearAt(x, 8), 8) = SmearAt(x, 16)
    <2>1. SmearRound(SmearAt(x, 8), 8) = SmearAt(x, 2 * 8)
      BY SmearTwice
    <2> QED
      BY <2>1
  <1>6. SmearRound(SmearAt(x, 16), 16) = SmearAt(x, 32)
    <2>1. SmearRound(SmearAt(x, 16), 16) = SmearAt(x, 2 * 16)
      BY SmearTwice
    <2> QED
      BY <2>1
  <1>7. SmearRound(SmearAt(x, 32), 32) = SmearAt(x, 64)
    <2>1. SmearRound(SmearAt(x, 32), 32) = SmearAt(x, 2 * 32)
      BY SmearTwice
    <2> QED
      BY <2>1
  <1>8. Smear(x) = SmearAt(x, 64)
    BY <1>1, <1>2, <1>3, <1>4, <1>5, <1>6, <1>7, Zenon DEF Smear, Doubling
  <1>9. ASSUME NEW b \in Bits PROVE (\E d \in 0 .. 64 - 1 : b + d \in x) <=> (\E c \in x : b <= c)
    <2>1. ASSUME NEW d \in 0 .. 64 - 1, b + d \in x PROVE \E c \in x : b <= c
      BY <1>0, <2>1
    <2>2. ASSUME NEW c \in x, b <= c PROVE \E d \in 0 .. 64 - 1 : b + d \in x
      <3>1. c - b \in 0 .. 64 - 1 /\ b + (c - b) = c
        BY <1>0, <2>2
      <3> QED
        BY <3>1
    <2> QED
      BY <2>1, <2>2
  <1> QED
    BY <1>8, <1>9 DEF SmearAt

(* So what is set is everything up to the highest one. *)
LEMMA SmearToHighest ==
  ASSUME NEW x \in Words, x # {}
  PROVE  Smear(x) = 0 .. Max(x) /\ Max(x) + 1 \in 1 .. Width
  <1>0. PICK m : m = Max(x)
    OBVIOUS
  <1>1. Width \in Nat /\ m \in x /\ m \in 0 .. Width - 1 /\ Bits = 0 .. Width - 1 /\ \A c \in x : c <= m
        /\ x \subseteq Bits
    BY <1>0, Extremes, WidthNumber DEF Bits, Words
  <1>2. ASSUME NEW b \in Bits PROVE (\E c \in x : b <= c) <=> b <= m
    BY <1>1
  <1>3. {b \in Bits : b <= m} = 0 .. m
    BY <1>1
  <1>4. {b \in Bits : \E c \in x : b <= c} = {b \in Bits : b <= m}
    BY <1>2
  <1>5. m + 1 \in 1 .. Width
    BY <1>1
  <1>6. Smear(x) = 0 .. m
    BY <1>3, <1>4, SmearOfWord
  <1> QED
    BY <1>0, <1>5, <1>6

(* The mask and the word when blocks of s bits stand in their places. *)
ReverseAt(x, s) ==
  [mask |-> {b \in Bits : b % (2 * s) < s}, x |-> {b \in Bits : Width - s - b + 2 * (b % s) \in x}]

(* What is asked of the numbers of the bits. *)
LEMMA SwapOfBlocks ==
  ASSUME NEW b \in 0 .. 63, NEW s \in {1, 2, 4, 8, 16, 32}
  PROVE  /\ b % (2 * (2 * s)) \in Nat /\ b % (2 * s) \in Nat /\ b % s \in Nat
         /\ b % (2 * s) < s <=> ((b % (2 * (2 * s)) < 2 * s) # (b >= s /\ (b - s) % (2 * (2 * s)) < 2 * s))
         /\ b % (2 * s) < s => (b + s) % (2 * s) = (b % s) + s
         /\ ~(b % (2 * s) < s) => b >= s /\ (b - s) % (2 * s) = b % s
  <1>1. CASE s = 1
    BY <1>1
  <1>2. CASE s = 2
    BY <1>2
  <1>3. CASE s = 4
    BY <1>3
  <1>4. CASE s = 8
    BY <1>4
  <1>5. CASE s = 16
    BY <1>5
  <1>6. CASE s = 32
    BY <1>6
  <1> QED
    BY <1>1, <1>2, <1>3, <1>4, <1>5, <1>6

(* A round swaps blocks of half the size, within the blocks that were swapped before. *)
LEMMA ReverseHalved ==
  ASSUME NEW x \in Words, NEW s \in {1, 2, 4, 8, 16, 32}, s < Width, 2 * s <= Width
  PROVE  ReverseRound(ReverseAt(x, 2 * s), s) = ReverseAt(x, s)
  <1>0. Width \in Nat /\ Width <= 64 /\ Bits = 0 .. Width - 1 /\ x \subseteq Bits /\ s \in Nat
    BY BitsConstantsOK DEF Words, Bits
  <1> DEFINE old == ReverseAt(x, 2 * s)
             new == (old.mask \cup ShiftL(old.mask, s)) \ (old.mask \cap ShiftL(old.mask, s))
             y == (ShiftR(old.x, s) \cap new) \cup (ShiftL(old.x, s) \cap Complement(new))
  <1>1. ReverseRound(old, s) = [mask |-> new, x |-> y]
    BY <1>0 DEF ReverseRound
  <1>2. /\ old.mask = {b \in Bits : b % (2 * (2 * s)) < 2 * s}
        /\ old.x = {b \in Bits : Width - 2 * s - b + 2 * (b % (2 * s)) \in x}
    BY DEF ReverseAt
  <1>3. ASSUME NEW b \in Bits
        PROVE  /\ b % (2 * (2 * s)) \in Nat /\ b % (2 * s) \in Nat /\ b % s \in Nat
               /\ b % (2 * s) < s <=> ((b % (2 * (2 * s)) < 2 * s) # (b >= s /\ (b - s) % (2 * (2 * s)) < 2 * s))
               /\ b % (2 * s) < s => (b + s) % (2 * s) = (b % s) + s
               /\ ~(b % (2 * s) < s) => b >= s /\ (b - s) % (2 * s) = b % s
    <2>1. b \in 0 .. 63
      BY <1>0
    <2> QED
      BY <2>1, SwapOfBlocks
  <1>4. ASSUME NEW b \in Bits PROVE b \in new <=> b % (2 * s) < s
    <2>1. b \in old.mask <=> b % (2 * (2 * s)) < 2 * s
      BY <1>2
    <2>2. b \in ShiftL(old.mask, s) <=> (b >= s /\ (b - s) % (2 * (2 * s)) < 2 * s)
      <3>1. b - s \in Bits <=> b >= s
        BY <1>0
      <3> QED
        BY <1>2, <3>1 DEF ShiftL
    <2>3. b \in new <=> ((b \in old.mask) # (b \in ShiftL(old.mask, s)))
      OBVIOUS
    <2> HIDE DEF old, new
    <2> QED
      BY <1>3, <2>1, <2>2, <2>3
  <1>5. ASSUME NEW b \in Bits PROVE b \in y <=> Width - s - b + 2 * (b % s) \in x
    <2>0. PICK r \in Nat : r = b % s
      BY <1>3
    <2>1. CASE b % (2 * s) < s
      <3>1. b \in new
        BY <1>4, <2>1
      <3>2. b \in y <=> b + s \in old.x
        BY <3>1 DEF ShiftR, Complement
      <3>3. (b + s) % (2 * s) = r + s
        BY <1>3, <2>0, <2>1
      <3>4. Width - 2 * s - (b + s) + 2 * (r + s) = Width - s - b + 2 * r
        BY <1>0
      <3>5. b + s \in old.x <=> b + s \in Bits /\ Width - s - b + 2 * r \in x
        BY <1>2, <3>3, <3>4
      <3>6. b + s \in Bits
        <4>1. b \in 0 .. 63
          BY <1>0
        <4> QED
          BY <1>0, <2>1, <4>1, BitsConstantsOK
      <3> QED
        BY <2>0, <3>2, <3>5, <3>6
    <2>2. CASE ~(b % (2 * s) < s)
      <3>1. b \notin new
        BY <1>4, <2>2
      <3>2. b \in y <=> b - s \in old.x
        BY <3>1 DEF ShiftL, Complement
      <3>3. (b - s) % (2 * s) = r /\ b >= s
        BY <1>3, <2>0, <2>2
      <3>4. Width - 2 * s - (b - s) + 2 * r = Width - s - b + 2 * r
        BY <1>0
      <3>5. b - s \in Bits
        BY <1>0, <3>3
      <3>6. b - s \in old.x <=> Width - s - b + 2 * r \in x
        BY <1>2, <3>3, <3>4, <3>5
      <3> QED
        BY <2>0, <3>2, <3>6
    <2> QED
      BY <2>1, <2>2
  <1>6. new \subseteq Bits /\ y \subseteq Bits
    BY DEF ReverseAt, ShiftL, ShiftR, Complement
  <1>7. new = {b \in Bits : b % (2 * s) < s} /\ y = {b \in Bits : Width - s - b + 2 * (b % s) \in x}
    <2> HIDE DEF new, y
    <2> QED
      BY <1>4, <1>5, <1>6
  <1> HIDE DEF new, y
  <1> QED
    BY <1>1, <1>7 DEF ReverseAt

(* After all rounds every bit is at its mirror place. *)
LEMMA ReverseOfWord ==
  ASSUME NEW x \in Words
  PROVE  BitReverse(x) = {Width - 1 - b : b \in x} /\ BitReverse(x) \in Words
  <1>0. Width \in Nat /\ Width >= 2 /\ Bits = 0 .. Width - 1 /\ x \subseteq Bits
    BY WidthNumber DEF Words, Bits
  <1>1. ReverseAt(x, Width) = [mask |-> Bits, x |-> x]
    <2>1. ASSUME NEW b \in 0 .. 63, NEW w \in {2, 4, 8, 16, 32, 64}, b < w
          PROVE  b % (2 * w) < w /\ w - w - b + 2 * (b % w) = b
      <3>1. CASE w = 2
        BY <2>1, <3>1
      <3>2. CASE w = 4
        BY <2>1, <3>2
      <3>3. CASE w = 8
        BY <2>1, <3>3
      <3>4. CASE w = 16
        BY <2>1, <3>4
      <3>5. CASE w = 32
        BY <2>1, <3>5
      <3>6. CASE w = 64
        BY <2>1, <3>6
      <3> QED
        BY <3>1, <3>2, <3>3, <3>4, <3>5, <3>6
    <2>2. \A b \in Bits : b \in 0 .. 63 /\ b < Width
      BY <1>0, BitsConstantsOK
    <2>3. \A b \in Bits : b % (2 * Width) < Width /\ Width - Width - b + 2 * (b % Width) = b
      BY <2>1, <2>2, BitsConstantsOK
    <2>4. {b \in Bits : b % (2 * Width) < Width} = Bits
      BY <2>3
    <2>5. {b \in Bits : Width - Width - b + 2 * (b % Width) \in x} = {b \in Bits : b \in x}
      BY <2>3
    <2>6. {b \in Bits : b \in x} = x
      BY <1>0
    <2> QED
      BY <2>4, <2>5, <2>6 DEF ReverseAt
  <1>2. ASSUME NEW s \in {1, 2, 4, 8, 16, 32}, s >= Width
        PROVE  ReverseRound(ReverseAt(x, Width), s) = ReverseAt(x, Width)
    BY <1>2 DEF ReverseRound
  <1>3. ASSUME NEW s \in {1, 2, 4, 8, 16, 32}, s < Width, 2 * s <= Width
        PROVE  ReverseRound(ReverseAt(x, 2 * s), s) = ReverseAt(x, s)
    BY <1>3, ReverseHalved
  <1>4. Halving(ReverseRound, ReverseAt(x, Width)) = ReverseAt(x, 1)
    <2>1. CASE Width = 64
      <3>1. ReverseRound(ReverseAt(x, 64), 32) = ReverseAt(x, 32)
        <4>1. ReverseRound(ReverseAt(x, 2 * 32), 32) = ReverseAt(x, 32)
          BY <1>3, <2>1
        <4> QED
          BY <4>1
      <3>2. ReverseRound(ReverseAt(x, 32), 16) = ReverseAt(x, 16)
        <4>1. ReverseRound(ReverseAt(x, 2 * 16), 16) = ReverseAt(x, 16)
          BY <1>3, <2>1
        <4> QED
          BY <4>1
      <3>3. ReverseRound(ReverseAt(x, 16), 8) = ReverseAt(x, 8)
        <4>1. ReverseRound(ReverseAt(x, 2 * 8), 8) = ReverseAt(x, 8)
          BY <1>3, <2>1
        <4> QED
          BY <4>1
      <3>4. ReverseRound(ReverseAt(x, 8), 4) = ReverseAt(x, 4)
        <4>1. ReverseRound(ReverseAt(x, 2 * 4), 4) = ReverseAt(x, 4)
          BY <1>3, <2>1
        <4> QED
          BY <4>1
      <3>5. ReverseRound(ReverseAt(x, 4), 2) = ReverseAt(x, 2)
        <4>1. ReverseRound(ReverseAt(x, 2 * 2), 2) = ReverseAt(x, 2)
          BY <1>3, <2>1
        <4> QED
          BY <4>1
      <3>6. ReverseRound(ReverseAt(x, 2), 1) = ReverseAt(x, 1)
        <4>1. ReverseRound(ReverseAt(x, 2 * 1), 1) = ReverseAt(x, 1)
          BY <1>3, <2>1
        <4> QED
          BY <4>1
      <3> QED
        BY <2>1, <3>1, <3>2, <3>3, <3>4, <3>5, <3>6, Zenon DEF Halving
    <2>2. CASE Width = 32
      <3>1. ReverseRound(ReverseAt(x, 32), 32) = ReverseAt(x, 32)
        BY <1>2, <2>2
      <3>2. ReverseRound(ReverseAt(x, 32), 16) = ReverseAt(x, 16)
        <4>1. ReverseRound(ReverseAt(x, 2 * 16), 16) = ReverseAt(x, 16)
          BY <1>3, <2>2
        <4> QED
          BY <4>1
      <3>3. ReverseRound(ReverseAt(x, 16), 8) = ReverseAt(x, 8)
        <4>1. ReverseRound(ReverseAt(x, 2 * 8), 8) = ReverseAt(x, 8)
          BY <1>3, <2>2
        <4> QED
          BY <4>1
      <3>4. ReverseRound(ReverseAt(x, 8), 4) = ReverseAt(x, 4)
        <4>1. ReverseRound(ReverseAt(x, 2 * 4), 4) = ReverseAt(x, 4)
          BY <1>3, <2>2
        <4> QED
          BY <4>1
      <3>5. ReverseRound(ReverseAt(x, 4), 2) = ReverseAt(x, 2)
        <4>1. ReverseRound(ReverseAt(x, 2 * 2), 2) = ReverseAt(x, 2)
          BY <1>3, <2>2
        <4> QED
          BY <4>1
      <3>6. ReverseRound(ReverseAt(x, 2), 1) = ReverseAt(x, 1)
        <4>1. ReverseRound(ReverseAt(x, 2 * 1), 1) = ReverseAt(x, 1)
          BY <1>3, <2>2
        <4> QED
          BY <4>1
      <3> QED
        BY <2>2, <3>1, <3>2, <3>3, <3>4, <3>5, <3>6, Zenon DEF Halving
    <2>3. CASE Width = 16
      <3>1. ReverseRound(ReverseAt(x, 16), 32) = ReverseAt(x, 16)
        BY <1>2, <2>3
      <3>2. ReverseRound(ReverseAt(x, 16), 16) = ReverseAt(x, 16)
        BY <1>2, <2>3
      <3>3. ReverseRound(ReverseAt(x, 16), 8) = ReverseAt(x, 8)
        <4>1. ReverseRound(ReverseAt(x, 2 * 8), 8) = ReverseAt(x, 8)
          BY <1>3, <2>3
        <4> QED
          BY <4>1
      <3>4. ReverseRound(ReverseAt(x, 8), 4) = ReverseAt(x, 4)
        <4>1. ReverseRound(ReverseAt(x, 2 * 4), 4) = ReverseAt(x, 4)
          BY <1>3, <2>3
        <4> QED
          BY <4>1
      <3>5. ReverseRound(ReverseAt(x, 4), 2) = ReverseAt(x, 2)
        <4>1. ReverseRound(ReverseAt(x, 2 * 2), 2) = ReverseAt(x, 2)
          BY <1>3, <2>3
        <4> QED
          BY <4>1
      <3>6. ReverseRound(ReverseAt(x, 2), 1) = ReverseAt(x, 1)
        <4>1. ReverseRound(ReverseAt(x, 2 * 1), 1) = ReverseAt(x, 1)
          BY <1>3, <2>3
        <4> QED
          BY <4>1
      <3> QED
        BY <2>3, <3>1, <3>2, <3>3, <3>4, <3>5, <3>6, Zenon DEF Halving
    <2>4. CASE Width = 8
      <3>1. ReverseRound(ReverseAt(x, 8), 32) = ReverseAt(x, 8)
        BY <1>2, <2>4
      <3>2. ReverseRound(ReverseAt(x, 8), 16) = ReverseAt(x, 8)
        BY <1>2, <2>4
      <3>3. ReverseRound(ReverseAt(x, 8), 8) = ReverseAt(x, 8)
        BY <1>2, <2>4
      <3>4. ReverseRound(ReverseAt(x, 8), 4) = ReverseAt(x, 4)
        <4>1. ReverseRound(ReverseAt(x, 2 * 4), 4) = ReverseAt(x, 4)
          BY <1>3, <2>4
        <4> QED
          BY <4>1
      <3>5. ReverseRound(ReverseAt(x, 4), 2) = ReverseAt(x, 2)
        <4>1. ReverseRound(ReverseAt(x, 2 * 2), 2) = ReverseAt(x, 2)
          BY <1>3, <2>4
        <4> QED
          BY <4>1
      <3>6. ReverseRound(ReverseAt(x, 2), 1) = ReverseAt(x, 1)
        <4>1. ReverseRound(ReverseAt(x, 2 * 1), 1) = ReverseAt(x, 1)
          BY <1>3, <2>4
        <4> QED
          BY <4>1
      <3> QED
        BY <2>4, <3>1, <3>2, <3>3, <3>4, <3>5, <3>6, Zenon DEF Halving
    <2>5. CASE Width = 4
      <3>1. ReverseRound(ReverseAt(x, 4), 32) = ReverseAt(x, 4)
        BY <1>2, <2>5
      <3>2. ReverseRound(ReverseAt(x, 4), 16) = ReverseAt(x, 4)
        BY <1>2, <2>5
      <3>3. ReverseRound(ReverseAt(x, 4), 8) = ReverseAt(x, 4)
        BY <1>2, <2>5
      <3>4. ReverseRound(ReverseAt(x, 4), 4) = ReverseAt(x, 4)
        BY <1>2, <2>5
      <3>5. ReverseRound(ReverseAt(x, 4), 2) = ReverseAt(x, 2)
        <4>1. ReverseRound(ReverseAt(x, 2 * 2), 2) = ReverseAt(x, 2)
          BY <1>3, <2>5
        <4> QED
          BY <4>1
      <3>6. ReverseRound(ReverseAt(x, 2), 1) = ReverseAt(x, 1)
        <4>1. ReverseRound(ReverseAt(x, 2 * 1), 1) = ReverseAt(x, 1)
          BY <1>3, <2>5
        <4> QED
          BY <4>1
      <3> QED
        BY <2>5, <3>1, <3>2, <3>3, <3>4, <3>5, <3>6, Zenon DEF Halving
    <2>6. CASE Width = 2
      <3>1. ReverseRound(ReverseAt(x, 2), 32) = ReverseAt(x, 2)
        BY <1>2, <2>6
      <3>2. ReverseRound(ReverseAt(x, 2), 16) = ReverseAt(x, 2)
        BY <1>2, <2>6
      <3>3. ReverseRound(ReverseAt(x, 2), 8) = ReverseAt(x, 2)
        BY <1>2, <2>6
      <3>4. ReverseRound(ReverseAt(x, 2), 4) = ReverseAt(x, 2)
        BY <1>2, <2>6
      <3>5. ReverseRound(ReverseAt(x, 2), 2) = ReverseAt(x, 2)
        BY <1>2, <2>6
      <3>6. ReverseRound(ReverseAt(x, 2), 1) = ReverseAt(x, 1)
        <4>1. ReverseRound(ReverseAt(x, 2 * 1), 1) = ReverseAt(x, 1)
          BY <1>3, <2>6
        <4> QED
          BY <4>1
      <3> QED
        BY <2>6, <3>1, <3>2, <3>3, <3>4, <3>5, <3>6, Zenon DEF Halving
    <2> QED
      BY <2>1, <2>2, <2>3, <2>4, <2>5, <2>6, BitsConstantsOK
  <1>5. BitReverse(x) = ReverseAt(x, 1).x
    BY <1>1, <1>4, Zenon DEF BitReverse
  <1>6. ASSUME NEW b \in Bits PROVE Width - 1 - b + 2 * (b % 1) = Width - 1 - b
    BY <1>0
  <1>7. BitReverse(x) = {b \in Bits : Width - 1 - b \in x}
    BY <1>5, <1>6 DEF ReverseAt
  <1>8. \A b \in x : Width - 1 - b \in Bits /\ Width - 1 - (Width - 1 - b) = b
    BY <1>0
  <1>9. \A b \in Bits : Width - 1 - (Width - 1 - b) = b
    BY <1>0
  <1> QED
    BY <1>7, <1>8, <1>9 DEF Words

(* Rotation by any count, within the width and around its end. *)
LEMMA AroundTheEnd ==
  ASSUME NEW b \in Bits, NEW i \in Nat
  PROVE  \E k \in 0 .. Width - 1 :
           /\ i % Width = k /\ (-i) % Width = (IF k = 0 THEN 0 ELSE Width - k)
           /\ (b + i) % Width = (IF b + k < Width THEN b + k ELSE b + k - Width)
           /\ (b + k) % Width = (IF b + k < Width THEN b + k ELSE b + k - Width)
           /\ (b - k) % Width = (IF k <= b THEN b - k ELSE b - k + Width)
  <1>1. b \in Nat /\ b < Width
    BY WidthNumber DEF Bits
  <1>2. CASE Width = 2
    BY <1>1, <1>2
  <1>3. CASE Width = 4
    BY <1>1, <1>3
  <1>4. CASE Width = 8
    BY <1>1, <1>4
  <1>5. CASE Width = 16
    BY <1>1, <1>5
  <1>6. CASE Width = 32
    BY <1>1, <1>6
  <1>7. CASE Width = 64
    <2>1. PICK k \in 0 .. 63, q \in Nat : i = 64 * q + k /\ i % 64 = k
      <3>1. i % 64 \in 0 .. 63 /\ i \div 64 \in Nat /\ i = 64 * (i \div 64) + (i % 64)
        OBVIOUS
      <3> QED
        BY <3>1
    <2>2. (-i) % 64 = (IF k = 0 THEN 0 ELSE 64 - k)
      BY <2>1
    <2>3. b \in 0 .. 63
      BY <1>1, <1>7
    <2>4. (b + k) % 64 = (IF b + k < 64 THEN b + k ELSE b + k - 64)
      BY <2>3
    <2>5. (b - k) % 64 = (IF k <= b THEN b - k ELSE b - k + 64)
      BY <2>3
    <2>6. (b + i) % 64 = (b + k) % 64
      BY <2>1, <2>3
    <2>7. /\ i % Width = k /\ (-i) % Width = (IF k = 0 THEN 0 ELSE Width - k)
          /\ (b + i) % Width = (IF b + k < Width THEN b + k ELSE b + k - Width)
          /\ (b + k) % Width = (IF b + k < Width THEN b + k ELSE b + k - Width)
          /\ (b - k) % Width = (IF k <= b THEN b - k ELSE b - k + Width)
      BY <1>7, <2>1, <2>2, <2>4, <2>5, <2>6
    <2>8. k \in 0 .. Width - 1
      BY <1>7
    <2> QED
      BY <2>7, <2>8
  <1> QED
    BY <1>2, <1>3, <1>4, <1>5, <1>6, <1>7, BitsConstantsOK

(* Both implementations of the rotations move a bit around the end of the word. *)
LEMMA RotationOfWord ==
  ASSUME NEW x \in Words, NEW i \in Nat, NEW t \in Tiers
  PROVE  /\ Rotl(t, x, i) = {(b + i) % Width : b \in x} /\ Rotl(t, x, i) \in Words
         /\ Rotr(t, x, i) \in Words
         /\ \A b \in Bits : b \in Rotr(t, x, i) <=> (b + i) % Width \in x
  <1>0. Width \in Nat /\ Width >= 2 /\ Bits = 0 .. Width - 1 /\ x \subseteq Bits
    BY WidthNumber DEF Words, Bits
  <1>1. PICK k \in 0 .. Width - 1 : i % Width = k /\ (-i) % Width = (IF k = 0 THEN 0 ELSE Width - k)
    <2>1. 0 \in Bits
      BY <1>0
    <2> QED
      BY <2>1, AroundTheEnd
  <1>2. ASSUME NEW b \in Bits
        PROVE  /\ (b + i) % Width = (IF b + k < Width THEN b + k ELSE b + k - Width)
               /\ (b + k) % Width = (IF b + k < Width THEN b + k ELSE b + k - Width)
               /\ (b - k) % Width = (IF k <= b THEN b - k ELSE b - k + Width)
    BY <1>1, AroundTheEnd
  <1> DEFINE far == IF k = 0 THEN 0 ELSE Width - k
             upward(b) == IF b + k < Width THEN b + k ELSE b + k - Width
             downward(b) == IF k <= b THEN b - k ELSE b - k + Width
  <1>3. \A b \in Bits : upward(b) \in Bits /\ downward(b) \in Bits /\ upward(downward(b)) = b /\ downward(upward(b)) = b
    BY <1>0, <1>1
  <1>4. PortableRotl(x, i) = {b \in Bits : downward(b) \in x}
    <2>1. PortableRotl(x, i) = ShiftL(x, k) \cup ShiftR(x, far)
      BY <1>1 DEF PortableRotl
    <2>2. ASSUME NEW b \in Bits PROVE (b - k \in x \/ b + far \in x) <=> downward(b) \in x
      BY <1>0, <1>1
    <2> QED
      BY <2>1, <2>2 DEF ShiftL, ShiftR
  <1>5. PortableRotr(x, i) = {b \in Bits : upward(b) \in x}
    <2>1. PortableRotr(x, i) = ShiftR(x, k) \cup ShiftL(x, far)
      BY <1>1 DEF PortableRotr
    <2>2. ASSUME NEW b \in Bits PROVE (b + k \in x \/ b - far \in x) <=> upward(b) \in x
      BY <1>0, <1>1
    <2> QED
      BY <2>1, <2>2 DEF ShiftL, ShiftR
  <1>6. MsvcRotl(x, i) = {upward(b) : b \in x} /\ MsvcRotr(x, i) = {downward(b) : b \in x}
    <2>1. MsvcRotl(x, i) = {(b + k) % Width : b \in x} /\ MsvcRotr(x, i) = {(b - k) % Width : b \in x}
      BY <1>1 DEF MsvcRotl, MsvcRotr
    <2>2. \A b \in x : (b + k) % Width = upward(b) /\ (b - k) % Width = downward(b)
      BY <1>0, <1>2
    <2> QED
      BY <2>1, <2>2
  <1>7. {(b + i) % Width : b \in x} = {upward(b) : b \in x}
    BY <1>0, <1>2
  <1> HIDE DEF upward, downward
  <1>8. {upward(b) : b \in x} = {b \in Bits : downward(b) \in x} /\ {downward(b) : b \in x} = {b \in Bits : upward(b) \in x}
    BY <1>0, <1>3
  <1>9. Rotl(t, x, i) = {b \in Bits : downward(b) \in x} /\ Rotr(t, x, i) = {b \in Bits : upward(b) \in x}
    BY <1>4, <1>5, <1>6, <1>8 DEF Rotl, Rotr
  <1>10. \A b \in Bits : (b + i) % Width = upward(b)
    BY <1>2 DEF upward
  <1> QED
    BY <1>7, <1>8, <1>9, <1>10 DEF Words

(* The two rotations undo each other. *)
LEMMA RotationAndBack ==
  ASSUME NEW x \in Words, NEW i \in Nat, NEW t \in Tiers
  PROVE  Rotr(t, Rotl(t, x, i), i) = x
  <1>1. Rotl(t, x, i) \in Words /\ Rotl(t, x, i) = {(b + i) % Width : b \in x}
    BY RotationOfWord
  <1>2. /\ Rotr(t, Rotl(t, x, i), i) \in Words
        /\ \A b \in Bits : b \in Rotr(t, Rotl(t, x, i), i) <=> (b + i) % Width \in Rotl(t, x, i)
    BY <1>1, RotationOfWord
  <1>3. ASSUME NEW b \in Bits, NEW c \in Bits, (b + i) % Width = (c + i) % Width PROVE b = c
    <2>1. PICK k \in 0 .. Width - 1 : i % Width = k /\ (b + i) % Width = (IF b + k < Width THEN b + k ELSE b + k - Width)
      BY AroundTheEnd
    <2>2. (c + i) % Width = (IF c + k < Width THEN c + k ELSE c + k - Width)
      BY <2>1, AroundTheEnd
    <2> QED
      BY <1>3, <2>1, <2>2, WidthNumber DEF Bits
  <1>4. \A b \in Bits : (b + i) % Width \in Rotl(t, x, i) <=> b \in x
    BY <1>1, <1>3 DEF Words
  <1> QED
    BY <1>2, <1>4 DEF Words

(* What the header promises: the numbers of leading and of trailing bits of a kind. *)
Leads(S) == Cardinality({k \in Bits : k .. Width - 1 \subseteq S})
Trails(S) == Cardinality({k \in Bits : 0 .. k \subseteq S})

(* The leading zeros are what is above the highest one. *)
LEMMA LeadsOfComplement ==
  ASSUME NEW x \in Words
  PROVE  Leads(Complement(x)) = IF x = {} THEN Width ELSE Width - 1 - Max(x)
  <1>0. Width \in Nat /\ Width >= 2 /\ Bits = 0 .. Width - 1 /\ x \subseteq Bits
    BY WidthNumber DEF Words, Bits
  <1>1. CASE x = {}
    <2>1. \A k \in Bits : k .. Width - 1 \subseteq Complement(x)
      BY <1>0, <1>1 DEF Complement
    <2>2. {k \in Bits : k .. Width - 1 \subseteq Complement(x)} = Bits
      BY <2>1
    <2>3. Cardinality(Bits) = Width
      BY <1>0, FS_Interval
    <2> QED
      BY <1>1, <2>2, <2>3 DEF Leads
  <1>2. CASE x # {}
    <2>1. PICK m \in 0 .. Width - 1 : m = Max(x) /\ m \in x /\ \A b \in x : b <= m
      BY <1>0, <1>2, Extremes
    <2>2. ASSUME NEW k \in Bits PROVE k .. Width - 1 \subseteq Complement(x) <=> k >= m + 1
      <3>1. ASSUME k .. Width - 1 \subseteq Complement(x), k <= m PROVE FALSE
        <4>1. m \in k .. Width - 1
          BY <1>0, <3>1
        <4> QED
          BY <2>1, <3>1, <4>1 DEF Complement
      <3>2. ASSUME k >= m + 1 PROVE k .. Width - 1 \subseteq Complement(x)
        <4>1. \A b \in k .. Width - 1 : b \in Bits /\ ~(b <= m)
          BY <1>0, <3>2
        <4> QED
          BY <2>1, <4>1 DEF Complement
      <3> QED
        BY <1>0, <3>1, <3>2
    <2>3. {k \in Bits : k .. Width - 1 \subseteq Complement(x)} = m + 1 .. Width - 1
      <3>1. {k \in Bits : k >= m + 1} = m + 1 .. Width - 1
        BY <1>0
      <3> QED
        BY <2>2, <3>1
    <2>4. Cardinality(m + 1 .. Width - 1) = Width - 1 - m
      <3>1. Cardinality(m + 1 .. Width - 1) = IF m + 1 > Width - 1 THEN 0 ELSE Width - 1 - (m + 1) + 1
        BY <1>0, FS_Interval
      <3> QED
        BY <1>0, <3>1
    <2> QED
      BY <1>2, <2>1, <2>3, <2>4 DEF Leads
  <1> QED
    BY <1>1, <1>2

(* The trailing zeros are what is below the lowest one. *)
LEMMA TrailsOfComplement ==
  ASSUME NEW x \in Words
  PROVE  Trails(Complement(x)) = IF x = {} THEN Width ELSE Min(x)
  <1>0. Width \in Nat /\ Width >= 2 /\ Bits = 0 .. Width - 1 /\ x \subseteq Bits
    BY WidthNumber DEF Words, Bits
  <1>1. CASE x = {}
    <2>1. \A k \in Bits : 0 .. k \subseteq Complement(x)
      BY <1>0, <1>1 DEF Complement
    <2>2. {k \in Bits : 0 .. k \subseteq Complement(x)} = Bits
      BY <2>1
    <2>3. Cardinality(Bits) = Width
      BY <1>0, FS_Interval
    <2> QED
      BY <1>1, <2>2, <2>3 DEF Trails
  <1>2. CASE x # {}
    <2>1. PICK m \in 0 .. Width - 1 : m = Min(x) /\ m \in x /\ \A b \in x : m <= b
      BY <1>0, <1>2, Extremes
    <2>2. ASSUME NEW k \in Bits PROVE 0 .. k \subseteq Complement(x) <=> k <= m - 1
      <3>1. ASSUME 0 .. k \subseteq Complement(x), k >= m PROVE FALSE
        <4>1. m \in 0 .. k
          BY <1>0, <3>1
        <4> QED
          BY <2>1, <3>1, <4>1 DEF Complement
      <3>2. ASSUME k <= m - 1 PROVE 0 .. k \subseteq Complement(x)
        <4>1. \A b \in 0 .. k : b \in Bits /\ ~(m <= b)
          BY <1>0, <3>2
        <4> QED
          BY <2>1, <4>1 DEF Complement
      <3> QED
        BY <1>0, <3>1, <3>2
    <2>3. {k \in Bits : 0 .. k \subseteq Complement(x)} = 0 .. m - 1
      <3>1. {k \in Bits : k <= m - 1} = 0 .. m - 1
        BY <1>0
      <3> QED
        BY <2>2, <3>1
    <2>4. Cardinality(0 .. m - 1) = m
      <3>1. Cardinality(0 .. m - 1) = IF 0 > m - 1 THEN 0 ELSE m - 1 - 0 + 1
        BY FS_Interval
      <3> QED
        BY <3>1
    <2> QED
      BY <1>2, <2>1, <2>3, <2>4 DEF Trails
  <1> QED
    BY <1>1, <1>2

(* Every build returns the same three counts. *)
LEMMA CountsOfWord ==
  ASSUME NEW x \in Words, NEW t \in Tiers
  PROVE  /\ Clz(t, x) = Leads(Complement(x)) /\ Ctz(t, x) = Trails(Complement(x))
         /\ Popcount(t, x) = Cardinality(x) /\ Parity(t, x) = Cardinality(x) % 2
         /\ (Clz(t, x) = Width <=> x = {}) /\ (Ctz(t, x) = Width <=> x = {})
         /\ Clz(t, x) \in 0 .. Width /\ Ctz(t, x) \in 0 .. Width
  <1>0. Width \in Nat /\ Width >= 2 /\ IntWidth \in Nat /\ Bits = 0 .. Width - 1
    BY WidthNumber DEF Bits
  <1>1. x # {} => Max(x) \in 0 .. Width - 1 /\ Min(x) \in 0 .. Width - 1
    BY <1>0, Extremes
  <1>2. Clz(t, x) = IF x = {} THEN Width ELSE Width - 1 - Max(x)
    <2>1. CASE t = "classic"
      <3>1. x # {} => IntWidth - 1 - Max(x) - (IntWidth - Width) = Width - 1 - Max(x)
        BY <1>0, <1>1
      <3> QED
        BY <2>1, <3>1 DEF Clz, ClassicClz, BuiltinClz
    <2>2. CASE t = "msvc"
      BY <2>2 DEF Clz, MsvcClz, BitScanReverse
    <2>3. CASE t = "portable"
      BY <2>3, ClzOfWord DEF Clz
    <2> QED
      BY <2>1, <2>2, <2>3 DEF Tiers
  <1>3. Ctz(t, x) = IF x = {} THEN Width ELSE Min(x)
    <2>1. CASE t = "classic"
      BY <2>1 DEF Ctz, ClassicCtz, BuiltinCtz
    <2>2. CASE t = "msvc"
      BY <2>2 DEF Ctz, MsvcCtz, BitScanForward
    <2>3. CASE t = "portable"
      BY <2>3, CtzOfWord DEF Ctz
    <2> QED
      BY <2>1, <2>2, <2>3 DEF Tiers
  <1>4. Popcount(t, x) = Cardinality(x) /\ Parity(t, x) = Cardinality(x) % 2
    BY PopcountOfWord, ParityOfWord DEF Popcount, Parity, BuiltinPopcount
  <1>5. /\ (Clz(t, x) = Width <=> x = {}) /\ (Ctz(t, x) = Width <=> x = {})
        /\ Clz(t, x) \in 0 .. Width /\ Ctz(t, x) \in 0 .. Width
    BY <1>0, <1>1, <1>2, <1>3
  <1> QED
    BY <1>2, <1>3, <1>4, <1>5, LeadsOfComplement, TrailsOfComplement

(* The other counts are these of the complement. *)
LEMMA CountsOfAnyWord == ASSUME word \in Words, tier \in Tiers PROVE CountsAgree
  <1> DEFINE w == Complement(word)
             First(n) == IF n = Width THEN 0 ELSE n + 1
  <1>1. w \in Words /\ Complement(w) = word
    BY DEF Complement, Words
  <1>2. /\ Clz(tier, word) = Leads(w) /\ Ctz(tier, word) = Trails(w)
        /\ Popcount(tier, word) = Cardinality(word) /\ Parity(tier, word) = Cardinality(word) % 2
        /\ (Leads(w) = Width <=> word = {}) /\ (Trails(w) = Width <=> word = {})
    <2> HIDE DEF w
    <2> QED
      BY CountsOfWord DEF w
  <1>3. /\ Clz(tier, w) = Leads(word) /\ Ctz(tier, w) = Trails(word)
        /\ Popcount(tier, w) = Cardinality(w)
        /\ (Leads(word) = Width <=> w = {}) /\ (Trails(word) = Width <=> w = {})
    <2> HIDE DEF w
    <2> QED
      BY <1>1, CountsOfWord
  <1>4. Clo(tier, word) = Leads(word) /\ Cto(tier, word) = Trails(word)
    BY <1>3 DEF Clo, Cto
  <1>5. /\ Flo(tier, word) = First(Leads(w)) /\ Flz(tier, word) = First(Leads(word))
        /\ Fto(tier, word) = First(Trails(w)) /\ Ftz(tier, word) = First(Trails(word))
    BY <1>2, <1>3 DEF Flo, Flz, Fto, Ftz
  <1>6. Popcount(tier, word) + Zerocount(tier, word) = Width
    <2>1. Zerocount(tier, word) = Cardinality(w)
      BY <1>3 DEF Zerocount
    <2>2. Cardinality(w) = Width - Cardinality(word) /\ Cardinality(word) \in Nat /\ Width \in Nat
      BY Populations, WidthNumber
    <2> HIDE DEF w
    <2> QED
      BY <1>2, <2>1, <2>2
  <1> QED
    BY <1>2, <1>4, <1>5, <1>6 DEF CountsAgree, Leads, Trails

(* The powers of two around a word. *)
LEMMA BetweenPowers ==
  ASSUME NEW x \in Words, x # {}
  PROVE  Power[Max(x)] <= Value(x) /\ Value(x) < Power[Max(x) + 1] /\ Value(x) \in Nat
  <1>0. PICK m : m = Max(x)
    OBVIOUS
  <1>1. /\ Width \in Nat /\ m \in x /\ m \in Bits /\ Bits = 0 .. Width - 1 /\ x \subseteq Bits
        /\ \A b \in x : b <= m
    BY <1>0, Extremes, WidthNumber DEF Words, Bits
  <1>2. Value(x) \in Nat
    BY WordAndBack
  <1>3. Power[m] <= Value(x)
    <2>1. Value({m}) = Power[m] /\ {m} \in Words
      BY <1>1, ValueOfBit
    <2>2. CASE x = {m}
      BY <1>2, <2>1, <2>2
    <2>3. CASE x # {m}
      <3> DEFINE y == x \ {m}
      <3>1. y \in Words /\ y # {}
        BY <1>1, <2>3 DEF Words
      <3>2. PICK h : h = Max(y) /\ h \in y /\ h \in Bits /\ \A b \in y : b <= h
        <4> HIDE DEF y
        <4> QED
          BY <3>1, Extremes
      <3>3. h \in x /\ h \notin {m} /\ \A c \in Bits : c > h => (c \in {m} <=> c \in x)
        <4>1. \A c : c \in y <=> c \in x /\ c # m
          OBVIOUS
        <4> HIDE DEF y
        <4>2. h \in x /\ h # m
          BY <3>2, <4>1
        <4>3. ASSUME NEW c \in Bits, c > h PROVE c \in {m} <=> c \in x
          <5>1. ~(c <= h)
            BY <1>1, <3>2, <4>3
          <5>2. c \notin y
            BY <3>2, <5>1
          <5> QED
            BY <1>1, <4>1, <5>2
        <4> QED
          BY <4>2, <4>3
      <3>4. Value({m}) < Value(x)
        BY <2>1, <3>2, <3>3, HighestBitDecides
      <3> QED
        BY <1>2, <2>1, <3>4, WordAndBack
    <2> QED
      BY <2>2, <2>3
  <1>4. Value(x) < Power[m + 1]
    <2> DEFINE y == 0 .. m + 1 - 1
    <2>1. m + 1 \in 0 .. Width /\ m + 1 \in Nat
      BY <1>1
    <2>2. y \in Words /\ Value(y) = Power[m + 1] - 1
      <3>1. PICK n \in 0 .. Width : n = m + 1
        BY <2>1
      <3>2. 0 .. n - 1 \in Words /\ Value(0 .. n - 1) = Power[n] - 1
        BY ValueOfLow
      <3>3. y = 0 .. n - 1
        <4>1. n - 1 = m + 1 - 1
          BY <1>1, <3>1
        <4> QED
          BY <4>1
      <3> HIDE DEF y
      <3> QED
        BY <3>1, <3>2, <3>3
    <2>3. Power[m + 1] \in Nat
      BY <2>1, PowerPositive
    <2>4. CASE x = y
      <3> HIDE DEF y
      <3> QED
        BY <1>2, <2>2, <2>3, <2>4
    <2>5. CASE x # y
      <3> DEFINE z == y \ x
      <3>1. x \subseteq y
        BY <1>1
      <3>2. z \in Words /\ z # {}
        BY <2>2, <2>5, <3>1 DEF Words
      <3>3. PICK h : h = Max(z) /\ h \in z /\ h \in Bits /\ \A b \in z : b <= h
        <4> HIDE DEF z
        <4> QED
          BY <3>2, Extremes
      <3>4. h \in y /\ h \notin x /\ \A c \in Bits : c > h => (c \in x <=> c \in y)
        <4> HIDE DEF y
        <4>1. h \in y /\ h \notin x /\ \A c \in y : c \notin x => c <= h
          BY <3>3
        <4>2. \A c \in Bits : c > h => ~(c <= h)
          BY <1>1, <3>3
        <4> QED
          BY <3>1, <4>1, <4>2
      <3>5. Value(x) < Value(y)
        <4> HIDE DEF y
        <4> QED
          BY <2>2, <3>3, <3>4, HighestBitDecides
      <3> HIDE DEF y
      <3> QED
        BY <1>2, <2>2, <2>3, <3>5
    <2> QED
      BY <2>4, <2>5
  <1> QED
    BY <1>0, <1>2, <1>3, <1>4

(* Zero. *)
LEMMA EmptyWord == {} \in Words /\ Value({}) = 0 /\ ToWord(0) = {}
  <1>0. Width \in Nat
    BY WidthNumber
  <1>1. Value(0 .. 0 - 1) = Power[0] - 1
    BY <1>0, ValueOfLow
  <1>2. 0 .. 0 - 1 = {} /\ Power[0] = 1
    BY PowerStep
  <1>3. Value({}) = 0
    BY <1>1, <1>2
  <1>4. {} \in Words
    BY DEF Words
  <1> QED
    BY <1>3, <1>4, WordAndBack

(* The test for a power of two. *)
LEMMA SinglePower ==
  ASSUME NEW x \in Words
  PROVE  IsPow2(x) <=> \E b \in Bits : Value(x) = Power[b]
  <1>1. CASE x = {}
    <2>1. \A b \in Bits : b \in Nat
      BY WidthNumber DEF Bits
    <2>2. \A b \in Bits : Power[b] # 0
      BY <2>1, PowerPositive
    <2> QED
      BY <1>1, <2>2, EmptyWord DEF IsPow2
  <1>2. CASE x # {}
    <2>1. x \cap Less1(x) = x \ {Min(x)} /\ Min(x) \in x /\ Min(x) \in Bits
      BY <1>2, OneLess, Extremes
    <2>2. ASSUME x \cap Less1(x) = {} PROVE \E b \in Bits : Value(x) = Power[b]
      <3>1. x = {Min(x)}
        BY <2>1, <2>2
      <3>2. Value({Min(x)}) = Power[Min(x)]
        BY <2>1, ValueOfBit
      <3> QED
        BY <2>1, <3>1, <3>2
    <2>3. ASSUME NEW b \in Bits, Value(x) = Power[b] PROVE x \cap Less1(x) = {}
      <3>1. x = {b}
        BY <2>3, ValueOfBit, ValueTells
      <3> QED
        BY <2>1, <3>1
    <2> QED
      BY <1>2, <2>2, <2>3 DEF IsPow2
  <1> QED
    BY <1>1, <1>2

(* Rounding down gives the power of the highest bit. *)
LEMMA PowerBelow ==
  ASSUME NEW x \in Words
  PROVE  /\ Pow2Floor(x) \in Words
         /\ x = {} => Value(Pow2Floor(x)) = 0
         /\ x # {} => Value(Pow2Floor(x)) = Power[Max(x)]
  <1>1. CASE x = {}
    <2>1. Smear(x) = {} /\ ShiftR({}, 1) = {}
      BY <1>1, SmearOfWord DEF ShiftR
    <2>2. Pow2Floor(x) = ToWord(Value({}) - Value({}))
      BY <2>1 DEF Pow2Floor
    <2>3. Pow2Floor(x) = {}
      BY <2>2, EmptyWord
    <2> QED
      BY <1>1, <2>3, EmptyWord
  <1>2. CASE x # {}
    <2>1. PICK m \in Bits : m = Max(x) /\ Smear(x) = 0 .. m
      BY <1>2, Extremes, SmearToHighest
    <2>2. Width \in Nat /\ m \in 0 .. Width - 1 /\ Bits = 0 .. Width - 1
      BY <2>1, WidthNumber DEF Bits
    <2>3. m + 1 \in 0 .. Width /\ m \in 0 .. Width /\ m \in Nat /\ 0 .. m = 0 .. m + 1 - 1
      BY <2>2
    <2>4. ShiftR(0 .. m, 1) = 0 .. m - 1
      <3>1. \A b \in Bits : b + 1 \in 0 .. m <=> b \in 0 .. m - 1
        BY <2>2
      <3>2. 0 .. m - 1 \subseteq Bits
        BY <2>2
      <3> QED
        BY <3>1, <3>2 DEF ShiftR
    <2>5. Value(0 .. m + 1 - 1) = Power[m + 1] - 1 /\ Value(0 .. m - 1) = Power[m] - 1
      BY <2>3, ValueOfLow
    <2>6. Power[m + 1] = 2 * Power[m] /\ Power[m] \in Nat
      BY <2>3, PowerStep, PowerPositive
    <2>7. Value(0 .. m) - Value(0 .. m - 1) = Power[m]
      <3>1. Value(0 .. m) = Power[m + 1] - 1
        BY <2>3, <2>5
      <3> QED
        BY <2>5, <2>6, <3>1
    <2>8. Pow2Floor(x) = ToWord(Power[m])
      BY <2>1, <2>4, <2>7 DEF Pow2Floor
    <2>9. {m} \in Words /\ Value({m}) = Power[m]
      BY <2>1, ValueOfBit
    <2>10. Pow2Floor(x) = {m}
      BY <2>8, <2>9, WordAndBack
    <2> QED
      BY <1>2, <2>1, <2>9, <2>10
  <1> QED
    BY <1>1, <1>2

(* Rounding up gives 0 for 0, and where no power fits. *)
LEMMA NoPowerAbove ==
  ASSUME NEW x \in Words, x = {} \/ Value(x) > Power[Width - 1]
  PROVE  Pow2Ceil(x) \in Words /\ Value(Pow2Ceil(x)) = 0
  <1>1. Pow2Ceil(x) = {}
    BY DEF Pow2Ceil
  <1> QED
    BY <1>1, EmptyWord

(* Otherwise it gives the least power that is not below the word. *)
LEMMA PowerAbove ==
  ASSUME NEW x \in Words, x # {}, ~(Value(x) > Power[Width - 1])
  PROVE  /\ Pow2Ceil(x) \in Words
         /\ \E b \in Bits : /\ Value(Pow2Ceil(x)) = Power[b]
                            /\ Value(x) <= Power[b]
                            /\ b # 0 => Power[b - 1] < Value(x)
  <1>0. Width \in Nat /\ Width >= 2 /\ Bits = 0 .. Width - 1
    BY WidthNumber DEF Bits
  <1>1. PICK y \in Words : y = Less1(x) /\ Value(y) + 1 = Value(x) /\ Value(y) \in Nat /\ Value(x) \in Nat
    BY OneLess, WordAndBack
  <1>2. Pow2Ceil(x) = ToWord(Value(Smear(y)) + 1)
    BY <1>1 DEF Pow2Ceil
  <1>3. ASSUME NEW b \in Bits, Value(Smear(y)) + 1 = Power[b] PROVE Pow2Ceil(x) = {b} /\ Value(Pow2Ceil(x)) = Power[b]
    <2>1. {b} \in Words /\ Value({b}) = Power[b]
      BY ValueOfBit
    <2>2. Pow2Ceil(x) = ToWord(Value({b}))
      BY <1>2, <1>3, <2>1
    <2> QED
      BY <2>1, <2>2, WordAndBack
  <1>4. CASE y = {}
    <2>1. Smear(y) = {}
      BY <1>4, SmearOfWord
    <2>2. Value(Smear(y)) + 1 = Power[0] /\ 0 \in Bits /\ Value(x) <= Power[0]
      <3>1. Value(y) = 0 /\ Value(Smear(y)) = 0
        BY <1>4, <2>1, EmptyWord
      <3>2. Value(x) = 1 /\ Power[0] = 1
        BY <1>1, <3>1, PowerStep
      <3> QED
        BY <1>0, <3>1, <3>2
    <2>3. Pow2Ceil(x) = {0} /\ Value(Pow2Ceil(x)) = Power[0]
      BY <1>3, <2>2
    <2>4. Pow2Ceil(x) \in Words
      BY <2>2, <2>3 DEF Words
    <2> QED
      BY <2>2, <2>3, <2>4
  <1>5. CASE y # {}
    <2>1. PICK m \in Bits : m = Max(y) /\ Smear(y) = 0 .. m
      BY <1>5, Extremes, SmearToHighest
    <2>2. m + 1 \in 0 .. Width /\ m \in Nat /\ m + 1 \in Nat /\ 0 .. m = 0 .. m + 1 - 1 /\ m + 1 - 1 = m /\ m + 1 # 0
      BY <1>0
    <2>3. Value(0 .. m + 1 - 1) = Power[m + 1] - 1 /\ Power[m + 1] \in Nat /\ Power[m] \in Nat
      BY <2>2, ValueOfLow, PowerPositive
    <2>4. Value(Smear(y)) + 1 = Power[m + 1]
      <3>1. Value(Smear(y)) = Power[m + 1] - 1
        BY <2>1, <2>2, <2>3
      <3> QED
        BY <2>3, <3>1
    <2>5. Power[m] <= Value(y) /\ Value(y) < Power[m + 1]
      BY <1>5, <2>1, BetweenPowers
    <2>6. Power[m] < Value(x) /\ Value(x) <= Power[m + 1]
      BY <1>1, <2>3, <2>5
    <2>7. m + 1 \in Bits
      <3> SUFFICES ASSUME m + 1 \notin Bits PROVE FALSE
        OBVIOUS
      <3>1. m = Width - 1
        BY <1>0, <2>1
      <3> QED
        BY <1>1, <2>3, <2>6, <3>1
    <2>8. Pow2Ceil(x) = {m + 1} /\ Value(Pow2Ceil(x)) = Power[m + 1]
      BY <1>3, <2>4, <2>7
    <2>9. Pow2Ceil(x) \in Words
      BY <2>7, <2>8 DEF Words
    <2> QED
      BY <2>2, <2>6, <2>7, <2>8, <2>9
  <1> QED
    BY <1>4, <1>5

(* The largest power not above the word, and the smallest not below it. *)
LEMMA NearestPowers ==
  ASSUME NEW x \in Words
  PROVE  LET Twos == {Power[b] : b \in Bits}
             Below == {p \in Twos : p <= Value(x)}
             Above == {p \in Twos : p >= Value(x)}
         IN  /\ Value(Pow2Floor(x)) = IF x = {} THEN 0 ELSE Max(Below)
             /\ Value(Pow2Ceil(x)) = IF x = {} \/ Above = {} THEN 0 ELSE Min(Above)
  <1> DEFINE Twos == {Power[b] : b \in Bits}
             Below == {p \in Twos : p <= Value(x)}
             Above == {p \in Twos : p >= Value(x)}
  <1>0. Width \in Nat /\ Width >= 2 /\ Bits = 0 .. Width - 1 /\ Value(x) \in Nat
    BY WidthNumber, WordAndBack DEF Bits
  <1>1. \A b \in Bits : b \in Nat /\ Power[b] \in Nat
    BY <1>0, PowerPositive
  <1>2. ASSUME NEW a \in Bits, NEW b \in Bits, Power[a] < Power[b] PROVE a < b
    <2>1. CASE b < a
      <3>1. Power[b] < Power[a]
        BY <1>1, <2>1, PowerGrows
      <3> QED
        BY <1>1, <1>2, <3>1
    <2>2. CASE a = b
      BY <1>1, <1>2, <2>2
    <2> QED
      BY <1>1, <2>1, <2>2
  <1>3. ASSUME x # {} PROVE Value(Pow2Floor(x)) = Max(Below)
    <2>1. PICK m \in Bits : m = Max(x) /\ Power[m] <= Value(x) /\ Value(x) < Power[m + 1]
      BY <1>3, Extremes, BetweenPowers
    <2>2. Power[m] \in Below
      BY <2>1
    <2>3. ASSUME NEW p \in Below PROVE p <= Power[m] /\ p \in Nat
      <3>1. PICK b \in Bits : p = Power[b] /\ Power[b] <= Value(x)
        OBVIOUS
      <3>2. CASE b > m
        <4>1. Power[m + 1] <= Power[b]
          <5>1. CASE b = m + 1
            <6>1. Power[m + 1] = Power[b] /\ Power[b] \in Nat
              BY <1>1, <5>1
            <6> QED
              BY <6>1
          <5>2. CASE b > m + 1
            <6>1. PICK n \in Nat : n = m + 1 /\ n < b /\ b \in Nat
              BY <1>1, <5>2
            <6>2. Power[n] < Power[b] /\ Power[n] \in Nat /\ Power[b] \in Nat
              BY <6>1, PowerGrows, PowerPositive
            <6> QED
              BY <6>1, <6>2
          <5> QED
            BY <1>1, <3>2, <5>1, <5>2
        <4>2. m + 1 \in Nat /\ Power[m + 1] \in Nat
          BY <1>1, PowerPositive
        <4> QED
          BY <1>0, <1>1, <2>1, <3>1, <4>1, <4>2
      <3>3. CASE b = m
        BY <1>1, <3>1, <3>3
      <3>4. CASE b < m
        BY <1>1, <3>1, <3>4, PowerGrows
      <3> QED
        BY <1>1, <3>2, <3>3, <3>4
    <2> DEFINE B == Below
    <2>4. \A y \in B : y \in Nat /\ y <= Power[m]
      BY <2>3
    <2>5. Power[m] \in B /\ Power[m] \in Nat
      BY <1>1, <2>2
    <2> HIDE DEF B
    <2>6. Max(B) = Power[m]
      <3>1. \E q \in B : \A y \in B : q >= y
        BY <2>4, <2>5
      <3>2. Max(B) \in B /\ \A y \in B : Max(B) >= y
        BY <3>1 DEF Max
      <3> QED
        BY <2>4, <2>5, <3>2
    <2> QED
      BY <1>3, <2>1, <2>6, PowerBelow DEF B
  <1>4. ASSUME x # {} PROVE Above = {} <=> Value(x) > Power[Width - 1]
    <2>1. Width - 1 \in Bits
      BY <1>0
    <2>2. ASSUME Value(x) > Power[Width - 1], NEW b \in Bits PROVE ~(Power[b] >= Value(x))
      <3>1. CASE b = Width - 1
        BY <1>0, <1>1, <2>2, <3>1
      <3>2. CASE b # Width - 1
        <4>1. Power[b] < Power[Width - 1]
          <5>1. b < Width - 1 /\ b \in Nat /\ Width - 1 \in Nat
            BY <1>0, <3>2
          <5> QED
            BY <5>1, PowerGrows
        <4> QED
          BY <1>0, <1>1, <2>1, <2>2, <4>1
      <3> QED
        BY <3>1, <3>2
    <2>3. ASSUME ~(Value(x) > Power[Width - 1]) PROVE Power[Width - 1] \in Above
      BY <1>0, <1>1, <2>1, <2>3
    <2> QED
      BY <2>2, <2>3
  <1>5. ASSUME x # {}, Above # {} PROVE Value(Pow2Ceil(x)) = Min(Above)
    <2>1. PICK b \in Bits : /\ Value(Pow2Ceil(x)) = Power[b] /\ Value(x) <= Power[b]
                            /\ b # 0 => Power[b - 1] < Value(x)
      <3>1. ~(Value(x) > Power[Width - 1])
        <4> HIDE DEF Above
        <4> QED
          BY <1>4, <1>5
      <3> HIDE DEF Above
      <3>2. \E b \in Bits : /\ Value(Pow2Ceil(x)) = Power[b]
                            /\ Value(x) <= Power[b]
                            /\ b # 0 => Power[b - 1] < Value(x)
        <4>1. x # {} /\ ~(Value(x) > Power[Width - 1])
          BY <1>5, <3>1
        <4> HIDE DEF Twos
        <4> QED
          BY <4>1, PowerAbove
      <3> QED
        BY <3>2
    <2>2. Power[b] \in Above
      BY <1>0, <1>1, <2>1
    <2>3. ASSUME NEW p \in Above PROVE Power[b] <= p /\ p \in Nat
      <3>1. PICK c \in Bits : p = Power[c] /\ Power[c] >= Value(x)
        OBVIOUS
      <3>2. CASE c < b
        <4>1. b # 0 /\ b - 1 \in Bits /\ c <= b - 1
          BY <1>0, <3>2
        <4>2. Power[b - 1] < Value(x)
          BY <2>1, <4>1
        <4>3. Power[c] <= Power[b - 1]
          <5>1. CASE c = b - 1
            BY <1>1, <5>1
          <5>2. CASE c < b - 1
            BY <1>1, <4>1, <5>2, PowerGrows
          <5> QED
            BY <1>1, <4>1, <5>1, <5>2
        <4> QED
          BY <1>0, <1>1, <3>1, <4>1, <4>2, <4>3
      <3>3. CASE c = b
        BY <1>1, <3>1, <3>3
      <3>4. CASE b < c
        BY <1>1, <3>1, <3>4, PowerGrows
      <3> QED
        BY <1>1, <3>2, <3>3, <3>4
    <2> DEFINE A == Above
    <2>4. \A y \in A : y \in Nat /\ Power[b] <= y
      BY <2>3
    <2>5. Power[b] \in A /\ Power[b] \in Nat
      BY <1>1, <2>2
    <2> HIDE DEF A
    <2>6. Min(A) = Power[b]
      <3>1. \E q \in A : \A y \in A : q <= y
        BY <2>4, <2>5
      <3>2. Min(A) \in A /\ \A y \in A : Min(A) <= y
        BY <3>1 DEF Min
      <3> QED
        BY <2>4, <2>5, <3>2
    <2> QED
      BY <2>1, <2>6 DEF A
  <1>6. x = {} => Value(Pow2Floor(x)) = 0 /\ Value(Pow2Ceil(x)) = 0
    BY PowerBelow, NoPowerAbove
  <1>7. x # {} /\ Above = {} => Value(Pow2Ceil(x)) = 0
    BY <1>4, NoPowerAbove
  <1> HIDE DEF Below, Above, Twos
  <1>8. /\ Value(Pow2Floor(x)) = IF x = {} THEN 0 ELSE Max(Below)
        /\ Value(Pow2Ceil(x)) = IF x = {} \/ Above = {} THEN 0 ELSE Min(Above)
    BY <1>3, <1>5, <1>6, <1>7
  <1> QED
    BY <1>8 DEF Below, Above, Twos

(* The invariant is enough for the transformations. *)
LEMMA TransformsOfAnyWord ==
  ASSUME word \in Words, turns \in Nat, tier \in Tiers
  PROVE  WordsTransformed
  <1>1. /\ Rotl(tier, word, turns) = {(b + turns) % Width : b \in word}
        /\ Rotr(tier, Rotl(tier, word, turns), turns) = word
    BY RotationOfWord, RotationAndBack
  <1>2. BitReverse(word) = {Width - 1 - b : b \in word}
    BY ReverseOfWord
  <1>3. IsPow2(word) <=> Value(word) \in {Power[b] : b \in Bits}
    BY SinglePower
  <1> QED
    BY <1>1, <1>2, <1>3, NearestPowers DEF WordsTransformed

(* What keeps the word a word of the type: every operation returns one. *)
BitsInv == word \in Words /\ turns \in Nat /\ tier \in Tiers

(* Every operation returns a word of the type. *)
LEMMA BitsStep == ASSUME BitsInv, [BitsNext]_bvars PROVE BitsInv'
  <1>1. CASE UNCHANGED bvars
    BY <1>1 DEF BitsInv, bvars
  <1>2. CASE BitsNext
    <2>1. /\ Rotr(tier, word, turns) \in Words /\ Rotl(tier, word, turns) \in Words
          /\ BitReverse(word) \in Words /\ Pow2Floor(word) \in Words
      BY RotationOfWord, ReverseOfWord, PowerBelow DEF BitsInv
    <2>2. Pow2Ceil(word) \in Words
      BY NoPowerAbove, PowerAbove DEF BitsInv
    <2> QED
      BY <1>2, <2>1, <2>2 DEF BitsInv, BitsNext
  <1> QED
    BY <1>1, <1>2

(* The invariant holds. *)
LEMMA BitsKept == BitsSpec => []BitsInv
  <1>1. BitsInit => BitsInv
    BY BitsConstantsOK DEF BitsInit, BitsInv
  <1> QED
    BY <1>1, BitsStep, PTL DEF BitsSpec

(* Whatever word the operations of pf_bitwise.h are called on, one call after another, every build
   counts its bits as the header says. *)
THEOREM BitsAreCounted == BitsSpec => []CountsAgree
  <1>1. BitsInv => CountsAgree
    BY CountsOfAnyWord DEF BitsInv
  <1> QED
    BY <1>1, BitsKept, PTL

(* Whatever the word and the count, the rotations, the reversal and the nearest powers of two of
   pf_bitwise.h are what their names say. *)
THEOREM BitsAreMoved == BitsSpec => []WordsTransformed
  <1>1. BitsInv => WordsTransformed
    BY TransformsOfAnyWord DEF BitsInv
  <1> QED
    BY <1>1, BitsKept, PTL

-----------------------------------------------------------------------------
(* Ids of types: pf_typeid.h. *)

(* The ids of the table. *)
LEMMA IdsOfTable ==
  /\ SignedTypes = {4, 6, 8, 10, 12, 14, 28, 30, 32, 34, 36, 38, 40, 42, 44, 46, 48, 50, 52, 54}
  /\ UnsignedTypes = {5, 7, 9, 11, 13, 15, 29, 31, 33, 35, 37, 39, 41, 43, 45, 47, 49, 51, 53, 55}
  <1>1. SignedTypes = {4, 6, 8, 10, 12, 14, 28, 30, 32, 34, 36, 38, 40, 42, 44, 46, 48, 50, 52, 54}
    BY DEF SignedTypes, SignedIds
  <1>2. UnsignedTypes = {id + 1 : id \in {4, 6, 8, 10, 12, 14, 28, 30, 32, 34, 36, 38, 40, 42, 44, 46, 48, 50, 52, 54}}
    BY <1>1 DEF UnsignedTypes
  <1> QED
    BY <1>1, <1>2

(* The ranges of ids hold the types of the table, and the lowest bit tells the twins apart. *)
LEMMA ClassOfId ==
  ASSUME NEW id \in TypeIds
  PROVE  /\ type_is_integer(id) <=> id \in SignedTypes \cup UnsignedTypes
         /\ type_is_float(id) <=> id \in FloatIds
         /\ type_is_unsigned(id) = 1 <=> id \in UnsignedTypes
         /\ id \in Int /\ Odd(id) \in {0, 1}
         /\ type_is_integer(id) => (Odd(id) = 1 <=> id \in UnsignedTypes)
  <1>1. id \in 0 .. 187
    BY IdsOfTable DEF TypeIds, FloatIds, OtherIds
  <1>2. type_is_integer(id) <=> id \in SignedTypes \cup UnsignedTypes
    BY <1>1, IdsOfTable DEF type_is_integer, TypeIds, FloatIds, OtherIds
  <1>3. type_is_float(id) <=> id \in FloatIds
    BY <1>1 DEF type_is_float, FloatIds
  <1>4. (id \in SignedTypes => Odd(id) = 0) /\ (id \in UnsignedTypes => Odd(id) = 1) /\ Odd(id) \in {0, 1}
    BY <1>1, IdsOfTable DEF Odd
  <1> QED
    BY <1>1, <1>2, <1>3, <1>4, IdsOfTable DEF type_is_unsigned, ErrorId

(* The sizes of the types that have a name of their own. *)
LEMMA SizeOfNamed ==
  ASSUME NEW m \in DataModels, NEW b \in {0, 1}
  PROVE  /\ SizeOf(m, 6 + b) = 2 /\ SizeOf(m, 8 + b) = 4 /\ SizeOf(m, 12 + b) = 8
         /\ SizeOf(m, 10 + b) = IF m = "LP64" THEN 8 ELSE 4
         /\ SizeOf(m, 32 + b) = 1 /\ SizeOf(m, 34 + b) = 2 /\ SizeOf(m, 36 + b) = 4 /\ SizeOf(m, 38 + b) = 8
  <1> DEFINE named(i) == CHOOSE n \in DOMAIN SignedIds : SignedIds[n] = i
  <1>1. \A n \in DOMAIN SignedIds :
          /\ SignedIds[n] = 6 <=> n = "shrt"
          /\ SignedIds[n] = 8 <=> n = "int"
          /\ SignedIds[n] = 10 <=> n = "long"
          /\ SignedIds[n] = 12 <=> n = "llong"
    BY DEF SignedIds
  <1>2. \A n \in DOMAIN SignedIds :
          /\ SignedIds[n] = 32 <=> n = "int8"
          /\ SignedIds[n] = 34 <=> n = "int16"
          /\ SignedIds[n] = 36 <=> n = "int32"
          /\ SignedIds[n] = 38 <=> n = "int64"
    BY DEF SignedIds
  <1>3. {"shrt", "int", "long", "llong", "int8", "int16", "int32", "int64"} \subseteq DOMAIN SignedIds
    BY DEF SignedIds
  <1>4. /\ named(6) = "shrt" /\ named(8) = "int" /\ named(10) = "long" /\ named(12) = "llong"
        /\ named(32) = "int8" /\ named(34) = "int16" /\ named(36) = "int32" /\ named(38) = "int64"
    BY <1>1, <1>2, <1>3
  <1>5. ASSUME NEW i \in {6, 8, 10, 12, 32, 34, 36, 38} PROVE i + b - ((i + b) % 2) = i
    BY <1>5
  <1> DEFINE sized(n) == LET wide == IF m = "ILP32" THEN 4 ELSE 8
                         IN  CASE n \in {"schar", "int8", "fast8", "least8"} -> 1
                               [] n \in {"shrt", "int16", "least16"} -> 2
                               [] n \in {"int", "int32", "least32"} -> 4
                               [] n \in {"long", "fast16", "fast32"} -> IF m = "LP64" THEN 8 ELSE 4
                               [] n \in {"ptrdiff", "intptr"} -> wide
                               [] OTHER -> 8
  <1>6. ASSUME NEW i \in {6, 8, 10, 12, 32, 34, 36, 38} PROVE SizeOf(m, i + b) = sized(named(i))
    BY <1>5 DEF SizeOf
  <1>7. /\ sized("shrt") = 2 /\ sized("int") = 4 /\ sized("llong") = 8
        /\ sized("long") = IF m = "LP64" THEN 8 ELSE 4
    OBVIOUS
  <1>8. sized("int8") = 1 /\ sized("int16") = 2 /\ sized("int32") = 4 /\ sized("int64") = 8
    OBVIOUS
  <1> HIDE DEF sized, named
  <1> QED
    BY <1>4, <1>6, <1>7, <1>8

(* The size is one of four, the same for both types of a pair. *)
LEMMA SizeOfPair ==
  ASSUME NEW m, NEW id \in Int
  PROVE  SizeOf(m, id) \in {1, 2, 4, 8} /\ SizeOf(m, WithOne(id)) = SizeOf(m, id)
  <1>1. WithOne(id) - (WithOne(id) % 2) = id - (id % 2)
    BY DEF WithOne
  <1>2. SizeOf(m, WithOne(id)) = SizeOf(m, id)
    BY <1>1 DEF SizeOf
  <1>3. SizeOf(m, id) \in {1, 2, 4, 8}
    BY DEF SizeOf
  <1> QED
    BY <1>2, <1>3

(* What is a number below m is found again from it less m, taken modulo a multiple of m. *)
LEMMA WrappedBack ==
  ASSUME NEW m \in Nat, NEW k \in Nat, NEW v \in 0 .. m - 1, k >= 1
  PROVE  ((v - m) % (m * k)) % m = v /\ v % m = v
  <1>1. m * k \in Nat /\ m * k >= m /\ m >= 1 /\ m * k - m = m * (k - 1)
    OBVIOUS
  <1>2. PICK p \in Nat : p = m * k
    BY <1>1
  <1>3. (v - m) % p = v - m + p
    BY <1>1, <1>2
  <1>4. v - m + p = v + m * (k - 1)
    BY <1>1, <1>2
  <1>5. (v + m * (k - 1)) % m = v
    OBVIOUS
  <1>6. v % m = v
    OBVIOUS
  <1> QED
    BY <1>2, <1>3, <1>4, <1>5, <1>6

(* The number of patterns of so many bytes. *)
Patterned(bytes) == Power[CharBits * bytes]

(* The greatest unsigned value of so many bytes, and how many values there are. *)
LEMMA MaximumOf ==
  ASSUME NEW s \in Nat
  PROVE  /\ Patterned(s) \in Nat /\ Patterned(s) >= 1
         /\ Maximum(s) = Patterned(s) - 1 /\ Maximum(s) \in Nat
         /\ Maximum(0) = 0
         /\ s >= 1 => Maximum(s) >= 1
         /\ 2 * Patterned(s) = Power[CharBits * s + 1] /\ CharBits * s \in Nat
  <1>0. CharBits \in Nat /\ CharBits >= 2
    BY TypeIdConstantsOK
  <1>1. CharBits * s \in Nat /\ CharBits * 0 = 0 /\ (s >= 1 => CharBits * s >= 1)
    BY <1>0
  <1>2. Power[CharBits * s] \in Nat /\ Power[CharBits * s] >= 1 /\ Power[0] = 1
    BY <1>1, PowerPositive, PowerStep
  <1>3. PICK n \in Nat : n = CharBits * s
    BY <1>1
  <1>4. 2 * Power[n] = Power[n + 1] /\ (n >= 1 => 2 * Power[0] <= Power[n])
    <2>1. 2 * Power[n] = Power[n + 1]
      BY PowerStep
    <2>2. ASSUME n >= 1 PROVE 2 * Power[0] <= Power[n]
      <3>1. 0 \in Nat /\ 0 < n
        BY <2>2
      <3> QED
        BY <3>1, PowerGrows
    <2> QED
      BY <2>1, <2>2
  <1> QED
    BY <1>1, <1>2, <1>3, <1>4 DEF Patterned, Maximum

(* A value that was loaded with its sign, or without, is stored as the bits that it came from. *)
LEMMA LoadedAndStored ==
  ASSUME NEW id \in Int, weirdInt \in BOOLEAN, NEW s \in {1, 2, 4, 8}, type_int_size(id) = s,
         memory \in 0 .. Maximum(s)
  PROVE  type_int_load(id, memory) % Patterned(s) = memory
  <1>1. /\ s \in Nat /\ 8 \in Nat /\ Patterned(s) \in Nat /\ Patterned(s) >= 1
        /\ Maximum(s) = Patterned(s) - 1 /\ Maximum(8) + 1 = Patterned(8)
    BY MaximumOf
  <1>2. PICK k \in Nat : k >= 1 /\ Patterned(8) = Patterned(s) * k
    <2>1. /\ CharBits * s \in Nat /\ CharBits * 8 - CharBits * s \in Nat
          /\ CharBits * s + (CharBits * 8 - CharBits * s) = CharBits * 8
      BY TypeIdConstantsOK
    <2>2. PICK a \in Nat, d \in Nat : a = CharBits * s /\ d = CharBits * 8 - CharBits * s /\ a + d = CharBits * 8
      BY <2>1
    <2>3. Power[a + d] = Power[a] * Power[d] /\ Power[d] \in Nat /\ Power[d] >= 1
      BY PowerProduct, PowerPositive
    <2> QED
      BY <2>2, <2>3 DEF Patterned
  <1>3. PICK m \in Nat : m = Patterned(s)
    BY <1>1
  <1> DEFINE v == memory
  <1>7. v \in 0 .. m - 1
    BY <1>1, <1>3
  <1> HIDE DEF v
  <1>4. ((v - m) % (m * k)) % m = v /\ v % m = v
    BY <1>2, <1>7, WrappedBack
  <1>5. CASE type_int_load(id, memory) = memory
    BY <1>3, <1>4, <1>5 DEF v
  <1>6. CASE type_int_load(id, memory) # memory
    <2>1. type_int_load(id, memory) = (memory - Maximum(s) - 1) % (Maximum(8) + 1)
      BY <1>6 DEF type_int_load
    <2>2. memory - Maximum(s) - 1 = v - m
      BY <1>1, <1>3, <1>7 DEF v
    <2>3. type_int_load(id, memory) = (v - m) % (m * k)
      BY <1>1, <1>2, <1>3, <2>1, <2>2
    <2> QED
      BY <1>3, <1>4, <2>3 DEF v
  <1> QED
    BY <1>5, <1>6

(* Types of different sizes have different maxima. *)
LEMMA MaximaDiffer ==
  ASSUME NEW s \in {1, 2, 4, 8}, NEW t \in {1, 2, 4, 8}
  PROVE  Maximum(s) = Maximum(t) => s = t
  <1>1. ASSUME NEW a \in {1, 2, 4, 8}, NEW b \in {1, 2, 4, 8}, a < b PROVE Maximum(a) < Maximum(b)
    <2>1. CharBits * a \in Nat /\ CharBits * b \in Nat /\ CharBits * a < CharBits * b
      BY <1>1, TypeIdConstantsOK
    <2>2. Power[CharBits * a] < Power[CharBits * b]
      BY <2>1, PowerGrows
    <2>3. Power[CharBits * a] \in Nat /\ Power[CharBits * b] \in Nat
      BY <2>1, PowerPositive
    <2> QED
      BY <2>2, <2>3 DEF Maximum
  <1>2. Maximum(s) \in Nat /\ Maximum(t) \in Nat
    BY MaximumOf
  <1>3. s < t \/ t < s \/ s = t
    OBVIOUS
  <1> QED
    BY <1>1, <1>2, <1>3

(* What an odd type is measured by is its maximum for the widest types, and no maximum for the others. *)
LEMMA TwiceTheMaximum ==
  ASSUME NEW s \in {1, 2, 4, 8}
  PROVE  LET max == (Maximum(s) * 2 + 1) % (Maximum(8) + 1)
         IN  max = Maximum(s) \/ \A t \in {1, 2, 4, 8} : max # Maximum(t)
  <1> DEFINE max == (Maximum(s) * 2 + 1) % (Maximum(8) + 1)
  <1>1. /\ Maximum(s) = Patterned(s) - 1 /\ Patterned(s) \in Nat /\ Patterned(s) >= 1
        /\ Maximum(8) = Patterned(8) - 1 /\ Patterned(8) \in Nat /\ Patterned(8) >= 1
        /\ 2 * Patterned(s) = Power[CharBits * s + 1] /\ CharBits * s \in Nat
    BY MaximumOf
  <1>2. PICK p \in Nat, q \in Nat : p = Patterned(s) /\ q = Patterned(8) /\ p >= 1 /\ q >= 1
    BY <1>1
  <1>3. max = (2 * p - 1) % q
    <2>1. Maximum(s) * 2 + 1 = 2 * p - 1 /\ Maximum(8) + 1 = q
      BY <1>1, <1>2
    <2> QED
      BY <2>1
  <1>4. CASE s = 8
    <2>1. p = q
      BY <1>2, <1>4
    <2>2. (2 * p - 1) % p = p - 1
      BY <1>2
    <2> QED
      BY <1>1, <1>2, <1>3, <2>1, <2>2
  <1>5. CASE s # 8
    <2>1. PICK n \in Nat : n = CharBits * s + 1
      BY <1>1
    <2>2. PICK c \in Nat : c = CharBits /\ c >= 2
      BY TypeIdConstantsOK
    <2>3. \A t \in {1, 2, 4, 8} : c * t \in Nat /\ n # c * t
      BY <1>5, <2>1, <2>2
    <2>4. n < c * 8
      BY <1>5, <2>1, <2>2
    <2>5. 2 * p = Power[n] /\ \A t \in {1, 2, 4, 8} : Patterned(t) = Power[c * t]
      BY <1>1, <1>2, <2>1, <2>2 DEF Patterned
    <2>6. 2 * p < q
      <3>1. PICK k \in Nat : k = c * 8 /\ n < k
        BY <2>2, <2>4
      <3>2. Power[n] < Power[k]
        BY <3>1, PowerGrows
      <3>3. q = Power[k]
        BY <1>2, <2>5, <3>1
      <3> QED
        BY <2>5, <3>2, <3>3
    <2>7. max = 2 * p - 1
      <3>1. (2 * p - 1) % q = 2 * p - 1
        BY <1>2, <2>6
      <3> HIDE DEF max
      <3> QED
        BY <1>3, <3>1
    <2>8. ASSUME NEW t \in {1, 2, 4, 8} PROVE Power[n] # Power[c * t] /\ Power[c * t] \in Nat
      <3>1. PICK k \in Nat : k = c * t /\ n # k
        BY <2>3
      <3>2. n < k \/ k < n
        BY <3>1
      <3>3. Power[n] # Power[k]
        <4>1. Power[n] \in Nat /\ Power[k] \in Nat
          BY PowerPositive
        <4>2. Power[n] < Power[k] \/ Power[k] < Power[n]
          BY <3>2, PowerGrows
        <4> QED
          BY <4>1, <4>2
      <3> QED
        BY <3>1, <3>3, PowerPositive
    <2>9. ASSUME NEW t \in {1, 2, 4, 8} PROVE max # Maximum(t)
      <3>1. Maximum(t) = Power[c * t] - 1
        BY <2>2 DEF Maximum
      <3>2. Power[n] # Power[c * t] /\ Power[c * t] \in Nat
        BY <2>8
      <3>3. max = Power[n] - 1 /\ Power[n] \in Nat
        BY <1>2, <2>5, <2>7
      <3> HIDE DEF max
      <3> QED
        BY <3>1, <3>2, <3>3
    <2> QED
      BY <2>9
  <1> QED
    BY <1>4, <1>5

(* The basic type that is found for a type, if one is, has its size and its sign. *)
LEMMA BaseOfType ==
  ASSUME NEW id \in SignedTypes \cup UnsignedTypes, abi \in DataModels,
         type_int_as_base(id) \in SignedTypes \cup UnsignedTypes
  PROVE  /\ SizeOf(abi, type_int_as_base(id)) = SizeOf(abi, id)
         /\ Odd(type_int_as_base(id)) = Odd(id)
  <1>0. id \in TypeIds /\ id \in Int /\ Odd(id) \in {0, 1} /\ type_is_integer(id)
    BY ClassOfId DEF TypeIds
  <1>1. PICK s \in {1, 2, 4, 8} : s = SizeOf(abi, id)
    BY <1>0, SizeOfPair
  <1>2. type_int_max(id) = Maximum(s)
    BY <1>0, <1>1, SizeOfPair DEF type_int_max
  <1>3. PICK b \in {0, 1} : b = Odd(id)
    BY <1>0
  <1> DEFINE max == IF Odd(id) = 1 THEN (type_int_max(id) * 2 + 1) % (Maximum(8) + 1) ELSE type_int_max(id)
  <1>4. max = Maximum(s) \/ \A t \in {1, 2, 4, 8} : max # Maximum(t)
    BY <1>2, TwiceTheMaximum
  <1>5. type_int_as_base(id) = IF max = Maximum(1) THEN 2 + b
                               ELSE IF max = Maximum(2) THEN 6 + b
                               ELSE IF max = Maximum(4) THEN 8 + b
                               ELSE IF max = Maximum(SizeOf(abi, 10)) THEN 10 + b
                               ELSE IF max = Maximum(8) THEN 12 + b
                               ELSE -1
    <2>1. SignedIds.shrt = 6 /\ SignedIds.int = 8 /\ SignedIds.long = 10 /\ SignedIds.llong = 12
      BY DEF SignedIds
    <2> QED
      BY <1>0, <1>3, <2>1 DEF type_int_as_base, CharId, ErrorId
  <1> HIDE DEF max
  <1>6. /\ SizeOf(abi, 6 + b) = 2 /\ SizeOf(abi, 8 + b) = 4 /\ SizeOf(abi, 12 + b) = 8
        /\ SizeOf(abi, 10 + b) = SizeOf(abi, 10) /\ SizeOf(abi, 10) \in {4, 8}
    <2>1. 0 \in {0, 1} /\ 10 + 0 = 10
      OBVIOUS
    <2>2. SizeOf(abi, 10 + 0) = IF abi = "LP64" THEN 8 ELSE 4
      BY <2>1, SizeOfNamed
    <2> QED
      BY <2>1, <2>2, SizeOfNamed
  <1>7. /\ 2 + b \notin SignedTypes \cup UnsignedTypes /\ -1 \notin SignedTypes \cup UnsignedTypes
        /\ Odd(6 + b) = b /\ Odd(8 + b) = b /\ Odd(10 + b) = b /\ Odd(12 + b) = b
    BY IdsOfTable DEF Odd
  <1>8. \A t \in {1, 2, 4, 8} : max = Maximum(t) => t = s
    BY <1>4, MaximaDiffer
  <1> DEFINE base == type_int_as_base(id)
             long == SizeOf(abi, 10)
  <1>9. \/ base = 6 + b /\ max = Maximum(2)
        \/ base = 8 + b /\ max = Maximum(4)
        \/ base = 10 + b /\ max = Maximum(long)
        \/ base = 12 + b /\ max = Maximum(8)
    <2>1. base \in SignedTypes \cup UnsignedTypes
      OBVIOUS
    <2> HIDE DEF base, long
    <2>2. base = IF max = Maximum(1) THEN 2 + b
                 ELSE IF max = Maximum(2) THEN 6 + b
                 ELSE IF max = Maximum(4) THEN 8 + b
                 ELSE IF max = Maximum(long) THEN 10 + b
                 ELSE IF max = Maximum(8) THEN 12 + b
                 ELSE -1
      BY <1>5 DEF base, long
    <2>3. base # 2 + b /\ base # -1
      BY <1>7, <2>1
    <2> QED
      BY <2>2, <2>3
  <1> HIDE DEF base
  <1>10. (long = 4 \/ long = 8) /\ long \in {1, 2, 4, 8}
    BY <1>6
  <1>11. SizeOf(abi, base) = s /\ Odd(base) = b
    <2>1. CASE base = 6 + b /\ max = Maximum(2)
      BY <1>6, <1>7, <1>8, <2>1
    <2>2. CASE base = 8 + b /\ max = Maximum(4)
      BY <1>6, <1>7, <1>8, <2>2
    <2>3. CASE base = 10 + b /\ max = Maximum(long)
      BY <1>6, <1>7, <1>8, <1>10, <2>3
    <2>4. CASE base = 12 + b /\ max = Maximum(8)
      BY <1>6, <1>7, <1>8, <2>4
    <2> QED
      BY <1>9, <2>1, <2>2, <2>3, <2>4
  <1> QED
    BY <1>1, <1>3, <1>11 DEF base

(* The type of fixed width that is found for a type has its size and its sign. *)
LEMMA FixedOfType ==
  ASSUME NEW id \in SignedTypes \cup UnsignedTypes, abi \in DataModels
  PROVE  /\ SizeOf(abi, type_int_as_fixed(id)) = SizeOf(abi, id)
         /\ Odd(type_int_as_fixed(id)) = Odd(id)
  <1>0. id \in TypeIds /\ id \in Int /\ Odd(id) \in {0, 1} /\ type_is_integer(id)
    BY ClassOfId DEF TypeIds
  <1>1. PICK s \in {1, 2, 4, 8} : s = SizeOf(abi, id) /\ type_int_size(id) = s
    BY <1>0, SizeOfPair DEF type_int_size
  <1>2. PICK b \in {0, 1} : b = Odd(id)
    BY <1>0
  <1>3. /\ SignedIds.int8 = 32 /\ SignedIds.int16 = 34 /\ SignedIds.int32 = 36 /\ SignedIds.int64 = 38
    BY DEF SignedIds
  <1>4. /\ s = 1 => type_int_as_fixed(id) = 32 + b
        /\ s = 2 => type_int_as_fixed(id) = 34 + b
        /\ s = 4 => type_int_as_fixed(id) = 36 + b
        /\ s = 8 => type_int_as_fixed(id) = 38 + b
    BY <1>0, <1>1, <1>2, <1>3 DEF type_int_as_fixed
  <1>5. Odd(32 + b) = b /\ Odd(34 + b) = b /\ Odd(36 + b) = b /\ Odd(38 + b) = b
    BY DEF Odd
  <1>6. SizeOf(abi, 32 + b) = 1 /\ SizeOf(abi, 34 + b) = 2 /\ SizeOf(abi, 36 + b) = 4 /\ SizeOf(abi, 38 + b) = 8
    BY SizeOfNamed
  <1> QED
    BY <1>1, <1>2, <1>4, <1>5, <1>6

(* The object holds a pattern of its type. *)
TypeIdInv ==
  /\ typeid \in TypeIds /\ abi \in DataModels /\ weirdInt \in BOOLEAN
  /\ memory \in 0 .. Maximum(type_int_size(typeid))

(* The invariant is enough. *)
LEMMA IdsAreRight == ASSUME TypeIdInv PROVE IdsClassify
  <1>1. /\ type_is_integer(typeid) <=> typeid \in SignedTypes \cup UnsignedTypes
        /\ type_is_float(typeid) <=> typeid \in FloatIds
        /\ type_is_unsigned(typeid) = 1 <=> typeid \in UnsignedTypes
        /\ typeid \in Int
    BY ClassOfId DEF TypeIdInv
  <1>2. ASSUME type_is_integer(typeid)
        PROVE  /\ type_int_size(typeid) = SizeOf(abi, typeid)
               /\ type_int_store(typeid, type_int_load(typeid, memory)) = memory
               /\ \A id \in Equivalents(typeid) :
                    /\ SizeOf(abi, id) = SizeOf(abi, typeid) /\ Odd(id) = Odd(typeid)
                    /\ type_int_store(id, type_int_load(typeid, memory)) = memory
    <2>1. PICK s \in {1, 2, 4, 8} : s = SizeOf(abi, typeid) /\ type_int_size(typeid) = s
      BY <1>1, <1>2, SizeOfPair DEF type_int_size
    <2>2. type_int_load(typeid, memory) % Patterned(s) = memory
      BY <1>1, <2>1, LoadedAndStored DEF TypeIdInv
    <2>3. Maximum(s) + 1 = Patterned(s)
      BY MaximumOf
    <2>4. \A id : type_int_size(id) = s => type_int_store(id, type_int_load(typeid, memory)) = memory
      BY <2>2, <2>3 DEF type_int_store
    <2>5. ASSUME NEW id \in Equivalents(typeid)
          PROVE  /\ SizeOf(abi, id) = SizeOf(abi, typeid) /\ Odd(id) = Odd(typeid)
                 /\ type_int_size(id) = s
      <3>1. id \in SignedTypes \cup UnsignedTypes /\ id \in {type_int_as_fixed(typeid), type_int_as_base(typeid)}
        BY DEF Equivalents
      <3>2. SizeOf(abi, id) = SizeOf(abi, typeid) /\ Odd(id) = Odd(typeid)
        BY <1>1, <1>2, <3>1, FixedOfType, BaseOfType DEF TypeIdInv
      <3>3. id \in TypeIds
        BY <3>1 DEF TypeIds
      <3>4. type_is_integer(id) /\ id \in Int
        BY <3>1, <3>3, ClassOfId
      <3>5. type_int_size(id) = SizeOf(abi, id)
        BY <3>4, SizeOfPair DEF type_int_size
      <3> QED
        BY <2>1, <3>2, <3>5
    <2> QED
      BY <2>1, <2>4, <2>5
  <1> QED
    BY <1>1, <1>2 DEF IdsClassify

(* The size that the library has for a type, 0 for what is no integer. *)
LEMMA SizeOfAnyType == ASSUME NEW id \in TypeIds PROVE type_int_size(id) \in {0, 1, 2, 4, 8}
  BY ClassOfId, SizeOfPair DEF type_int_size

(* What is stored into an object is one of its patterns. *)
LEMMA TypeIdStep == ASSUME TypeIdInv, [TypeIdNext]_idvars PROVE TypeIdInv'
  <1>1. CASE UNCHANGED idvars
    BY <1>1 DEF TypeIdInv, idvars, type_int_size
  <1>2. CASE Ask
    <2>1. type_int_size(typeid)' \in {0, 1, 2, 4, 8}
      BY <1>2, ClassOfId, SizeOfPair DEF Ask, TypeIdInv, type_int_size
    <2>2. Maximum(type_int_size(typeid)') \in Nat
      BY <2>1, MaximumOf
    <2> QED
      BY <1>2, <2>2 DEF Ask, TypeIdInv, Maximum
  <1>3. CASE Fill
    <2>1. PICK s \in {1, 2, 4, 8} : type_int_size(typeid) = s
      BY <1>3, ClassOfId, SizeOfPair DEF Fill, TypeIdInv, type_int_size
    <2>2. Maximum(s) \in Nat /\ Maximum(s) >= 1
      BY MaximumOf
    <2>3. \A v \in Patterns(typeid) : v \in 0 .. Maximum(s)
      BY <2>1, <2>2 DEF Patterns
    <2>4. type_int_size(typeid)' = s
      BY <1>3, <2>1 DEF Fill, type_int_size
    <2> QED
      BY <1>3, <2>3, <2>4 DEF Fill, TypeIdInv, Maximum
  <1>4. CASE Recast
    <2>1. IdsClassify
      BY IdsAreRight
    <2>2. PICK id \in Equivalents(typeid) : typeid' = id
      BY <1>4 DEF Recast
    <2>3. memory' = memory /\ SizeOf(abi, id) = SizeOf(abi, typeid) /\ type_is_integer(typeid)
          /\ type_int_size(typeid) = SizeOf(abi, typeid)
      BY <1>4, <2>1, <2>2 DEF Recast, IdsClassify
    <2>4. id \in TypeIds /\ id \in Int /\ type_is_integer(id)
      BY ClassOfId DEF Equivalents, TypeIds
    <2>5. type_int_size(id) = type_int_size(typeid)
      BY <2>3, <2>4, SizeOfPair DEF type_int_size
    <2>6. type_int_size(typeid)' = type_int_size(id)
      BY <1>4, <2>2 DEF Recast, type_int_size
    <2> QED
      BY <1>4, <2>2, <2>3, <2>4, <2>5, <2>6 DEF Recast, TypeIdInv, Maximum
  <1> QED
    BY <1>1, <1>2, <1>3, <1>4 DEF TypeIdNext

(* An object that is asked about, filled and copied into one of a type that pf_typeid.h takes for the
   same keeps its size, its bits and its sign, whatever the machine. *)
THEOREM IdsHold == TypeIdSpec => []IdsClassify
  <1>1. TypeIdInit => TypeIdInv
    <2> SUFFICES ASSUME TypeIdInit PROVE TypeIdInv
      OBVIOUS
    <2>1. type_int_size(typeid) \in {0, 1, 2, 4, 8}
      BY SizeOfAnyType DEF TypeIdInit
    <2>2. Maximum(type_int_size(typeid)) \in Nat
      BY <2>1, MaximumOf
    <2> QED
      BY <2>2 DEF TypeIdInit, TypeIdInv
  <1> QED
    BY <1>1, TypeIdStep, IdsAreRight, PTL DEF TypeIdSpec

-----------------------------------------------------------------------------
(* The parts that compute a value from values, side by side: whatever words, numbers, bytes, characters
   and types they are given, what they return is right together, but for what PureFunctionsRight exempts
   because the code is wrong there: overflows of long long with MSVC, the portable product whose second
   operand is not above zero, and the conversions of byte order in place of <endian.h>. *)
THEOREM PureFunctionsAreRight ==
  BitsSpec /\ CheckedSpec /\ EndianSpec /\ CtypeSpec /\ TypeIdSpec => []PureFunctionsRight
  <1>1. CountsAgree /\ WordsTransformed /\ OverflowDetected /\ ByteOrderRight /\ ClassesAgree /\ IdsClassify
        => PureFunctionsRight
    BY DEF PureFunctionsRight
  <1> QED
    BY BitsAreCounted, BitsAreMoved, OverflowIsDetected, BytesInOrder, CtypeClassesAgree, IdsHold, <1>1, PTL
=============================================================================
