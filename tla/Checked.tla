------------------------------- MODULE Checked -------------------------------
(***************************************************************************)
(* The checked and the saturating arithmetic of pf_overflow.h.  The test   *)
(* for overflow is a builtin of the compiler where there is one (or the    *)
(* ckd_ functions of C23, which do the same), a function of <intsafe.h>    *)
(* with MSVC, and a comparison in portable C elsewhere.                    *)
(***************************************************************************)
EXTENDS Integers

CONSTANTS
  SMax,   \* INT_MAX; INT_MIN is -SMax - 1
  UMax,   \* UINT_MAX
  LLMax,  \* LLONG_MAX
  ULLMax  \* ULLONG_MAX

ASSUME CheckedConstantsOK == {SMax, UMax, LLMax, ULLMax} \subseteq Nat \ {0}

VARIABLES type, left, right, method

\* A type, and the type whose functions of <intsafe.h> the code calls for it: long long
\* is checked by those of long, which is as wide as int where there is an <intsafe.h>.
Limits(lo, hi) == [min |-> lo, max |-> hi]
Integer(lo, hi, intsafe) == [min |-> lo, max |-> hi, msvc |-> intsafe]
LongLimits == Limits(-SMax - 1, SMax)
ULongLimits == Limits(0, UMax)
Signed == Integer(-SMax - 1, SMax, LongLimits)
Unsigned == Integer(0, UMax, ULongLimits)
SignedLLong == Integer(-LLMax - 1, LLMax, LongLimits)
UnsignedLLong == Integer(0, ULLMax, ULongLimits)
Types == {Signed, Unsigned, SignedLLong, UnsignedLLong}
Span(t) == t.min .. t.max

Wrap(t, v) == ((v - t.min) % (t.max - t.min + 1)) + t.min
Fits(t, v) == t.min <= v /\ v <= t.max
\* Division of C truncates.
Quotient(m, n) == IF (m >= 0) = (n > 0)
                  THEN (IF m >= 0 THEN m ELSE -m) \div (IF n > 0 THEN n ELSE -n)
                  ELSE -((IF m >= 0 THEN m ELSE -m) \div (IF n > 0 THEN n ELSE -n))

-----------------------------------------------------------------------------
AddOverflows(t, x, y) == (y > 0 /\ x > t.max - y) \/ (y < 0 /\ x < t.min - y)
SubOverflows(t, x, y) == (y > 0 /\ x < t.min + y) \/ (y < 0 /\ x > t.max + y)
\* For y # 0: the code divides by y.
MulOverflows(t, x, y) == x > Quotient(t.max, y) \/ x < Quotient(t.min, y)

\* An operand as a function of <intsafe.h> receives it.
Low(t, x) == Wrap(t.msvc, x)

\* What such a function leaves in *out when it fails: ones in the part that it writes.
AllOnes(t, v) ==
  LET patterns == t.msvc.max - t.msvc.min + 1
  IN  Wrap(t, (v \div patterns) * patterns + patterns - 1)

\* What is in *out and whether it is called wrong, from the true result, the result of
\* the operands that <intsafe.h> sees, and the answer of the portable test.
Outcome(t, exact, narrow, portable) ==
  LET failed == ~Fits(t.msvc, narrow)
  IN  CASE method = "builtin"  -> [out |-> Wrap(t, exact), flag |-> ~Fits(t, exact)]
        [] method = "msvc"     -> [out |-> IF failed THEN AllOnes(t, Wrap(t, exact))
                                           ELSE Wrap(t, exact),
                                   flag |-> failed]
        [] method = "portable" -> [out |-> Wrap(t, exact), flag |-> portable]

\* pf_overflow_*add(), sub() and mul()
OverflowAdd(t, x, y) ==
  Outcome(t, x + y, Low(t, x) + Low(t, y), AddOverflows(t, x, y))
OverflowSub(t, x, y) ==
  Outcome(t, x - y, Low(t, x) - Low(t, y), SubOverflows(t, x, y))
OverflowMul(t, x, y) ==
  Outcome(t, x * y, Low(t, x) * Low(t, y), MulOverflows(t, x, y))

\* The comparison of the code converts -1 to the type: for an unsigned one it is the
\* largest value.
BelowMinusOne(t, x) == x < Wrap(t, -1)

SaturatedAdd(t, x, y) ==
  LET r == OverflowAdd(t, x, y)
  IN  IF r.flag THEN (IF x > 0 THEN t.max ELSE t.min) ELSE r.out
SaturatedSub(t, x, y) ==
  LET r == OverflowSub(t, x, y)
  IN  IF r.flag THEN (IF ~(BelowMinusOne(t, x) /\ y > 0) THEN t.max ELSE t.min)
      ELSE r.out
SaturatedMul(t, x, y) ==
  LET r == OverflowMul(t, x, y)
  IN  IF r.flag THEN (IF (x > 0 /\ y > 0) \/ (x < 0 /\ y < 0) THEN t.max ELSE t.min)
      ELSE r.out

-----------------------------------------------------------------------------
CheckedInit ==
  /\ type \in Types
  /\ left \in Span(type) /\ right \in Span(type)
  /\ method \in {"builtin", "msvc", "portable"}

\* Results go into the next operation, as in a sum or a product of many terms.
Accumulate ==
  /\ left' \in {SaturatedAdd(type, left, right), SaturatedSub(type, left, right)}
  /\ UNCHANGED <<type, right, method>>

cvars == <<type, left, right, method>>
CheckedSpec == CheckedInit /\ [][Accumulate]_cvars

-----------------------------------------------------------------------------
Clamp(t, v) == IF v > t.max THEN t.max ELSE IF v < t.min THEN t.min ELSE v

\* The test is one for the type itself: not that of long for long long.
OwnTest == method = "msvc" => type.msvc = Limits(type.min, type.max)

\* An overflow is reported if and only if the true result does not fit, and the
\* saturating operation gives the nearest value that does: by the builtins, by
\* <intsafe.h> except for long long, which is wrong with MSVC, and by the portable
\* tests except for a product whose second operand is not above zero.
OverflowDetected ==
  OwnTest =>
    /\ OverflowAdd(type, left, right).flag <=> ~Fits(type, left + right)
    /\ OverflowSub(type, left, right).flag <=> ~Fits(type, left - right)
    /\ SaturatedAdd(type, left, right) = Clamp(type, left + right)
    /\ SaturatedSub(type, left, right) = Clamp(type, left - right)
    /\ (method = "portable" => right > 0) =>
         /\ OverflowMul(type, left, right).flag <=> ~Fits(type, left * right)
         /\ SaturatedMul(type, left, right) = Clamp(type, left * right)
=============================================================================
