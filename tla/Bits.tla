-------------------------------- MODULE Bits --------------------------------
(***************************************************************************)
(* The bit operations of pf_bitwise.h.  Every operation has several        *)
(* implementations, picked when the program is built: the builtins of GCC  *)
(* and Clang, which work on unsigned int, the intrinsics of MSVC, and      *)
(* portable C.  A word is the set of the numbers of its bits that are one. *)
(***************************************************************************)
EXTENDS Integers, FiniteSets, FiniteSetsExt, Powers

CONSTANTS
  Width,     \* bits of the type, a power of two
  IntWidth,  \* bits of unsigned int, no fewer
  Counts     \* bits to rotate by that occur

ASSUME BitsConstantsOK ==
  /\ Width \in {2, 4, 8, 16, 32, 64}
  /\ IntWidth \in Nat /\ IntWidth >= Width
  /\ Counts \subseteq Nat

VARIABLES
  word,   \* the operand
  turns,  \* bits to rotate it by
  tier    \* the implementation that the build picked

Bits == 0 .. Width - 1
Words == SUBSET Bits
Tiers == {"classic", "msvc", "portable"}

\* The number of a word, from its highest bit down.
Value(x) ==
  LET value[k \in 0 .. Width] ==
        IF k = 0 THEN 0 ELSE 2 * value[k - 1] + (IF Width - k \in x THEN 1 ELSE 0)
  IN  value[Width]
\* The word of a number, reduced to the width of the type.
ToWord(n) ==
  LET halved[b \in 0 .. Width] == IF b = 0 THEN n ELSE halved[b - 1] \div 2
  IN  {b \in Bits : halved[b] % 2 = 1}
Complement(x) == Bits \ x
ShiftR(x, n) == {b \in Bits : b + n \in x}
ShiftL(x, n) == {b \in Bits : b - n \in x}
Less1(x) == ToWord((Value(x) - 1) % Power[Width])

\* The loops over Width / 2, ..., 2, 1 and over 1, 2, ..., Width / 2: a round that starts
\* at the width or above changes nothing.
Halving(Round(_, _), start) ==
  Round(Round(Round(Round(Round(Round(start, 32), 16), 8), 4), 2), 1)
Doubling(Round(_, _), start) ==
  Round(Round(Round(Round(Round(Round(start, 1), 2), 4), 8), 16), 32)

-----------------------------------------------------------------------------
\* What the compilers provide.
BuiltinClz(x) == IntWidth - 1 - Max(x)
BuiltinCtz(x) == Min(x)
BuiltinPopcount(x) == Cardinality(x)
BitScanReverse(x) == Max(x)
BitScanForward(x) == Min(x)

\* Mutant of ClassicClz: the width of unsigned int is forgotten.
ClzOfInt(x) == IF x = {} THEN Width ELSE BuiltinClz(x)

ClassicClz(x) == IF x = {} THEN Width ELSE BuiltinClz(x) - (IntWidth - Width)
ClassicCtz(x) == IF x = {} THEN Width ELSE BuiltinCtz(x)

MsvcClz(x) == IF x = {} THEN Width ELSE Width - 1 - BitScanReverse(x)
MsvcCtz(x) == IF x = {} THEN Width ELSE BitScanForward(x)

ClzRound(acc, i) ==
  IF i >= Width \/ ShiftR(acc.x, i) = {} THEN acc
  ELSE [out |-> acc.out - i, x |-> ShiftR(acc.x, i)]
PortableClz(x) == IF x = {} THEN Width ELSE Halving(ClzRound, [out |-> Width - 1, x |-> x]).out

PortableCtz[x \in Words] ==
  IF x = {} THEN Width ELSE IF 0 \in x THEN 0 ELSE 1 + PortableCtz[ShiftR(x, 1)]

PortablePopcount[x \in Words] ==
  IF x = {} THEN 0 ELSE 1 + PortablePopcount[x \cap Less1(x)]

PortableParity[x \in Words] ==
  IF x = {} THEN 0 ELSE 1 - PortableParity[x \cap Less1(x)]

\* The function that a build gets.
Clz(t, x) == CASE t = "classic"  -> ClassicClz(x)
               [] t = "msvc"     -> MsvcClz(x)
               [] t = "portable" -> PortableClz(x)
Ctz(t, x) == CASE t = "classic"  -> ClassicCtz(x)
               [] t = "msvc"     -> MsvcCtz(x)
               [] t = "portable" -> PortableCtz[x]
Popcount(t, x) == IF t = "portable" THEN PortablePopcount[x] ELSE BuiltinPopcount(x)
Parity(t, x) == IF t = "portable" THEN PortableParity[x] ELSE BuiltinPopcount(x) % 2
Zerocount(t, x) == Popcount(t, Complement(x))

Clo(t, x) == Clz(t, Complement(x))
Cto(t, x) == Ctz(t, Complement(x))
Flz(t, x) == IF Complement(x) # {} THEN Clz(t, Complement(x)) + 1 ELSE 0
Flo(t, x) == IF x # {} THEN Clz(t, x) + 1 ELSE 0
Ftz(t, x) == IF Complement(x) # {} THEN Ctz(t, Complement(x)) + 1 ELSE 0
Fto(t, x) == IF x # {} THEN Ctz(t, x) + 1 ELSE 0

-----------------------------------------------------------------------------
\* x | x >> 1, | that >> 2, | that >> 4 ... : every bit below the highest.
SmearRound(x, i) == IF i >= Width THEN x ELSE x \cup ShiftR(x, i)
Smear(x) == Doubling(SmearRound, x)

IsPow2(x) == x # {} /\ x \cap Less1(x) = {}

Pow2Ceil(x) ==
  IF x = {} \/ Value(x) > Power[Width - 1] THEN {}
  ELSE ToWord(Value(Smear(Less1(x))) + 1)

Pow2Floor(x) == LET s == Smear(x) IN ToWord(Value(s) - Value(ShiftR(s, 1)))

\* Halves are swapped, then quarters, down to single bits.
ReverseRound(acc, s) ==
  LET mask == (acc.mask \cup ShiftL(acc.mask, s)) \ (acc.mask \cap ShiftL(acc.mask, s))
  IN  IF s >= Width THEN acc
      ELSE [mask |-> mask,
            x |-> (ShiftR(acc.x, s) \cap mask) \cup (ShiftL(acc.x, s) \cap Complement(mask))]
BitReverse(x) == Halving(ReverseRound, [mask |-> Bits, x |-> x]).x

\* The intrinsics rotate by a count within the width, for the four common widths.
MsvcRotl(x, i) == {(b + (i % Width)) % Width : b \in x}
MsvcRotr(x, i) == {(b - (i % Width)) % Width : b \in x}
PortableRotr(x, i) == ShiftR(x, i % Width) \cup ShiftL(x, (-i) % Width)
PortableRotl(x, i) == ShiftL(x, i % Width) \cup ShiftR(x, (-i) % Width)
HasRotation == Width \in {8, 16, 32, 64}
Rotr(t, x, i) == IF t = "msvc" /\ HasRotation THEN MsvcRotr(x, i) ELSE PortableRotr(x, i)
Rotl(t, x, i) == IF t = "msvc" /\ HasRotation THEN MsvcRotl(x, i) ELSE PortableRotl(x, i)

-----------------------------------------------------------------------------
\* One call after another on one word.
BitsInit == word \in Words /\ turns \in Counts /\ tier \in Tiers

BitsNext ==
  /\ word' \in {Rotr(tier, word, turns), Rotl(tier, word, turns),
                BitReverse(word), Pow2Ceil(word), Pow2Floor(word)}
  /\ UNCHANGED <<turns, tier>>

bvars == <<word, turns, tier>>
BitsSpec == BitsInit /\ [][BitsNext]_bvars

-----------------------------------------------------------------------------
\* Whichever implementation a build picks, the counts are those that the header
\* promises, zero and all ones included: the numbers of leading and trailing bits of a
\* kind, and the position of the first one from either end, 0 if there is none.
CountsAgree ==
  LET Leading(S) == Cardinality({k \in Bits : k .. Width - 1 \subseteq S})
      Trailing(S) == Cardinality({k \in Bits : 0 .. k \subseteq S})
      First(n) == IF n = Width THEN 0 ELSE n + 1
  IN  /\ Clz(tier, word) = Leading(Complement(word)) /\ Clo(tier, word) = Leading(word)
      /\ Ctz(tier, word) = Trailing(Complement(word)) /\ Cto(tier, word) = Trailing(word)
      /\ Flo(tier, word) = First(Leading(Complement(word)))
      /\ Flz(tier, word) = First(Leading(word))
      /\ Fto(tier, word) = First(Trailing(Complement(word)))
      /\ Ftz(tier, word) = First(Trailing(word))
      /\ Popcount(tier, word) + Zerocount(tier, word) = Width
      /\ Popcount(tier, word) = Cardinality(word)
      /\ Parity(tier, word) = Cardinality(word) % 2

\* The portable loops move every bit to its place for any count, and round to the
\* nearest power of two on either side, to 0 where there is none that fits.
WordsTransformed ==
  LET Powers == {Power[b] : b \in Bits}
      Below == {p \in Powers : p <= Value(word)}
      Above == {p \in Powers : p >= Value(word)}
  IN  /\ Rotl(tier, word, turns) = {(b + turns) % Width : b \in word}
      /\ Rotr(tier, Rotl(tier, word, turns), turns) = word
      /\ BitReverse(word) = {Width - 1 - b : b \in word}
      /\ IsPow2(word) <=> Value(word) \in Powers
      /\ Value(Pow2Floor(word)) = IF word = {} THEN 0 ELSE Max(Below)
      /\ Value(Pow2Ceil(word)) = IF word = {} \/ Above = {} THEN 0 ELSE Min(Above)
=============================================================================
