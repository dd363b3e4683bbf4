----------------------------- MODULE Induction -----------------------------
(* Induction over numbers, with a set for what is to be shown: what proofs about data rest on. *)
EXTENDS Integers, WellFoundedInduction, TLAPS

(* Every set of numbers that is not empty has a least one. *)
LEMMA Least ==
  ASSUME NEW T \in SUBSET Nat, T # {}
  PROVE  \E x \in T : \A y \in T : x <= y
  <1>1. PICK R : IsWellFoundedOn(R, Nat) /\ \A x, y \in Nat : <<y, x>> \in R <=> y < x
    BY NatLessThanWellFounded DEF OpToRel
  <1>2. PICK x \in T : \A y \in T : ~(<<y, x>> \in R)
    BY <1>1, WFMin
  <1>3. \A y \in T : y \in Nat /\ x \in Nat /\ ~(y < x)
    BY <1>1, <1>2
  <1> QED
    BY <1>3

(* Induction, for a set. *)
LEMMA Induct ==
  ASSUME NEW S, 0 \in S, \A i \in Nat : i \in S => i + 1 \in S
  PROVE  \A i \in Nat : i \in S
  <1> SUFFICES ASSUME Nat \ S # {} PROVE FALSE
    OBVIOUS
  <1>0. Nat \ S \in SUBSET Nat
    OBVIOUS
  <1>1. PICK x \in Nat \ S : \A y \in Nat \ S : x <= y
    BY <1>0, Least
  <1>2. x # 0 /\ x - 1 \in Nat /\ x - 1 + 1 = x /\ ~(x <= x - 1)
    BY <1>1
  <1> QED
    BY <1>1, <1>2

(* Induction up to a bound. *)
LEMMA InductTo ==
  ASSUME NEW N \in Nat, NEW S, 0 \in S, \A i \in 0 .. N - 1 : i \in S => i + 1 \in S
  PROVE  \A i \in 0 .. N : i \in S
  <1> SUFFICES ASSUME (0 .. N) \ S # {} PROVE FALSE
    OBVIOUS
  <1> DEFINE T == (0 .. N) \ S
  <1>0. T \in SUBSET Nat /\ T # {}
    OBVIOUS
  <1>1. PICK x \in T : \A y \in T : x <= y
    BY <1>0, Least
  <1>2. x # 0 /\ x - 1 \in 0 .. N - 1 /\ x - 1 \in 0 .. N /\ x - 1 + 1 = x
    BY <1>1
  <1>3. x - 1 \in S
    BY <1>1, <1>2
  <1> QED
    BY <1>1, <1>2, <1>3

(* A function of the numbers that starts at a and goes on by steps. *)
Steps(S) == [Nat -> [S -> S]]
Follows(f, S, a, step) ==
  f \in [Nat -> S] /\ f[0] = a /\ \A n \in Nat : f[n + 1] = step[n][f[n]]

(* Functions that are defined by recursion from 0 upwards exist: those up to n agree where they meet, and
   the function is put together from them. *)
LEMMA Recursion ==
  ASSUME NEW S, NEW a \in S, NEW step \in Steps(S)
  PROVE  \E f : Follows(f, S, a, step)
  <1> USE DEF Steps
  <1> DEFINE Good(n, g) == /\ g \in [0 .. n -> S] /\ g[0] = a
                           /\ \A i \in 0 .. n - 1 : g[i + 1] = step[i][g[i]]
             f == [n \in Nat |-> (CHOOSE g : Good(n, g))[n]]
  <1>1. \A n \in Nat : \E g : Good(n, g)
    <2> DEFINE T == {n \in Nat : \E g : Good(n, g)}
    <2>1. 0 \in T
      <3>1. Good(0, [i \in 0 .. 0 |-> a])
        OBVIOUS
      <3> QED
        BY <3>1
    <2>2. ASSUME NEW n \in Nat, n \in T PROVE n + 1 \in T
      <3>1. PICK g : Good(n, g)
        BY <2>2
      <3> DEFINE h == [i \in 0 .. n + 1 |-> IF i = n + 1 THEN step[n][g[n]] ELSE g[i]]
      <3>2. step[n][g[n]] \in S
        BY <3>1
      <3>3. h \in [0 .. n + 1 -> S]
        BY <3>1, <3>2
      <3>4. h[0] = a /\ h[n + 1] = step[n][g[n]] /\ \A i \in 0 .. n : h[i] = g[i]
        BY <3>1
      <3> HIDE DEF h
      <3>5. ASSUME NEW i \in 0 .. n + 1 - 1 PROVE h[i + 1] = step[i][h[i]]
        <4>1. CASE i = n
          BY <3>4, <4>1
        <4>2. CASE i # n
          <5>1. i \in 0 .. n - 1 /\ i \in 0 .. n /\ i + 1 \in 0 .. n
            BY <4>2
          <5> QED
            BY <3>1, <3>4, <5>1
        <4> QED
          BY <4>1, <4>2
      <3>6. Good(n + 1, h)
        BY <3>3, <3>4, <3>5
      <3> QED
        BY <3>6
    <2> HIDE DEF T
    <2>3. \A n \in Nat : n \in T
      BY <2>1, <2>2, Induct
    <2> QED
      BY <2>3 DEF T
  <1>2. ASSUME NEW m \in Nat, NEW n \in Nat, NEW g, NEW h, Good(m, g), Good(n, h), m <= n
        PROVE  g[m] = h[m]
    <2> DEFINE T == {i \in 0 .. m : g[i] = h[i]}
    <2>1. 0 \in T
      BY <1>2
    <2>2. ASSUME NEW i \in 0 .. m - 1, i \in T PROVE i + 1 \in T
      <3>1. g[i + 1] = step[i][g[i]] /\ h[i + 1] = step[i][h[i]] /\ g[i] = h[i]
        BY <1>2, <2>2
      <3> QED
        BY <3>1
    <2> HIDE DEF T
    <2>3. \A i \in 0 .. m : i \in T
      BY <2>1, <2>2, InductTo
    <2>4. m \in T
      BY <2>3
    <2> QED
      BY <2>4 DEF T
  <1>3. \A n \in Nat : f[n] = (CHOOSE g : Good(n, g))[n] /\ Good(n, CHOOSE g : Good(n, g))
    BY <1>1
  <1>4. f \in [Nat -> S]
    <2>1. ASSUME NEW n \in Nat PROVE (CHOOSE g : Good(n, g))[n] \in S
      <3>1. \A g : Good(n, g) => g[n] \in S
        OBVIOUS
      <3> HIDE DEF Good
      <3> QED
        BY <1>3, <3>1
    <2> QED
      BY <2>1
  <1>5. f[0] = a
    BY <1>3
  <1>6. ASSUME NEW n \in Nat PROVE f[n + 1] = step[n][f[n]]
    <2>1. PICK g : g = CHOOSE k : Good(n, k)
      OBVIOUS
    <2>2. PICK h : h = CHOOSE k : Good(n + 1, k)
      OBVIOUS
    <2>3. Good(n, g) /\ Good(n + 1, h) /\ f[n] = g[n] /\ f[n + 1] = h[n + 1]
      <3> HIDE DEF Good, f
      <3> QED
        BY <1>3, <2>1, <2>2
    <2>4. g[n] = h[n]
      <3> HIDE DEF Good
      <3> QED
        BY <1>2, <2>3
    <2>5. h[n + 1] = step[n][h[n]]
      BY <2>3
    <2> QED
      BY <2>3, <2>4, <2>5
  <1> HIDE DEF f
  <1> QED
    BY <1>4, <1>5, <1>6 DEF Follows

(* The same up to a bound. *)
FollowsTo(f, N, S, a, step) ==
  f \in [0 .. N -> S] /\ f[0] = a /\ \A n \in 0 .. N - 1 : f[n + 1] = step[n][f[n]]

LEMMA RecursionTo ==
  ASSUME NEW N \in Nat, NEW S, NEW a \in S, NEW step \in Steps(S)
  PROVE  \E f : FollowsTo(f, N, S, a, step)
  <1>0. PICK g : Follows(g, S, a, step)
    BY Recursion
  <1>1. g \in [Nat -> S] /\ g[0] = a /\ \A n \in Nat : g[n + 1] = step[n][g[n]]
    BY <1>0 DEF Follows
  <1> DEFINE f == [n \in 0 .. N |-> g[n]]
  <1>2. f \in [0 .. N -> S] /\ f[0] = a /\ \A n \in 0 .. N : f[n] = g[n]
    BY <1>1
  <1>3. \A n \in 0 .. N - 1 : n \in Nat /\ n \in 0 .. N /\ n + 1 \in 0 .. N
    OBVIOUS
  <1> HIDE DEF f
  <1>4. ASSUME NEW n \in 0 .. N - 1 PROVE f[n + 1] = step[n][f[n]]
    <2>1. f[n + 1] = g[n + 1] /\ f[n] = g[n] /\ n \in Nat
      BY <1>2, <1>3
    <2> QED
      BY <1>1, <2>1
  <1> QED
    BY <1>2, <1>4 DEF FollowsTo
=============================================================================
