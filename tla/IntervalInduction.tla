------------------------- MODULE IntervalInduction --------------------------
(***************************************************************************)
(* Induction along an interval of numbers, for the proofs about the loops  *)
(* of the kernel and of the prover.  It is stated with sets and functions: *)
(* the library's own induction theorems take an operator, these rest on    *)
(* its theorem that the order of the naturals is well founded.             *)
(***************************************************************************)
EXTENDS Integers, TLAPS, WellFoundedInduction

\* A set of numbers that has a member has a least one.
LEMMA LeastOf ==
  ASSUME NEW S, S \subseteq Nat, S # {}
  PROVE  \E x \in S : \A y \in S : x <= y
<1> DEFINE R == OpToRel(<, Nat)
<1>1. IsWellFoundedOn(R, Nat)
  BY NatLessThanWellFounded
<1>2. \A x, y \in Nat : <<y, x>> \in R <=> y < x
  BY DEF OpToRel
<1> HIDE DEF R
<1>3. PICK x \in S : \A y \in S : ~(<<y, x>> \in R)
  BY <1>1, WFMin
<1>4. \A y \in S : ~(y < x)
  BY <1>2, <1>3
<1>5. \A y \in S : x <= y
  BY <1>4
<1> QED BY <1>5

\* A set with 0 and with every successor of its members is all of them.
LEMMA SetInduction ==
  ASSUME NEW S, 0 \in S, \A n \in Nat : n \in S => n + 1 \in S
  PROVE  Nat \subseteq S
<1> SUFFICES ASSUME Nat \ S # {} PROVE FALSE
  OBVIOUS
<1>1. PICK x \in Nat \ S : \A y \in Nat \ S : x <= y
  BY LeastOf
<1>2. x # 0 /\ x - 1 \in Nat /\ x - 1 \in S
  BY <1>1
<1> QED BY <1>1, <1>2

\* Two functions that begin alike and go on alike are alike.
LEMMA Agreeing ==
  ASSUME NEW f, NEW h, NEW N \in Nat, f[0] = h[0],
         \A n \in Nat : n + 1 <= N /\ f[n] = h[n] => f[n + 1] = h[n + 1]
  PROVE  \A k \in 0 .. N : f[k] = h[k]
<1> DEFINE S == {n \in Nat : n <= N => f[n] = h[n]}
<1>1. 0 \in S
  OBVIOUS
<1>2. \A n \in Nat : n \in S => n + 1 \in S
  OBVIOUS
<1>3. Nat \subseteq S
  <2> HIDE DEF S
  <2> QED BY <1>1, <1>2, SetInduction
<1> QED BY <1>3

\* A recursive function over an interval exists, and obeys its equation.
Recurs(f, c, g, N) == f = [k \in 0 .. N |-> IF k = 0 THEN c ELSE g[k][f[k - 1]]]

LEMMA Recursion ==
  ASSUME NEW T, NEW c \in T, NEW g, NEW N \in Nat,
         \A k \in 1 .. N : \A x \in T : g[k][x] \in T
  PROVE  \E f \in [0 .. N -> T] : Recurs(f, c, g, N)
<1> DEFINE S == {n \in Nat : n <= N => \E f \in [0 .. n -> T] : Recurs(f, c, g, n)}
<1>1. 0 \in S
  <2> DEFINE f == [k \in 0 .. 0 |-> c]
  <2>1. f \in [0 .. 0 -> T] /\ Recurs(f, c, g, 0)
    BY DEF Recurs
  <2> HIDE DEF f
  <2> QED BY <2>1
<1>2. \A n \in Nat : n \in S => n + 1 \in S
  <2> SUFFICES ASSUME NEW n \in Nat, n \in S, n + 1 <= N
               PROVE  \E h \in [0 .. n + 1 -> T] : Recurs(h, c, g, n + 1)
    OBVIOUS
  <2>1. PICK f \in [0 .. n -> T] : Recurs(f, c, g, n)
    OBVIOUS
  <2> DEFINE h == [k \in 0 .. n + 1 |-> IF k = n + 1 THEN g[n + 1][f[n]] ELSE f[k]]
  <2>2. h \in [0 .. n + 1 -> T]
    OBVIOUS
  <2>3. \A k \in 0 .. n + 1 : h[k] = IF k = 0 THEN c ELSE g[k][h[k - 1]]
    <3> SUFFICES ASSUME NEW k \in 0 .. n + 1
                 PROVE  h[k] = IF k = 0 THEN c ELSE g[k][h[k - 1]]
      OBVIOUS
    <3>1. CASE k = n + 1
      BY <3>1
    <3>2. CASE k # n + 1
      <4>1. k \in 0 .. n /\ h[k] = f[k] /\ (k # 0 => h[k - 1] = f[k - 1])
        BY <3>2
      <4> QED BY <4>1, <2>1 DEF Recurs
    <3> QED BY <3>1, <3>2
  <2>4. Recurs(h, c, g, n + 1)
    BY <2>3 DEF Recurs
  <2> HIDE DEF h
  <2> QED BY <2>2, <2>4
<1>3. N \in S
  <2> HIDE DEF S
  <2> QED BY <1>1, <1>2, SetInduction
<1> QED BY <1>3

\* Two functions with the same equation agree as far as both go.
LEMMA SameRecursion ==
  ASSUME NEW c, NEW g, NEW M \in Nat, NEW N \in Nat, M <= N,
         NEW f, Recurs(f, c, g, M), NEW h, Recurs(h, c, g, N)
  PROVE  \A k \in 0 .. M : f[k] = h[k]
<1>1. f[0] = h[0]
  BY DEF Recurs
<1>2. ASSUME NEW n \in Nat, n + 1 <= M, f[n] = h[n] PROVE f[n + 1] = h[n + 1]
  <2>1. n + 1 \in 0 .. M /\ n + 1 \in 0 .. N /\ n + 1 # 0 /\ (n + 1) - 1 = n
    BY <1>2
  <2>2. f[n + 1] = g[n + 1][f[n]] /\ h[n + 1] = g[n + 1][h[n]]
    BY <2>1 DEF Recurs
  <2> QED BY <1>2, <2>2
<1> QED BY <1>1, <1>2, Agreeing

\* What does not change at a place where it is as it was in the beginning never changes.
LEMMA Stays ==
  ASSUME NEW f, NEW a \in Nat, NEW b \in Nat, a <= b,
         \A n \in a .. b - 1 : f[n] = f[a] => f[n + 1] = f[n]
  PROVE  \A k \in a .. b : f[k] = f[a]
<1> DEFINE S == {n \in Nat : a + n <= b => f[a + n] = f[a]}
<1>1. 0 \in S
  OBVIOUS
<1>2. \A n \in Nat : n \in S => n + 1 \in S
  OBVIOUS
<1>3. Nat \subseteq S
  <2> HIDE DEF S
  <2> QED BY <1>1, <1>2, SetInduction
<1> SUFFICES ASSUME NEW k \in a .. b PROVE f[k] = f[a]
  OBVIOUS
<1>4. k - a \in S
  <2> HIDE DEF S
  <2> QED BY <1>3
<1> QED BY <1>4
=============================================================================
