------------------------------ MODULE Recursion ------------------------------
(***************************************************************************)
(* Induction on natural numbers and the functions it defines, stated with  *)
(* a set and a function where the library has an operator as parameter.    *)
(***************************************************************************)
EXTENDS Integers, Sequences, WellFoundedInduction, TLAPS

\* A set that has 0 and the successor of each of its numbers has them all:
\* there is no least number outside it.
LEMMA NatSet ==
  ASSUME NEW T \in SUBSET Nat, 0 \in T, \A n \in T : n + 1 \in T
  PROVE  T = Nat
<1> DEFINE R == {ss \in Nat \X Nat : ss[1] < ss[2]}
           D == Nat \ T
<1>1. IsWellFoundedOn(R, Nat)
  BY NatLessThanWellFounded DEF OpToRel
<1> HIDE DEF D, R
<1>2. ASSUME D # {} PROVE FALSE
  <2>1. D \subseteq Nat
    BY DEF D
  <2>2. \E x \in D : \A y \in D : ~(<<y, x>> \in R)
    BY ONLY <1>1, <1>2, <2>1, WFMin, Zenon
  <2>3. PICK x \in D : \A y \in D : ~(<<y, x>> \in R)
    BY <2>2
  <2>4. x \in Nat /\ x # 0
    BY DEF D
  <2>5. x - 1 \in Nat /\ <<x - 1, x>> \in R
    BY <2>4 DEF R
  <2>6. x - 1 \in T
    BY <2>3, <2>5 DEF D
  <2> QED
    BY <2>4, <2>6 DEF D
<1> QED
  BY <1>2 DEF D

\* The same up to n.
LEMMA UptoSet ==
  ASSUME NEW n \in Nat, NEW T, 0 \in T,
         \A k \in 0 .. n - 1 : k \in T => k + 1 \in T
  PROVE  \A k \in 0 .. n : k \in T
<1> DEFINE U == {k \in Nat : k <= n => k \in T}
<1>1. 0 \in U
  OBVIOUS
<1>2. \A k \in U : k + 1 \in U
  OBVIOUS
<1>3. U = Nat
  <2> HIDE DEF U
  <2>1. U \in SUBSET Nat
    BY DEF U
  <2> QED
    BY <1>1, <1>2, <2>1, NatSet, Zenon
<1> QED
  BY <1>3

\* f starts with c and goes on by g up to m.
Follows(m, c, g, f) ==
  f[0] = c /\ \A k \in 1 .. m : f[k] = g[<<k, f[k - 1]>>]

\* A value and a step from each value to the next define a function.
LEMMA Recursive ==
  ASSUME NEW n \in Nat, NEW S, NEW c \in S, NEW g \in [(1 .. n) \X S -> S]
  PROVE  \E f \in [0 .. n -> S] : Follows(n, c, g, f)
<1> USE DEF Follows
<1> DEFINE T == {m \in 0 .. n : \E f \in [0 .. m -> S] : Follows(m, c, g, f)}
<1>1. 0 \in T
  <2>1. [k \in 0 .. 0 |-> c] \in [0 .. 0 -> S] /\ Follows(0, c, g, [k \in 0 .. 0 |-> c])
    OBVIOUS
  <2>2. 0 \in 0 .. n
    OBVIOUS
  <2> QED
    BY <2>1, <2>2, Zenon
<1>2. ASSUME NEW m \in 0 .. n - 1, m \in T PROVE m + 1 \in T
  <2>1. PICK f \in [0 .. m -> S] : Follows(m, c, g, f)
    BY <1>2
  <2> DEFINE h == [k \in 0 .. m + 1 |-> IF k = m + 1 THEN g[<<m + 1, f[m]>>] ELSE f[k]]
  <2>2. g[<<m + 1, f[m]>>] \in S
    OBVIOUS
  <2>3. h \in [0 .. m + 1 -> S]
    BY <2>2
  <2>4. /\ h[0] = f[0] /\ h[m + 1] = g[<<m + 1, h[m]>>]
        /\ \A k \in 1 .. m : h[k] = f[k] /\ h[k - 1] = f[k - 1]
    <3>1. \A k \in 0 .. m : k # m + 1 /\ k \in 0 .. m + 1
      OBVIOUS
    <3>2. \A k \in 0 .. m : h[k] = f[k]
      BY <3>1, Zenon
    <3>3. 0 \in 0 .. m /\ m \in 0 .. m /\ m + 1 \in 0 .. m + 1
      OBVIOUS
    <3>4. h[m + 1] = g[<<m + 1, f[m]>>]
      BY <3>3
    <3>5. \A k \in 1 .. m : k \in 0 .. m /\ k - 1 \in 0 .. m
      OBVIOUS
    <3> HIDE DEF h
    <3> QED
      BY <3>2, <3>3, <3>4, <3>5
  <2>5. Follows(m + 1, c, g, h)
    <3> HIDE DEF h
    <3>1. ASSUME NEW k \in 1 .. m + 1 PROVE h[k] = g[<<k, h[k - 1]>>]
      <4>1. CASE k = m + 1
        BY <2>4, <4>1
      <4>2. CASE k \in 1 .. m
        BY <2>1, <2>4, <4>2
      <4> QED
        BY <4>1, <4>2
    <3> QED
      BY <2>1, <2>4, <3>1
  <2>6. m + 1 \in 0 .. n
    OBVIOUS
  <2> QED
    BY <2>3, <2>5, <2>6, Zenon
<1>3. n \in T
  <2> HIDE DEF T
  <2>1. \A k \in 0 .. n : k \in T
    BY <1>1, <1>2, UptoSet, Zenon
  <2> QED
    BY <2>1
<1> QED
  BY <1>3

\* There is one such function.
Obeys(n, S, c, g, h) ==
  h[0] = c /\ \A k \in 1 .. n : h[k - 1] \in S => h[k] = g[<<k, h[k - 1]>>]

Agree(n, h, f) == \A k \in 0 .. n : h[k] = f[k]

LEMMA OneFollows ==
  ASSUME NEW n \in Nat, NEW S, NEW c, NEW g, NEW h, NEW f \in [0 .. n -> S],
         Follows(n, c, g, f), Obeys(n, S, c, g, h)
  PROVE  Agree(n, h, f)
<1> DEFINE T == {k \in 0 .. n : h[k] = f[k]}
<1>1. 0 \in T
  BY DEF Follows, Obeys
<1>2. ASSUME NEW k \in 0 .. n - 1, k \in T PROVE k + 1 \in T
  <2>1. k + 1 \in 1 .. n /\ k + 1 \in 0 .. n /\ k \in 0 .. n /\ (k + 1) - 1 = k
    OBVIOUS
  <2>2. h[k] = f[k] /\ f[k] \in S
    BY <1>2, <2>1
  <2>3. h[k + 1] = g[<<k + 1, h[k]>>] /\ f[k + 1] = g[<<k + 1, f[k]>>]
    BY <2>1, <2>2, Zenon DEF Follows, Obeys
  <2> QED
    BY <2>1, <2>2, <2>3
<1>3. \A k \in 0 .. n : k \in T
  <2> HIDE DEF T
  <2> QED
    BY <1>1, <1>2, UptoSet, Zenon
<1> QED
  BY <1>3 DEF Agree
=============================================================================
