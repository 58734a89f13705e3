----------------------------- MODULE Recursions -----------------------------
(***************************************************************************)
(* What the proofs of several components need of numbers and of functions  *)
(* that are defined by recursion on a number.                              *)
(***************************************************************************)
EXTENDS Integers, WellFoundedInduction, TLAPS

(* Numbers.                                                                *)

(* Some numbers have a least one.                                          *)
LEMMA LeastExists ==
    ASSUME NEW S, S \subseteq Nat, S # {}
    PROVE  \E q \in S : \A r \in S : q <= r
  <1> DEFINE R == OpToRel(<, Nat)
  <1>1. PICK x \in S : \A y \in S : ~ (<<y, x>> \in R)
    <2>1. IsWellFoundedOn(R, Nat)
      BY NatLessThanWellFounded
    <2> HIDE DEF R
    <2> QED BY <2>1, WFMin
  <1>2. \A y \in S : ~ (y < x)
    <2>1. \A m, n \in Nat : m < n => <<m, n>> \in R
      BY DEF OpToRel
    <2> QED BY <1>1, <2>1
  <1> HIDE DEF R
  <1> QED BY <1>2

(* Some numbers up to b have a last one.                                   *)
LEMMA LastExists ==
    ASSUME NEW b \in Int, NEW S, S \subseteq Int, \A q \in S : q <= b, S # {}
    PROVE  \E q \in S : \A r \in S : r <= q
  <1> DEFINE lack == {b - q : q \in S}
  <1>1. lack \subseteq Nat /\ lack # {}
    <2>1. \A q \in S : b - q \in Nat
      OBVIOUS
    <2>2. PICK q \in S : TRUE
      OBVIOUS
    <2>3. b - q \in lack
      BY <2>2
    <2> QED BY <2>1, <2>3
  <1>2. PICK x \in lack : \A y \in lack : x <= y
    <2> HIDE DEF lack
    <2> QED BY <1>1, LeastExists
  <1>3. PICK q \in S : x = b - q
    BY <1>2
  <1>4. \A r \in S : b - q <= b - r
    BY <1>2, <1>3
  <1> QED BY <1>3, <1>4

(* Induction up to n, over the numbers a set holds.                        *)
LEMMA UpTo ==
    ASSUME NEW n \in Nat, NEW T, 0 \in T,
           \A i \in 1..n : i - 1 \in T => i \in T
    PROVE  0..n \subseteq T
  <1> DEFINE missing == (0..n) \ T
  <1> SUFFICES ASSUME missing # {} PROVE FALSE
    OBVIOUS
  <1>1. missing \subseteq Nat
    OBVIOUS
  <1>2. PICK i \in missing : \A j \in missing : i <= j
    <2> HIDE DEF missing
    <2> QED BY <1>1, LeastExists
  <1>3. i \in 1..n /\ i - 1 \in 0..n /\ ~ (i <= i - 1)
    BY <1>2
  <1>4. i - 1 \in T
    BY <1>2, <1>3
  <1> QED BY <1>2, <1>3, <1>4

-----------------------------------------------------------------------------
(* Functions defined by recursion.                                         *)

(* f begins with s0 and goes on as next says.                              *)
Recursive(f, n, S, s0, next) ==
    f \in [0..n -> S] /\ f[0] = s0 /\ \A i \in 1..n : f[i] = next[i][f[i-1]]

StepFunctions(n, S) == [1..n -> [S -> S]]

LEMMA Recursion ==
    ASSUME NEW n \in Nat, NEW S, NEW s0 \in S, NEW next \in StepFunctions(n, S)
    PROVE  \E f : Recursive(f, n, S, s0, next)
  <1> DEFINE T == {m \in 0..n : \E f : Recursive(f, m, S, s0, next)}
  <1>1. 0 \in T
    <2> DEFINE f == [i \in 0..0 |-> s0]
    <2>1. Recursive(f, 0, S, s0, next)
      BY DEF Recursive
    <2> HIDE DEF f
    <2> QED BY <2>1
  <1>2. ASSUME NEW m \in 1..n, m - 1 \in T PROVE m \in T
    <2>1. PICK f : Recursive(f, m - 1, S, s0, next)
      BY <1>2
    <2> DEFINE g == [i \in 0..m |-> IF i = m THEN next[m][f[m-1]] ELSE f[i]]
    <2>2. f[m-1] \in S /\ next[m] \in [S -> S]
      BY <2>1 DEF Recursive, StepFunctions
    <2>3. next[m][f[m-1]] \in S
      BY <2>2
    <2>4. g \in [0..m -> S] /\ g[0] = s0
      BY <2>1, <2>3 DEF Recursive
    <2>5. ASSUME NEW i \in 1..m PROVE g[i] = next[i][g[i-1]]
      <3>1. g[i-1] = f[i-1] /\ i \in 0..m
        OBVIOUS
      <3>2. CASE i = m
        <4>1. g[i] = next[m][f[m-1]]
          BY <3>1, <3>2
        <4> HIDE DEF g
        <4> QED BY <3>1, <3>2, <4>1
      <3>3. CASE i # m
        <4>1. i \in 1..m-1 /\ g[i] = f[i]
          BY <3>3
        <4> QED BY <2>1, <3>1, <4>1 DEF Recursive
      <3> QED BY <3>2, <3>3
    <2> HIDE DEF g
    <2>6. Recursive(g, m, S, s0, next)
      BY <2>4, <2>5 DEF Recursive
    <2> QED BY <2>6
  <1>3. 0..n \subseteq T
    <2> HIDE DEF T
    <2> QED BY <1>1, <1>2, UpTo
  <1>4. n \in T
    BY <1>3
  <1> QED BY <1>4

(* Two functions that go on in the same way from the same value.           *)
GoTogether(n, f, g) ==
    f[0] = g[0] /\ \A i \in 1..n : f[i-1] = g[i-1] => f[i] = g[i]

LEMMA SameWay ==
    ASSUME NEW n \in Nat, NEW f, NEW g, GoTogether(n, f, g)
    PROVE  \A i \in 0..n : f[i] = g[i]
  <1> DEFINE T == {i \in 0..n : f[i] = g[i]}
  <1>1. 0 \in T
    BY DEF GoTogether
  <1>2. \A i \in 1..n : i - 1 \in T => i \in T
    BY DEF GoTogether
  <1>3. 0..n \subseteq T
    <2> HIDE DEF T
    <2> QED BY <1>1, <1>2, UpTo
  <1> QED BY <1>3
=============================================================================
