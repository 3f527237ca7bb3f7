----------------------------- MODULE NumberLemmas -----------------------------
(***************************************************************************)
(* Induction over the natural numbers, stated for sets (a set of numbers   *)
(* that holds 0 and every successor holds all), from the well-foundedness  *)
(* of their order.                                                         *)
(***************************************************************************)
EXTENDS Integers, WellFoundedInduction, TLAPS

\* A set of natural numbers that is not empty has a least member.
LEMMA LeastNumber ==
    ASSUME NEW S, S \subseteq Nat, S # {}
    PROVE  \E n \in S : \A m \in S : n <= m
<1> DEFINE R == OpToRel(<, Nat)
<1>1. \A x, y \in Nat : <<y, x>> \in R <=> y < x
  BY DEF OpToRel
<1>2. IsWellFoundedOn(R, Nat)
  BY NatLessThanWellFounded
<1> HIDE DEF R
<1>3. PICK n \in S : \A m \in S : ~(<<m, n>> \in R)
  BY <1>2, WFMin
<1>4. n \in Nat /\ \A m \in S : m \in Nat
  OBVIOUS
<1>5. \A m \in S : ~(m < n)
  BY <1>1, <1>3, <1>4
<1> QED  BY <1>4, <1>5

\* Induction: a set that holds 0 and with n also n + 1 holds every number.
LEMMA Induct ==
    ASSUME NEW S, 0 \in S, \A n \in Nat : n \in S => n + 1 \in S
    PROVE  \A n \in Nat : n \in S
<1> SUFFICES ASSUME NEW k \in Nat, k \notin S PROVE FALSE  OBVIOUS
<1>1. PICK n \in Nat \ S : \A m \in Nat \ S : n <= m
  <2>1. Nat \ S \subseteq Nat /\ Nat \ S # {}  OBVIOUS
  <2> QED  BY <2>1, LeastNumber
<1>2. n # 0 /\ n - 1 \in Nat /\ n - 1 \in S
  BY <1>1
<1>3. n = (n - 1) + 1  OBVIOUS
<1> QED  BY <1>1, <1>2, <1>3

\* The same up to a bound.
LEMMA InductUpTo ==
    ASSUME NEW k \in Nat, NEW S, 0 \in S,
           \A n \in Nat : n < k /\ n \in S => n + 1 \in S
    PROVE  \A n \in 0 .. k : n \in S
<1> DEFINE T == {n \in Nat : n <= k => n \in S}
<1>1. 0 \in T  OBVIOUS
<1>2. \A n \in Nat : n \in T => n + 1 \in T  OBVIOUS
<1> HIDE DEF T
<1>3. \A n \in Nat : n \in T
  BY <1>1, <1>2, Induct
<1> QED  BY <1>3 DEF T

\* f is the function on 0 .. k that starts with base and makes these steps.
Iterates(f, k, base, step) ==
    /\ f[0] = base
    /\ \A i \in 1 .. k : f[i] = step[<<f[i - 1], i>>]

\* A recursive definition over 0 .. k has a solution.
LEMMA Iteration ==
    ASSUME NEW k \in Nat, NEW X, NEW base \in X,
           NEW step \in [X \X (1 .. k) -> X]
    PROVE  \E f \in [0 .. k -> X] : Iterates(f, k, base, step)
<1> DEFINE Solves(f, n) ==
              /\ f[0] = base
              /\ \A i \in 1 .. n : f[i] = step[<<f[i - 1], i>>]
           S == {n \in Nat : \E f \in [0 .. n -> X] : Solves(f, n)}
<1>1. 0 \in S
  <2>1. [i \in 0 .. 0 |-> base] \in [0 .. 0 -> X]  OBVIOUS
  <2>2. Solves([i \in 0 .. 0 |-> base], 0)  OBVIOUS
  <2> QED  BY <2>1, <2>2
<1>2. ASSUME NEW n \in Nat, n < k, n \in S PROVE n + 1 \in S
  <2>1. PICK f \in [0 .. n -> X] : Solves(f, n)
    BY <1>2
  <2> DEFINE new == step[<<f[n], n + 1>>]
             g == [i \in 0 .. n + 1 |-> IF i = n + 1 THEN new ELSE f[i]]
  <2>2. new \in X
    BY <1>2
  <2>3. g \in [0 .. n + 1 -> X]
    BY <2>2
  <2>4. Solves(g, n + 1)
    <3>1. g[0] = base
      BY <2>1
    <3>2. ASSUME NEW i \in 1 .. n + 1 PROVE g[i] = step[<<g[i - 1], i>>]
      <4>1. CASE i = n + 1
        <5>1. i - 1 = n /\ n \in 0 .. n + 1 /\ n # n + 1
          BY <4>1
        <5>2. g[i] = new /\ g[i - 1] = f[n]
          BY <4>1, <5>1
        <5> QED  BY <4>1, <5>1, <5>2
      <4>2. CASE i # n + 1
        <5>1. i \in 1 .. n /\ i \in 0 .. n + 1 /\ i - 1 \in 0 .. n + 1
              /\ i - 1 # n + 1
          BY <4>2
        <5> QED  BY <2>1, <5>1, <4>2
      <4> QED  BY <4>1, <4>2
    <3> QED  BY <3>1, <3>2
  <2>5. \E h \in [0 .. n + 1 -> X] : Solves(h, n + 1)
    <3> HIDE DEF g, Solves
    <3> QED  BY <2>3, <2>4
  <2> QED  BY <2>5
<1> HIDE DEF S
<1>3. k \in S
  BY <1>1, <1>2, InductUpTo
<1> QED  BY <1>3 DEF S, Iterates
===============================================================================
