---------------------------- MODULE NumberInduction ----------------------------
(***************************************************************************)
(* Induction over the numbers and definition by recursion, stated for sets *)
(* and functions instead of predicates and operators: the lemmas that the  *)
(* proofs about loops over sequences and trees share.                      *)
(***************************************************************************)
EXTENDS Integers, WellFoundedInduction, TLAPS

\* A set of numbers that is not empty has a least one.
LEMMA Least ==
    ASSUME NEW T \in SUBSET Nat, T # {}
    PROVE  \E n \in T : \A m \in T : n <= m
  <1> DEFINE R == OpToRel(<, Nat)
  <1>1. R = {p \in Nat \X Nat : p[1] < p[2]}
    BY DEF OpToRel
  <1>2. PICK n \in T : \A m \in T : <<m, n>> \notin R
    <2>1. IsWellFoundedOn(R, Nat)
      BY NatLessThanWellFounded
    <2> HIDE DEF R
    <2> QED
      BY <2>1, WFMin
  <1> HIDE DEF R
  <1>3. \A m \in T : ~(m < n)
    BY <1>1, <1>2
  <1> QED
    BY <1>3

\* Induction, for a set instead of a predicate.
LEMMA Induction ==
    ASSUME NEW T, 0 \in T, \A n \in Nat : n \in T => n + 1 \in T
    PROVE  Nat \subseteq T
  <1> SUFFICES ASSUME Nat \ T # {} PROVE FALSE
    OBVIOUS
  <1>1. PICK n \in Nat \ T : \A m \in Nat \ T : n <= m
    BY Least
  <1>2. n - 1 \in T
    BY <1>1
  <1> QED
    BY <1>1, <1>2

\* The functions that start with s0 and take step n from n - 1 to n.
Runs(S, N, s0, step) ==
    {f \in [0..N -> S] : f[0] = s0 /\ \A n \in 1..N : f[n] = step[n][f[n - 1]]}

\* There is one: a function that is defined by recursion exists.
LEMMA Recursion ==
    ASSUME NEW S, NEW N \in Nat, NEW s0 \in S, NEW step \in [1..N -> [S -> S]]
    PROVE  Runs(S, N, s0, step) # {}
  <1> DEFINE Upto(n) == Runs(S, n, s0, step)
             T == {n \in Nat : n <= N => Upto(n) # {}}
  <1>1. 0 \in T
    <2>1. [i \in 0..0 |-> s0] \in Upto(0)
      BY DEF Runs
    <2> QED
      BY <2>1
  <1>2. ASSUME NEW n \in Nat, n \in T
        PROVE  n + 1 \in T
    <2> SUFFICES ASSUME n + 1 <= N PROVE Upto(n + 1) # {}
      OBVIOUS
    <2>1. PICK f : f \in Upto(n)
      BY <1>2
    <2>2. step[n + 1] \in [S -> S] /\ f[n] \in S
      BY <2>1 DEF Runs
    <2> DEFINE x == step[n + 1][f[n]]
    <2>3. x \in S
      BY <2>2
    <2> HIDE DEF x
    <2> DEFINE g == [i \in 0..(n + 1) |-> IF i = n + 1 THEN x ELSE f[i]]
    <2>4. g \in [0..(n + 1) -> S] /\ g[0] = s0 /\ g[n + 1] = x /\ \A i \in 0..n : g[i] = f[i]
      BY <2>1, <2>3 DEF Runs
    <2> HIDE DEF g
    <2>5. ASSUME NEW i \in 1..(n + 1)
          PROVE  g[i] = step[i][g[i - 1]]
      <3>1. CASE i = n + 1
        <4>1. i - 1 = n /\ g[n] = f[n]
          BY <2>4, <3>1
        <4> QED
          BY <2>4, <3>1, <4>1 DEF x
      <3>2. CASE i # n + 1
        <4>1. i \in 1..n /\ i \in 0..n /\ i - 1 \in 0..n
          BY <3>2
        <4> QED
          BY <2>1, <2>4, <4>1 DEF Runs
      <3> QED
        BY <3>1, <3>2
    <2>6. g \in Upto(n + 1)
      BY <2>4, <2>5 DEF Runs
    <2> QED
      BY <2>6
  <1>3. Nat \subseteq T
    <2> HIDE DEF T
    <2> QED
      BY <1>1, <1>2, Induction
  <1> QED
    BY <1>3
===============================================================================
