--------------------------- MODULE RecursiveFunctions --------------------------
(***************************************************************************)
(* What a function defined by recursion along 0 .. m is: that there is one *)
(* and that its values keep what its steps keep.  The library's induction  *)
(* theorems take an operator, which no installed prover can instantiate;   *)
(* these are about sets and functions instead.                             *)
(***************************************************************************)
EXTENDS Integers, FiniteSets, FiniteSetTheorems, TLAPS

\* Induction, for a set: below a number outside S, adding 1 would map the numbers
\* in S one to one to those but 0, which are fewer.
LEMMA SetInduction ==
    ASSUME NEW S, 0 \in S, \A n \in Nat : n \in S => n + 1 \in S
    PROVE  Nat \subseteq S
<1> SUFFICES ASSUME NEW n \in Nat, n \notin S PROVE FALSE
  OBVIOUS
<1> DEFINE A == {i \in 0 .. n : i \in S}
<1> DEFINE f == [i \in A |-> i + 1]
<1>1. IsFiniteSet(A)
  <2>1. IsFiniteSet(0 .. n)
    BY FS_Interval
  <2> QED
    BY <2>1, FS_Subset
<1>2. ASSUME NEW i \in A PROVE i + 1 \in A \ {0}
  <2>1. i \in Nat /\ i # n /\ i <= n /\ i + 1 \in S
    OBVIOUS
  <2> QED
    BY <2>1
<1>3. f \in Injection(A, A \ {0})
  <2>1. f \in [A -> A \ {0}]
    BY <1>2
  <2>2. \A i, j \in A : f[i] = f[j] => i = j
    OBVIOUS
  <2> HIDE DEF f, A
  <2> QED
    BY <2>1, <2>2 DEF Injection, IsInjective
<1>4. 0 \in A
  OBVIOUS
<1> HIDE DEF f, A
<1>5. IsFiniteSet(A \ {0}) /\ Cardinality(A \ {0}) = Cardinality(A) - 1
  BY <1>1, <1>4, FS_RemoveElement
<1>6. Cardinality(A) <= Cardinality(A \ {0})
  BY <1>3, <1>5, FS_Injection
<1>7. Cardinality(A) \in Nat
  BY <1>1, FS_CardinalityType
<1> QED
  BY <1>5, <1>6, <1>7

\* A function defined by recursion on how far it has come exists.
Recursive(m, v, S, G) ==
    \E f \in [0 .. m -> S] : f[0] = v /\ \A i \in 1 .. m : f[i] = G[i][f[i - 1]]

\* It exists, and its values are in S.
LEMMA Recursion ==
    ASSUME NEW m \in Nat, NEW v, NEW S, v \in S, NEW G \in [1 .. m -> [S -> S]]
    PROVE  Recursive(m, v, S, G)
<1> DEFINE Upto(n) == \E f \in [0 .. n -> S] :
                         f[0] = v /\ \A i \in 1 .. n : f[i] = G[i][f[i - 1]]
           T == {n \in Nat : n <= m => Upto(n)}
<1>1. 0 \in T
  <2>1. PICK f : f = [i \in 0 .. 0 |-> v]
    OBVIOUS
  <2>2. f \in [0 .. 0 -> S] /\ f[0] = v
    BY <2>1
  <2> QED
    BY <2>2
<1>2. ASSUME NEW n \in Nat, n \in T PROVE n + 1 \in T
  <2> SUFFICES ASSUME n + 1 <= m PROVE Upto(n + 1)
    OBVIOUS
  <2>1. PICK f \in [0 .. n -> S] : f[0] = v /\ \A i \in 1 .. n : f[i] = G[i][f[i - 1]]
    BY <1>2
  <2>2. PICK x : x = G[n + 1][f[n]]
    OBVIOUS
  <2>3. x \in S
    <3>1. n + 1 \in 1 .. m /\ f[n] \in S
      OBVIOUS
    <3>2. G[n + 1] \in [S -> S]
      BY <3>1
    <3> QED
      BY <2>2, <3>1, <3>2
  <2>4. PICK g : g = [i \in 0 .. n + 1 |-> IF i = n + 1 THEN x ELSE f[i]]
    OBVIOUS
  <2>5. \A i \in 0 .. n + 1 : i = n + 1 \/ i \in 0 .. n
    OBVIOUS
  <2>6. g \in [0 .. n + 1 -> S] /\ g[n + 1] = x /\ \A i \in 0 .. n : g[i] = f[i]
    BY <2>3, <2>4, <2>5
  <2>7. ASSUME NEW i \in 1 .. n + 1 PROVE g[i] = G[i][g[i - 1]]
    <3>1. CASE i = n + 1
      <4>1. i - 1 = n /\ n \in 0 .. n
        BY <3>1
      <4> QED
        BY <2>2, <2>6, <3>1, <4>1
    <3>2. CASE i \in 1 .. n
      <4>1. i \in 0 .. n /\ i - 1 \in 0 .. n
        BY <3>2
      <4> QED
        BY <2>1, <2>6, <3>2, <4>1
    <3> QED
      BY <3>1, <3>2
  <2>8. g[0] = v
    BY <2>1, <2>6
  <2> QED
    BY <2>6, <2>7, <2>8
<1> HIDE DEF T, Upto
<1>3. Nat \subseteq T
  BY <1>1, <1>2, SetInduction
<1> QED
  BY <1>3 DEF T, Upto, Recursive

\* What holds of the first value and is handed on holds of every value.
LEMMA HandedOn ==
    ASSUME NEW m \in Nat, NEW S, NEW f, f = [i \in 0 .. m |-> f[i]],
           f[0] \in S, \A i \in 1 .. m : f[i - 1] \in S => f[i] \in S
    PROVE  f \in [0 .. m -> S]
<1> DEFINE T == {n \in Nat : n <= m => f[n] \in S}
<1>1. 0 \in T
  OBVIOUS
<1>2. ASSUME NEW n \in Nat, n \in T PROVE n + 1 \in T
  <2> SUFFICES ASSUME n + 1 <= m PROVE f[n + 1] \in S
    OBVIOUS
  <2>1. f[n] \in S
    BY <1>2
  <2>2. n + 1 \in 1 .. m /\ (n + 1) - 1 = n
    OBVIOUS
  <2> QED
    BY <2>1, <2>2
<1> HIDE DEF T
<1>3. Nat \subseteq T
  BY <1>1, <1>2, SetInduction
<1>4. \A i \in 0 .. m : f[i] \in S
  BY <1>3 DEF T
<1> QED
  BY <1>4
=============================================================================
