------------------------------- MODULE Recursion -------------------------------
(* Induction over the numbers, and the recursive functions on 0 .. N.            *)
(* The library states both of operators, which the provers cannot instantiate;   *)
(* here induction is stated of sets of numbers and follows from the least         *)
(* element, and a recursive function is one value after another of the constant   *)
(* Step, which an instance of this module replaces.  What a function depends on   *)
(* besides the number is in p.                                                    *)
EXTENDS Integers, WellFoundedInduction, TLAPS

CONSTANTS Base(_), Step(_, _, _)

Below == OpToRel(<, Nat)

\* Of two numbers the smaller is below the other.
LEMMA InBelow == ASSUME NEW x \in Nat, NEW y \in Nat, x < y PROVE <<x, y>> \in Below
BY DEF Below, OpToRel

\* A set of numbers that is not empty has a least element.
LEMMA LeastElement ==
    ASSUME NEW T \in SUBSET Nat, T # {}
    PROVE  \E n \in T : \A m \in T : n <= m
<1>1. IsWellFoundedOn(Below, Nat)
  BY NatLessThanWellFounded, Zenon DEF Below
<1>2. PICK n \in T : \A m \in T : ~(<<m, n>> \in Below)
  BY <1>1, WFMin
<1>3. n \in Nat /\ \A m \in T : m \in Nat
  OBVIOUS
<1>4. \A m \in T : ~(m < n)
  BY <1>2, <1>3, InBelow
<1>5. QED
  BY <1>3, <1>4

\* A set of numbers with 0 and with the next of each of its elements has them all.
LEMMA NatSet == ASSUME NEW T \in SUBSET Nat, 0 \in T, \A n \in T : n + 1 \in T PROVE T = Nat
<1>1. SUFFICES ASSUME T # Nat PROVE FALSE
  OBVIOUS
<1>2. PICK n \in Nat \ T : \A m \in Nat \ T : n <= m
  <2>1. Nat \ T \in SUBSET Nat /\ Nat \ T # {}
    BY <1>1
  <2>2. QED
    BY <2>1, LeastElement
<1>3. n # 0 /\ n - 1 \in Nat /\ n - 1 \in T
  BY <1>2
<1>4. QED
  BY <1>2, <1>3

\* The same up to a number.
LEMMA RangeSet ==
    ASSUME NEW N \in Nat, NEW T \in SUBSET (0 .. N), 0 \in T,
           \A n \in T : n < N => n + 1 \in T
    PROVE  T = 0 .. N
<1>1. PICK S : S = T \cup {n \in Nat : n > N}
  OBVIOUS
<1>2. S \in SUBSET Nat /\ 0 \in S
  <2>1. \A n \in T : n \in Nat
    OBVIOUS
  <2>2. \A n \in S : n \in Nat
    BY <1>1, <2>1
  <2>3. QED
    BY <1>1, <2>2
<1>3. ASSUME NEW n \in S PROVE n + 1 \in S
  <2>1. n \in Nat
    BY <1>2
  <2>2. CASE n \in T /\ n < N
    BY <1>1, <2>2
  <2>3. CASE n >= N
    <3>1. n + 1 \in Nat /\ n + 1 > N
      BY <2>1, <2>3
    <3>2. QED
      BY <1>1, <3>1
  <2>4. QED
    BY <1>1, <1>3, <2>1, <2>2, <2>3
<1>4. S = Nat
  BY <1>2, <1>3, NatSet
<1>5. \A n \in 0 .. N : n \in T
  <2>1. SUFFICES ASSUME NEW n \in 0 .. N PROVE n \in T
    OBVIOUS
  <2>2. n \in S /\ ~(n > N)
    BY <1>4
  <2>3. QED
    BY <1>1, <2>2
<1>6. QED
  BY <1>5

IsRecursion(f, p, N) == f = [k \in 0 .. N |-> IF k = 0 THEN Base(p) ELSE Step(p, k, f[k - 1])]

\* There is such a function.
THEOREM RecursionDefined == ASSUME NEW p, NEW N \in Nat PROVE \E f : IsRecursion(f, p, N)
<1> DEFINE Upto(n) == \E f : IsRecursion(f, p, n)
<1>1. Upto(0)
  <2>1. PICK f : f = [k \in 0 .. 0 |-> Base(p)]
    OBVIOUS
  <2>2. f = [k \in 0 .. 0 |-> IF k = 0 THEN Base(p) ELSE Step(p, k, f[k - 1])]
    BY <2>1
  <2>3. QED
    BY <2>2 DEF IsRecursion
<1>2. ASSUME NEW n \in 0 .. N, n < N, Upto(n) PROVE Upto(n + 1)
  <2>1. PICK f : f = [k \in 0 .. n |-> IF k = 0 THEN Base(p) ELSE Step(p, k, f[k - 1])]
    BY <1>2 DEF IsRecursion
  <2>2. PICK g : g = [k \in 0 .. n + 1 |-> IF k <= n THEN f[k] ELSE Step(p, n + 1, f[n])]
    OBVIOUS
  <2>3. \A k \in 0 .. n + 1 : g[k] = IF k = 0 THEN Base(p) ELSE Step(p, k, g[k - 1])
    <3>1. SUFFICES ASSUME NEW k \in 0 .. n + 1
                   PROVE  g[k] = IF k = 0 THEN Base(p) ELSE Step(p, k, g[k - 1])
      OBVIOUS
    <3>2. CASE k = n + 1
      <4>1. g[k] = Step(p, n + 1, f[n]) /\ g[k - 1] = f[n] /\ k # 0
        BY <2>2, <3>2
      <4>2. QED
        BY <3>2, <4>1
    <3>3. CASE k \in 0 .. n
      <4>1. g[k] = f[k] /\ (k # 0 => g[k - 1] = f[k - 1])
        BY <2>2, <3>3
      <4>2. QED
        BY <2>1, <3>3, <4>1
    <3>4. QED
      BY <3>2, <3>3
  <2>4. g = [k \in 0 .. n + 1 |-> IF k = 0 THEN Base(p) ELSE Step(p, k, g[k - 1])]
    BY <2>2, <2>3
  <2>5. QED
    BY <2>4 DEF IsRecursion
<1> HIDE DEF Upto
<1>3. PICK T : T = {n \in 0 .. N : Upto(n)}
  OBVIOUS
<1>4. T = 0 .. N
  <2>1. T \in SUBSET (0 .. N) /\ 0 \in T
    BY <1>1, <1>3
  <2>2. \A n \in T : n < N => n + 1 \in T
    BY <1>2, <1>3
  <2>3. QED
    BY <2>1, <2>2, RangeSet
<1>5. QED
  BY <1>3, <1>4 DEF Upto
================================================================================
