------------------------- MODULE RecursionTheorems --------------------------
(***************************************************************************)
(* Induction and recursion over the natural numbers without an operator as *)
(* a parameter: the least element of a set of numbers, and the function    *)
(* that a first value and a step determine.  The loops of the code that    *)
(* the modules write as recursive functions are reasoned about with these. *)
(***************************************************************************)
EXTENDS Naturals, NaturalsInduction, WellFoundedInduction, TLAPS

\* A set of natural numbers that has an element has a least one.
LEMMA LeastNat ==
  ASSUME NEW T, T \subseteq Nat, T # {}
  PROVE  \E x \in T : \A y \in T : x <= y
  <1> DEFINE R == OpToRel(<, Nat)
  <1>1. IsWellFoundedOn(R, Nat)
    BY NatLessThanWellFounded
  <1> HIDE DEF R
  <1>2. PICK x \in T : \A y \in T : ~(<<y, x>> \in R)
    BY <1>1, WFMin
  <1>3. \A y \in T : ~(y < x)
    BY <1>2 DEF R, OpToRel
  <1> QED
    BY <1>3

\* Induction up to n: a set of numbers that has 0, and m when it has m - 1,
\* has all of them.
LEMMA InductionUpTo ==
  ASSUME NEW n \in Nat, NEW G,
         0 \in G, \A m \in 1 .. n : m - 1 \in G => m \in G
  PROVE  \A m \in 0 .. n : m \in G
  <1> DEFINE Bad == {m \in 0 .. n : m \notin G}
  <1> SUFFICES ASSUME Bad # {} PROVE FALSE
    OBVIOUS
  <1>1. Bad \subseteq Nat
    OBVIOUS
  <1>2. PICK x \in Bad : \A y \in Bad : x <= y
    <2> HIDE DEF Bad
    <2> QED
      BY <1>1, LeastNat
  <1>3. x \in 1 .. n
    OBVIOUS
  <1>4. x - 1 \in 0 .. n /\ ~(x <= x - 1)
    BY <1>3
  <1>5. x - 1 \in G
    BY <1>2, <1>4
  <1> QED
    BY <1>3, <1>5

\* The first m values that b and step determine exist, for every m up to n.
LEMMA Recursion ==
  ASSUME NEW R, NEW b \in R, NEW n \in Nat, NEW step \in [1 .. n -> [R -> R]]
  PROVE  \E f \in [0 .. n -> R] :
           f[0] = b /\ \A k \in 1 .. n : f[k] = step[k][f[k - 1]]
  <1> DEFINE Upto(m, f) == f[0] = b /\ \A k \in 1 .. m : f[k] = step[k][f[k - 1]]
             G == {m \in 0 .. n : \E f \in [0 .. m -> R] : Upto(m, f)}
  <1>1. 0 \in G
    <2> DEFINE f == [k \in 0 .. 0 |-> b]
    <2>1. f \in [0 .. 0 -> R] /\ f[0] = b
      OBVIOUS
    <2>2. \A k \in 1 .. 0 : FALSE
      OBVIOUS
    <2> HIDE DEF f
    <2> QED
      BY <2>1, <2>2
  <1>2. ASSUME NEW m \in 1 .. n, m - 1 \in G
        PROVE  m \in G
    <2>1. PICK f \in [0 .. m - 1 -> R] : Upto(m - 1, f)
      BY <1>2
    <2>2. m - 1 \in 0 .. m - 1 /\ m \in 0 .. n
      OBVIOUS
    <2>3. PICK r \in R : r = step[m][f[m - 1]]
      BY <2>2
    <2> DEFINE g == [k \in 0 .. m |-> IF k = m THEN r ELSE f[k]]
    <2>4. g \in [0 .. m -> R]
      OBVIOUS
    <2>5. g[0] = b
      BY <2>1
    <2>6. ASSUME NEW k \in 1 .. m PROVE g[k] = step[k][g[k - 1]]
      <3>1. k - 1 \in 0 .. m /\ k - 1 # m /\ g[k - 1] = f[k - 1]
        OBVIOUS
      <3>2. CASE k = m
        BY <2>3, <3>1, <3>2
      <3>3. CASE k # m
        <4>1. k \in 1 .. m - 1 /\ g[k] = f[k]
          BY <3>3
        <4> QED
          BY <2>1, <3>1, <4>1
      <3> QED
        BY <3>2, <3>3
    <2> QED
      BY <2>2, <2>4, <2>5, <2>6
  <1>3. n \in G
    <2> HIDE DEF G
    <2>1. \A m \in 0 .. n : m \in G
      BY <1>1, <1>2, InductionUpTo
    <2> QED
      BY <2>1
  <1> QED
    BY <1>3
=============================================================================
