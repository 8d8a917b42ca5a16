---------------------------- MODULE IrsInduction ----------------------------
(***************************************************************************)
(* Induction over numbers, for what the models define by recursion: the    *)
(* code's loops over words, scores, letters and nodes.  A property of      *)
(* numbers is a set of numbers here, so that no theorem takes an operator  *)
(* for a parameter.                                                        *)
(***************************************************************************)
EXTENDS Integers, Sequences, WellFoundedInduction, TLAPS

\* A set of natural numbers has a smallest one, if it has any.
LEMMA Least ==
    ASSUME NEW S \in SUBSET Nat, S # {}
    PROVE  \E m \in S : \A n \in S : m <= n
<1>1. PICK m \in S : \A n \in S : ~ <<n, m>> \in OpToRel(<, Nat)
  BY NatLessThanWellFounded, WFMin
<1>2. \A n \in S : ~ n < m
  BY <1>1 DEF OpToRel
<1>3. QED
  BY <1>2

\* What is true at first, and after each step at which it is true before, is true
\* all along.
LEMMA Induction ==
    ASSUME NEW N \in Nat, NEW S, 0 \in S,
           \A m \in 0 .. N - 1 : m \in S => m + 1 \in S
    PROVE  \A n \in 0 .. N : n \in S
<1> DEFINE T == (0 .. N) \ S
<1>1. CASE T = {}
  BY <1>1
<1>2. CASE T # {}
  <2>1. T \in SUBSET Nat
    OBVIOUS
  <2> HIDE DEF T
  <2>2. PICK m \in T : \A n \in T : m <= n
    BY <1>2, <2>1, Least
  <2> USE DEF T
  <2>3. m - 1 \in 0 .. N - 1 /\ m - 1 \notin T
    BY <2>2
  <2>4. QED
    BY <2>2, <2>3
<1>3. QED
  BY <1>1, <1>2

\* A loop of N rounds over values of S, and the function it defines: it starts with
\* a and goes from its value at n - 1 to that at n as step says.
IsLoop(N, S, a, step) ==
    /\ N \in Nat /\ a \in S
    /\ \A n \in 1 .. N, v \in S : step[<<n, v>>] \in S

IsRun(f, N, S, a, step) ==
    /\ f \in [0 .. N -> S]
    /\ f[0] = a
    /\ \A n \in 1 .. N : f[n] = step[<<n, f[n - 1]>>]

\* Such a function exists.
LEMMA RecursiveFunction ==
    ASSUME NEW N, NEW S, NEW a, NEW step, IsLoop(N, S, a, step)
    PROVE  \E f : IsRun(f, N, S, a, step)
<1> DEFINE Is(f, m) ==
              f[0] = a /\ \A n \in 1 .. m : f[n] = step[<<n, f[n - 1]>>]
           Good == {m \in 0 .. N : \E f \in [0 .. m -> S] : Is(f, m)}
<1> USE DEF IsLoop
<1>1. 0 \in Good
  <2> DEFINE f == [n \in 0 .. 0 |-> a]
  <2>1. f \in [0 .. 0 -> S] /\ Is(f, 0) /\ 0 \in 0 .. N
    OBVIOUS
  <2> HIDE DEF f, Is
  <2>2. QED
    BY <2>1
<1>2. ASSUME NEW m \in 0 .. N - 1, m \in Good
      PROVE  m + 1 \in Good
  <2>1. PICK f \in [0 .. m -> S] : Is(f, m)
    BY <1>2
  <2> DEFINE g == [n \in 0 .. m + 1 |->
                      IF n = m + 1 THEN step[<<m + 1, f[m]>>] ELSE f[n]]
  <2>2. f[m] \in S /\ m + 1 \in 1 .. N
    OBVIOUS
  <2>3. step[<<m + 1, f[m]>>] \in S
    BY <2>2
  <2>4. g \in [0 .. m + 1 -> S]
    BY <2>3
  <2>5. ASSUME NEW n \in 1 .. m + 1
        PROVE  g[n] = step[<<n, g[n - 1]>>]
    <3>1. CASE n = m + 1
      <4>1. g[n - 1] = f[m] /\ g[n] = step[<<m + 1, f[m]>>]
        BY <3>1
      <4> HIDE DEF g
      <4>2. QED
        BY <3>1, <4>1
    <3>2. CASE n # m + 1
      <4>1. n \in 1 .. m /\ g[n] = f[n] /\ g[n - 1] = f[n - 1]
         BY <3>2
      <4>2. f[n] = step[<<n, f[n - 1]>>]
         BY <2>1, <4>1
      <4> HIDE DEF g
      <4>3. QED
        BY <4>1, <4>2
    <3>3. QED
      BY <3>1, <3>2
  <2>6. g[0] = a
    BY <2>1
  <2>7. Is(g, m + 1) /\ m + 1 \in 0 .. N
    <3> HIDE DEF g
    <3>1. QED
      BY <2>5, <2>6
  <2> HIDE DEF g, Is
  <2>8. QED
    BY <2>4, <2>7
<1> HIDE DEF Good
<1>3. N \in Good
  BY <1>1, <1>2, Induction
<1>4. QED
  BY <1>3 DEF Good, IsRun
=============================================================================
