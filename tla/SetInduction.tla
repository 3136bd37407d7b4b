---------------------------- MODULE SetInduction ----------------------------
(***************************************************************************)
(* Induction over the natural numbers, as a statement about sets.          *)
(***************************************************************************)
EXTENDS Integers, WellFoundedInduction, TLAPS

\* Every set of natural numbers that has a member has a least one.
LEMMA NatMin ==
    ASSUME NEW T, T \subseteq Nat, T # {}
    PROVE  \E x \in T : \A y \in T : x <= y
  <1>. DEFINE R == {ss \in Nat \X Nat : ss[1] < ss[2]}
  <1>1. IsWellFoundedOn(R, Nat)
    BY NatLessThanWellFounded DEF OpToRel
  <1>2. PICK x \in T : \A y \in T : ~(<<y, x>> \in R)
    BY <1>1, WFMin
  <1>3. \A y \in T : ~(y < x)
    BY <1>2
  <1>. QED
    BY <1>3

\* A set of natural numbers that has 0, and with each number the next one, has
\* them all.
LEMMA NatInductive ==
    ASSUME NEW S, 0 \in S, \A n \in Nat : n \in S => n + 1 \in S
    PROVE  Nat \subseteq S
  <1>. DEFINE T == Nat \ S
  <1>. SUFFICES ASSUME T # {} PROVE FALSE
    OBVIOUS
  <1>1. PICK x \in T : \A y \in T : x <= y
    BY NatMin
  <1>2. x # 0 /\ x - 1 \in Nat
    OBVIOUS
  <1>3. x - 1 \in S
    BY <1>1, <1>2
  <1>4. (x - 1) + 1 \in S
    BY <1>2, <1>3
  <1>. QED
    BY <1>4

\* Numbers that are bounded have a largest.
LEMMA NatMax ==
    ASSUME NEW T, T \subseteq Nat, T # {}, NEW b \in Nat, \A y \in T : y <= b
    PROVE  \E x \in T : \A y \in T : x >= y
  <1>. DEFINE U == {n \in Nat : \A y \in T : y <= n}
  <1>1. PICK u \in U : \A n \in U : u <= n
    BY NatMin
  <1>. SUFFICES ASSUME u \notin T PROVE FALSE
    BY <1>1
  <1>2. \A y \in T : y < u
    BY <1>1
  <1>3. u - 1 \in Nat
    <2>1. PICK y \in T : y < u
      BY <1>2
    <2>. QED
      BY <2>1
  <1>4. u - 1 \in U
    BY <1>2, <1>3
  <1>. QED
    BY <1>1, <1>4

Steps(step, S, n) == step \in [1..n -> [S -> S]]

\* f is computed from base in n steps.
Iteration(f, S, n, base, step) ==
    /\ f \in [0..n -> S] /\ f[0] = base
    /\ \A i \in 1..n : f[i] = step[i][f[i - 1]]

\* What is computed step by step exists.
LEMMA Iterates ==
    ASSUME NEW S, NEW n \in Nat, NEW base \in S, NEW step, Steps(step, S, n)
    PROVE  \E f : Iteration(f, S, n, base, step)
  <1>. DEFINE Solves(g, m) == /\ g \in [0..m -> S] /\ g[0] = base
                              /\ \A i \in 1..m : g[i] = step[i][g[i - 1]]
              M == {m \in Nat : m <= n => \E g : Solves(g, m)}
  <1>0. step \in [1..n -> [S -> S]]
    BY DEF Steps
  <1>1. 0 \in M
    <2>1. Solves([i \in 0..0 |-> base], 0)
      OBVIOUS
    <2>. QED
      BY <2>1
  <1>2. ASSUME NEW m \in Nat, m \in M PROVE m + 1 \in M
    <2>. SUFFICES ASSUME m + 1 <= n PROVE \E g : Solves(g, m + 1)
      <3>. HIDE DEF Solves
      <3>. QED
        OBVIOUS
    <2>1. PICK g : Solves(g, m)
      <3>. HIDE DEF Solves
      <3>. QED
        BY <1>2
    <2>. DEFINE new == step[m + 1][g[m]]
                h == [i \in 0..(m + 1) |-> IF i = m + 1 THEN new ELSE g[i]]
    <2>2. g[m] \in S /\ new \in S
      BY <1>0, <2>1
    <2>3. h \in [0..(m + 1) -> S]
      <3>. HIDE DEF new
      <3>. QED
        BY <2>1, <2>2
    <2>4. \A i \in 0..m : h[i] = g[i]
      OBVIOUS
    <2>5. h[m + 1] = step[m + 1][h[m]]
      BY <2>4
    <2>6. \A i \in 1..m : h[i] = step[i][h[i - 1]]
      <3>. HIDE DEF h
      <3>. QED
        BY <2>1, <2>4
    <2>7. \A i \in 1..(m + 1) : i \in 1..m \/ i = m + 1
      OBVIOUS
    <2>8. \A i \in 1..(m + 1) : h[i] = step[i][h[i - 1]]
      <3>. HIDE DEF h
      <3>. QED
        BY <2>5, <2>6, <2>7
    <2>9. Solves(h, m + 1)
      <3>. HIDE DEF h
      <3>. QED
        BY <2>1, <2>3, <2>4, <2>8
    <2>. QED
      BY <2>9
  <1>3. Nat \subseteq M
    <2>. HIDE DEF M
    <2>. QED
      BY <1>1, <1>2, NatInductive
  <1>4. \E g : Solves(g, n)
    <2>. HIDE DEF Solves
    <2>. QED
      BY <1>3
  <1>. QED
    BY <1>4 DEF Iteration

\* Two computations that begin alike, and go on alike from what is alike.
LEMMA SameSteps ==
    ASSUME NEW n \in Nat, NEW f, NEW g, f[0] = g[0],
           \A i \in 1..n : f[i - 1] = g[i - 1] => f[i] = g[i]
    PROVE  \A i \in 0..n : f[i] = g[i]
  <1>. DEFINE M == {i \in Nat : i <= n => f[i] = g[i]}
  <1>1. 0 \in M
    OBVIOUS
  <1>2. ASSUME NEW i \in Nat, i \in M PROVE i + 1 \in M
    <2>. SUFFICES ASSUME i + 1 <= n PROVE f[i + 1] = g[i + 1]
      OBVIOUS
    <2>1. i + 1 \in 1..n /\ (i + 1) - 1 = i /\ f[i] = g[i]
      BY <1>2
    <2>. QED
      BY <2>1
  <1>3. Nat \subseteq M
    <2>. HIDE DEF M
    <2>. QED
      BY <1>1, <1>2, NatInductive
  <1>. QED
    BY <1>3
=============================================================================
