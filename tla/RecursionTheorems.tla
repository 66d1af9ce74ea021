-------------------------- MODULE RecursionTheorems --------------------------
(***************************************************************************)
(* Induction and recursion over the natural numbers, stated about sets and *)
(* functions instead of operators, so that a proof can cite them: a set    *)
(* that holds 0 and every successor is Nat, and a value and a function for *)
(* each step define a function of Nat.  They rest on the well-foundedness  *)
(* of < and on nothing else.                                               *)
(***************************************************************************)
EXTENDS Integers, WellFoundedInduction, TLAPS

\* Every nonempty set of natural numbers has a least element.
LEMMA LeastNatural ==
  ASSUME NEW T \in SUBSET Nat, T # {}
  PROVE  \E x \in T : \A y \in T : x <= y
<1> DEFINE R == OpToRel(<, Nat)
<1>1. IsWellFoundedOn(R, Nat)
  BY NatLessThanWellFounded
<1>2. \A x, y \in Nat : x < y => <<x, y>> \in R
  BY DEF OpToRel
<1> HIDE DEF R
<1>3. PICK x \in T : \A y \in T : ~ (<<y, x>> \in R)
  BY <1>1, WFMin
<1>4. \A y \in T : ~ (y < x)
  BY <1>2, <1>3
<1> QED
  BY <1>3, <1>4

\* Induction: a set of natural numbers that has 0 and the successor of each of its
\* elements has them all.
LEMMA SetInduction ==
  ASSUME NEW T \in SUBSET Nat, 0 \in T, \A n \in T : n + 1 \in T
  PROVE  T = Nat
<1> SUFFICES ASSUME T # Nat PROVE FALSE
  OBVIOUS
<1>1. PICK x \in Nat \ T : \A y \in Nat \ T : x <= y
  BY LeastNatural
<1>2. x # 0 /\ x - 1 \in Nat
  BY <1>1
<1>3. x - 1 \in T
  BY <1>1, <1>2
<1> QED
  BY <1>1, <1>2, <1>3

\* The first n + 1 values of the recursion from s by step.
Beginnings(S, s, step, n) ==
  {g \in [0..n -> S] : g[0] = s /\ \A i \in 1..n : g[i] = step[i][g[i - 1]]}

\* Two beginnings agree where both are defined.
LEMMA BeginningsAgree ==
  ASSUME NEW S, NEW s \in S, NEW step \in [Nat -> [S -> S]], NEW m \in Nat, NEW n \in Nat,
         NEW g \in Beginnings(S, s, step, m), NEW h \in Beginnings(S, s, step, n)
  PROVE  \A i \in Nat : i <= m /\ i <= n => g[i] = h[i]
<1> DEFINE T == {i \in Nat : i <= m /\ i <= n => g[i] = h[i]}
<1>1. 0 \in T
  BY DEF Beginnings
<1>2. ASSUME NEW i \in T PROVE i + 1 \in T
  <2> SUFFICES ASSUME i + 1 <= m, i + 1 <= n PROVE g[i + 1] = h[i + 1]
    BY <1>2
  <2>1. i \in Nat /\ g[i] = h[i] /\ (i + 1) - 1 = i
    BY <1>2
  <2>2. g[i + 1] = step[i + 1][g[i]] /\ h[i + 1] = step[i + 1][h[i]]
    BY <2>1 DEF Beginnings
  <2> QED
    BY <2>1, <2>2
<1> HIDE DEF T
<1>3. T = Nat
  <2>1. T \in SUBSET Nat
    BY DEF T
  <2> QED
    BY <1>1, <1>2, <2>1, SetInduction
<1> QED
  BY <1>3 DEF T

\* There is a beginning of every length.
LEMMA BeginningsExist ==
  ASSUME NEW S, NEW s \in S, NEW step \in [Nat -> [S -> S]]
  PROVE  \A n \in Nat : Beginnings(S, s, step, n) # {}
<1> DEFINE T == {n \in Nat : Beginnings(S, s, step, n) # {}}
<1>1. 0 \in T
  <2>1. [i \in 0..0 |-> s] \in Beginnings(S, s, step, 0)
    BY DEF Beginnings
  <2> QED
    BY <2>1
<1>2. ASSUME NEW n \in T PROVE n + 1 \in T
  <2>1. n \in Nat /\ Beginnings(S, s, step, n) # {}
    BY <1>2
  <2>2. PICK g : g \in Beginnings(S, s, step, n)
    BY <2>1
  <2> DEFINE h == [i \in 0..n + 1 |-> IF i = n + 1 THEN step[n + 1][g[n]] ELSE g[i]]
  <2>3. g \in [0..n -> S] /\ g[0] = s /\ \A i \in 1..n : g[i] = step[i][g[i - 1]]
    BY <2>2 DEF Beginnings
  <2>4. h \in [0..n + 1 -> S]
    <3>1. step[n + 1] \in [S -> S] /\ g[n] \in S
      BY <2>1, <2>3
    <3>2. step[n + 1][g[n]] \in S
      BY <3>1
    <3>3. \A i \in 0..n + 1 : i # n + 1 => i \in 0..n
      BY <2>1
    <3> QED
      BY <2>3, <3>2, <3>3
  <2>5. h[0] = s
    BY <2>1, <2>3
  <2>6. ASSUME NEW i \in 1..n + 1 PROVE h[i] = step[i][h[i - 1]]
    <3>1. i \in 0..n + 1 /\ i - 1 \in 0..n + 1 /\ i - 1 # n + 1 /\ i - 1 \in 0..n
      BY <2>1
    <3>2. h[i - 1] = g[i - 1]
      BY <3>1
    <3>3. CASE i = n + 1
      <4>1. i - 1 = n
        BY <2>1, <3>3
      <4> QED
        BY <3>1, <3>2, <3>3, <4>1
    <3>4. CASE i # n + 1
      <4>1. i \in 1..n /\ h[i] = g[i]
        BY <2>1, <3>1, <3>4
      <4> QED
        BY <2>3, <3>2, <4>1
    <3> QED
      BY <3>3, <3>4
  <2> HIDE DEF h
  <2>7. h \in Beginnings(S, s, step, n + 1)
    BY <2>4, <2>5, <2>6 DEF Beginnings
  <2> QED
    BY <2>1, <2>7
<1> HIDE DEF T
<1>3. T \in SUBSET Nat
  BY DEF T
<1>4. T = Nat
  BY <1>1, <1>2, <1>3, SetInduction
<1> QED
  BY <1>4 DEF T

\* The function that begins with s and goes on by step.
Recurs(f, S, s, step) ==
  f \in [Nat -> S] /\ f[0] = s /\ \A n \in Nat \ {0} : f[n] = step[n][f[n - 1]]

\* Recursion: a value for 0 and a function for each step define a function of Nat.
THEOREM Recursion ==
  ASSUME NEW S, NEW s \in S, NEW step \in [Nat -> [S -> S]]
  PROVE  \E f : Recurs(f, S, s, step)
<1> DEFINE Beginning(n) == CHOOSE g : g \in Beginnings(S, s, step, n)
<1>1. \A n \in Nat : Beginning(n) \in Beginnings(S, s, step, n)
  BY BeginningsExist
<1> HIDE DEF Beginning
<1> DEFINE f == [n \in Nat |-> Beginning(n)[n]]
<1>2. f \in [Nat -> S]
  <2>1. ASSUME NEW n \in Nat PROVE Beginning(n)[n] \in S
    <3>1. Beginning(n) \in [0..n -> S] /\ n \in 0..n
      BY <1>1 DEF Beginnings
    <3> QED
      BY <3>1
  <2> QED
    BY <2>1
<1>3. f[0] = s
  BY <1>1 DEF Beginnings
<1>4. ASSUME NEW n \in Nat \ {0} PROVE f[n] = step[n][f[n - 1]]
  <2>1. n - 1 \in Nat /\ n - 1 <= n - 1 /\ n - 1 <= n /\ n \in 1..n
    OBVIOUS
  <2>2. Beginning(n)[n - 1] = Beginning(n - 1)[n - 1]
    BY <1>1, <2>1, BeginningsAgree
  <2>3. Beginning(n)[n] = step[n][Beginning(n)[n - 1]]
    BY <1>1, <2>1 DEF Beginnings
  <2> QED
    BY <2>1, <2>2, <2>3
<1> QED
  BY <1>2, <1>3, <1>4 DEF Recurs
=============================================================================
