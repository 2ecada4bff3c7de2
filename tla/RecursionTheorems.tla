-------------------------- MODULE RecursionTheorems --------------------------
(***************************************************************************)
(* Induction and recursion over the numbers, for sets and functions: the   *)
(* lowest number of a set, steps that are repeated, and functions that are *)
(* defined from one number to the next.                                    *)
(***************************************************************************)
EXTENDS Integers, WellFoundedInduction, TLAPS

\* A non-empty set of numbers has a lowest one.
LEMMA LowestNumber ==
    ASSUME NEW S, S \subseteq Nat, S # {}
    PROVE  \E m \in S : \A n \in S : m <= n
<1>. DEFINE R == {ss \in Nat \X Nat : ss[1] < ss[2]}
<1>1. OpToRel(<, Nat) = R
  BY Zenon DEF OpToRel
<1>2. \E m \in S : \A n \in S : ~(<<n, m>> \in R)
  BY <1>1, WFMin, NatLessThanWellFounded
<1>3. ASSUME NEW m \in S, NEW n \in S, ~(<<n, m>> \in R) PROVE m <= n
  BY <1>3
<1>. QED BY <1>2, <1>3

\* What holds of 0, and with each number of the next, holds of all.
LEMMA Induction ==
    ASSUME NEW S, 0 \in S, \A n \in Nat : n \in S => n + 1 \in S
    PROVE  Nat \subseteq S
<1>1. SUFFICES ASSUME Nat \ S # {} PROVE FALSE
  OBVIOUS
<1>2. PICK m \in Nat \ S : \A n \in Nat \ S : m <= n
  <2>1. Nat \ S \subseteq Nat
    OBVIOUS
  <2>. QED BY <1>1, <2>1, LowestNumber
<1>3. m - 1 \in Nat /\ m - 1 \in S
  BY <1>2
<1>. QED BY <1>2, <1>3

Orbit(f, next, x, n) ==
    /\ f[0] = x
    /\ \A k \in 0 .. n - 1 : f[k + 1] = next[f[k]]

\* One more step can always be taken.
LEMMA OrbitGoesOn ==
    ASSUME NEW X, NEW next \in [X -> X], NEW n \in Nat, NEW x,
           NEW f \in [0 .. n -> X], Orbit(f, next, x, n)
    PROVE  \E g \in [0 .. n + 1 -> X] : Orbit(g, next, x, n + 1)
<1>. DEFINE g == [k \in 0 .. n + 1 |-> IF k = n + 1 THEN next[f[n]] ELSE f[k]]
<1>1. g \in [0 .. n + 1 -> X]
  OBVIOUS
<1>2. g[0] = x
  BY DEF Orbit
<1>3. ASSUME NEW k \in 0 .. n PROVE g[k + 1] = next[g[k]]
  <2>1. CASE k = n
    BY <2>1
  <2>2. CASE k # n
    <3>1. k \in 0 .. n - 1 /\ k + 1 \in 0 .. n /\ k + 1 # n + 1 /\ k # n + 1
      BY <2>2
    <3>2. g[k + 1] = f[k + 1] /\ g[k] = f[k]
      BY <3>1
    <3>. QED BY <3>1, <3>2 DEF Orbit
  <2>. QED BY <2>1, <2>2
<1>4. n + 1 - 1 = n
  OBVIOUS
<1>. HIDE DEF g
<1>5. Orbit(g, next, x, n + 1)
  BY <1>2, <1>3, <1>4 DEF Orbit
<1>. QED BY <1>1, <1>5

\* A step can be repeated any number of times.
LEMMA OrbitsExist ==
    ASSUME NEW X, NEW next \in [X -> X], NEW x \in X
    PROVE  \A n \in Nat : \E f \in [0 .. n -> X] : Orbit(f, next, x, n)
<1>. DEFINE S == {n \in Nat : \E f \in [0 .. n -> X] : Orbit(f, next, x, n)}
<1>1. 0 \in S
  <2>1. [k \in 0 .. 0 |-> x] \in [0 .. 0 -> X] /\ Orbit([k \in 0 .. 0 |-> x], next, x, 0)
    BY DEF Orbit
  <2>. QED BY <2>1
<1>2. ASSUME NEW n \in Nat, n \in S PROVE n + 1 \in S
  BY <1>2, OrbitGoesOn
<1>3. Nat \subseteq S
  <2>. HIDE DEF S
  <2>. QED BY <1>1, <1>2, Induction
<1>. QED BY <1>3

\* There is only one way to take steps.
LEMMA OrbitsAgree ==
    ASSUME NEW X, NEW next \in [X -> X], NEW x,
           NEW m \in Nat, NEW n \in Nat, NEW f, NEW g,
           Orbit(f, next, x, m), Orbit(g, next, x, n)
    PROVE  \A k \in Nat : k <= m /\ k <= n => f[k] = g[k]
<1>. DEFINE S == {k \in Nat : k <= m /\ k <= n => f[k] = g[k]}
<1>1. 0 \in S
  BY DEF Orbit
<1>2. ASSUME NEW k \in Nat, k \in S PROVE k + 1 \in S
  <2>1. SUFFICES ASSUME k + 1 <= m, k + 1 <= n PROVE f[k + 1] = g[k + 1]
    OBVIOUS
  <2>2. k \in 0 .. m - 1 /\ k \in 0 .. n - 1 /\ f[k] = g[k]
    BY <1>2, <2>1
  <2>. QED BY <2>2 DEF Orbit
<1>3. Nat \subseteq S
  <2>. HIDE DEF S
  <2>. QED BY <1>1, <1>2, Induction
<1>. QED BY <1>3

Endless(f, X, next, x) ==
    f \in [Nat -> X] /\ f[0] = x /\ \A n \in Nat : f[n + 1] = next[f[n]]

\* and the sequence of the results goes on for ever.
LEMMA Iteration ==
    ASSUME NEW X, NEW next \in [X -> X], NEW x \in X
    PROVE  \E f : Endless(f, X, next, x)
<1>. DEFINE First(n) == CHOOSE f \in [0 .. n -> X] : Orbit(f, next, x, n)
            f == [n \in Nat |-> First(n)[n]]
<1>1. \A n \in Nat : First(n) \in [0 .. n -> X] /\ Orbit(First(n), next, x, n)
  BY OrbitsExist
<1>. HIDE DEF First
<1>2. ASSUME NEW n \in Nat PROVE f[n] \in X
  <2>1. n \in 0 .. n
    OBVIOUS
  <2>. QED BY <1>1, <2>1
<1>3. f[0] = x
  BY <1>1 DEF Orbit
<1>4. ASSUME NEW n \in Nat PROVE f[n + 1] = next[f[n]]
  <2>1. n + 1 \in Nat /\ n <= n /\ n <= n + 1 /\ n \in 0 .. n + 1 - 1
    OBVIOUS
  <2>2. First(n)[n] = First(n + 1)[n]
    BY <1>1, <2>1, OrbitsAgree
  <2>3. First(n + 1)[n + 1] = next[First(n + 1)[n]]
    BY <1>1, <2>1 DEF Orbit
  <2>. QED BY <2>1, <2>2, <2>3
<1>. HIDE DEF f
<1>5. f \in [Nat -> X]
  BY <1>2 DEF f
<1>6. Endless(f, X, next, x)
  BY <1>3, <1>4, <1>5 DEF Endless
<1>. QED BY <1>6

Recursive(g, N, base, advance) ==
    /\ g[0] = base
    /\ \A k \in 1 .. N : g[k] = advance[<<k, g[k - 1]>>]

\* What is defined from one number to the next exists up to every number.
LEMMA Recursion ==
    ASSUME NEW V, NEW base \in V, NEW N \in Nat, NEW advance \in [(1 .. N) \X V -> V]
    PROVE  \E g \in [0 .. N -> V] : Recursive(g, N, base, advance)
<1>. DEFINE S == {n \in Nat : n <= N =>
                     \E g \in [0 .. n -> V] : Recursive(g, n, base, advance)}
<1>1. 0 \in S
  <2>. DEFINE g == [k \in 0 .. 0 |-> base]
  <2>1. g \in [0 .. 0 -> V] /\ Recursive(g, 0, base, advance)
    BY DEF Recursive
  <2>. QED BY <2>1
<1>2. ASSUME NEW n \in Nat, n \in S PROVE n + 1 \in S
  <2>1. SUFFICES ASSUME n + 1 <= N
                 PROVE  \E g \in [0 .. n + 1 -> V] : Recursive(g, n + 1, base, advance)
    OBVIOUS
  <2>2. PICK g \in [0 .. n -> V] : Recursive(g, n, base, advance)
    BY <1>2, <2>1
  <2>. DEFINE h == [k \in 0 .. n + 1 |-> IF k = n + 1 THEN advance[<<n + 1, g[n]>>] ELSE g[k]]
  <2>3. <<n + 1, g[n]>> \in (1 .. N) \X V
    BY <2>1
  <2>4. h \in [0 .. n + 1 -> V]
    BY <2>3
  <2>5. h[0] = base
    BY <2>2 DEF Recursive
  <2>6. ASSUME NEW k \in 1 .. n + 1 PROVE h[k] = advance[<<k, h[k - 1]>>]
    <3>1. CASE k = n + 1
      <4>1. k - 1 = n /\ h[n] = g[n] /\ h[k] = advance[<<n + 1, g[n]>>]
        BY <3>1
      <4>. HIDE DEF h
      <4>2. h[k - 1] = g[n]
        BY <4>1
      <4>. QED BY <3>1, <4>1, <4>2
    <3>2. CASE k # n + 1
      <4>1. k \in 1 .. n /\ k - 1 \in 0 .. n /\ k \in 0 .. n + 1 /\ k - 1 # n + 1
        BY <3>2
      <4>2. h[k] = g[k] /\ h[k - 1] = g[k - 1]
        BY <3>2, <4>1
      <4>3. g[k] = advance[<<k, g[k - 1]>>]
        BY <2>2, <4>1 DEF Recursive
      <4>. HIDE DEF h
      <4>. QED BY <4>2, <4>3
    <3>. QED BY <3>1, <3>2
  <2>. HIDE DEF h
  <2>7. Recursive(h, n + 1, base, advance)
    BY <2>5, <2>6 DEF Recursive
  <2>. QED BY <2>4, <2>7
<1>3. Nat \subseteq S
  <2>. HIDE DEF S
  <2>. QED BY <1>1, <1>2, Induction
<1>. QED BY <1>3

=============================================================================
