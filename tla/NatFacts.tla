------------------------------ MODULE NatFacts ------------------------------
(***************************************************************************)
(* Facts about natural numbers: their sets, the functions defined over     *)
(* them from the previous value, powers of two and what they divide.       *)
(***************************************************************************)
EXTENDS FiniteSetTheorems, WellFoundedInduction, TLAPS

(* Sets of natural numbers. *)

LEMMA LeastElement ==
  ASSUME NEW T, T \subseteq Nat, T # {}
  PROVE  \E x \in T : \A y \in T : x <= y
  <1> DEFINE R == OpToRel(<, Nat)
  <1>1. IsWellFoundedOn(R, Nat)
    BY NatLessThanWellFounded
  <1>2. \A x, y \in Nat : <<x, y>> \in R <=> x < y
    BY DEF OpToRel
  <1> HIDE DEF R
  <1>3. PICK x \in T : \A y \in T : ~ (<<y, x>> \in R)
    BY <1>1, WFMin, Zenon
  <1>4. ASSUME NEW y \in T PROVE x <= y
    <2>1. x \in Nat /\ y \in Nat /\ ~ (<<y, x>> \in R)
      BY <1>3
    <2>2. ~ (y < x)
      BY <1>2, <2>1, Zenon
    <2> QED BY <2>1, <2>2
  <1> QED BY <1>4

(* A set that has 0, and the successor of what it has, has all. *)
LEMMA NatSet ==
  ASSUME NEW S, 0 \in S, \A n \in Nat : n \in S => n + 1 \in S
  PROVE  Nat \subseteq S
  <1> DEFINE T == Nat \ S
  <1>1. SUFFICES ASSUME T # {} PROVE FALSE
    OBVIOUS
  <1>2. PICK x \in T : \A y \in T : x <= y
    BY <1>1, LeastElement
  <1>3. x # 0
    BY <1>2
  <1>4. x - 1 \in Nat /\ x - 1 \notin T
    BY <1>2, <1>3
  <1> QED BY <1>2, <1>4

(* What a function of the natural numbers defined from its previous value  *)
(* is, and there is one.                                                   *)
Recurs(f, a, F) == f[0] = a /\ \A n \in Nat : f[n + 1] = F[<<n, f[n]>>]

LEMMA Recursion ==
  ASSUME NEW S, NEW a \in S, NEW F \in [Nat \X S -> S]
  PROVE  \E f \in [Nat -> S] : Recurs(f, a, F)
  <1> DEFINE OK(g, n) == /\ g[0] = a
                         /\ \A i \in 1 .. n : g[i] = F[<<i - 1, g[i - 1]>>]
             T == {n \in Nat : \E g \in [Nat -> S] : OK(g, n)}
  <1>1. 0 \in T
    <2>1. OK([i \in Nat |-> a], 0)
      OBVIOUS
    <2>2. [i \in Nat |-> a] \in [Nat -> S]
      OBVIOUS
    <2> QED BY <2>1, <2>2
  <1>2. ASSUME NEW n \in Nat, n \in T PROVE n + 1 \in T
    <2>1. PICK g \in [Nat -> S] : OK(g, n)
      BY <1>2
    <2> DEFINE h == [i \in Nat |-> IF i = n + 1 THEN F[<<n, g[n]>>] ELSE g[i]]
    <2>2. h \in [Nat -> S]
      OBVIOUS
    <2>3. h[0] = a
      BY <2>1
    <2>4. ASSUME NEW i \in 1 .. n + 1 PROVE h[i] = F[<<i - 1, h[i - 1]>>]
      <3>1. i \in Nat /\ i - 1 \in Nat /\ i - 1 # n + 1 /\ h[i - 1] = g[i - 1]
        OBVIOUS
      <3>2. CASE i = n + 1
        <4>1. i - 1 = n
          BY <3>2
        <4> QED BY <3>1, <3>2, <4>1
      <3>3. CASE i # n + 1
        <4>1. i \in 1 .. n /\ h[i] = g[i]
          BY <3>1, <3>3
        <4> QED BY <2>1, <3>1, <4>1
      <3> QED BY <3>2, <3>3
    <2> HIDE DEF h
    <2> QED BY <2>2, <2>3, <2>4
  <1> HIDE DEF T
  <1>3. \A n \in Nat : \E g \in [Nat -> S] : OK(g, n)
    BY <1>1, <1>2, NatSet DEF T
  <1> DEFINE G(n) == CHOOSE g \in [Nat -> S] : OK(g, n)
             f == [n \in Nat |-> G(n)[n]]
  <1>4. \A n \in Nat : G(n) \in [Nat -> S] /\ OK(G(n), n)
    BY <1>3, Zenon
  <1> HIDE DEF G
  <1>5. ASSUME NEW n \in Nat PROVE G(n + 1)[n] = G(n)[n]
    <2> DEFINE Q == {i \in Nat : i <= n => G(n + 1)[i] = G(n)[i]}
    <2>1. n + 1 \in Nat
      OBVIOUS
    <2>2. OK(G(n + 1), n + 1) /\ OK(G(n), n)
      BY <1>4, <2>1
    <2>3. 0 \in Q
      BY <2>2
    <2>4. ASSUME NEW i \in Nat, i \in Q PROVE i + 1 \in Q
      <3> SUFFICES ASSUME i + 1 <= n PROVE G(n + 1)[i + 1] = G(n)[i + 1]
        OBVIOUS
      <3>1. i + 1 \in 1 .. n + 1 /\ i + 1 \in 1 .. n /\ i + 1 - 1 = i
        OBVIOUS
      <3>2. G(n + 1)[i + 1] = F[<<i, G(n + 1)[i]>>] /\ G(n)[i + 1] = F[<<i, G(n)[i]>>]
        BY <2>2, <3>1
      <3> QED BY <2>4, <3>2
    <2> HIDE DEF Q
    <2>5. n \in Q
      BY <2>3, <2>4, NatSet
    <2> QED BY <2>5 DEF Q
  <1>6. f \in [Nat -> S]
    BY <1>4
  <1>7. f[0] = a
    BY <1>4
  <1>8. ASSUME NEW n \in Nat PROVE f[n + 1] = F[<<n, f[n]>>]
    <2>1. n + 1 \in Nat /\ n + 1 \in 1 .. n + 1 /\ n + 1 - 1 = n
      OBVIOUS
    <2>2. G(n + 1)[n + 1] = F[<<n, G(n + 1)[n]>>]
      BY <1>4, <2>1
    <2> QED BY <1>5, <2>1, <2>2
  <1> HIDE DEF f
  <1> QED BY <1>6, <1>7, <1>8 DEF Recurs

-----------------------------------------------------------------------------
(* Powers of two. *)
Powers == INSTANCE Pow2 WITH W <- 32

Two == Powers!Two

LEMMA TwoFacts ==
  /\ Two \in [Nat -> Nat \ {0}]
  /\ Two[0] = 1
  /\ \A n \in Nat : Two[n + 1] = 2 * Two[n]
  <1> DEFINE P == Nat \ {0}
             F == [p \in Nat \X P |-> 2 * p[2]]
  <1>1. F \in [Nat \X P -> P] /\ 1 \in P
    OBVIOUS
  <1>2. \A n \in Nat, x \in P : F[<<n, x>>] = 2 * x
    OBVIOUS
  <1>3. PICK f \in [Nat -> P] : Recurs(f, 1, F)
    <2> HIDE DEF F, P
    <2> QED BY <1>1, Recursion, Zenon
  <1> HIDE DEF F
  <1>4. ASSUME NEW n \in Nat
        PROVE  f[n] = IF n = 0 THEN 1 ELSE 2 * f[n - 1]
    <2>1. CASE n = 0
      BY <1>3, <2>1 DEF Recurs
    <2>2. CASE n # 0
      <3>1. n - 1 \in Nat /\ n - 1 + 1 = n
        BY <2>2
      <3>2. f[n - 1] \in P
        BY <3>1
      <3>3. f[n] = F[<<n - 1, f[n - 1]>>]
        BY <1>3, <3>1 DEF Recurs
      <3> QED BY <1>2, <2>2, <3>1, <3>2, <3>3
    <2> QED BY <2>1, <2>2
  <1>5. f = [n \in Nat |-> IF n = 0 THEN 1 ELSE 2 * f[n - 1]]
    BY <1>4
  <1>6. Two = [n \in Nat |-> IF n = 0 THEN 1 ELSE 2 * Two[n - 1]]
    BY <1>5, Zenon DEF Two, Powers!Two
  <1>7. ASSUME NEW n \in Nat PROVE Two[n + 1] = 2 * Two[n]
    <2>1. n + 1 \in Nat /\ n + 1 # 0 /\ n + 1 - 1 = n
      OBVIOUS
    <2> QED BY <1>6, <2>1
  <1>8. Two[0] = 1
    BY <1>6
  <1>9. Two \in [Nat -> P]
    <2> DEFINE T == {n \in Nat : Two[n] \in P}
    <2>1. 0 \in T
      BY <1>8
    <2>2. ASSUME NEW n \in Nat, n \in T PROVE n + 1 \in T
      BY <1>7, <2>2
    <2>3. \A n \in Nat : n \in T
      <3> HIDE DEF T
      <3> QED BY <2>1, <2>2, NatSet
    <2> QED BY <1>6, <2>3
  <1> QED BY <1>7, <1>8, <1>9

LEMMA TwoGrows ==
  \A m, n \in Nat : m < n => 2 * Two[m] <= Two[n]
  <1> SUFFICES ASSUME NEW m \in Nat PROVE \A n \in Nat : m < n => 2 * Two[m] <= Two[n]
    OBVIOUS
  <1> DEFINE T == {n \in Nat : m < n => 2 * Two[m] <= Two[n]}
  <1>1. 0 \in T
    OBVIOUS
  <1>2. ASSUME NEW n \in Nat, n \in T PROVE n + 1 \in T
    <2>1. Two[n + 1] = 2 * Two[n] /\ Two[n] \in Nat \ {0} /\ Two[m] \in Nat \ {0}
      BY TwoFacts
    <2>2. CASE m < n
      BY <1>2, <2>1, <2>2
    <2>3. CASE m = n
      BY <2>1, <2>3
    <2>4. CASE n < m
      BY <2>4
    <2> QED BY <2>2, <2>3, <2>4
  <1> HIDE DEF T
  <1>3. Nat \subseteq T
    BY <1>1, <1>2, NatSet
  <1> QED BY <1>3 DEF T

LEMMA TwoExceeds ==
  \A n \in Nat : n < Two[n]
  <1> DEFINE T == {n \in Nat : n < Two[n]}
  <1>1. 0 \in T
    BY TwoFacts
  <1>2. ASSUME NEW n \in Nat, n \in T PROVE n + 1 \in T
    <2>1. Two[n + 1] = 2 * Two[n] /\ Two[n] \in Nat \ {0}
      BY TwoFacts
    <2> QED BY <1>2, <2>1
  <1> HIDE DEF T
  <1>3. Nat \subseteq T
    BY <1>1, <1>2, NatSet
  <1> QED BY <1>3 DEF T

(* What a quotient and a remainder are. *)
LEMMA Quotient ==
  ASSUME NEW n \in Int, NEW m \in Nat \ {0}, NEW q \in Int, NEW r \in 0 .. m - 1, n = m * q + r
  PROVE  n \div m = q /\ n % m = r
  BY Z3

(* Halving a quotient by a power of two is dividing by the next one, and   *)
(* so is dividing the half.                                                *)
LEMMA HalfOfQuotient ==
  ASSUME NEW n \in Int, NEW k \in Nat
  PROVE  /\ (n \div Two[k]) \div 2 = n \div Two[k + 1]
         /\ (n \div 2) \div Two[k] = n \div Two[k + 1]
  <1> DEFINE m == Two[k]
  <1>1. m \in Nat \ {0} /\ Two[k + 1] = 2 * m
    BY TwoFacts
  <1> HIDE DEF m
  <1>2. (n \div m) \div 2 = n \div (2 * m)
    BY <1>1, Z3
  <1>3. (n \div 2) \div m = n \div (2 * m)
    BY <1>1, Z3
  <1> QED BY <1>1, <1>2, <1>3 DEF m

=============================================================================
