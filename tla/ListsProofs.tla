---------------------------- MODULE ListsProofs -----------------------------
(***************************************************************************)
(* Proofs about the three kinds of lists, for any lists and nodes.         *)
(*                                                                         *)
(* What a call does to a list is to cut a portion out of it or to join one *)
(* to it, be it of a single node; a move is both, one after the other.     *)
(***************************************************************************)
EXTENDS MCLists, NatFacts, SequenceTheorems

-----------------------------------------------------------------------------
(* Sequences that portions are cut out of, and joined to. *)

LEMMA Positions ==
  ASSUME NEW X, NEW s \in Seq(X)
  PROVE  /\ Len(s) \in Nat
         /\ \A i \in 1 .. Len(s) : s[i] \in X
         /\ \A e : e \in Range(s) <=> \E i \in 1 .. Len(s) : s[i] = e
         /\ IsInjective(s) <=> \A i, j \in 1 .. Len(s) : s[i] = s[j] => i = j
  BY DEF Range, IsInjective

LEMMA PortionFacts ==
  ASSUME NEW X, NEW s \in Seq(X), NEW i \in 1 .. Len(s), NEW j \in i .. Len(s)
  PROVE  LET p == SubSeq(s, i, j)
         IN  /\ p \in Seq(X)
             /\ Len(p) = j - i + 1
             /\ \A k \in 1 .. Len(p) : p[k] = s[i + k - 1]
  OBVIOUS

LEMMA WithoutFacts ==
  ASSUME NEW X, NEW s \in Seq(X), NEW i \in 1 .. Len(s), NEW j \in i .. Len(s)
  PROVE  LET t == Without(s, i, j)
             n == j - i + 1
         IN  /\ t \in Seq(X)
             /\ Len(t) = Len(s) - n
             /\ \A k \in 1 .. Len(t) : t[k] = IF k < i THEN s[k] ELSE s[k + n]
  <1> DEFINE u == SubSeq(s, 1, i - 1)
             v == SubSeq(s, j + 1, Len(s))
             t == u \o v
             n == j - i + 1
  <1>1. /\ u \in Seq(X) /\ Len(u) = i - 1
        /\ \A k \in 1 .. i - 1 : u[k] = s[k]
    OBVIOUS
  <1>2. /\ v \in Seq(X) /\ Len(v) = Len(s) - j
        /\ \A k \in 1 .. Len(s) - j : v[k] = s[k + j]
    OBVIOUS
  <1> HIDE DEF u, v
  <1>3. t \in Seq(X) /\ Len(t) = Len(s) - n
    <2>1. t \in Seq(X) /\ Len(t) = Len(u) + Len(v)
      BY <1>1, <1>2, ConcatProperties, Zenon
    <2> QED BY <1>1, <1>2, <2>1
  <1>4. ASSUME NEW k \in 1 .. Len(t)
        PROVE  t[k] = IF k < i THEN s[k] ELSE s[k + n]
    <2>1. CASE k < i
      BY <1>1, <1>2, <1>3, <2>1
    <2>2. CASE ~(k < i)
      <3>1. t[k] = v[k - (i - 1)] /\ k - (i - 1) \in 1 .. Len(s) - j
        BY <1>1, <1>2, <1>3, <2>2
      <3>2. v[k - (i - 1)] = s[(k - (i - 1)) + j]
        BY <1>2, <3>1
      <3>3. (k - (i - 1)) + j = k + n
        OBVIOUS
      <3> QED BY <3>1, <3>2, <3>3, <2>2
    <2> QED BY <2>1, <2>2
  <1>5. t = Without(s, i, j)
    BY DEF Without, u, v
  <1> HIDE DEF t
  <1> QED BY <1>3, <1>4, <1>5

LEMMA WithFacts ==
  ASSUME NEW X, NEW s \in Seq(X), NEW p \in Seq(X), NEW i \in 0 .. Len(s)
  PROVE  LET t == With(s, i, p)
             n == Len(p)
         IN  /\ t \in Seq(X)
             /\ Len(t) = Len(s) + n
             /\ \A k \in 1 .. Len(t) :
                  t[k] = IF k <= i THEN s[k] ELSE IF k <= i + n THEN p[k - i] ELSE s[k - n]
  <1> DEFINE u == SubSeq(s, 1, i)
             v == SubSeq(s, i + 1, Len(s))
             w == u \o p
             t == w \o v
             n == Len(p)
  <1>1. /\ u \in Seq(X) /\ Len(u) = i
        /\ \A k \in 1 .. i : u[k] = s[k]
    OBVIOUS
  <1>2. /\ v \in Seq(X) /\ Len(v) = Len(s) - i
        /\ \A k \in 1 .. Len(s) - i : v[k] = s[k + i]
    OBVIOUS
  <1>3. n \in Nat
    OBVIOUS
  <1> HIDE DEF u, v, n
  <1>4. /\ w \in Seq(X) /\ Len(w) = i + n
        /\ \A k \in 1 .. i + n : w[k] = IF k <= i THEN s[k] ELSE p[k - i]
    BY <1>1, <1>3, SMTT(30) DEF n
  <1> HIDE DEF w
  <1>5. t \in Seq(X) /\ Len(t) = Len(s) + n
    <2>1. t \in Seq(X) /\ Len(t) = Len(w) + Len(v)
      BY <1>2, <1>4, ConcatProperties, Zenon
    <2> QED BY <1>2, <1>3, <1>4, <2>1
  <1>6. ASSUME NEW k \in 1 .. Len(t)
        PROVE  t[k] = IF k <= i THEN s[k] ELSE IF k <= i + n THEN p[k - i] ELSE s[k - n]
    <2>1. CASE k <= i + n
      BY <1>2, <1>3, <1>4, <1>5, <2>1
    <2>2. CASE ~(k <= i + n)
      <3>1. t[k] = v[k - (i + n)] /\ k - (i + n) \in 1 .. Len(s) - i
        BY <1>2, <1>3, <1>4, <1>5, <2>2
      <3>2. v[k - (i + n)] = s[(k - (i + n)) + i]
        BY <1>2, <3>1
      <3>3. (k - (i + n)) + i = k - n /\ ~(k <= i)
        BY <1>3, <2>2
      <3> QED BY <3>1, <3>2, <3>3, <2>2
    <2> QED BY <2>1, <2>2
  <1>7. t = With(s, i, p)
    BY DEF With, u, v, w
  <1> HIDE DEF t
  <1> QED BY <1>5, <1>6, <1>7 DEF n

LEMMA WithoutDistinct ==
  ASSUME NEW X, NEW s \in Seq(X), IsInjective(s),
         NEW i \in 1 .. Len(s), NEW j \in i .. Len(s)
  PROVE  LET t == Without(s, i, j)
             p == SubSeq(s, i, j)
         IN  /\ IsInjective(t) /\ IsInjective(p)
             /\ Range(t) \cup Range(p) = Range(s)
             /\ Range(t) \cap Range(p) = {}
  <1> DEFINE t == Without(s, i, j)
             p == SubSeq(s, i, j)
             n == j - i + 1
             from(k) == IF k < i THEN k ELSE k + n
  <1>1. /\ t \in Seq(X) /\ Len(t) = Len(s) - n
        /\ \A k \in 1 .. Len(t) : t[k] = s[from(k)]
    BY WithoutFacts
  <1>2. /\ p \in Seq(X) /\ Len(p) = n
        /\ \A k \in 1 .. Len(p) : p[k] = s[i + k - 1]
    BY PortionFacts
  <1> HIDE DEF t, p
  <1>3. /\ Len(s) \in Nat
        /\ \A e : e \in Range(s) <=> \E k \in 1 .. Len(s) : s[k] = e
        /\ \A e : e \in Range(t) <=> \E k \in 1 .. Len(t) : t[k] = e
        /\ \A e : e \in Range(p) <=> \E k \in 1 .. Len(p) : p[k] = e
        /\ \A k, l \in 1 .. Len(s) : s[k] = s[l] => k = l
        /\ IsInjective(t) <=> \A k, l \in 1 .. Len(t) : t[k] = t[l] => k = l
        /\ IsInjective(p) <=> \A k, l \in 1 .. Len(p) : p[k] = p[l] => k = l
    <2>1. \A r \in Seq(X) :
            /\ Len(r) \in Nat
            /\ \A e : e \in Range(r) <=> \E k \in 1 .. Len(r) : r[k] = e
            /\ IsInjective(r) <=> \A k, l \in 1 .. Len(r) : r[k] = r[l] => k = l
      BY Positions
    <2>2. s \in Seq(X) /\ t \in Seq(X) /\ p \in Seq(X)
      BY <1>1, <1>2
    <2> QED BY <2>1, <2>2, Zenon
  <1>4. \A k \in 1 .. Len(t) : from(k) \in 1 .. Len(s) /\ from(k) \notin i .. j
    BY <1>1, <1>3
  <1>5. \A k, l \in 1 .. Len(t) : from(k) = from(l) => k = l
    BY <1>1, <1>3
  <1>6. IsInjective(t)
    <2> SUFFICES ASSUME NEW k \in 1 .. Len(t), NEW l \in 1 .. Len(t), t[k] = t[l]
                 PROVE  k = l
      BY <1>3
    <2>1. s[from(k)] = s[from(l)] /\ from(k) \in 1 .. Len(s) /\ from(l) \in 1 .. Len(s)
      BY <1>1, <1>4
    <2> HIDE DEF from
    <2>2. from(k) = from(l)
      BY <1>3, <2>1
    <2> QED BY <2>2, <1>5
  <1>7. IsInjective(p)
    <2> SUFFICES ASSUME NEW k \in 1 .. Len(p), NEW l \in 1 .. Len(p), p[k] = p[l]
                 PROVE  k = l
      BY <1>3
    <2>1. s[i + k - 1] = s[i + l - 1] /\ i + k - 1 \in 1 .. Len(s) /\ i + l - 1 \in 1 .. Len(s)
      BY <1>2
    <2>2. i + k - 1 = i + l - 1
      BY <1>3, <2>1, Zenon
    <2> QED BY <2>2, <1>2
  <1>8. ASSUME NEW e \in Range(t) PROVE e \in Range(s) \ Range(p)
    <2>1. PICK k \in 1 .. Len(t) : t[k] = e
      BY <1>3
    <2>2. /\ s[from(k)] = e /\ from(k) \in 1 .. Len(s) /\ from(k) \notin i .. j
      BY <1>1, <1>4, <2>1
    <2> HIDE DEF from
    <2>3. ASSUME NEW l \in 1 .. Len(p), p[l] = e PROVE FALSE
      <3>1. s[i + l - 1] = e /\ i + l - 1 \in 1 .. Len(s) /\ i + l - 1 \in i .. j
        BY <1>2, <2>3
      <3>2. from(k) = i + l - 1
        BY <1>3, <2>2, <3>1
      <3> QED BY <2>2, <3>1, <3>2
    <2> QED BY <1>3, <2>2, <2>3
  <1>9. ASSUME NEW e \in Range(p) PROVE e \in Range(s)
    <2>1. PICK k \in 1 .. Len(p) : p[k] = e
      BY <1>3
    <2>2. s[i + k - 1] = e /\ i + k - 1 \in 1 .. Len(s)
      BY <1>2, <2>1
    <2> QED BY <1>3, <2>2
  <1>10. ASSUME NEW e \in Range(s) PROVE e \in Range(t) \cup Range(p)
    <2>1. PICK k \in 1 .. Len(s) : s[k] = e
      BY <1>3
    <2>2. CASE k \in i .. j
      <3>1. k - i + 1 \in 1 .. Len(p) /\ p[k - i + 1] = s[i + (k - i + 1) - 1]
        BY <1>2, <2>2
      <3>2. p[k - i + 1] = e
        BY <2>1, <3>1
      <3> QED BY <1>3, <3>1, <3>2
    <2>3. CASE k < i
      <3>1. k \in 1 .. Len(t) /\ t[k] = e
        BY <1>1, <1>3, <2>1, <2>3
      <3> QED BY <1>3, <3>1
    <2>4. CASE k > j
      <3>1. k - n \in 1 .. Len(t) /\ from(k - n) = k
        BY <1>1, <1>3, <2>4
      <3>2. t[k - n] = e
        BY <1>1, <2>1, <3>1
      <3> QED BY <1>3, <3>1, <3>2
    <2> QED BY <2>2, <2>3, <2>4
  <1> QED BY <1>6, <1>7, <1>8, <1>9, <1>10 DEF t, p

LEMMA WithDistinct ==
  ASSUME NEW X, NEW s \in Seq(X), NEW p \in Seq(X), NEW i \in 0 .. Len(s),
         IsInjective(s), IsInjective(p), Range(s) \cap Range(p) = {}
  PROVE  /\ IsInjective(With(s, i, p))
         /\ Range(With(s, i, p)) = Range(s) \cup Range(p)
  <1> DEFINE t == With(s, i, p)
             n == Len(p)
  <1>1. /\ t \in Seq(X) /\ Len(t) = Len(s) + n /\ n \in Nat /\ Len(s) \in Nat
        /\ \A k \in 1 .. Len(t) :
             t[k] = IF k <= i THEN s[k] ELSE IF k <= i + n THEN p[k - i] ELSE s[k - n]
    BY WithFacts
  <1> HIDE DEF t, n
  <1>2. /\ \A e : e \in Range(s) <=> \E k \in 1 .. Len(s) : s[k] = e
        /\ \A e : e \in Range(t) <=> \E k \in 1 .. Len(t) : t[k] = e
        /\ \A e : e \in Range(p) <=> \E k \in 1 .. n : p[k] = e
        /\ \A k, l \in 1 .. Len(s) : s[k] = s[l] => k = l
        /\ \A k, l \in 1 .. n : p[k] = p[l] => k = l
        /\ IsInjective(t) <=> \A k, l \in 1 .. Len(t) : t[k] = t[l] => k = l
    <2>1. \A r \in Seq(X) :
            /\ \A e : e \in Range(r) <=> \E k \in 1 .. Len(r) : r[k] = e
            /\ IsInjective(r) <=> \A k, l \in 1 .. Len(r) : r[k] = r[l] => k = l
      BY Positions
    <2> QED BY <1>1, <2>1, Zenon DEF n
  <1>3. \A k \in 1 .. Len(s), l \in 1 .. n : s[k] # p[l]
    BY <1>2
  <1> DEFINE inner(k) == i < k /\ k <= i + n
             from(k) == IF k <= i THEN k ELSE IF inner(k) THEN k - i ELSE k - n
  <1>4. \A k \in 1 .. Len(t) :
          IF inner(k) THEN from(k) \in 1 .. n /\ t[k] = p[from(k)]
                      ELSE from(k) \in 1 .. Len(s) /\ t[k] = s[from(k)]
    BY <1>1
  <1>5. \A k, l \in 1 .. Len(t) : (inner(k) <=> inner(l)) /\ from(k) = from(l) => k = l
    BY <1>1
  <1>6. \A k \in 1 .. n : i + k \in 1 .. Len(t) /\ inner(i + k) /\ from(i + k) = k
    BY <1>1
  <1>7. \A k \in 1 .. Len(s) : \E l \in 1 .. Len(t) : ~ inner(l) /\ from(l) = k
    <2> TAKE k \in 1 .. Len(s)
    <2>1. CASE k <= i
      <3>1. k \in 1 .. Len(t) /\ ~ inner(k) /\ from(k) = k
        BY <1>1, <2>1
      <3> QED BY <3>1
    <2>2. CASE ~(k <= i)
      <3>1. k + n \in 1 .. Len(t) /\ ~ inner(k + n) /\ from(k + n) = k
        BY <1>1, <2>2
      <3> QED BY <3>1
    <2> QED BY <2>1, <2>2
  <1> HIDE DEF inner, from
  <1>8. IsInjective(t)
    <2> SUFFICES ASSUME NEW k \in 1 .. Len(t), NEW l \in 1 .. Len(t), t[k] = t[l]
                 PROVE  k = l
      BY <1>2
    <2>1. inner(k) <=> inner(l)
      BY <1>3, <1>4
    <2>2. CASE inner(k)
      <3>1. from(k) \in 1 .. n /\ from(l) \in 1 .. n /\ p[from(k)] = p[from(l)]
        BY <1>4, <2>1, <2>2
      <3> QED BY <1>2, <1>5, <2>1, <3>1
    <2>3. CASE ~ inner(k)
      <3>1. from(k) \in 1 .. Len(s) /\ from(l) \in 1 .. Len(s) /\ s[from(k)] = s[from(l)]
        BY <1>4, <2>1, <2>3
      <3> QED BY <1>2, <1>5, <2>1, <3>1
    <2> QED BY <2>2, <2>3
  <1>9. ASSUME NEW e \in Range(t) PROVE e \in Range(s) \cup Range(p)
    <2>1. PICK k \in 1 .. Len(t) : t[k] = e
      BY <1>2
    <2> QED BY <1>2, <1>4, <2>1
  <1>10. ASSUME NEW e \in Range(s) PROVE e \in Range(t)
    <2>1. PICK k \in 1 .. Len(s) : s[k] = e
      BY <1>2
    <2>2. PICK l \in 1 .. Len(t) : ~ inner(l) /\ from(l) = k
      BY <1>7
    <2>3. t[l] = e
      BY <1>4, <2>1, <2>2
    <2> QED BY <1>2, <2>3
  <1>11. ASSUME NEW e \in Range(p) PROVE e \in Range(t)
    <2>1. PICK k \in 1 .. n : p[k] = e
      BY <1>2
    <2>2. t[i + k] = e /\ i + k \in 1 .. Len(t)
      BY <1>4, <1>6, <2>1
    <2> QED BY <1>2, <2>2
  <1> QED BY <1>8, <1>9, <1>10, <1>11 DEF t

-----------------------------------------------------------------------------
(* Lists that share no node, nor with the portion in hand. *)

Apart(heads, ls, hd) ==
  /\ \A h \in heads : IsInjective(ls[h]) /\ Range(ls[h]) \cap Range(hd) = {}
  /\ \A g, h \in heads : g # h => Range(ls[g]) \cap Range(ls[h]) = {}
  /\ IsInjective(hd)

(* Changing one of them. *)
LEMMA ChangeApart ==
  ASSUME NEW X, NEW heads, NEW ls \in [heads -> Seq(X)], NEW hd, Apart(heads, ls, hd),
         NEW h \in heads, NEW s \in Seq(X), IsInjective(s), Range(s) \cap Range(hd) = {},
         \A g \in heads \ {h} : Range(ls[g]) \cap Range(s) = {}
  PROVE  LET after == [ls EXCEPT ![h] = s]
         IN  /\ after \in [heads -> Seq(X)]
             /\ after[h] = s
             /\ \A g \in heads \ {h} : after[g] = ls[g]
             /\ Apart(heads, after, hd)
  <1> DEFINE after == [ls EXCEPT ![h] = s]
  <1>1. after \in [heads -> Seq(X)] /\ after[h] = s /\ \A g \in heads \ {h} : after[g] = ls[g]
    OBVIOUS
  <1> HIDE DEF after
  <1>2. \A g \in heads : IsInjective(after[g]) /\ Range(after[g]) \cap Range(hd) = {}
    BY <1>1, Zenon DEF Apart
  <1>3. ASSUME NEW f \in heads, NEW g \in heads, f # g
        PROVE  Range(after[f]) \cap Range(after[g]) = {}
    <2>1. CASE f = h
      <3>1. after[f] = s /\ g \in heads \ {h} /\ after[g] = ls[g]
        BY <1>1, <1>3, <2>1
      <3>2. Range(ls[g]) \cap Range(s) = {}
        BY <3>1
      <3> QED BY <3>1, <3>2
    <2>2. CASE g = h
      <3>1. after[g] = s /\ f \in heads \ {h} /\ after[f] = ls[f]
        BY <1>1, <1>3, <2>2
      <3>2. Range(ls[f]) \cap Range(s) = {}
        BY <3>1
      <3> QED BY <3>1, <3>2
    <2>3. CASE f # h /\ g # h
      <3>1. after[f] = ls[f] /\ after[g] = ls[g]
        BY <1>1, <2>3
      <3> QED BY <1>3, <3>1 DEF Apart
    <2> QED BY <2>1, <2>2, <2>3
  <1>4. Apart(heads, after, hd)
    BY <1>2, <1>3, Zenon DEF Apart
  <1> QED BY <1>1, <1>4 DEF after

LEMMA CutApart ==
  ASSUME NEW X, NEW heads, NEW ls \in [heads -> Seq(X)], NEW hd, Apart(heads, ls, hd),
         NEW h \in heads, NEW i \in 1 .. Len(ls[h]), NEW j \in i .. Len(ls[h])
  PROVE  LET rest == Without(ls[h], i, j)
             p == SubSeq(ls[h], i, j)
             after == [ls EXCEPT ![h] = rest]
         IN  /\ rest \in Seq(X) /\ p \in Seq(X) /\ p # <<>> /\ IsInjective(p)
             /\ after \in [heads -> Seq(X)]
             /\ after[h] = rest
             /\ \A g \in heads \ {h} : after[g] = ls[g]
             /\ Apart(heads, after, hd)
             /\ \A g \in heads : Range(after[g]) \cap Range(p) = {}
             /\ Range(p) \cap Range(hd) = {}
             /\ Range(ls[h]) = Range(rest) \cup Range(p)
  <1> DEFINE rest == Without(ls[h], i, j)
             p == SubSeq(ls[h], i, j)
             after == [ls EXCEPT ![h] = rest]
  <1>1. ls[h] \in Seq(X) /\ IsInjective(ls[h])
    BY DEF Apart
  <1>2. rest \in Seq(X) /\ p \in Seq(X) /\ p # <<>>
    <2>1. rest \in Seq(X)
      BY <1>1, WithoutFacts
    <2>2. p \in Seq(X) /\ Len(p) = j - i + 1
      BY <1>1, PortionFacts
    <2>3. Len(p) # 0
      BY <2>2
    <2> HIDE DEF p
    <2> QED BY <2>1, <2>2, <2>3
  <1>3. /\ IsInjective(rest) /\ IsInjective(p)
        /\ Range(rest) \cup Range(p) = Range(ls[h])
        /\ Range(rest) \cap Range(p) = {}
    BY <1>1, WithoutDistinct
  <1> HIDE DEF rest, p
  <1>4. Range(rest) \cap Range(hd) = {} /\ Range(p) \cap Range(hd) = {}
    BY <1>3 DEF Apart
  <1>5. \A g \in heads \ {h} : Range(ls[g]) \cap Range(rest) = {} /\ Range(ls[g]) \cap Range(p) = {}
    BY <1>3 DEF Apart
  <1>6. /\ after \in [heads -> Seq(X)]
        /\ after[h] = rest
        /\ \A g \in heads \ {h} : after[g] = ls[g]
        /\ Apart(heads, after, hd)
    <2>1. rest \in Seq(X) /\ IsInjective(rest) /\ Range(rest) \cap Range(hd) = {}
      BY <1>2, <1>3, <1>4
    <2>2. \A g \in heads \ {h} : Range(ls[g]) \cap Range(rest) = {}
      BY <1>5
    <2> QED BY <2>1, <2>2, ChangeApart
  <1> HIDE DEF after
  <1>7. \A g \in heads : Range(after[g]) \cap Range(p) = {}
    <2> TAKE g \in heads
    <2>1. CASE g = h
      BY <1>3, <1>6, <2>1
    <2>2. CASE g # h
      BY <1>5, <1>6, <2>2
    <2> QED BY <2>1, <2>2
  <1> QED BY <1>2, <1>3, <1>4, <1>6, <1>7 DEF rest, p, after

LEMMA JoinApart ==
  ASSUME NEW X, NEW heads, NEW ls \in [heads -> Seq(X)], NEW hd, Apart(heads, ls, hd),
         NEW p \in Seq(X), IsInjective(p), Range(p) \cap Range(hd) = {},
         \A g \in heads : Range(ls[g]) \cap Range(p) = {},
         NEW h \in heads, NEW i \in 0 .. Len(ls[h])
  PROVE  LET s == With(ls[h], i, p)
             after == [ls EXCEPT ![h] = s]
         IN  /\ s \in Seq(X)
             /\ after \in [heads -> Seq(X)]
             /\ after[h] = s
             /\ \A g \in heads \ {h} : after[g] = ls[g]
             /\ Apart(heads, after, hd)
             /\ Range(s) = Range(ls[h]) \cup Range(p)
  <1> DEFINE s == With(ls[h], i, p)
  <1>1. ls[h] \in Seq(X) /\ IsInjective(ls[h]) /\ Range(ls[h]) \cap Range(p) = {}
    BY DEF Apart
  <1>2. s \in Seq(X)
    BY <1>1, WithFacts
  <1>3. IsInjective(s) /\ Range(s) = Range(ls[h]) \cup Range(p)
    BY <1>1, WithDistinct
  <1> HIDE DEF s
  <1>4. Range(s) \cap Range(hd) = {}
    BY <1>3 DEF Apart
  <1>5. \A g \in heads \ {h} : Range(ls[g]) \cap Range(s) = {}
    BY <1>3 DEF Apart
  <1> QED BY <1>2, <1>3, <1>4, <1>5, ChangeApart, ZenonT(30) DEF s

(* A single node is a portion. *)
LEMMA SingleNode ==
  ASSUME NEW X, NEW n \in X
  PROVE  /\ <<n>> \in Seq(X) /\ Len(<<n>>) = 1 /\ <<n>>[1] = n /\ <<n>> # <<>>
         /\ IsInjective(<<n>>) /\ Range(<<n>>) = {n}
  BY DEF IsInjective, Range

LEMMA NoNode ==
  ASSUME NEW X
  PROVE  /\ <<>> \in Seq(X) /\ Len(<<>>) = 0
         /\ IsInjective(<<>>) /\ Range(<<>>) = {}
  BY DEF IsInjective, Range

(* Where a place of a list is once a portion is cut out of it. *)
Entry(h, s, i) == IF i \in 1 .. Len(s) THEN s[i] ELSE h

LEMMA EntryWithout ==
  ASSUME NEW X, NEW s \in Seq(X), NEW h,
         NEW i \in 1 .. Len(s), NEW j \in i .. Len(s)
  PROVE  LET t == Without(s, i, j)
             n == j - i + 1
         IN  /\ Len(t) = Len(s) - n
             /\ \A k \in 0 .. Len(t) + 1 :
                  Entry(h, t, k) = IF k < i THEN Entry(h, s, k) ELSE Entry(h, s, k + n)
  <1> DEFINE t == Without(s, i, j)
             n == j - i + 1
  <1>1. /\ t \in Seq(X) /\ Len(t) = Len(s) - n /\ Len(s) \in Nat
        /\ \A k \in 1 .. Len(t) : t[k] = IF k < i THEN s[k] ELSE s[k + n]
    BY WithoutFacts
  <1> HIDE DEF t
  <1>2. ASSUME NEW k \in 0 .. Len(t) + 1
        PROVE  Entry(h, t, k) = IF k < i THEN Entry(h, s, k) ELSE Entry(h, s, k + n)
    BY <1>1 DEF Entry
  <1> QED BY <1>1, <1>2 DEF t

LEMMA EntryWith ==
  ASSUME NEW X, NEW s \in Seq(X), NEW p \in Seq(X), NEW h, NEW i \in 0 .. Len(s)
  PROVE  LET t == With(s, i, p)
             n == Len(p)
         IN  /\ Len(t) = Len(s) + n
             /\ \A k \in 0 .. Len(t) + 1 :
                  Entry(h, t, k) =
                    IF k <= i THEN Entry(h, s, k)
                    ELSE IF k <= i + n THEN p[k - i]
                    ELSE Entry(h, s, k - n)
  <1> DEFINE t == With(s, i, p)
             n == Len(p)
  <1>1. /\ t \in Seq(X) /\ Len(t) = Len(s) + n /\ Len(s) \in Nat /\ n \in Nat
        /\ \A k \in 1 .. Len(t) :
             t[k] = IF k <= i THEN s[k] ELSE IF k <= i + n THEN p[k - i] ELSE s[k - n]
    BY WithFacts
  <1> HIDE DEF t, n
  <1>2. ASSUME NEW k \in 0 .. Len(t) + 1
        PROVE  Entry(h, t, k) =
                 IF k <= i THEN Entry(h, s, k)
                 ELSE IF k <= i + n THEN p[k - i]
                 ELSE Entry(h, s, k - n)
    BY <1>1 DEF Entry
  <1> QED BY <1>1, <1>2 DEF t, n

(* The same of a single node. *)
LEMMA WithoutOne ==
  ASSUME NEW X, NEW s \in Seq(X), NEW i \in 1 .. Len(s)
  PROVE  LET t == Without(s, i, i)
         IN  /\ t \in Seq(X)
             /\ Len(t) = Len(s) - 1
             /\ \A k \in 1 .. Len(t) : t[k] = IF k < i THEN s[k] ELSE s[k + 1]
  <1>1. i \in i .. Len(s) /\ i - i + 1 = 1
    OBVIOUS
  <1> QED BY <1>1, WithoutFacts

LEMMA ReplaceOne ==
  ASSUME NEW X, NEW s \in Seq(X), NEW i \in 1 .. Len(s), NEW n \in X
  PROVE  With(Without(s, i, i), i - 1, <<n>>) = [s EXCEPT ![i] = n]
  <1> DEFINE t == Without(s, i, i)
             p == <<n>>
             u == With(t, i - 1, p)
  <1>1. /\ t \in Seq(X) /\ Len(t) = Len(s) - 1 /\ Len(s) \in Nat
        /\ \A k \in 1 .. Len(t) : t[k] = IF k < i THEN s[k] ELSE s[k + 1]
    BY WithoutOne
  <1> HIDE DEF t
  <1>2. p \in Seq(X) /\ Len(p) = 1 /\ p[1] = n
    OBVIOUS
  <1> HIDE DEF p
  <1>3. i - 1 \in 0 .. Len(t)
    BY <1>1
  <1>4. /\ u \in Seq(X) /\ Len(u) = Len(t) + Len(p)
        /\ \A k \in 1 .. Len(u) :
             u[k] = IF k <= i - 1 THEN t[k]
                    ELSE IF k <= i - 1 + Len(p) THEN p[k - (i - 1)] ELSE t[k - Len(p)]
    BY <1>1, <1>2, <1>3, WithFacts, ZenonT(30)
  <1> HIDE DEF u
  <1>5. Len(u) = Len(s)
    BY <1>1, <1>2, <1>4
  <1>6. ASSUME NEW k \in 1 .. Len(s) PROVE u[k] = IF k = i THEN n ELSE s[k]
    <2>1. CASE k < i
      BY <1>1, <1>4, <1>5, <2>1
    <2>2. CASE k = i
      <3>1. ~(k <= i - 1) /\ k <= i - 1 + Len(p) /\ k - (i - 1) = 1
        BY <1>1, <1>2, <2>2
      <3>2. u[k] = p[k - (i - 1)]
        BY <1>4, <1>5, <3>1
      <3> QED BY <1>2, <2>2, <3>1, <3>2
    <2>3. CASE k > i
      <3>1. ~(k <= i - 1) /\ ~(k <= i - 1 + Len(p)) /\ k - Len(p) = k - 1
        BY <1>1, <1>2, <2>3
      <3>2. u[k] = t[k - 1]
        BY <1>4, <1>5, <3>1
      <3>3. k - 1 \in 1 .. Len(t) /\ ~(k - 1 < i) /\ k - 1 + 1 = k
        BY <1>1, <2>3
      <3>4. t[k - 1] = s[k - 1 + 1]
        BY <1>1, <3>3
      <3> QED BY <2>3, <3>2, <3>3, <3>4
    <2> QED BY <2>1, <2>2, <2>3
  <1>7. u = [s EXCEPT ![i] = n]
    BY <1>1, <1>4, <1>5, <1>6
  <1> QED BY <1>7 DEF t, p, u

(* Different places are different addresses, but the head at both ends. *)
LEMMA EntryDistinct ==
  ASSUME NEW X, NEW s \in Seq(X), NEW h, h \notin X, IsInjective(s)
  PROVE  /\ \A i, j \in 0 .. Len(s) : Entry(h, s, i) = Entry(h, s, j) => i = j
         /\ \A i, j \in 1 .. Len(s) + 1 : Entry(h, s, i) = Entry(h, s, j) => i = j
         /\ \A i \in 0 .. Len(s) + 1 : Entry(h, s, i) \in {h} \cup Range(s)
         /\ \A i \in 1 .. Len(s) : Entry(h, s, i) \in Range(s)
         /\ Range(s) \subseteq X
  <1>1. /\ Len(s) \in Nat
        /\ \A i \in 1 .. Len(s) : s[i] \in X
        /\ \A i \in 1 .. Len(s) : s[i] \in Range(s)
        /\ \A i, j \in 1 .. Len(s) : s[i] = s[j] => i = j
        /\ \A e : e \in Range(s) <=> \E i \in 1 .. Len(s) : s[i] = e
    BY Positions
  <1> QED BY <1>1 DEF Entry

-----------------------------------------------------------------------------
(* Doubly linked lists. *)

Rings == [next : [D!Addresses -> D!Addresses \cup {Wild}],
          prev : [D!Addresses -> D!Addresses \cup {Wild}]]

(* The nodes of s, in that order, form a ring with h. *)
Ring(m, h, s) ==
  \A i \in 0 .. Len(s) :
    /\ m.next[Entry(h, s, i)] = Entry(h, s, i + 1)
    /\ m.prev[Entry(h, s, i + 1)] = Entry(h, s, i)

(* The nodes of p, in that order, lead to one another. *)
Linked(m, p) ==
  \A i \in 1 .. Len(p) - 1 : m.next[p[i]] = p[i + 1] /\ m.prev[p[i + 1]] = p[i]

(* The memory, what is in lists and the portion in hand. *)
RingsOK(m, ls, hd) ==
  /\ m \in Rings
  /\ ls \in [Heads -> Seq(Nodes)] /\ hd \in Seq(Nodes)
  /\ Apart(Heads, ls, hd)
  /\ \A h \in Heads : Ring(m, h, ls[h])
  /\ Linked(m, hd)

(* In l, b follows a; in the other, first to last are between a and b. *)
LinkedIn(l, m, a, b) ==
  /\ l \in Rings
  /\ \A x \in Heads \cup Nodes :
       /\ l.next[x] = IF x = a THEN b ELSE m.next[x]
       /\ l.prev[x] = IF x = b THEN a ELSE m.prev[x]

JoinedIn(l, m, a, first, last, b) ==
  /\ l \in Rings
  /\ \A x \in Heads \cup Nodes :
       /\ l.next[x] = IF x = a THEN first ELSE IF x = last THEN b ELSE m.next[x]
       /\ l.prev[x] = IF x = first THEN a ELSE IF x = b THEN last ELSE m.prev[x]

LEMMA LinkFacts ==
  ASSUME NEW m \in Rings, NEW a \in Heads \cup Nodes, NEW b \in Heads \cup Nodes
  PROVE  LinkedIn(D!Link(m, a, b), m, a, b)
  BY DEF D!Link, Rings, LinkedIn, D!Addresses

(* The four stores that join a portion, in either order. *)
LEMMA JoinLinks ==
  ASSUME NEW m \in Rings,
         NEW a \in Heads \cup Nodes, NEW b \in Heads \cup Nodes,
         NEW first \in Nodes, NEW last \in Nodes, a # last, b # first
  PROVE  /\ JoinedIn(D!Link(D!Link(m, a, first), last, b), m, a, first, last, b)
         /\ JoinedIn(D!Link(D!Link(m, last, b), a, first), m, a, first, last, b)
  <1>1. first \in Heads \cup Nodes /\ last \in Heads \cup Nodes
    OBVIOUS
  <1>2. JoinedIn(D!Link(D!Link(m, a, first), last, b), m, a, first, last, b)
    <2> DEFINE c == D!Link(m, a, first)
    <2>1. LinkedIn(c, m, a, first)
      BY <1>1, LinkFacts
    <2> HIDE DEF c
    <2>2. LinkedIn(D!Link(c, last, b), c, last, b)
      <3>1. c \in Rings
        BY <2>1 DEF LinkedIn
      <3> QED BY <1>1, <3>1, LinkFacts
    <2>3. JoinedIn(D!Link(c, last, b), m, a, first, last, b)
      BY <2>1, <2>2 DEF LinkedIn, JoinedIn
    <2> QED BY <2>3 DEF c
  <1>3. JoinedIn(D!Link(D!Link(m, last, b), a, first), m, a, first, last, b)
    <2> DEFINE c == D!Link(m, last, b)
    <2>1. LinkedIn(c, m, last, b)
      BY <1>1, LinkFacts
    <2> HIDE DEF c
    <2>2. LinkedIn(D!Link(c, a, first), c, a, first)
      <3>1. c \in Rings
        BY <2>1 DEF LinkedIn
      <3> QED BY <1>1, <3>1, LinkFacts
    <2>3. JoinedIn(D!Link(c, a, first), m, a, first, last, b)
      BY <2>1, <2>2 DEF LinkedIn, JoinedIn
    <2> QED BY <2>3 DEF c
  <1> QED BY <1>2, <1>3

(* What is not written to stays. *)
LEMMA RingKept ==
  ASSUME NEW m, NEW l, NEW h, NEW s \in Seq(Nodes), h \notin Nodes, IsInjective(s), Ring(m, h, s),
         \A x \in {h} \cup Range(s) : l.next[x] = m.next[x] /\ l.prev[x] = m.prev[x]
  PROVE  Ring(l, h, s)
  <1>1. Len(s) \in Nat /\ \A i \in 0 .. Len(s) + 1 : Entry(h, s, i) \in {h} \cup Range(s)
    BY EntryDistinct
  <1>2. ASSUME NEW i \in 0 .. Len(s)
        PROVE  /\ l.next[Entry(h, s, i)] = Entry(h, s, i + 1)
               /\ l.prev[Entry(h, s, i + 1)] = Entry(h, s, i)
    <2>1. Entry(h, s, i) \in {h} \cup Range(s) /\ Entry(h, s, i + 1) \in {h} \cup Range(s)
      BY <1>1
    <2> QED BY <2>1 DEF Ring
  <1> QED BY <1>2 DEF Ring

LEMMA LinkedKept ==
  ASSUME NEW m, NEW l, NEW p \in Seq(Nodes), Linked(m, p),
         \A x \in Range(p) : l.next[x] = m.next[x] /\ l.prev[x] = m.prev[x]
  PROVE  Linked(l, p)
  <1>1. Len(p) \in Nat /\ \A i \in 1 .. Len(p) : p[i] \in Range(p)
    BY Positions
  <1> QED BY <1>1 DEF Linked

(* The ring that a portion is cut out of, and the portion. *)
LEMMA RingCut ==
  ASSUME NEW m, NEW l, NEW h, NEW s \in Seq(Nodes), h \notin Nodes, IsInjective(s), Ring(m, h, s),
         NEW i \in 1 .. Len(s), NEW j \in i .. Len(s),
         \A x \in {h} \cup Range(s) :
           /\ l.next[x] = IF x = Entry(h, s, i - 1) THEN Entry(h, s, j + 1) ELSE m.next[x]
           /\ l.prev[x] = IF x = Entry(h, s, j + 1) THEN Entry(h, s, i - 1) ELSE m.prev[x]
  PROVE  Ring(l, h, Without(s, i, j)) /\ Linked(l, SubSeq(s, i, j))
  <1> DEFINE t == Without(s, i, j)
             p == SubSeq(s, i, j)
             n == j - i + 1
             at(k) == Entry(h, s, k)
  <1>0. Len(s) \in Nat
    OBVIOUS
  <1>1. /\ Len(t) = Len(s) - n
        /\ \A k \in 0 .. Len(t) + 1 : Entry(h, t, k) = IF k < i THEN at(k) ELSE at(k + n)
    BY EntryWithout
  <1>2. /\ \A a, b \in 0 .. Len(s) : at(a) = at(b) => a = b
        /\ \A a, b \in 1 .. Len(s) + 1 : at(a) = at(b) => a = b
        /\ \A a \in 0 .. Len(s) + 1 : at(a) \in {h} \cup Range(s)
    BY EntryDistinct
  <1>3. \A k \in 0 .. Len(s) : m.next[at(k)] = at(k + 1) /\ m.prev[at(k + 1)] = at(k)
    BY DEF Ring
  <1>4. /\ Len(p) = n
        /\ \A k \in 1 .. Len(p) : p[k] = at(i + k - 1)
    BY PortionFacts DEF Entry
  <1> HIDE DEF t, p, at
  <1>5. \A k \in 0 .. Len(s) : l.next[at(k)] = IF k = i - 1 THEN at(j + 1) ELSE at(k + 1)
    <2> TAKE k \in 0 .. Len(s)
    <2>1. at(k) \in {h} \cup Range(s) /\ (at(k) = at(i - 1) <=> k = i - 1)
      BY <1>1, <1>2
    <2> QED BY <2>1, <1>3 DEF at
  <1>6. \A k \in 0 .. Len(s) : l.prev[at(k + 1)] = IF k = j THEN at(i - 1) ELSE at(k)
    <2> TAKE k \in 0 .. Len(s)
    <2>0. /\ k + 1 \in 1 .. Len(s) + 1 /\ k + 1 \in 0 .. Len(s) + 1
          /\ j + 1 \in 1 .. Len(s) + 1 /\ (k + 1 = j + 1 <=> k = j)
      BY <1>0
    <2>1. at(k + 1) \in {h} \cup Range(s) /\ (at(k + 1) = at(j + 1) <=> k = j)
      BY <1>2, <2>0
    <2>2. m.prev[at(k + 1)] = at(k)
      BY <1>3
    <2> QED BY <2>1, <2>2 DEF at
  <1>7. ASSUME NEW k \in 0 .. Len(t)
        PROVE  /\ l.next[Entry(h, t, k)] = Entry(h, t, k + 1)
               /\ l.prev[Entry(h, t, k + 1)] = Entry(h, t, k)
    <2>0. k \in 0 .. Len(t) + 1 /\ k + 1 \in 0 .. Len(t) + 1
      BY <1>0, <1>1
    <2>1. CASE k < i - 1
      <3>1. k < i /\ k + 1 < i /\ k \in 0 .. Len(s) /\ k # i - 1 /\ k # j
        BY <1>0, <1>1, <2>1
      <3>2. Entry(h, t, k) = at(k) /\ Entry(h, t, k + 1) = at(k + 1)
        BY <1>1, <2>0, <3>1
      <3>3. l.next[at(k)] = at(k + 1) /\ l.prev[at(k + 1)] = at(k)
        BY <1>5, <1>6, <3>1
      <3> QED BY <3>2, <3>3
    <2>2. CASE k = i - 1
      <3>1. k + 1 + n = j + 1 /\ ~(k + 1 < i) /\ k < i /\ k \in 0 .. Len(s) /\ j \in 0 .. Len(s)
        BY <1>0, <1>1, <2>2
      <3>2. Entry(h, t, k) = at(k) /\ Entry(h, t, k + 1) = at(j + 1)
        <4>1. Entry(h, t, k + 1) = at(k + 1 + n)
          BY <1>1, <2>0, <3>1
        <4> QED BY <1>1, <2>0, <3>1, <4>1
      <3>3. l.next[at(k)] = at(j + 1) /\ l.prev[at(j + 1)] = at(k)
        BY <1>5, <1>6, <2>2, <3>1
      <3> QED BY <3>2, <3>3
    <2>3. CASE k > i - 1
      <3>1. /\ k + 1 + n = k + n + 1 /\ ~(k + 1 < i) /\ ~(k < i)
            /\ k + n \in 0 .. Len(s) /\ k + n # i - 1 /\ k + n # j
        <4>1. Len(t) = Len(s) - n
          BY <1>1
        <4> QED BY <1>0, <2>3, <4>1, SMTT(30)
      <3>2. Entry(h, t, k) = at(k + n) /\ Entry(h, t, k + 1) = at(k + n + 1)
        <4>1. Entry(h, t, k + 1) = at(k + 1 + n)
          BY <1>1, <2>0, <3>1
        <4> QED BY <1>1, <2>0, <3>1, <4>1
      <3>3. l.next[at(k + n)] = at(k + n + 1) /\ l.prev[at(k + n + 1)] = at(k + n)
        BY <1>5, <1>6, <3>1
      <3> QED BY <3>2, <3>3
    <2> QED BY <2>1, <2>2, <2>3
  <1>8. ASSUME NEW k \in 1 .. Len(p) - 1
        PROVE  l.next[p[k]] = p[k + 1] /\ l.prev[p[k + 1]] = p[k]
    <2>0. Len(p) = n /\ i \in Int /\ j \in Int /\ i >= 1 /\ j <= Len(s) /\ j >= i
      BY <1>0, <1>4
    <2>1. /\ k \in 1 .. Len(p) /\ k + 1 \in 1 .. Len(p) /\ i + (k + 1) - 1 = i + k - 1 + 1
          /\ i + k - 1 \in 0 .. Len(s) /\ i + k - 1 # i - 1 /\ i + k - 1 # j
      BY <1>0, <2>0
    <2>2. p[k] = at(i + k - 1) /\ p[k + 1] = at(i + k - 1 + 1)
      <3>1. p[k + 1] = at(i + (k + 1) - 1)
        BY <1>4, <2>1
      <3> QED BY <1>4, <2>1, <3>1
    <2>3. l.next[at(i + k - 1)] = at(i + k - 1 + 1) /\ l.prev[at(i + k - 1 + 1)] = at(i + k - 1)
      BY <1>5, <1>6, <2>1
    <2> QED BY <2>2, <2>3
  <1> QED BY <1>7, <1>8 DEF t, p, Ring, Linked

(* The ring that a portion is joined to. *)
LEMMA RingJoin ==
  ASSUME NEW m, NEW l, NEW h, NEW s \in Seq(Nodes), h \notin Nodes, IsInjective(s), Ring(m, h, s),
         NEW p \in Seq(Nodes), p # <<>>, IsInjective(p), Linked(m, p),
         Range(s) \cap Range(p) = {}, NEW i \in 0 .. Len(s),
         \A x \in {h} \cup Range(s) \cup Range(p) :
           /\ l.next[x] = IF x = Entry(h, s, i) THEN p[1]
                          ELSE IF x = p[Len(p)] THEN Entry(h, s, i + 1)
                          ELSE m.next[x]
           /\ l.prev[x] = IF x = p[1] THEN Entry(h, s, i)
                          ELSE IF x = Entry(h, s, i + 1) THEN p[Len(p)]
                          ELSE m.prev[x]
  PROVE  Ring(l, h, With(s, i, p))
  <1> DEFINE t == With(s, i, p)
             n == Len(p)
             at(k) == Entry(h, s, k)
  <1>1. /\ Len(t) = Len(s) + n /\ Len(s) \in Nat /\ n \in Nat \ {0}
        /\ \A k \in 0 .. Len(t) + 1 :
             Entry(h, t, k) = IF k <= i THEN at(k) ELSE IF k <= i + n THEN p[k - i] ELSE at(k - n)
    BY EntryWith
  <1>2. /\ \A a, b \in 0 .. Len(s) : at(a) = at(b) => a = b
        /\ \A a, b \in 1 .. Len(s) + 1 : at(a) = at(b) => a = b
        /\ \A a \in 0 .. Len(s) + 1 : at(a) \in {h} \cup Range(s)
    BY EntryDistinct
  <1>3. \A k \in 0 .. Len(s) : m.next[at(k)] = at(k + 1) /\ m.prev[at(k + 1)] = at(k)
    BY DEF Ring
  <1>4. /\ \A a, b \in 1 .. n : p[a] = p[b] => a = b
        /\ \A a \in 1 .. n : p[a] \in Range(p) /\ p[a] \in Nodes
    BY Positions
  <1>5. \A a \in 0 .. Len(s) + 1, b \in 1 .. n : at(a) # p[b]
    BY <1>2, <1>4
  <1>6. \A b \in 1 .. n - 1 : m.next[p[b]] = p[b + 1] /\ m.prev[p[b + 1]] = p[b]
    BY DEF Linked
  <1>7. \A x \in {h} \cup Range(s) \cup Range(p) :
           /\ l.next[x] = IF x = at(i) THEN p[1] ELSE IF x = p[n] THEN at(i + 1) ELSE m.next[x]
           /\ l.prev[x] = IF x = p[1] THEN at(i) ELSE IF x = at(i + 1) THEN p[n] ELSE m.prev[x]
    OBVIOUS
  <1> HIDE DEF t, n, at
  <1>8. \A k \in 0 .. Len(s) : l.next[at(k)] = IF k = i THEN p[1] ELSE at(k + 1)
    <2> TAKE k \in 0 .. Len(s)
    <2>1. at(k) \in {h} \cup Range(s) /\ (at(k) = at(i) <=> k = i) /\ at(k) # p[n]
      BY <1>1, <1>2, <1>5
    <2> QED BY <2>1, <1>3, <1>7
  <1>9. \A k \in 1 .. Len(s) + 1 : l.prev[at(k)] = IF k = i + 1 THEN p[n] ELSE at(k - 1)
    <2> TAKE k \in 1 .. Len(s) + 1
    <2>1. at(k) \in {h} \cup Range(s) /\ (at(k) = at(i + 1) <=> k = i + 1) /\ at(k) # p[1]
      BY <1>1, <1>2, <1>5
    <2>2. m.prev[at(k - 1 + 1)] = at(k - 1) /\ k - 1 + 1 = k
      BY <1>3
    <2> QED BY <2>1, <2>2, <1>7
  <1>10. \A b \in 1 .. n : l.next[p[b]] = IF b = n THEN at(i + 1) ELSE p[b + 1]
    <2> TAKE b \in 1 .. n
    <2>0. n \in 1 .. n /\ i \in 0 .. Len(s) + 1
      BY <1>1
    <2>1. p[b] \in Range(p) /\ p[b] # at(i) /\ (p[b] = p[n] <=> b = n)
      BY <1>4, <1>5, <2>0
    <2>2. b # n => m.next[p[b]] = p[b + 1]
      BY <1>1, <1>6
    <2> QED BY <2>1, <2>2, <1>7
  <1>11. \A b \in 1 .. n : l.prev[p[b]] = IF b = 1 THEN at(i) ELSE p[b - 1]
    <2> TAKE b \in 1 .. n
    <2>0. 1 \in 1 .. n /\ i + 1 \in 0 .. Len(s) + 1
      BY <1>1
    <2>1. p[b] \in Range(p) /\ p[b] # at(i + 1) /\ (p[b] = p[1] <=> b = 1)
      BY <1>4, <1>5, <2>0
    <2>2. b # 1 => m.prev[p[b]] = p[b - 1]
      <3> SUFFICES ASSUME b # 1 PROVE m.prev[p[b]] = p[b - 1]
        OBVIOUS
      <3>1. m.prev[p[b - 1 + 1]] = p[b - 1] /\ b - 1 + 1 = b
        BY <1>1, <1>6
      <3> QED BY <3>1
    <2> QED BY <2>1, <2>2, <1>7
  <1>12. ASSUME NEW k \in 0 .. Len(t)
         PROVE  /\ l.next[Entry(h, t, k)] = Entry(h, t, k + 1)
                /\ l.prev[Entry(h, t, k + 1)] = Entry(h, t, k)
    <2>0. k \in 0 .. Len(t) + 1 /\ k + 1 \in 0 .. Len(t) + 1
      BY <1>1
    <2>1. CASE k < i
      <3>1. Entry(h, t, k) = at(k) /\ Entry(h, t, k + 1) = at(k + 1)
        BY <1>1, <2>0, <2>1
      <3>2. l.next[at(k)] = at(k + 1) /\ l.prev[at(k + 1)] = at(k + 1 - 1) /\ k + 1 - 1 = k
        BY <1>1, <1>8, <1>9, <2>1
      <3> QED BY <3>1, <3>2
    <2>2. CASE k = i
      <3>1. Entry(h, t, k) = at(i) /\ Entry(h, t, k + 1) = p[1]
        <4>1. k + 1 - i = 1 /\ ~(k + 1 <= i) /\ k + 1 <= i + n
          BY <1>1, <2>2
        <4> QED BY <1>1, <2>0, <2>2, <4>1
      <3>2. l.next[at(i)] = p[1] /\ l.prev[p[1]] = at(i)
        BY <1>1, <1>8, <1>11, <2>2
      <3> QED BY <3>1, <3>2
    <2>3. CASE k > i /\ k < i + n
      <3>1. Entry(h, t, k) = p[k - i] /\ Entry(h, t, k + 1) = p[k - i + 1]
        <4>1. k + 1 - i = k - i + 1 /\ ~(k + 1 <= i) /\ k + 1 <= i + n /\ ~(k <= i) /\ k <= i + n
          BY <1>1, <2>3
        <4> QED BY <1>1, <2>0, <4>1
      <3>2. k - i \in 1 .. n /\ k - i # n /\ k - i + 1 \in 1 .. n /\ k - i + 1 # 1
        BY <1>1, <2>3
      <3>3. l.next[p[k - i]] = p[k - i + 1] /\ l.prev[p[k - i + 1]] = p[k - i + 1 - 1]
        BY <1>10, <1>11, <3>2
      <3>4. k - i + 1 - 1 = k - i
        BY <1>1
      <3> QED BY <3>1, <3>3, <3>4
    <2>4. CASE k = i + n
      <3>1. Entry(h, t, k) = p[n] /\ Entry(h, t, k + 1) = at(i + 1)
        <4>1. k - i = n /\ ~(k <= i) /\ ~(k + 1 <= i) /\ ~(k + 1 <= i + n) /\ k + 1 - n = i + 1
          BY <1>1, <2>4
        <4> QED BY <1>1, <2>0, <2>4, <4>1
      <3>2. l.next[p[n]] = at(i + 1) /\ l.prev[at(i + 1)] = p[n]
        BY <1>1, <1>9, <1>10
      <3> QED BY <3>1, <3>2
    <2>5. CASE k > i + n
      <3>1. Entry(h, t, k) = at(k - n) /\ Entry(h, t, k + 1) = at(k - n + 1)
        <4>1. k + 1 - n = k - n + 1 /\ ~(k <= i) /\ ~(k + 1 <= i) /\ ~(k + 1 <= i + n) /\ ~(k <= i + n)
          BY <1>1, <2>5
        <4> QED BY <1>1, <2>0, <4>1
      <3>2. l.next[at(k - n)] = at(k - n + 1) /\ l.prev[at(k - n + 1)] = at(k - n)
        <4>1. k - n \in 0 .. Len(s) /\ k - n # i
          BY <1>1, <2>5
        <4>2. k - n + 1 \in 1 .. Len(s) + 1 /\ k - n + 1 # i + 1 /\ k - n + 1 - 1 = k - n
          BY <1>1, <2>5
        <4> QED BY <1>8, <1>9, <4>1, <4>2
      <3> QED BY <3>1, <3>2
    <2> QED BY <1>1, <2>1, <2>2, <2>3, <2>4, <2>5
  <1> QED BY <1>12 DEF t, Ring

(* The same names, as module Dlist has them. *)
LEMMA DlistNames ==
  /\ D!Addresses = Heads \cup Nodes
  /\ \A s : D!Range(s) = Range(s)
  /\ \A s, i, j : D!Without(s, i, j) = Without(s, i, j)
  /\ \A s, i, p : D!With(s, i, p) = With(s, i, p)
  /\ \A h, i : D!At(h, i) = Entry(h, lists[h], i)
  /\ \A h : D!Places(h) = 0 .. Len(lists[h])
  BY DEF D!Addresses, D!Range, Range, D!Without, Without, D!With, With, D!At, Entry, D!Places

(* What is in no list, nor in hand, may change. *)
LEMMA RingsKept ==
  ASSUME NEW m, NEW ls, NEW hd, RingsOK(m, ls, hd), NEW l \in Rings,
         \A x \in Heads \cup Nodes :
           x \in Heads \/ x \in Range(hd) \/ (\E h \in Heads : x \in Range(ls[h]))
             => l.next[x] = m.next[x] /\ l.prev[x] = m.prev[x]
  PROVE  RingsOK(l, ls, hd)
  <1>1. /\ ls \in [Heads -> Seq(Nodes)] /\ hd \in Seq(Nodes) /\ Apart(Heads, ls, hd)
        /\ \A h \in Heads : Ring(m, h, ls[h])
        /\ Linked(m, hd)
    BY DEF RingsOK
  <1>2. \A s \in Seq(Nodes) : Range(s) \subseteq Nodes
    BY Positions
  <1>3. Linked(l, hd)
    <2>1. \A x \in Range(hd) : l.next[x] = m.next[x] /\ l.prev[x] = m.prev[x]
      BY <1>1, <1>2
    <2> QED BY <1>1, <2>1, LinkedKept
  <1>4. ASSUME NEW h \in Heads PROVE Ring(l, h, ls[h])
    <2>1. ls[h] \in Seq(Nodes) /\ IsInjective(ls[h]) /\ h \notin Nodes
      BY <1>1, AddressAssumption DEF Apart
    <2>2. \A x \in {h} \cup Range(ls[h]) : l.next[x] = m.next[x] /\ l.prev[x] = m.prev[x]
      BY <1>2, <2>1
    <2> QED BY <1>1, <2>1, <2>2, RingKept
  <1> QED BY <1>1, <1>3, <1>4 DEF RingsOK

(* A portion that is in no list, nor in hand. *)
Loose(m, ls, hd, p) ==
  /\ p \in Seq(Nodes) /\ p # <<>> /\ IsInjective(p) /\ Linked(m, p)
  /\ Range(p) \cap Range(hd) = {}
  /\ \A g \in Heads : Range(ls[g]) \cap Range(p) = {}

(* A portion goes out of its list. *)
LEMMA RingsCut ==
  ASSUME NEW m, NEW ls, NEW hd, RingsOK(m, ls, hd),
         NEW h \in Heads, NEW i \in 1 .. Len(ls[h]), NEW j \in i .. Len(ls[h])
  PROVE  LET p == SubSeq(ls[h], i, j)
             after == [ls EXCEPT ![h] = Without(ls[h], i, j)]
             l == D!Link(m, Entry(h, ls[h], i - 1), Entry(h, ls[h], j + 1))
         IN  RingsOK(l, after, hd) /\ Loose(l, after, hd, p)
  <1> DEFINE s == ls[h]
             p == SubSeq(s, i, j)
             t == Without(s, i, j)
             after == [ls EXCEPT ![h] = t]
             a == Entry(h, s, i - 1)
             b == Entry(h, s, j + 1)
             l == D!Link(m, a, b)
  <1>1. /\ m \in Rings /\ hd \in Seq(Nodes)
        /\ ls \in [Heads -> Seq(Nodes)] /\ Apart(Heads, ls, hd)
        /\ \A g \in Heads : ls[g] \in Seq(Nodes) /\ IsInjective(ls[g]) /\ g \notin Nodes
        /\ \A g \in Heads : Ring(m, g, ls[g])
        /\ Linked(m, hd)
    BY AddressAssumption DEF RingsOK, Apart
  <1>2. /\ after \in [Heads -> Seq(Nodes)] /\ after[h] = t
        /\ \A g \in Heads \ {h} : after[g] = ls[g]
        /\ Apart(Heads, after, hd)
        /\ p \in Seq(Nodes) /\ p # <<>> /\ IsInjective(p) /\ Range(p) \cap Range(hd) = {}
        /\ \A g \in Heads : Range(after[g]) \cap Range(p) = {}
    <2>1. after \in [Heads -> Seq(Nodes)] /\ after[h] = t /\ Apart(Heads, after, hd)
      BY <1>1, CutApart
    <2>2. \A g \in Heads \ {h} : after[g] = ls[g]
      BY <1>1
    <2>3. p \in Seq(Nodes) /\ p # <<>> /\ IsInjective(p)
      <3>1. p \in Seq(Nodes) /\ p # <<>>
        <4>1. s \in Seq(Nodes)
          BY <1>1
        <4>2. p \in Seq(Nodes) /\ Len(p) = j - i + 1
          BY <4>1, PortionFacts
        <4>3. Len(p) # 0
          BY <4>2
        <4> HIDE DEF p
        <4> QED BY <4>2, <4>3
      <3>2. IsInjective(p)
        BY <1>1, WithoutDistinct
      <3> QED BY <3>1, <3>2
    <2>5. Range(p) \cap Range(hd) = {}
      BY <1>1, CutApart, ZenonT(30)
    <2>4. \A g \in Heads : Range(after[g]) \cap Range(p) = {}
      BY <1>1, CutApart
    <2> QED BY <2>1, <2>2, <2>3, <2>4, <2>5
  <1>3. a \in {h} \cup Range(s) /\ b \in {h} \cup Range(s)
    <2>1. i - 1 \in 0 .. Len(s) + 1 /\ j + 1 \in 0 .. Len(s) + 1
      BY <1>1
    <2> QED BY <1>1, <2>1, EntryDistinct
  <1>4. \A r \in Seq(Nodes) : Range(r) \subseteq Nodes
    BY Positions
  <1>5. a \in Heads \cup Nodes /\ b \in Heads \cup Nodes
    BY <1>1, <1>3, <1>4
  <1>6. /\ l \in Rings
        /\ \A x \in Heads \cup Nodes :
             /\ l.next[x] = IF x = a THEN b ELSE m.next[x]
             /\ l.prev[x] = IF x = b THEN a ELSE m.prev[x]
    <2>1. LinkedIn(l, m, a, b)
      BY <1>1, <1>5, LinkFacts
    <2> QED BY <2>1 DEF LinkedIn
  <1> HIDE DEF l, after
  <1>7. \A x \in Heads \cup Nodes :
          x \notin {h} \cup Range(s) => l.next[x] = m.next[x] /\ l.prev[x] = m.prev[x]
    BY <1>3, <1>6
  <1>8. Ring(l, h, t) /\ Linked(l, p)
    <2>1. \A x \in {h} \cup Range(s) : x \in Heads \cup Nodes
      BY <1>1, <1>4
    <2>2. \A x \in {h} \cup Range(s) :
            /\ l.next[x] = IF x = Entry(h, s, i - 1) THEN Entry(h, s, j + 1) ELSE m.next[x]
            /\ l.prev[x] = IF x = Entry(h, s, j + 1) THEN Entry(h, s, i - 1) ELSE m.prev[x]
      BY <1>6, <2>1
    <2> HIDE DEF a, b, t, p
    <2> QED BY <1>1, <2>2, RingCut, ZenonT(30) DEF t, p
  <1>9. ASSUME NEW g \in Heads PROVE Ring(l, g, after[g])
    <2>1. CASE g = h
      BY <1>2, <1>8, <2>1
    <2>2. CASE g # h
      <3>1. Range(ls[g]) \cap Range(s) = {} /\ g \notin Nodes /\ Range(s) \subseteq Nodes
        BY <1>1, <1>4, <2>2 DEF Apart
      <3>2. \A x \in {g} \cup Range(ls[g]) : x \in Heads \cup Nodes /\ x \notin {h} \cup Range(s)
        BY <1>1, <1>4, <2>2, <3>1
      <3>3. \A x \in {g} \cup Range(ls[g]) : l.next[x] = m.next[x] /\ l.prev[x] = m.prev[x]
        BY <1>7, <3>2
      <3>4. Ring(l, g, ls[g])
        BY <1>1, <3>3, RingKept
      <3> QED BY <1>2, <2>2, <3>4
    <2> QED BY <2>1, <2>2
  <1>10. Linked(l, hd)
    <2>1. Range(s) \cap Range(hd) = {} /\ Range(hd) \subseteq Nodes
      BY <1>1, <1>4 DEF Apart
    <2>2. \A x \in Range(hd) : l.next[x] = m.next[x] /\ l.prev[x] = m.prev[x]
      BY <1>1, <1>7, <2>1
    <2> QED BY <1>1, <2>2, LinkedKept
  <1>11. Loose(l, after, hd, p)
    BY <1>2, <1>8 DEF Loose
  <1>12. RingsOK(l, after, hd)
    BY <1>1, <1>2, <1>6, <1>9, <1>10 DEF RingsOK
  <1> QED BY <1>11, <1>12 DEF l, after


(* A portion that is in no list joins one. *)
LEMMA RingsJoin ==
  ASSUME NEW m, NEW ls, NEW hd, RingsOK(m, ls, hd),
         NEW p, Loose(m, ls, hd, p),
         NEW h \in Heads, NEW i \in 0 .. Len(ls[h]), NEW a, NEW b, NEW l,
         a = Entry(h, ls[h], i), b = Entry(h, ls[h], i + 1),
         l \in {D!Link(D!Link(m, a, p[1]), p[Len(p)], b),
                D!Link(D!Link(m, p[Len(p)], b), a, p[1])}
  PROVE  RingsOK(l, [ls EXCEPT ![h] = With(ls[h], i, p)], hd)
  <1> DEFINE s == ls[h]
             t == With(s, i, p)
             after == [ls EXCEPT ![h] = t]
  <1>0. /\ p \in Seq(Nodes) /\ p # <<>> /\ IsInjective(p) /\ Linked(m, p)
        /\ Range(p) \cap Range(hd) = {} /\ \A g \in Heads : Range(ls[g]) \cap Range(p) = {}
    BY DEF Loose
  <1>1. /\ m \in Rings /\ hd \in Seq(Nodes)
        /\ ls \in [Heads -> Seq(Nodes)] /\ Apart(Heads, ls, hd)
        /\ \A g \in Heads : ls[g] \in Seq(Nodes) /\ IsInjective(ls[g]) /\ g \notin Nodes
        /\ \A g \in Heads : Ring(m, g, ls[g])
        /\ Linked(m, hd)
    BY AddressAssumption DEF RingsOK, Apart
  <1>2. /\ after \in [Heads -> Seq(Nodes)] /\ after[h] = t
        /\ \A g \in Heads \ {h} : after[g] = ls[g]
        /\ Apart(Heads, after, hd)
    <2>1. after \in [Heads -> Seq(Nodes)] /\ after[h] = t /\ \A g \in Heads \ {h} : after[g] = ls[g]
      <3>1. t \in Seq(Nodes)
        BY <1>0, <1>1, WithFacts
      <3> HIDE DEF t
      <3> QED BY <1>1, <3>1
    <2>2. Apart(Heads, after, hd)
      BY <1>0, <1>1, JoinApart
    <2> QED BY <2>1, <2>2
  <1>3. a \in {h} \cup Range(s) /\ b \in {h} \cup Range(s)
    <2>1. i \in 0 .. Len(s) + 1 /\ i + 1 \in 0 .. Len(s) + 1
      BY <1>1
    <2> QED BY <1>1, <2>1, EntryDistinct
  <1>4. \A r \in Seq(Nodes) : Range(r) \subseteq Nodes
    BY Positions
  <1>5. p[1] \in Range(p) /\ p[Len(p)] \in Range(p)
    <2>1. 1 \in 1 .. Len(p) /\ Len(p) \in 1 .. Len(p)
      BY <1>0
    <2> QED BY <1>0, <2>1, Positions
  <1>6. /\ a \in Heads \cup Nodes /\ b \in Heads \cup Nodes
        /\ p[1] \in Nodes /\ p[Len(p)] \in Nodes
        /\ Range(p) \subseteq Nodes /\ h \notin Nodes
        /\ Range(s) \cap Range(p) = {} /\ a # p[Len(p)] /\ b # p[1]
    BY <1>0, <1>1, <1>3, <1>4, <1>5
  <1>7. /\ l \in Rings
        /\ \A x \in Heads \cup Nodes :
             /\ l.next[x] = IF x = a THEN p[1] ELSE IF x = p[Len(p)] THEN b ELSE m.next[x]
             /\ l.prev[x] = IF x = p[1] THEN a ELSE IF x = b THEN p[Len(p)] ELSE m.prev[x]
    <2>1. JoinedIn(l, m, a, p[1], p[Len(p)], b)
      BY <1>1, <1>6, JoinLinks
    <2> QED BY <2>1 DEF JoinedIn
  <1> HIDE DEF after
  <1>8. \A x \in Heads \cup Nodes :
          x \notin {h} \cup Range(s) \cup Range(p)
            => l.next[x] = m.next[x] /\ l.prev[x] = m.prev[x]
    BY <1>3, <1>5, <1>7
  <1>9. Ring(l, h, t)
    <2>1. \A x \in {h} \cup Range(s) \cup Range(p) : x \in Heads \cup Nodes
      BY <1>1, <1>4, <1>6
    <2>2. \A x \in {h} \cup Range(s) \cup Range(p) :
           /\ l.next[x] = IF x = Entry(h, s, i) THEN p[1]
                          ELSE IF x = p[Len(p)] THEN Entry(h, s, i + 1)
                          ELSE m.next[x]
           /\ l.prev[x] = IF x = p[1] THEN Entry(h, s, i)
                          ELSE IF x = Entry(h, s, i + 1) THEN p[Len(p)]
                          ELSE m.prev[x]
      BY <1>7, <2>1
    <2> HIDE DEF t
    <2>3. s \in Seq(Nodes) /\ IsInjective(s) /\ h \notin Nodes /\ Ring(m, h, s)
      BY <1>1
    <2>4. i \in 0 .. Len(s) /\ Range(s) \cap Range(p) = {}
      BY <1>6
    <2> HIDE DEF s
    <2> QED BY <1>0, <2>2, <2>3, <2>4, RingJoin, Zenon DEF t
  <1>10. ASSUME NEW g \in Heads PROVE Ring(l, g, after[g])
    <2>1. CASE g = h
      BY <1>2, <1>9, <2>1
    <2>2. CASE g # h
      <3>1. /\ Range(ls[g]) \cap Range(s) = {} /\ g \notin Nodes
            /\ Range(s) \subseteq Nodes /\ Range(ls[g]) \cap Range(p) = {}
        BY <1>0, <1>1, <1>4, <2>2 DEF Apart
      <3>2. \A x \in {g} \cup Range(ls[g]) :
              x \in Heads \cup Nodes /\ x \notin {h} \cup Range(s) \cup Range(p)
        BY <1>1, <1>4, <1>6, <2>2, <3>1
      <3>3. \A x \in {g} \cup Range(ls[g]) : l.next[x] = m.next[x] /\ l.prev[x] = m.prev[x]
        BY <1>8, <3>2
      <3>4. Ring(l, g, ls[g])
        BY <1>1, <3>3, RingKept
      <3> QED BY <1>2, <2>2, <3>4
    <2> QED BY <2>1, <2>2
  <1>11. Linked(l, hd)
    <2>1. Range(s) \cap Range(hd) = {} /\ Range(hd) \subseteq Nodes
      BY <1>1, <1>4 DEF Apart
    <2>2. \A x \in Range(hd) : l.next[x] = m.next[x] /\ l.prev[x] = m.prev[x]
      BY <1>0, <1>1, <1>4, <1>8, <2>1
    <2> QED BY <1>1, <2>2, LinkedKept
  <1> QED BY <1>1, <1>2, <1>7, <1>9, <1>10, <1>11 DEF RingsOK, after


(* A portion joins a list after a node, or before one. *)
JoinedAfter(m, at, p) ==
  {D!Link(D!Link(m, at, p[1]), p[Len(p)], m.next[at]),
   D!Link(D!Link(m, p[Len(p)], m.next[at]), at, p[1])}

JoinedBefore(m, at, p) == {D!Link(D!Link(m, m.prev[at], p[1]), p[Len(p)], at)}

LEMMA RingsJoinAt ==
  ASSUME NEW m, NEW ls, NEW hd, RingsOK(m, ls, hd), NEW p, Loose(m, ls, hd, p),
         NEW h \in Heads, NEW i \in 0 .. Len(ls[h]),
         NEW l \in JoinedAfter(m, Entry(h, ls[h], i), p) \cup JoinedBefore(m, Entry(h, ls[h], i + 1), p)
  PROVE  RingsOK(l, [ls EXCEPT ![h] = With(ls[h], i, p)], hd)
  <1> DEFINE a == Entry(h, ls[h], i)
             b == Entry(h, ls[h], i + 1)
  <1>1. m.next[a] = b /\ m.prev[b] = a
    BY DEF RingsOK, Ring
  <1>2. l \in {D!Link(D!Link(m, a, p[1]), p[Len(p)], b),
               D!Link(D!Link(m, p[Len(p)], b), a, p[1])}
    BY <1>1 DEF JoinedAfter, JoinedBefore
  <1> QED BY <1>2, RingsJoin

(* What a portion in hand adds to the rest. *)
LEMMA InHand ==
  ASSUME NEW m, NEW ls, NEW p, p # <<>>
  PROVE  RingsOK(m, ls, p) <=> RingsOK(m, ls, <<>>) /\ Loose(m, ls, <<>>, p)
  <1>1. /\ <<>> \in Seq(Nodes) /\ IsInjective(<<>>) /\ Range(<<>>) = {}
        /\ Linked(m, <<>>)
    BY NoNode DEF Linked
  <1> QED BY <1>1 DEF RingsOK, Apart, Loose

(* Where the place k of a list g is once a portion is cut out of h: what  *)
(* it is after, or before, is still there if it is not in the portion.    *)
Shifted(i, j, k) == IF k < i THEN k ELSE k - (j - i + 1)

StillThere(h, s, i, j, k) ==
  LET t == Without(s, i, j)
      to == Shifted(i, j, k)
  IN  /\ k \notin i .. j => to \in 0 .. Len(t) /\ Entry(h, s, k) = Entry(h, t, to)
      /\ k + 1 \notin i .. j => to \in 0 .. Len(t) /\ Entry(h, s, k + 1) = Entry(h, t, to + 1)

LEMMA EntryCut ==
  ASSUME NEW X, NEW s \in Seq(X), NEW h, NEW i \in 1 .. Len(s), NEW j \in i .. Len(s),
         NEW k \in 0 .. Len(s)
  PROVE  StillThere(h, s, i, j, k)
  <1> DEFINE t == Without(s, i, j)
             n == j - i + 1
             to == Shifted(i, j, k)
  <1>1. /\ Len(s) \in Nat /\ n \in Nat /\ Len(t) = Len(s) - n
        /\ \A e \in 0 .. Len(t) + 1 :
             Entry(h, t, e) = IF e < i THEN Entry(h, s, e) ELSE Entry(h, s, e + n)
    <2>1. Len(s) \in Nat /\ n \in Nat
      OBVIOUS
    <2>2. /\ Len(t) = Len(s) - n
          /\ \A e \in 0 .. Len(t) + 1 :
               Entry(h, t, e) = IF e < i THEN Entry(h, s, e) ELSE Entry(h, s, e + n)
      BY EntryWithout
    <2> QED BY <2>1, <2>2
  <1> HIDE DEF t, to
  <1>2. CASE k < i
    <2>1. to = k
      BY <1>2 DEF Shifted, to
    <2>2. k \in 0 .. Len(t) /\ k \in 0 .. Len(t) + 1 /\ k + 1 \in 0 .. Len(t) + 1
      BY <1>1, <1>2
    <2>3. k + 1 \notin i .. j => k + 1 < i
      BY <1>1, <1>2
    <2> QED BY <1>1, <1>2, <2>1, <2>2, <2>3 DEF t, to, StillThere
  <1>3. CASE ~(k < i)
    <2>1. to = k - n
      BY <1>3 DEF Shifted, to
    <2>2. k \notin i .. j \/ k + 1 \notin i .. j =>
            to \in 0 .. Len(t) /\ to \in 0 .. Len(t) + 1 /\ to + 1 \in 0 .. Len(t) + 1
      BY <1>1, <1>3, <2>1
    <2>3. /\ k \notin i .. j => ~(to < i) /\ to + n = k
          /\ k + 1 \notin i .. j => ~(to + 1 < i) /\ to + 1 + n = k + 1
      BY <1>1, <1>3, <2>1
    <2>4. k \notin i .. j => Entry(h, t, to) = Entry(h, s, to + n)
      BY <1>1, <2>2, <2>3
    <2>5. k + 1 \notin i .. j => Entry(h, t, to + 1) = Entry(h, s, to + 1 + n)
      BY <1>1, <2>2, <2>3
    <2> QED BY <2>2, <2>3, <2>4, <2>5 DEF t, to, StillThere
  <1> QED BY <1>2, <1>3 DEF t

(* A portion goes to another place, looked up once it is out of its list: *)
(* after the place k, or before the one that follows it.                  *)
MovedIn(l, m, ls, h, i, j, g, k) ==
  LET p == SubSeq(ls[h], i, j)
      out == D!Link(m, Entry(h, ls[h], i - 1), Entry(h, ls[h], j + 1))
  IN  \/ (g # h \/ k \notin i .. j) /\ l \in JoinedAfter(out, Entry(g, ls[g], k), p)
      \/ (g # h \/ k + 1 \notin i .. j) /\ l \in JoinedBefore(out, Entry(g, ls[g], k + 1), p)

MovedLists(ls, h, i, j, g, k) ==
  LET rest == [ls EXCEPT ![h] = Without(ls[h], i, j)]
      to == IF g = h THEN Shifted(i, j, k) ELSE k
  IN  [rest EXCEPT ![g] = With(rest[g], to, SubSeq(ls[h], i, j))]

LEMMA RingsMove ==
  ASSUME NEW m, NEW ls, NEW hd, RingsOK(m, ls, hd),
         NEW h \in Heads, NEW i \in 1 .. Len(ls[h]), NEW j \in i .. Len(ls[h]),
         NEW g \in Heads, NEW k \in 0 .. Len(ls[g]),
         NEW l, MovedIn(l, m, ls, h, i, j, g, k)
  PROVE  RingsOK(l, MovedLists(ls, h, i, j, g, k), hd)
  <1> DEFINE p == SubSeq(ls[h], i, j)
             out == D!Link(m, Entry(h, ls[h], i - 1), Entry(h, ls[h], j + 1))
             rest == [ls EXCEPT ![h] = Without(ls[h], i, j)]
             to == IF g = h THEN Shifted(i, j, k) ELSE k
  <1>1. RingsOK(out, rest, hd) /\ Loose(out, rest, hd, p)
    BY RingsCut
  <1>2. ls \in [Heads -> Seq(Nodes)] /\ k \in Int
    BY DEF RingsOK
  <1>3. /\ rest[h] = Without(ls[h], i, j) /\ (g # h => rest[g] = ls[g])
        /\ ls[h] \in Seq(Nodes)
    BY <1>2
  <1> HIDE DEF p, out, rest
  <1>4. /\ g # h \/ k \notin i .. j =>
             to \in 0 .. Len(rest[g]) /\ Entry(g, ls[g], k) = Entry(g, rest[g], to)
        /\ g # h \/ k + 1 \notin i .. j =>
             to \in 0 .. Len(rest[g]) /\ Entry(g, ls[g], k + 1) = Entry(g, rest[g], to + 1)
    <2>1. CASE g # h
      BY <1>3, <2>1
    <2>2. CASE g = h
      <3>1. k \in 0 .. Len(ls[h]) /\ to = Shifted(i, j, k) /\ rest[g] = Without(ls[h], i, j)
        BY <1>3, <2>2
      <3>2. StillThere(h, ls[h], i, j, k)
        BY <1>3, <3>1, EntryCut
      <3> QED BY <2>2, <3>1, <3>2 DEF StillThere
    <2> QED BY <2>1, <2>2
  <1> HIDE DEF to
  <1>5. /\ to \in 0 .. Len(rest[g])
        /\ l \in JoinedAfter(out, Entry(g, rest[g], to), p)
             \cup JoinedBefore(out, Entry(g, rest[g], to + 1), p)
    BY <1>4 DEF MovedIn, p, out
  <1>6. RingsOK(l, [rest EXCEPT ![g] = With(rest[g], to, p)], hd)
    BY <1>1, <1>5, RingsJoinAt
  <1> QED BY <1>6 DEF MovedLists, p, rest, to


(* A node that joins is a portion of its own. *)
LEMMA LooseNode ==
  ASSUME NEW m, NEW ls \in [Heads -> Seq(Nodes)], NEW hd \in Seq(Nodes), NEW n \in Nodes,
         n \notin Range(hd), \A h \in Heads : n \notin Range(ls[h])
  PROVE  Loose(m, ls, hd, <<n>>)
  <1>1. /\ <<n>> \in Seq(Nodes) /\ Len(<<n>>) = 1 /\ <<n>> # <<>>
        /\ IsInjective(<<n>>) /\ Range(<<n>>) = {n}
    BY SingleNode
  <1>2. Linked(m, <<n>>)
    BY <1>1 DEF Linked
  <1> QED BY <1>1, <1>2 DEF Loose

(* A node that is forgotten, or initialised, changes nothing else. *)
LEMMA Discarded ==
  ASSUME NEW m \in Rings, NEW n \in Nodes,
         NEW l \in {D!Forgotten(m, {n}), D!Initialised(m, n)}
  PROVE  /\ l \in Rings
         /\ \A x \in Heads \cup Nodes :
              x # n => l.next[x] = m.next[x] /\ l.prev[x] = m.prev[x]
  <1>1. CASE l = D!Forgotten(m, {n})
    BY <1>1 DEF D!Forgotten, Rings, D!Addresses
  <1>2. CASE l = D!Initialised(m, n)
    BY <1>2 DEF D!Initialised, Rings, D!Addresses
  <1> QED BY <1>1, <1>2

LEMMA RingsDiscarded ==
  ASSUME NEW m, NEW ls, NEW hd, RingsOK(m, ls, hd), NEW n \in Nodes,
         n \notin Range(hd), \A h \in Heads : n \notin Range(ls[h]),
         NEW l \in {D!Forgotten(m, {n}), D!Initialised(m, n)}
  PROVE  RingsOK(l, ls, hd)
  <1>1. m \in Rings
    BY DEF RingsOK
  <1>2. /\ l \in Rings
        /\ \A x \in Heads \cup Nodes :
             x # n => l.next[x] = m.next[x] /\ l.prev[x] = m.prev[x]
    BY <1>1, Discarded
  <1>3. n \notin Heads
    BY AddressAssumption
  <1> QED BY <1>2, <1>3, RingsKept

-----------------------------------------------------------------------------
(* The calls of module Dlist. *)

RingsNow == RingsOK(mem, lists, hand)

LEMMA DFree ==
  ASSUME NEW n \in Nodes, D!Free(n)
  PROVE  n \notin Range(hand) /\ \A h \in Heads : n \notin Range(lists[h])
  BY DlistNames DEF D!Free, D!InLists

LEMMA DInitNode ==
  ASSUME RingsNow, NEW n \in Nodes, D!InitNode(n)
  PROVE  RingsNow'
  <1>1. n \notin Range(hand) /\ \A h \in Heads : n \notin Range(lists[h])
    BY DFree DEF D!InitNode
  <1>2. mem' \in {D!Forgotten(mem, {n}), D!Initialised(mem, n)} /\ lists' = lists /\ hand' = hand
    BY DEF D!InitNode
  <1> QED BY <1>1, <1>2, RingsDiscarded DEF RingsNow

LEMMA DInsert ==
  ASSUME RingsNow, NEW h \in Heads, NEW i \in 0 .. Len(lists[h]), NEW n \in Nodes,
         D!Insert(h, i, n)
  PROVE  RingsNow'
  <1>1. Loose(mem, lists, hand, <<n>>)
    BY DFree, LooseNode DEF D!Insert, RingsNow, RingsOK
  <1>2. <<n>>[1] = n /\ <<n>>[Len(<<n>>)] = n
    OBVIOUS
  <1>3. mem' \in JoinedAfter(mem, Entry(h, lists[h], i), <<n>>)
                   \cup JoinedBefore(mem, Entry(h, lists[h], i + 1), <<n>>)
    BY <1>2, DlistNames
       DEF D!Insert, D!InsertBefore, D!AppendAfter, D!Inject, JoinedAfter, JoinedBefore
  <1>4. lists' = [lists EXCEPT ![h] = With(lists[h], i, <<n>>)] /\ hand' = hand
    BY DlistNames DEF D!Insert
  <1> QED BY <1>1, <1>3, <1>4, RingsJoinAt DEF RingsNow

LEMMA DEmbed ==
  ASSUME RingsNow, NEW h \in Heads, NEW i \in 0 .. Len(lists[h]), D!Embed(h, i)
  PROVE  RingsNow'
  <1>1. RingsOK(mem, lists, <<>>) /\ Loose(mem, lists, <<>>, hand)
    BY InHand DEF RingsNow, D!Embed
  <1>2. mem' \in JoinedAfter(mem, Entry(h, lists[h], i), hand)
                   \cup JoinedBefore(mem, Entry(h, lists[h], i + 1), hand)
    BY DlistNames DEF D!Embed, D!EmbedBefore, D!EmbedAfter, JoinedAfter, JoinedBefore
  <1>3. lists' = [lists EXCEPT ![h] = With(lists[h], i, hand)] /\ hand' = <<>>
    BY DlistNames DEF D!Embed
  <1> QED BY <1>1, <1>2, <1>3, RingsJoinAt DEF RingsNow

(* What withdrawing nodes i to j of a list does to the memory. *)
LEMMA DWithdraw ==
  ASSUME RingsNow, NEW h \in Heads, NEW i \in 1 .. Len(lists[h]), NEW j \in i .. Len(lists[h])
  PROVE  D!Withdraw(mem, lists[h][i], lists[h][j]) =
           D!Link(mem, Entry(h, lists[h], i - 1), Entry(h, lists[h], j + 1))
  <1> DEFINE s == lists[h]
  <1>1. Ring(mem, h, s) /\ Len(s) \in Nat
    BY DEF RingsNow, RingsOK
  <1> HIDE DEF s
  <1>2. /\ i - 1 \in 0 .. Len(s) /\ j \in 0 .. Len(s) /\ i - 1 + 1 = i
        /\ i \in 1 .. Len(s) /\ j \in 1 .. Len(s)
    BY <1>1 DEF s
  <1>3. mem.prev[Entry(h, s, i - 1 + 1)] = Entry(h, s, i - 1)
        /\ mem.next[Entry(h, s, j)] = Entry(h, s, j + 1)
    BY <1>1, <1>2 DEF Ring
  <1>4. Entry(h, s, i) = s[i] /\ Entry(h, s, j) = s[j]
    BY <1>2 DEF Entry
  <1>5. mem.prev[s[i]] = Entry(h, s, i - 1) /\ mem.next[s[j]] = Entry(h, s, j + 1)
    BY <1>2, <1>3, <1>4
  <1> QED BY <1>5 DEF D!Withdraw, s

LEMMA DWithdrawPortion ==
  ASSUME RingsNow, NEW h \in Heads, NEW i \in 1 .. Len(lists[h]), NEW j \in i .. Len(lists[h]),
         D!WithdrawPortion(h, i, j)
  PROVE  RingsNow'
  <1> DEFINE p == SubSeq(lists[h], i, j)
             after == [lists EXCEPT ![h] = Without(lists[h], i, j)]
  <1>1. RingsOK(mem, lists, <<>>)
    BY DEF RingsNow, D!WithdrawPortion
  <1>2. mem' = D!Link(mem, Entry(h, lists[h], i - 1), Entry(h, lists[h], j + 1))
    BY DWithdraw DEF D!WithdrawPortion
  <1>3. lists' = after /\ hand' = p
    BY DlistNames DEF D!WithdrawPortion
  <1>4. RingsOK(mem', after, <<>>) /\ Loose(mem', after, <<>>, p)
    BY <1>1, <1>2, RingsCut
  <1> HIDE DEF p, after
  <1>5. p # <<>>
    BY <1>4 DEF Loose
  <1> QED BY <1>3, <1>4, <1>5, InHand DEF RingsNow


LEMMA DInitHead ==
  ASSUME RingsNow, NEW h \in Heads, D!InitHead(h)
  PROVE  RingsNow'
  <1> DEFINE s == lists[h]
             after == [lists EXCEPT ![h] = <<>>]
  <1>1. /\ mem \in Rings /\ lists \in [Heads -> Seq(Nodes)] /\ Apart(Heads, lists, hand)
        /\ hand \in Seq(Nodes) /\ Linked(mem, hand)
        /\ \A g \in Heads : lists[g] \in Seq(Nodes) /\ IsInjective(lists[g]) /\ g \notin Nodes
        /\ \A g \in Heads : Ring(mem, g, lists[g])
    BY AddressAssumption DEF RingsNow, RingsOK, Apart
  <1>2. <<>> \in Seq(Nodes) /\ IsInjective(<<>>) /\ Range(<<>>) = {} /\ Len(<<>>) = 0
    BY NoNode
  <1>3. \A r \in Seq(Nodes) : Range(r) \subseteq Nodes
    BY Positions
  <1>4. Apart(Heads, after, hand) /\ after \in [Heads -> Seq(Nodes)]
    <2>1. /\ Range(<<>>) \cap Range(hand) = {}
          /\ \A g \in Heads \ {h} : Range(lists[g]) \cap Range(<<>>) = {}
      BY <1>2
    <2> QED BY <1>1, <1>2, <2>1, ChangeApart
  <1>5. /\ lists' = after /\ hand' = hand
        /\ after[h] = <<>> /\ \A g \in Heads \ {h} : after[g] = lists[g]
    BY <1>1 DEF D!InitHead
  <1> HIDE DEF after
  <1>6. /\ mem' \in Rings
        /\ mem'.next[h] = h /\ mem'.prev[h] = h
        /\ \A x \in Heads \cup Nodes :
             x # h /\ x \notin Range(s) => mem'.next[x] = mem.next[x] /\ mem'.prev[x] = mem.prev[x]
    <2>1. mem' = D!Forgotten(D!Initialised(mem, h), Range(s)) /\ h \notin Range(s)
      BY <1>1, <1>3, DlistNames DEF D!InitHead
    <2> QED BY <1>1, <2>1 DEF D!Forgotten, D!Initialised, Rings, D!Addresses
  <1>7. ASSUME NEW g \in Heads PROVE Ring(mem', g, after[g])
    <2>1. CASE g = h
      BY <1>2, <1>5, <1>6, <2>1 DEF Ring, Entry
    <2>2. CASE g # h
      <3>1. /\ Range(lists[g]) \cap Range(s) = {} /\ Range(lists[g]) \subseteq Nodes
            /\ Range(s) \subseteq Nodes
        BY <1>1, <1>3, <2>2 DEF Apart
      <3>2. \A x \in {g} \cup Range(lists[g]) : x \in Heads \cup Nodes /\ x # h /\ x \notin Range(s)
        BY <1>1, <2>2, <3>1
      <3>3. Ring(mem', g, lists[g])
        BY <1>1, <1>6, <3>2, RingKept
      <3> QED BY <1>5, <2>2, <3>3
    <2> QED BY <2>1, <2>2
  <1>8. Linked(mem', hand)
    <2>1. \A x \in Range(hand) : x \in Heads \cup Nodes /\ x # h /\ x \notin Range(s)
      BY <1>1, <1>3 DEF Apart
    <2> QED BY <1>1, <1>6, <2>1, LinkedKept
  <1> QED BY <1>1, <1>4, <1>5, <1>6, <1>7, <1>8 DEF RingsNow, RingsOK

LEMMA DRemove ==
  ASSUME RingsNow, NEW h \in Heads, NEW i \in 1 .. Len(lists[h]), D!Remove(h, i)
  PROVE  RingsNow'
  <1> DEFINE s == lists[h]
             p == SubSeq(s, i, i)
             after == [lists EXCEPT ![h] = Without(s, i, i)]
             out == D!Withdraw(mem, s[i], s[i])
  <1>1. i \in i .. Len(s)
    OBVIOUS
  <1>2. RingsOK(out, after, hand) /\ Loose(out, after, hand, p)
    BY <1>1, DWithdraw, RingsCut DEF RingsNow
  <1>3. s[i] \in Nodes /\ s[i] \in Range(p) /\ s \in Seq(Nodes)
    <2>1. s \in Seq(Nodes) /\ s[i] \in Nodes
      BY DEF RingsNow, RingsOK
    <2>2. p \in Seq(Nodes) /\ Len(p) = i - i + 1 /\ \A k \in 1 .. Len(p) : p[k] = s[i + k - 1]
      BY <1>1, <2>1, PortionFacts
    <2> HIDE DEF s, p
    <2>3. 1 \in 1 .. Len(p) /\ i + 1 - 1 = i
      BY <2>2
    <2>4. p[1] = s[i]
      BY <2>2, <2>3
    <2> QED BY <2>1, <2>2, <2>3, <2>4, Positions
  <1>4. s[i] \notin Range(hand) /\ \A g \in Heads : s[i] \notin Range(after[g])
    BY <1>2, <1>3 DEF Loose
  <1>5. mem' \in {D!Forgotten(out, {s[i]}), D!Initialised(out, s[i])}
    BY DEF D!Remove, D!RemoveNode
  <1>6. lists' = after /\ hand' = hand
    BY DlistNames DEF D!Remove
  <1> HIDE DEF s, after, out
  <1> QED BY <1>2, <1>3, <1>4, <1>5, <1>6, RingsDiscarded DEF RingsNow

(* Moving a portion, be it of a single node. *)
LEMMA DMoved ==
  ASSUME NEW h \in Heads, NEW i \in 1 .. Len(lists[h]), NEW j \in i .. Len(lists[h]),
         NEW g \in Heads, NEW k \in 0 .. Len(lists[g]), lists \in [Heads -> Seq(Nodes)]
  PROVE  D!Moved(h, i, j, g, k) = MovedLists(lists, h, i, j, g, k)
  <1> DEFINE p == SubSeq(lists[h], i, j)
             t == Without(lists[h], i, j)
             rest == [lists EXCEPT ![h] = t]
  <1>1. Len(p) = j - i + 1
    BY PortionFacts
  <1>2. D!Moved(h, i, j, g, k) =
          IF g # h THEN [lists EXCEPT ![h] = t, ![g] = With(@, k, p)]
          ELSE [lists EXCEPT ![h] = With(t, IF k < i THEN k ELSE k - Len(p), p)]
    BY DlistNames DEF D!Moved
  <1> HIDE DEF p, t
  <1>3. CASE g # h
    BY <1>2, <1>3 DEF p, t, MovedLists
  <1>4. CASE g = h
    BY <1>1, <1>2, <1>4 DEF p, t, Shifted, MovedLists
  <1> QED BY <1>3, <1>4

LEMMA DMovedTo ==
  ASSUME RingsNow, NEW h \in Heads, NEW i \in 1 .. Len(lists[h]), NEW j \in i .. Len(lists[h]),
         NEW g \in Heads, NEW k \in 0 .. Len(lists[g]),
         MovedIn(mem', mem, lists, h, i, j, g, k),
         hand' = hand, lists' = D!Moved(h, i, j, g, k)
  PROVE  RingsNow'
  <1>1. RingsOK(mem, lists, hand) /\ lists \in [Heads -> Seq(Nodes)]
    BY DEF RingsNow, RingsOK
  <1>2. lists' = MovedLists(lists, h, i, j, g, k)
    BY <1>1, DMoved
  <1>3. RingsOK(mem', MovedLists(lists, h, i, j, g, k), hand)
    BY <1>1, RingsMove
  <1> QED BY <1>2, <1>3 DEF RingsNow

(* The ends of a portion. *)
LEMMA PortionEnds ==
  ASSUME RingsNow, NEW h \in Heads, NEW i \in 1 .. Len(lists[h]), NEW j \in i .. Len(lists[h])
  PROVE  LET p == SubSeq(lists[h], i, j)
         IN  p[1] = lists[h][i] /\ p[Len(p)] = lists[h][j]
  <1> DEFINE p == SubSeq(lists[h], i, j)
  <1>1. lists[h] \in Seq(Nodes)
    BY DEF RingsNow, RingsOK
  <1>2. Len(p) = j - i + 1 /\ \A e \in 1 .. Len(p) : p[e] = lists[h][i + e - 1]
    BY <1>1, PortionFacts
  <1> HIDE DEF p
  <1>3. 1 \in 1 .. Len(p) /\ Len(p) \in 1 .. Len(p) /\ i + 1 - 1 = i /\ i + Len(p) - 1 = j
    BY <1>1, <1>2
  <1>4. p[1] = lists[h][i] /\ p[Len(p)] = lists[h][j]
    BY <1>2, <1>3
  <1> QED BY <1>4 DEF p

LEMMA DMove ==
  ASSUME RingsNow, NEW h \in Heads, NEW i \in 1 .. Len(lists[h]),
         NEW g \in Heads, NEW k \in 0 .. Len(lists[g]), D!Move(h, i, g, k)
  PROVE  RingsNow'
  <1> DEFINE p == SubSeq(lists[h], i, i)
             n == lists[h][i]
             out == D!Withdraw(mem, n, n)
  <1>1. i \in i .. Len(lists[h])
    OBVIOUS
  <1>2. p[1] = n /\ p[Len(p)] = n
    BY <1>1, PortionEnds
  <1> HIDE DEF p, out
  <1>3. /\ D!MovedAfter(mem, D!At(g, k), n) \in JoinedAfter(out, Entry(g, lists[g], k), p)
        /\ D!MovedBefore(mem, D!At(g, k + 1), n) \in JoinedBefore(out, Entry(g, lists[g], k + 1), p)
    BY <1>2, DlistNames
       DEF D!MovedAfter, D!MovedBefore, D!AppendAfter, D!InsertBefore, D!Inject, D!RemoveNode,
           JoinedAfter, JoinedBefore, out
  <1>4. out = D!Link(mem, Entry(h, lists[h], i - 1), Entry(h, lists[h], i + 1))
    BY <1>1, DWithdraw DEF out
  <1>5. MovedIn(mem', mem, lists, h, i, i, g, k)
    BY <1>3, <1>4 DEF D!Move, D!Outside, MovedIn, p
  <1>6. hand' = hand /\ lists' = D!Moved(h, i, i, g, k)
    BY DEF D!Move
  <1> QED BY <1>1, <1>5, <1>6, DMovedTo

LEMMA DSplice ==
  ASSUME RingsNow, NEW h \in Heads, NEW i \in 1 .. Len(lists[h]), NEW j \in i .. Len(lists[h]),
         NEW g \in Heads, NEW k \in 0 .. Len(lists[g]), D!Splice(h, i, j, g, k)
  PROVE  RingsNow'
  <1> DEFINE p == SubSeq(lists[h], i, j)
             first == lists[h][i]
             last == lists[h][j]
             out == D!Withdraw(mem, first, last)
  <1>1. p[1] = first /\ p[Len(p)] = last
    BY PortionEnds
  <1> HIDE DEF p, out
  <1>2. /\ D!SpliceAfter(mem, D!At(g, k), first, last)
             \in JoinedAfter(out, Entry(g, lists[g], k), p)
        /\ D!SpliceBefore(mem, D!At(g, k + 1), first, last)
             \in JoinedBefore(out, Entry(g, lists[g], k + 1), p)
    BY <1>1, DlistNames
       DEF D!SpliceAfter, D!SpliceBefore, D!EmbedAfter, D!EmbedBefore,
           JoinedAfter, JoinedBefore, out
  <1>3. out = D!Link(mem, Entry(h, lists[h], i - 1), Entry(h, lists[h], j + 1))
    BY DWithdraw DEF out
  <1>4. MovedIn(mem', mem, lists, h, i, j, g, k)
    BY <1>2, <1>3 DEF D!Splice, D!Outside, MovedIn, p
  <1>5. hand' = hand /\ lists' = D!Moved(h, i, j, g, k)
    BY DEF D!Splice
  <1> QED BY <1>4, <1>5, DMovedTo

LEMMA DReplace ==
  ASSUME RingsNow, NEW h \in Heads, NEW i \in 1 .. Len(lists[h]), NEW n \in Nodes,
         D!Replace(h, i, n)
  PROVE  RingsNow'
  <1> DEFINE s == lists[h]
             old == s[i]
             a == Entry(h, s, i - 1)
             b == Entry(h, s, i + 1)
             out == D!Link(mem, a, b)
             rest == [lists EXCEPT ![h] = Without(s, i, i)]
             after == [rest EXCEPT ![h] = With(rest[h], i - 1, <<n>>)]
             in == D!Link(D!Link(out, a, n), n, b)
  <1>1. /\ lists \in [Heads -> Seq(Nodes)] /\ hand \in Seq(Nodes) /\ s \in Seq(Nodes)
        /\ Len(s) \in Nat /\ i \in i .. Len(s) /\ IsInjective(s) /\ Ring(mem, h, s)
        /\ RingsOK(mem, lists, hand) /\ mem \in Rings /\ h \notin Nodes /\ Apart(Heads, lists, hand)
    BY AddressAssumption DEF RingsNow, RingsOK, Apart
  <1>2. RingsOK(out, rest, hand) /\ Loose(out, rest, hand, SubSeq(s, i, i))
    BY <1>1, RingsCut
  <1>3. n \notin Range(hand) /\ (\A g \in Heads : n \notin Range(lists[g])) /\ n # old
    <2>1. n \notin Range(hand) /\ \A g \in Heads : n \notin Range(lists[g])
      BY DFree DEF D!Replace
    <2>2. old \in Range(s)
      BY <1>1, Positions
    <2> QED BY <2>1, <2>2
  <1>4. Len(rest[h]) = Len(s) - 1 /\ rest[h] \in Seq(Nodes)
    BY <1>1, WithoutFacts
  <1>5. Loose(out, rest, hand, <<n>>)
    <2>1. \A g \in Heads : n \notin Range(rest[g])
      <3>1. Range(s) = Range(rest[h]) \cup Range(SubSeq(s, i, i))
        BY <1>1, WithoutDistinct
      <3>2. \A g \in Heads : g # h => rest[g] = lists[g]
        BY <1>1
      <3> HIDE DEF rest
      <3> QED BY <1>3, <3>1, <3>2
    <2>2. rest \in [Heads -> Seq(Nodes)]
      BY <1>2 DEF RingsOK
    <2> QED BY <1>1, <1>3, <2>1, <2>2, LooseNode
  <1>6. a = Entry(h, rest[h], i - 1) /\ b = Entry(h, rest[h], i - 1 + 1)
    <2> DEFINE t == Without(s, i, i)
    <2>1. /\ Len(t) = Len(s) - 1
          /\ \A k \in 1 .. Len(t) : t[k] = IF k < i THEN s[k] ELSE s[k + 1]
      BY <1>1, WithoutOne
    <2>2. rest[h] = t
      BY <1>1
    <2> HIDE DEF t, rest
    <2> QED BY <1>1, <2>1, <2>2 DEF Entry
  <1>7. RingsOK(in, after, hand)
    <2>1. i - 1 \in 0 .. Len(rest[h]) /\ <<n>>[1] = n /\ <<n>>[Len(<<n>>)] = n
      BY <1>1, <1>4
    <2>2. in \in {D!Link(D!Link(out, a, <<n>>[1]), <<n>>[Len(<<n>>)], b),
                  D!Link(D!Link(out, <<n>>[Len(<<n>>)], b), a, <<n>>[1])}
      BY <2>1
    <2> HIDE DEF in, out, rest, a, b
    <2> QED BY <1>2, <1>5, <1>6, <2>1, <2>2, RingsJoin
  <1>8. in = D!Replaced(mem, old, n)
    <2>1. mem.prev[old] = a /\ mem.next[old] = b
      <3>1. /\ i - 1 \in 0 .. Len(s) /\ i \in 0 .. Len(s) /\ i - 1 + 1 = i
            /\ Entry(h, s, i) = old
        BY <1>1 DEF Entry
      <3>2. mem.prev[Entry(h, s, i - 1 + 1)] = a /\ mem.next[Entry(h, s, i)] = b
        BY <1>1, <3>1 DEF Ring
      <3> HIDE DEF a, b, old
      <3> QED BY <3>1, <3>2
    <2>2. a \in Heads \cup Nodes /\ b \in Heads \cup Nodes
      <3>1. i - 1 \in 0 .. Len(s) + 1 /\ i + 1 \in 0 .. Len(s) + 1
        BY <1>1
      <3>2. \A k \in 0 .. Len(s) + 1 : Entry(h, s, k) \in {h} \cup Range(s)
        BY <1>1, EntryDistinct
      <3>3. Range(s) \subseteq Nodes
        BY <1>1, EntryDistinct
      <3> QED BY <3>1, <3>2, <3>3
    <2> HIDE DEF a, b, old
    <2>3. D!Link(D!Link(D!Link(mem, a, b), a, n), n, b) = D!Link(D!Link(mem, a, n), n, b)
      BY <1>1, <2>2, ZenonT(30) DEF D!Link, Rings, D!Addresses
    <2> QED BY <2>1, <2>3 DEF D!Replaced, D!Inject
  <1>9. after = [lists EXCEPT ![h][i] = n]
    <2>1. rest[h] = Without(s, i, i) /\ With(Without(s, i, i), i - 1, <<n>>) = [s EXCEPT ![i] = n]
      BY <1>1, ReplaceOne
    <2> QED BY <2>1
  <1>10. old \in Nodes /\ old \notin Range(hand) /\ \A g \in Heads : old \notin Range(after[g])
    <2>1. old \in Range(s) /\ old \in Nodes
      BY <1>1, Positions
    <2>2. old \notin Range(hand) /\ \A g \in Heads : g # h => old \notin Range(lists[g])
      BY <1>1, <2>1 DEF Apart
    <2>3. old \notin Range(after[h])
      <3> DEFINE u == [s EXCEPT ![i] = n]
      <3>1. u \in Seq(Nodes) /\ Len(u) = Len(s) /\ \A k \in 1 .. Len(s) : u[k] = IF k = i THEN n ELSE s[k]
        BY <1>1
      <3>2. after[h] = u
        BY <1>1, <1>9
      <3> HIDE DEF u, after
      <3>3. \A k \in 1 .. Len(s) : s[k] = old => k = i
        BY <1>1, Positions
      <3>4. \A k \in 1 .. Len(s) : u[k] # old
        BY <1>3, <3>1, <3>3
      <3> QED BY <3>1, <3>2, <3>4, Positions
    <2>4. \A g \in Heads : g # h => after[g] = lists[g]
      BY <1>1, <1>9
    <2> QED BY <2>1, <2>2, <2>3, <2>4
  <1>11. mem' \in {D!Forgotten(in, {old}), D!Initialised(in, old)}
    BY <1>8 DEF D!Replace
  <1>12. lists' = after /\ hand' = hand
    BY <1>9 DEF D!Replace
  <1> HIDE DEF in, after, old
  <1> QED BY <1>7, <1>10, <1>11, <1>12, RingsDiscarded DEF RingsNow


RingsInv == kind = "dlist" => RingsNow

LEMMA DInit ==
  ASSUME D!Init
  PROVE  RingsNow
  <1>1. /\ mem = D!Forgotten([next |-> [a \in D!Addresses |-> a],
                              prev |-> [a \in D!Addresses |-> a]], Nodes)
        /\ lists = [h \in Heads |-> <<>>] /\ hand = <<>>
    BY DEF D!Init
  <1>2. <<>> \in Seq(Nodes) /\ IsInjective(<<>>) /\ Range(<<>>) = {} /\ Len(<<>>) = 0
    BY NoNode
  <1>3. mem \in Rings /\ \A h \in Heads : mem.next[h] = h /\ mem.prev[h] = h
    BY <1>1, AddressAssumption DEF D!Forgotten, Rings, D!Addresses
  <1>4. lists \in [Heads -> Seq(Nodes)] /\ hand \in Seq(Nodes)
    BY <1>1, <1>2
  <1>5. Apart(Heads, lists, hand)
    BY <1>1, <1>2 DEF Apart
  <1>6. \A h \in Heads : Ring(mem, h, lists[h])
    BY <1>1, <1>2, <1>3 DEF Ring, Entry
  <1>7. Linked(mem, hand)
    BY <1>1, <1>2 DEF Linked
  <1> QED BY <1>3, <1>4, <1>5, <1>6, <1>7 DEF RingsNow, RingsOK

LEMMA DNext ==
  ASSUME RingsNow, D!Next
  PROVE  RingsNow'
  <1>1. \A h \in Heads : D!Places(h) = 0 .. Len(lists[h]) /\ Len(lists[h]) \in Nat
    BY DlistNames DEF RingsNow, RingsOK
  <1>2. \A h \in Heads : \A i : i \in D!Places(h) \ {0} => i \in 1 .. Len(lists[h])
    BY <1>1
  <1>3. CASE \E n \in Nodes : D!InitNode(n)
    BY <1>3, DInitNode
  <1>4. ASSUME NEW h \in Heads, D!InitHead(h) PROVE RingsNow'
    BY <1>4, DInitHead
  <1>5. ASSUME NEW h \in Heads, NEW i \in D!Places(h), D!Embed(h, i) PROVE RingsNow'
    BY <1>1, <1>5, DEmbed
  <1>6. ASSUME NEW h \in Heads, NEW i \in D!Places(h), NEW n \in Nodes, D!Insert(h, i, n)
        PROVE  RingsNow'
    BY <1>1, <1>6, DInsert
  <1>7. ASSUME NEW h \in Heads, NEW i \in D!Places(h) \ {0}, D!Remove(h, i) PROVE RingsNow'
    BY <1>2, <1>7, DRemove
  <1>8. ASSUME NEW h \in Heads, NEW i \in D!Places(h) \ {0}, NEW n \in Nodes, D!Replace(h, i, n)
        PROVE  RingsNow'
    BY <1>2, <1>8, DReplace
  <1>9. ASSUME NEW h \in Heads, NEW i \in D!Places(h) \ {0},
               NEW g \in Heads, NEW k \in D!Places(g), D!Move(h, i, g, k)
        PROVE  RingsNow'
    BY <1>1, <1>2, <1>9, DMove
  <1>10. ASSUME NEW h \in Heads, NEW i \in D!Places(h) \ {0}, NEW j \in i .. Len(lists[h]),
                D!WithdrawPortion(h, i, j)
         PROVE  RingsNow'
    BY <1>2, <1>10, DWithdrawPortion
  <1>11. ASSUME NEW h \in Heads, NEW i \in D!Places(h) \ {0}, NEW j \in i .. Len(lists[h]),
                NEW g \in Heads, NEW k \in D!Places(g), D!Splice(h, i, j, g, k)
         PROVE  RingsNow'
    BY <1>1, <1>2, <1>11, DSplice
  <1> QED BY <1>3, <1>4, <1>5, <1>6, <1>7, <1>8, <1>9, <1>10, <1>11 DEF D!Next

LEMMA DSound ==
  ASSUME RingsNow
  PROVE  D!RingsSound
  <1>1. /\ mem \in Rings /\ lists \in [Heads -> Seq(Nodes)] /\ hand \in Seq(Nodes)
        /\ \A h \in Heads : Ring(mem, h, lists[h]) /\ IsInjective(lists[h])
        /\ Linked(mem, hand)
    BY DEF RingsNow, RingsOK, Apart
  <1>2. D!TypeOK
    BY <1>1 DEF D!TypeOK, Rings
  <1>3. \A h \in Heads : \A i \in D!Places(h) : D!Follows(D!At(h, i), D!At(h, i + 1))
    BY <1>1, DlistNames DEF D!Follows, Ring
  <1>4. \A i \in 1 .. Len(hand) - 1 : D!Follows(hand[i], hand[i + 1])
    BY <1>1 DEF D!Follows, Linked
  <1>5. ASSUME NEW n \in D!InLists PROVE ~ D!Empty(mem, n)
    <2>1. PICK h \in Heads : n \in Range(lists[h])
      BY DlistNames DEF D!InLists
    <2> DEFINE s == lists[h]
    <2>2. s \in Seq(Nodes) /\ IsInjective(s) /\ h \notin Nodes /\ Ring(mem, h, s) /\ Len(s) \in Nat
      BY <1>1, AddressAssumption
    <2>3. PICK i \in 1 .. Len(s) : s[i] = n
      BY <2>1, <2>2, Positions
    <2> HIDE DEF s
    <2>4. i \in 0 .. Len(s) /\ i \in 1 .. Len(s) + 1 /\ i + 1 \in 1 .. Len(s) + 1 /\ i # i + 1
      BY <2>2
    <2>5. Entry(h, s, i) = n /\ mem.next[Entry(h, s, i)] = Entry(h, s, i + 1)
      BY <2>2, <2>3, <2>4 DEF Ring, Entry
    <2>6. \A e, f \in 1 .. Len(s) + 1 : Entry(h, s, e) = Entry(h, s, f) => e = f
      BY <2>2, EntryDistinct
    <2>7. Entry(h, s, i + 1) # n
      BY <2>4, <2>5, <2>6
    <2> QED BY <2>5, <2>7 DEF D!Empty
  <1> QED BY <1>2, <1>3, <1>4, <1>5 DEF D!RingsSound

(* Whatever lists, nodes and calls: each doubly linked list is a ring, in  *)
(* both directions, of exactly the nodes that the calls put there, in that *)
(* order, a portion in hand stays chained, and no node of a list is taken  *)
(* for an empty one.                                                       *)
THEOREM RingsAlwaysSound == Spec => []RingsSound
  <1>1. Init => RingsInv
    BY DInit DEF Init, RingsInv
  <1>2. RingsInv /\ [Next]_<<vars, kind, loop>> => RingsInv'
    <2> SUFFICES ASSUME RingsInv, [Next]_<<vars, kind, loop>>, kind' = "dlist" PROVE RingsNow'
      BY DEF RingsInv
    <2>1. CASE D!Next /\ kind = "dlist"
      BY <2>1, DNext DEF RingsInv
    <2>2. CASE UNCHANGED <<vars, kind, loop>>
      BY <2>2 DEF RingsInv, RingsNow, vars
    <2> QED BY <2>1, <2>2 DEF Next
  <1>3. RingsInv => RingsSound
    BY DSound DEF RingsInv, RingsSound
  <1> QED BY <1>1, <1>2, <1>3, PTL DEF Spec


-----------------------------------------------------------------------------
(* Singly linked lists.  What follows the last node of one is Null, which  *)
(* Entry gives as it gives the head of a ring.                             *)

Chains == [next : [Heads \cup Nodes -> Nodes \cup {Null, Wild}],
           tail : [Heads -> Heads \cup Nodes]]

(* The nodes of s, in that order, are the list h, and its tail the last.   *)
Chained(m, h, s) ==
  /\ \A i \in 0 .. Len(s) : m.next[Entry(h, s, i)] = Entry(Null, s, i + 1)
  /\ m.tail[h] = Entry(h, s, Len(s))

Led(m, p) == \A i \in 1 .. Len(p) - 1 : m.next[p[i]] = p[i + 1]

ChainsOK(m, ls, hd) ==
  /\ m \in Chains
  /\ ls \in [Heads -> Seq(Nodes)] /\ hd \in Seq(Nodes)
  /\ Apart(Heads, ls, hd)
  /\ \A h \in Heads : Chained(m, h, ls[h])
  /\ Led(m, hd)

(* In l, what follows a is b, in the list h; in the other, first to last   *)
(* are between them.                                                       *)
CutIn(l, m, h, a, b) ==
  /\ l \in Chains
  /\ \A x \in Heads \cup Nodes : l.next[x] = IF x = a THEN b ELSE m.next[x]
  /\ \A g \in Heads : l.tail[g] = IF g = h /\ b = Null THEN a ELSE m.tail[g]

ChainedIn(l, m, h, a, first, last, b) ==
  /\ l \in Chains
  /\ \A x \in Heads \cup Nodes :
       l.next[x] = IF x = a THEN first ELSE IF x = last THEN b ELSE m.next[x]
  /\ \A g \in Heads : l.tail[g] = IF g = h /\ b = Null THEN last ELSE m.tail[g]

LEMMA ChainKept1 ==
  ASSUME NEW m, NEW l, NEW h, NEW s \in Seq(Nodes), h \notin Nodes, IsInjective(s), Chained(m, h, s),
         \A x \in {h} \cup Range(s) : l.next[x] = m.next[x], l.tail[h] = m.tail[h]
  PROVE  Chained(l, h, s)
  <1>1. Len(s) \in Nat /\ \A i \in 0 .. Len(s) + 1 : Entry(h, s, i) \in {h} \cup Range(s)
    BY EntryDistinct
  <1>2. ASSUME NEW i \in 0 .. Len(s) PROVE l.next[Entry(h, s, i)] = Entry(Null, s, i + 1)
    <2>1. Entry(h, s, i) \in {h} \cup Range(s)
      BY <1>1
    <2> QED BY <2>1 DEF Chained
  <1> QED BY <1>2 DEF Chained

LEMMA LedKept ==
  ASSUME NEW m, NEW l, NEW p \in Seq(Nodes), Led(m, p), \A x \in Range(p) : l.next[x] = m.next[x]
  PROVE  Led(l, p)
  <1>1. Len(p) \in Nat /\ \A i \in 1 .. Len(p) : p[i] \in Range(p)
    BY Positions
  <1> QED BY <1>1 DEF Led

(* The chain that a portion is cut out of, and the portion. *)
LEMMA ChainCut ==
  ASSUME NEW m, NEW l, NEW h, NEW s \in Seq(Nodes), h \notin Nodes, IsInjective(s), Chained(m, h, s),
         NEW i \in 1 .. Len(s), NEW j \in i .. Len(s),
         \A x \in {h} \cup Range(s) :
           l.next[x] = IF x = Entry(h, s, i - 1) THEN Entry(Null, s, j + 1) ELSE m.next[x],
         l.tail[h] = IF Entry(Null, s, j + 1) = Null THEN Entry(h, s, i - 1) ELSE m.tail[h]
  PROVE  Chained(l, h, Without(s, i, j)) /\ Led(l, SubSeq(s, i, j))
  <1> DEFINE t == Without(s, i, j)
             p == SubSeq(s, i, j)
             n == j - i + 1
             at(k) == Entry(h, s, k)
             to(k) == Entry(Null, s, k)
  <1>0. Len(s) \in Nat
    OBVIOUS
  <1>1. /\ Len(t) = Len(s) - n
        /\ \A k \in 0 .. Len(t) + 1 : Entry(h, t, k) = IF k < i THEN at(k) ELSE at(k + n)
    BY EntryWithout
  <1>2. \A k \in 0 .. Len(t) + 1 : Entry(Null, t, k) = IF k < i THEN to(k) ELSE to(k + n)
    BY EntryWithout
  <1>3. /\ \A a, b \in 0 .. Len(s) : at(a) = at(b) => a = b
        /\ \A a \in 0 .. Len(s) + 1 : at(a) \in {h} \cup Range(s)
    BY EntryDistinct
  <1>4. \A k \in 0 .. Len(s) : m.next[at(k)] = to(k + 1)
    BY DEF Chained
  <1>5. /\ Len(p) = n
        /\ \A k \in 1 .. Len(p) : p[k] = at(i + k - 1) /\ p[k] = to(i + k - 1)
    BY PortionFacts DEF Entry
  <1>6. to(j + 1) = Null <=> j = Len(s)
    BY <1>0, NullAssumption DEF Entry
  <1>7. m.tail[h] = at(Len(s))
    BY DEF Chained
  <1>8. l.tail[h] = IF j = Len(s) THEN at(i - 1) ELSE at(Len(s))
    BY <1>6, <1>7
  <1> HIDE DEF t, p, at, to
  <1>9. \A k \in 0 .. Len(s) : l.next[at(k)] = IF k = i - 1 THEN to(j + 1) ELSE to(k + 1)
    <2> TAKE k \in 0 .. Len(s)
    <2>1. at(k) \in {h} \cup Range(s) /\ (at(k) = at(i - 1) <=> k = i - 1)
      BY <1>0, <1>3
    <2> QED BY <2>1, <1>4 DEF at, to
  <1>10. ASSUME NEW k \in 0 .. Len(t) PROVE l.next[Entry(h, t, k)] = Entry(Null, t, k + 1)
    <2>0. k \in 0 .. Len(t) + 1 /\ k + 1 \in 0 .. Len(t) + 1
      BY <1>0, <1>1
    <2>1. CASE k < i - 1
      <3>1. k < i /\ k + 1 < i /\ k \in 0 .. Len(s) /\ k # i - 1
        BY <1>0, <1>1, <2>1
      <3>2. Entry(h, t, k) = at(k) /\ Entry(Null, t, k + 1) = to(k + 1)
        BY <1>1, <1>2, <2>0, <3>1
      <3> QED BY <1>9, <3>1, <3>2
    <2>2. CASE k = i - 1
      <3>1. k + 1 + n = j + 1 /\ ~(k + 1 < i) /\ k < i /\ k \in 0 .. Len(s)
        BY <1>0, <1>1, <2>2
      <3>2. Entry(h, t, k) = at(k) /\ Entry(Null, t, k + 1) = to(k + 1 + n)
        BY <1>1, <1>2, <2>0, <3>1
      <3>3. l.next[at(k)] = to(j + 1)
        BY <1>9, <2>2, <3>1
      <3> QED BY <3>1, <3>2, <3>3
    <2>3. CASE k > i - 1
      <3>1. /\ k + 1 + n = k + n + 1 /\ ~(k + 1 < i) /\ ~(k < i)
            /\ k + n \in 0 .. Len(s) /\ k + n # i - 1
        BY <1>0, <1>1, <2>3
      <3>2. Entry(h, t, k) = at(k + n) /\ Entry(Null, t, k + 1) = to(k + 1 + n)
        BY <1>1, <1>2, <2>0, <3>1
      <3>3. l.next[at(k + n)] = to(k + n + 1)
        BY <1>9, <3>1
      <3> QED BY <3>1, <3>2, <3>3
    <2> QED BY <2>1, <2>2, <2>3
  <1>11. l.tail[h] = Entry(h, t, Len(t))
    <2>1. CASE j = Len(s)
      <3>1. Len(t) = i - 1 /\ Len(t) \in 0 .. Len(t) + 1 /\ Len(t) < i
        BY <1>0, <1>1, <2>1
      <3> QED BY <1>1, <1>8, <2>1, <3>1
    <2>2. CASE j # Len(s)
      <3>1. Len(t) + n = Len(s) /\ Len(t) \in 0 .. Len(t) + 1 /\ ~(Len(t) < i)
        BY <1>0, <1>1, <2>2
      <3>2. Entry(h, t, Len(t)) = at(Len(t) + n)
        BY <1>1, <3>1
      <3> QED BY <1>8, <2>2, <3>1, <3>2
    <2> QED BY <2>1, <2>2
  <1>12. ASSUME NEW k \in 1 .. Len(p) - 1 PROVE l.next[p[k]] = p[k + 1]
    <2>0. Len(p) = n /\ i \in Int /\ j \in Int /\ i >= 1 /\ j <= Len(s) /\ j >= i
      BY <1>0, <1>5
    <2>1. /\ k \in 1 .. Len(p) /\ k + 1 \in 1 .. Len(p) /\ i + (k + 1) - 1 = i + k - 1 + 1
          /\ i + k - 1 \in 0 .. Len(s) /\ i + k - 1 # i - 1
      BY <1>0, <2>0
    <2>2. p[k] = at(i + k - 1) /\ p[k + 1] = to(i + (k + 1) - 1)
      BY <1>5, <2>1
    <2>3. l.next[at(i + k - 1)] = to(i + k - 1 + 1)
      BY <1>9, <2>1
    <2> QED BY <2>1, <2>2, <2>3
  <1> QED BY <1>10, <1>11, <1>12 DEF t, p, Chained, Led

(* The chain that a portion joins. *)
LEMMA ChainJoin ==
  ASSUME NEW m, NEW l, NEW h, NEW s \in Seq(Nodes), h \notin Nodes, IsInjective(s), Chained(m, h, s),
         NEW p \in Seq(Nodes), p # <<>>, IsInjective(p), Led(m, p),
         Range(s) \cap Range(p) = {}, NEW i \in 0 .. Len(s),
         \A x \in {h} \cup Range(s) \cup Range(p) :
           l.next[x] = IF x = Entry(h, s, i) THEN p[1]
                       ELSE IF x = p[Len(p)] THEN Entry(Null, s, i + 1)
                       ELSE m.next[x],
         l.tail[h] = IF Entry(Null, s, i + 1) = Null THEN p[Len(p)] ELSE m.tail[h]
  PROVE  Chained(l, h, With(s, i, p))
  <1> DEFINE t == With(s, i, p)
             n == Len(p)
             at(k) == Entry(h, s, k)
             to(k) == Entry(Null, s, k)
  <1>0. Len(s) \in Nat /\ n \in Nat \ {0}
    OBVIOUS
  <1>1. /\ Len(t) = Len(s) + n
        /\ \A k \in 0 .. Len(t) + 1 :
             Entry(h, t, k) = IF k <= i THEN at(k) ELSE IF k <= i + n THEN p[k - i] ELSE at(k - n)
    BY EntryWith
  <1>2. \A k \in 0 .. Len(t) + 1 :
          Entry(Null, t, k) = IF k <= i THEN to(k) ELSE IF k <= i + n THEN p[k - i] ELSE to(k - n)
    BY EntryWith
  <1>3. /\ \A a, b \in 0 .. Len(s) : at(a) = at(b) => a = b
        /\ \A a \in 0 .. Len(s) + 1 : at(a) \in {h} \cup Range(s)
    BY EntryDistinct
  <1>4. /\ \A a, b \in 1 .. n : p[a] = p[b] => a = b
        /\ \A a \in 1 .. n : p[a] \in Range(p) /\ p[a] \in Nodes
    BY Positions
  <1>5. \A a \in 0 .. Len(s) + 1, b \in 1 .. n : at(a) # p[b]
    BY <1>3, <1>4
  <1>6. to(i + 1) = Null <=> i = Len(s)
    BY <1>0, NullAssumption DEF Entry
  <1>7. l.tail[h] = IF i = Len(s) THEN p[n] ELSE at(Len(s))
    BY <1>6 DEF Chained
  <1>8. \A b \in 1 .. n - 1 : m.next[p[b]] = p[b + 1]
    BY DEF Led
  <1>9. \A k \in 0 .. Len(s) : m.next[at(k)] = to(k + 1)
    BY DEF Chained
  <1>10. \A x \in {h} \cup Range(s) \cup Range(p) :
           l.next[x] = IF x = at(i) THEN p[1] ELSE IF x = p[n] THEN to(i + 1) ELSE m.next[x]
    OBVIOUS
  <1> HIDE DEF t, n, at, to
  <1>11. \A k \in 0 .. Len(s) : l.next[at(k)] = IF k = i THEN p[1] ELSE to(k + 1)
    <2> TAKE k \in 0 .. Len(s)
    <2>1. at(k) \in {h} \cup Range(s) /\ (at(k) = at(i) <=> k = i) /\ at(k) # p[n]
      BY <1>0, <1>3, <1>5
    <2> QED BY <2>1, <1>9, <1>10
  <1>12. \A b \in 1 .. n : l.next[p[b]] = IF b = n THEN to(i + 1) ELSE p[b + 1]
    <2> TAKE b \in 1 .. n
    <2>0. n \in 1 .. n /\ i \in 0 .. Len(s) + 1
      BY <1>0
    <2>1. p[b] \in Range(p) /\ p[b] # at(i) /\ (p[b] = p[n] <=> b = n)
      BY <1>4, <1>5, <2>0
    <2>2. b # n => m.next[p[b]] = p[b + 1]
      BY <1>0, <1>8
    <2> QED BY <2>1, <2>2, <1>10
  <1>13. ASSUME NEW k \in 0 .. Len(t) PROVE l.next[Entry(h, t, k)] = Entry(Null, t, k + 1)
    <2>0. k \in 0 .. Len(t) + 1 /\ k + 1 \in 0 .. Len(t) + 1
      BY <1>0, <1>1
    <2>1. CASE k < i
      <3>1. k <= i /\ k + 1 <= i /\ k \in 0 .. Len(s) /\ k # i
        BY <1>0, <2>1
      <3>2. Entry(h, t, k) = at(k) /\ Entry(Null, t, k + 1) = to(k + 1)
        BY <1>1, <1>2, <2>0, <3>1
      <3> QED BY <1>11, <3>1, <3>2
    <2>2. CASE k = i
      <3>1. k + 1 - i = 1 /\ ~(k + 1 <= i) /\ k + 1 <= i + n
        BY <1>0, <2>2
      <3>2. Entry(h, t, k) = at(i) /\ Entry(Null, t, k + 1) = p[1]
        BY <1>1, <1>2, <2>0, <2>2, <3>1
      <3> QED BY <1>11, <3>2
    <2>3. CASE k > i /\ k < i + n
      <3>1. k + 1 - i = k - i + 1 /\ ~(k + 1 <= i) /\ k + 1 <= i + n /\ ~(k <= i) /\ k <= i + n
        BY <1>0, <2>3
      <3>2. Entry(h, t, k) = p[k - i] /\ Entry(Null, t, k + 1) = p[k - i + 1]
        BY <1>1, <1>2, <2>0, <3>1
      <3>3. k - i \in 1 .. n /\ k - i # n
        BY <1>0, <2>3
      <3> QED BY <1>12, <3>2, <3>3
    <2>4. CASE k = i + n
      <3>1. k - i = n /\ ~(k <= i) /\ ~(k + 1 <= i) /\ ~(k + 1 <= i + n) /\ k + 1 - n = i + 1
        <4>1. k \in Nat /\ i \in Nat /\ n \in Nat \ {0}
          BY <1>0, <2>4
        <4> QED BY <2>4, <4>1, SMTT(30)
      <3>2. Entry(h, t, k) = p[k - i]
        <4>1. Entry(h, t, k) = IF k <= i THEN at(k) ELSE IF k <= i + n THEN p[k - i] ELSE at(k - n)
          BY <1>1, <2>0, Zenon
        <4>2. k <= i + n
          BY <1>0, <2>4
        <4> QED BY <3>1, <4>1, <4>2, Zenon
      <3>3. Entry(Null, t, k + 1) = to(k + 1 - n)
        <4>1. Entry(Null, t, k + 1) = IF k + 1 <= i THEN to(k + 1)
                                      ELSE IF k + 1 <= i + n THEN p[(k + 1) - i] ELSE to((k + 1) - n)
          BY <1>2, <2>0, Zenon
        <4>2. (k + 1) - n = k + 1 - n
          BY <1>0, <2>0
        <4> QED BY <3>1, <4>1, <4>2, Zenon
      <3>4. n \in 1 .. n
        BY <1>0
      <3> QED BY <1>12, <3>1, <3>2, <3>3, <3>4
    <2>5. CASE k > i + n
      <3>1. ~(k <= i) /\ ~(k + 1 <= i) /\ ~(k + 1 <= i + n) /\ ~(k <= i + n)
        BY <1>0, <2>5
      <3>2. Entry(h, t, k) = at(k - n)
        BY <1>1, <2>0, <3>1
      <3>3. Entry(Null, t, k + 1) = to(k + 1 - n)
        <4>1. Entry(Null, t, k + 1) = IF k + 1 <= i THEN to(k + 1)
                                      ELSE IF k + 1 <= i + n THEN p[(k + 1) - i] ELSE to((k + 1) - n)
          BY <1>2, <2>0, Zenon
        <4>2. (k + 1) - n = k + 1 - n
          BY <1>0, <2>0
        <4> QED BY <3>1, <4>1, <4>2, Zenon
      <3>4. k - n \in 0 .. Len(s) /\ k - n # i /\ k + 1 - n = k - n + 1
        BY <1>0, <1>1, <2>5
      <3> QED BY <1>11, <3>2, <3>3, <3>4
    <2> QED BY <1>0, <2>1, <2>2, <2>3, <2>4, <2>5
  <1>14. l.tail[h] = Entry(h, t, Len(t))
    <2>1. CASE i = Len(s)
      <3>1. Len(t) - i = n /\ ~(Len(t) <= i) /\ Len(t) <= i + n /\ Len(t) \in 0 .. Len(t) + 1
        BY <1>0, <1>1, <2>1
      <3> QED BY <1>1, <1>7, <2>1, <3>1
    <2>2. CASE i # Len(s)
      <3>1. /\ Len(t) - n = Len(s) /\ ~(Len(t) <= i) /\ ~(Len(t) <= i + n)
            /\ Len(t) \in 0 .. Len(t) + 1
        BY <1>0, <1>1, <2>2
      <3> QED BY <1>1, <1>7, <2>2, <3>1
    <2> QED BY <2>1, <2>2
  <1> QED BY <1>13, <1>14 DEF t, Chained

(* The same names, as module Slist has them. *)
LEMMA SlistNames ==
  /\ \A s : S!Range(s) = Range(s)
  /\ \A s, i, j : S!Without(s, i, j) = Without(s, i, j)
  /\ \A s, i, p : S!With(s, i, p) = With(s, i, p)
  /\ \A h, i : S!At(h, i) = Entry(h, lists[h], i)
  /\ \A h : S!Places(h) = 0 .. Len(lists[h])
  BY DEF S!Range, Range, S!Without, Without, S!With, With, S!At, Entry, S!Places

(* What the stores of the library do. *)
LEMMA SWithdraw ==
  ASSUME NEW m \in Chains, NEW h \in Heads, NEW a \in Heads \cup Nodes, NEW last \in Heads \cup Nodes
  PROVE  CutIn(S!Withdraw(m, h, a, last), m, h, a, m.next[last])
  BY DEF S!Withdraw, S!TailWhen, CutIn, Chains

LEMMA SEmbed ==
  ASSUME NEW m \in Chains, NEW h \in Heads, NEW a \in Heads \cup Nodes,
         NEW first \in Nodes, NEW last \in Nodes
  PROVE  ChainedIn(S!Embed(m, h, a, first, last), m, h, a, first, last, m.next[a])
  <1> DEFINE b == m.next[a]
             l == [m EXCEPT !.next[last] = b, !.next[a] = first]
             k == IF b = Null THEN [l EXCEPT !.tail[h] = last] ELSE l
  <1>1. b \in Nodes \cup {Null, Wild}
    BY DEF Chains
  <1> HIDE DEF b
  <1>2. l \in Chains /\ l.tail = m.tail
        /\ \A x \in Heads \cup Nodes :
             l.next[x] = IF x = a THEN first ELSE IF x = last THEN b ELSE m.next[x]
    BY <1>1 DEF Chains
  <1> HIDE DEF l
  <1>3. /\ k \in Chains /\ k.next = l.next
        /\ \A g \in Heads : k.tail[g] = IF g = h /\ b = Null THEN last ELSE l.tail[g]
    BY <1>2 DEF Chains
  <1>4. k = S!Embed(m, h, a, first, last)
    BY DEF S!Embed, S!TailWhen, k, l, b
  <1> HIDE DEF k
  <1>5. ChainedIn(k, m, h, a, first, last, b)
    BY <1>2, <1>3 DEF ChainedIn
  <1> QED BY <1>4, <1>5 DEF b

LEMMA SAppendAfter ==
  ASSUME NEW m \in Chains, NEW h \in Heads, NEW a \in Heads \cup Nodes, NEW n \in Nodes
  PROVE  ChainedIn(S!AppendAfter(m, h, a, n), m, h, a, n, n, m.next[a])
  <1>1. S!AppendAfter(m, h, a, n) = S!Embed(m, h, a, n, n)
    BY DEF S!AppendAfter, S!Embed
  <1> QED BY <1>1, SEmbed

LEMMA SAppendBack ==
  ASSUME NEW m \in Chains, NEW h \in Heads, NEW n \in Nodes, m.tail[h] # n
  PROVE  ChainedIn(S!AppendBack(m, h, n), m, h, m.tail[h], n, n, Null)
  BY DEF S!AppendBack, ChainedIn, Chains

(* What is in no list, nor in hand, may change. *)
LEMMA ChainsKept ==
  ASSUME NEW m, NEW ls, NEW hd, ChainsOK(m, ls, hd), NEW l \in Chains, l.tail = m.tail,
         \A x \in Heads \cup Nodes :
           x \in Heads \/ x \in Range(hd) \/ (\E h \in Heads : x \in Range(ls[h]))
             => l.next[x] = m.next[x]
  PROVE  ChainsOK(l, ls, hd)
  <1>1. /\ ls \in [Heads -> Seq(Nodes)] /\ hd \in Seq(Nodes) /\ Apart(Heads, ls, hd)
        /\ \A h \in Heads : Chained(m, h, ls[h])
        /\ Led(m, hd)
    BY DEF ChainsOK
  <1>2. \A s \in Seq(Nodes) : Range(s) \subseteq Nodes
    BY Positions
  <1>3. Led(l, hd)
    <2>1. \A x \in Range(hd) : l.next[x] = m.next[x]
      BY <1>1, <1>2
    <2> QED BY <1>1, <2>1, LedKept
  <1>4. ASSUME NEW h \in Heads PROVE Chained(l, h, ls[h])
    <2>1. ls[h] \in Seq(Nodes) /\ IsInjective(ls[h]) /\ h \notin Nodes
      BY <1>1, AddressAssumption DEF Apart
    <2>2. \A x \in {h} \cup Range(ls[h]) : l.next[x] = m.next[x]
      BY <1>2, <2>1
    <2> QED BY <1>1, <2>1, <2>2, ChainKept1
  <1> QED BY <1>1, <1>3, <1>4 DEF ChainsOK

(* A portion that is in no list, nor in hand. *)
SLoose(m, ls, hd, p) ==
  /\ p \in Seq(Nodes) /\ p # <<>> /\ IsInjective(p) /\ Led(m, p)
  /\ Range(p) \cap Range(hd) = {}
  /\ \A g \in Heads : Range(ls[g]) \cap Range(p) = {}

(* A portion goes out of its list. *)
LEMMA ChainsCut ==
  ASSUME NEW m, NEW ls, NEW hd, ChainsOK(m, ls, hd),
         NEW h \in Heads, NEW i \in 1 .. Len(ls[h]), NEW j \in i .. Len(ls[h]),
         NEW l, CutIn(l, m, h, Entry(h, ls[h], i - 1), Entry(Null, ls[h], j + 1))
  PROVE  LET after == [ls EXCEPT ![h] = Without(ls[h], i, j)]
         IN  ChainsOK(l, after, hd) /\ SLoose(l, after, hd, SubSeq(ls[h], i, j))
  <1> DEFINE s == ls[h]
             p == SubSeq(s, i, j)
             t == Without(s, i, j)
             after == [ls EXCEPT ![h] = t]
             a == Entry(h, s, i - 1)
             b == Entry(Null, s, j + 1)
  <1>1. /\ m \in Chains /\ hd \in Seq(Nodes)
        /\ ls \in [Heads -> Seq(Nodes)] /\ Apart(Heads, ls, hd)
        /\ \A g \in Heads : ls[g] \in Seq(Nodes) /\ IsInjective(ls[g]) /\ g \notin Nodes
        /\ \A g \in Heads : Chained(m, g, ls[g])
        /\ Led(m, hd)
    BY AddressAssumption DEF ChainsOK, Apart
  <1>2. /\ after \in [Heads -> Seq(Nodes)] /\ after[h] = t
        /\ \A g \in Heads \ {h} : after[g] = ls[g]
        /\ Apart(Heads, after, hd)
        /\ p \in Seq(Nodes) /\ p # <<>> /\ IsInjective(p) /\ Range(p) \cap Range(hd) = {}
        /\ \A g \in Heads : Range(after[g]) \cap Range(p) = {}
    <2>1. after \in [Heads -> Seq(Nodes)] /\ after[h] = t /\ Apart(Heads, after, hd)
      BY <1>1, CutApart
    <2>2. \A g \in Heads \ {h} : after[g] = ls[g]
      BY <1>1
    <2>3. p \in Seq(Nodes) /\ p # <<>> /\ IsInjective(p)
      <3>1. p \in Seq(Nodes) /\ p # <<>>
        <4>1. s \in Seq(Nodes)
          BY <1>1
        <4>2. p \in Seq(Nodes) /\ Len(p) = j - i + 1
          BY <4>1, PortionFacts
        <4>3. Len(p) # 0
          BY <4>2
        <4> HIDE DEF p
        <4> QED BY <4>2, <4>3
      <3>2. IsInjective(p)
        BY <1>1, WithoutDistinct
      <3> QED BY <3>1, <3>2
    <2>5. Range(p) \cap Range(hd) = {}
      BY <1>1, CutApart, ZenonT(30)
    <2>4. \A g \in Heads : Range(after[g]) \cap Range(p) = {}
      BY <1>1, CutApart
    <2> QED BY <2>1, <2>2, <2>3, <2>4, <2>5
  <1>3. a \in {h} \cup Range(s)
    <2>1. i - 1 \in 0 .. Len(s) + 1
      BY <1>1
    <2> QED BY <1>1, <2>1, EntryDistinct
  <1>4. \A r \in Seq(Nodes) : Range(r) \subseteq Nodes
    BY Positions
  <1>6. /\ l \in Chains
        /\ \A x \in Heads \cup Nodes : l.next[x] = IF x = a THEN b ELSE m.next[x]
        /\ \A g \in Heads : l.tail[g] = IF g = h /\ b = Null THEN a ELSE m.tail[g]
    BY DEF CutIn
  <1> HIDE DEF after
  <1>7. \A x \in Heads \cup Nodes : x \notin {h} \cup Range(s) => l.next[x] = m.next[x]
    BY <1>3, <1>6
  <1>8. Chained(l, h, t) /\ Led(l, p)
    <2>1. \A x \in {h} \cup Range(s) : x \in Heads \cup Nodes
      BY <1>1, <1>4
    <2>2. /\ \A x \in {h} \cup Range(s) :
              l.next[x] = IF x = Entry(h, s, i - 1) THEN Entry(Null, s, j + 1) ELSE m.next[x]
          /\ l.tail[h] = IF Entry(Null, s, j + 1) = Null THEN Entry(h, s, i - 1) ELSE m.tail[h]
      BY <1>6, <2>1
    <2> HIDE DEF a, b, t, p
    <2> QED BY <1>1, <2>2, ChainCut DEF t, p
  <1>9. ASSUME NEW g \in Heads PROVE Chained(l, g, after[g])
    <2>1. CASE g = h
      BY <1>2, <1>8, <2>1
    <2>2. CASE g # h
      <3>1. Range(ls[g]) \cap Range(s) = {} /\ g \notin Nodes /\ Range(s) \subseteq Nodes
        BY <1>1, <1>4, <2>2 DEF Apart
      <3>2. \A x \in {g} \cup Range(ls[g]) : x \in Heads \cup Nodes /\ x \notin {h} \cup Range(s)
        BY <1>1, <1>4, <2>2, <3>1
      <3>3. (\A x \in {g} \cup Range(ls[g]) : l.next[x] = m.next[x]) /\ l.tail[g] = m.tail[g]
        BY <1>6, <1>7, <2>2, <3>2
      <3>4. Chained(l, g, ls[g])
        BY <1>1, <3>3, ChainKept1
      <3> QED BY <1>2, <2>2, <3>4
    <2> QED BY <2>1, <2>2
  <1>10. Led(l, hd)
    <2>1. Range(s) \cap Range(hd) = {} /\ Range(hd) \subseteq Nodes
      BY <1>1, <1>4 DEF Apart
    <2>2. \A x \in Range(hd) : l.next[x] = m.next[x]
      BY <1>1, <1>7, <2>1
    <2> QED BY <1>1, <2>2, LedKept
  <1>11. SLoose(l, after, hd, p)
    BY <1>2, <1>8 DEF SLoose
  <1>12. ChainsOK(l, after, hd)
    BY <1>1, <1>2, <1>6, <1>9, <1>10 DEF ChainsOK
  <1> QED BY <1>11, <1>12 DEF after

(* A portion that is in no list joins one. *)
LEMMA ChainsJoin ==
  ASSUME NEW m, NEW ls, NEW hd, ChainsOK(m, ls, hd), NEW p, SLoose(m, ls, hd, p),
         NEW h \in Heads, NEW i \in 0 .. Len(ls[h]),
         NEW l, ChainedIn(l, m, h, Entry(h, ls[h], i), p[1], p[Len(p)], Entry(Null, ls[h], i + 1))
  PROVE  ChainsOK(l, [ls EXCEPT ![h] = With(ls[h], i, p)], hd)
  <1> DEFINE s == ls[h]
             t == With(s, i, p)
             after == [ls EXCEPT ![h] = t]
             a == Entry(h, s, i)
             b == Entry(Null, s, i + 1)
  <1>0. /\ p \in Seq(Nodes) /\ p # <<>> /\ IsInjective(p) /\ Led(m, p)
        /\ Range(p) \cap Range(hd) = {} /\ \A g \in Heads : Range(ls[g]) \cap Range(p) = {}
    BY DEF SLoose
  <1>1. /\ m \in Chains /\ hd \in Seq(Nodes)
        /\ ls \in [Heads -> Seq(Nodes)] /\ Apart(Heads, ls, hd)
        /\ \A g \in Heads : ls[g] \in Seq(Nodes) /\ IsInjective(ls[g]) /\ g \notin Nodes
        /\ \A g \in Heads : Chained(m, g, ls[g])
        /\ Led(m, hd)
    BY AddressAssumption DEF ChainsOK, Apart
  <1>2. /\ after \in [Heads -> Seq(Nodes)] /\ after[h] = t
        /\ \A g \in Heads \ {h} : after[g] = ls[g]
        /\ Apart(Heads, after, hd)
    <2>1. after \in [Heads -> Seq(Nodes)] /\ after[h] = t /\ \A g \in Heads \ {h} : after[g] = ls[g]
      <3>1. t \in Seq(Nodes)
        BY <1>0, <1>1, WithFacts
      <3> HIDE DEF t
      <3> QED BY <1>1, <3>1
    <2>2. Apart(Heads, after, hd)
      BY <1>0, <1>1, JoinApart
    <2> QED BY <2>1, <2>2
  <1>3. a \in {h} \cup Range(s)
    <2>1. i \in 0 .. Len(s) + 1
      BY <1>1
    <2> QED BY <1>1, <2>1, EntryDistinct
  <1>4. \A r \in Seq(Nodes) : Range(r) \subseteq Nodes
    BY Positions
  <1>5. p[Len(p)] \in Range(p)
    <2>1. Len(p) \in 1 .. Len(p)
      BY <1>0
    <2> QED BY <1>0, <2>1, Positions
  <1>7. /\ l \in Chains
        /\ \A x \in Heads \cup Nodes :
             l.next[x] = IF x = a THEN p[1] ELSE IF x = p[Len(p)] THEN b ELSE m.next[x]
        /\ \A g \in Heads : l.tail[g] = IF g = h /\ b = Null THEN p[Len(p)] ELSE m.tail[g]
    BY DEF ChainedIn
  <1> HIDE DEF after
  <1>8. \A x \in Heads \cup Nodes :
          x \notin {h} \cup Range(s) \cup Range(p) => l.next[x] = m.next[x]
    BY <1>3, <1>5, <1>7
  <1>9. Chained(l, h, t)
    <2>1. \A x \in {h} \cup Range(s) \cup Range(p) : x \in Heads \cup Nodes
      BY <1>0, <1>1, <1>4
    <2>2. /\ \A x \in {h} \cup Range(s) \cup Range(p) :
              l.next[x] = IF x = Entry(h, s, i) THEN p[1]
                          ELSE IF x = p[Len(p)] THEN Entry(Null, s, i + 1)
                          ELSE m.next[x]
          /\ l.tail[h] = IF Entry(Null, s, i + 1) = Null THEN p[Len(p)] ELSE m.tail[h]
      BY <1>7, <2>1
    <2>3. s \in Seq(Nodes) /\ IsInjective(s) /\ h \notin Nodes /\ Chained(m, h, s)
      BY <1>1
    <2>4. i \in 0 .. Len(s) /\ Range(s) \cap Range(p) = {}
      BY <1>0
    <2> HIDE DEF s, t
    <2> QED BY <1>0, <2>2, <2>3, <2>4, ChainJoin, Zenon DEF t
  <1>10. ASSUME NEW g \in Heads PROVE Chained(l, g, after[g])
    <2>1. CASE g = h
      BY <1>2, <1>9, <2>1
    <2>2. CASE g # h
      <3>1. /\ Range(ls[g]) \cap Range(s) = {} /\ g \notin Nodes
            /\ Range(s) \subseteq Nodes /\ Range(ls[g]) \cap Range(p) = {}
            /\ Range(p) \subseteq Nodes
        BY <1>0, <1>1, <1>4, <2>2 DEF Apart
      <3>2. \A x \in {g} \cup Range(ls[g]) :
              x \in Heads \cup Nodes /\ x \notin {h} \cup Range(s) \cup Range(p)
        BY <1>1, <1>4, <2>2, <3>1
      <3>3. (\A x \in {g} \cup Range(ls[g]) : l.next[x] = m.next[x]) /\ l.tail[g] = m.tail[g]
        BY <1>7, <1>8, <2>2, <3>2
      <3>4. Chained(l, g, ls[g])
        BY <1>1, <3>3, ChainKept1
      <3> QED BY <1>2, <2>2, <3>4
    <2> QED BY <2>1, <2>2
  <1>11. Led(l, hd)
    <2>1. Range(s) \cap Range(hd) = {} /\ Range(hd) \subseteq Nodes
      BY <1>1, <1>4 DEF Apart
    <2>2. \A x \in Range(hd) : l.next[x] = m.next[x]
      BY <1>0, <1>1, <1>4, <1>8, <2>1
    <2> QED BY <1>1, <2>2, LedKept
  <1> QED BY <1>1, <1>2, <1>7, <1>9, <1>10, <1>11 DEF ChainsOK, after

(* What a portion in hand adds to the rest. *)
LEMMA SInHand ==
  ASSUME NEW m, NEW ls, NEW p, p # <<>>
  PROVE  ChainsOK(m, ls, p) <=> ChainsOK(m, ls, <<>>) /\ SLoose(m, ls, <<>>, p)
  <1>1. /\ <<>> \in Seq(Nodes) /\ IsInjective(<<>>) /\ Range(<<>>) = {}
        /\ Led(m, <<>>)
    BY NoNode DEF Led
  <1> QED BY <1>1 DEF ChainsOK, Apart, SLoose

(* The two stores of the fields next that join a portion after a place k. *)
SJoinedAfter(l, m, ls, h, k, p) ==
  ChainedIn(l, m, h, Entry(h, ls[h], k), p[1], p[Len(p)], m.next[Entry(h, ls[h], k)])

LEMMA ChainsJoinAt ==
  ASSUME NEW m, NEW ls, NEW hd, ChainsOK(m, ls, hd), NEW p, SLoose(m, ls, hd, p),
         NEW h \in Heads, NEW i \in 0 .. Len(ls[h]), NEW l, SJoinedAfter(l, m, ls, h, i, p)
  PROVE  ChainsOK(l, [ls EXCEPT ![h] = With(ls[h], i, p)], hd)
  <1>1. m.next[Entry(h, ls[h], i)] = Entry(Null, ls[h], i + 1)
    BY DEF ChainsOK, Chained
  <1>2. ChainedIn(l, m, h, Entry(h, ls[h], i), p[1], p[Len(p)], Entry(Null, ls[h], i + 1))
    BY <1>1 DEF SJoinedAfter
  <1> QED BY <1>2, ChainsJoin

(* A portion goes to another place, after what is not in it. *)
LEMMA ChainsMove ==
  ASSUME NEW m, NEW ls, NEW hd, ChainsOK(m, ls, hd),
         NEW h \in Heads, NEW i \in 1 .. Len(ls[h]), NEW j \in i .. Len(ls[h]),
         NEW g \in Heads, NEW k \in 0 .. Len(ls[g]), g # h \/ k \notin i .. j,
         NEW out, CutIn(out, m, h, Entry(h, ls[h], i - 1), Entry(Null, ls[h], j + 1)),
         NEW l, SJoinedAfter(l, out, ls, g, k, SubSeq(ls[h], i, j))
  PROVE  ChainsOK(l, MovedLists(ls, h, i, j, g, k), hd)
  <1> DEFINE p == SubSeq(ls[h], i, j)
             rest == [ls EXCEPT ![h] = Without(ls[h], i, j)]
             to == IF g = h THEN Shifted(i, j, k) ELSE k
  <1>1. ChainsOK(out, rest, hd) /\ SLoose(out, rest, hd, p)
    BY ChainsCut
  <1>2. ls \in [Heads -> Seq(Nodes)] /\ k \in Int
    BY DEF ChainsOK
  <1>3. /\ rest[h] = Without(ls[h], i, j) /\ (g # h => rest[g] = ls[g])
        /\ ls[h] \in Seq(Nodes)
    BY <1>2
  <1> HIDE DEF p, rest
  <1>4. to \in 0 .. Len(rest[g]) /\ Entry(g, ls[g], k) = Entry(g, rest[g], to)
    <2>1. CASE g # h
      BY <1>3, <2>1
    <2>2. CASE g = h
      <3>1. k \in 0 .. Len(ls[h]) /\ to = Shifted(i, j, k) /\ rest[g] = Without(ls[h], i, j)
        BY <1>3, <2>2
      <3>2. StillThere(h, ls[h], i, j, k)
        BY <1>3, <3>1, EntryCut
      <3> QED BY <2>2, <3>1, <3>2 DEF StillThere
    <2> QED BY <2>1, <2>2
  <1> HIDE DEF to
  <1>5. SJoinedAfter(l, out, rest, g, to, p)
    BY <1>4 DEF SJoinedAfter, p
  <1>6. ChainsOK(l, [rest EXCEPT ![g] = With(rest[g], to, p)], hd)
    BY <1>1, <1>4, <1>5, ChainsJoinAt
  <1> QED BY <1>6 DEF MovedLists, p, rest, to

(* A node that joins is a portion of its own. *)
LEMMA SLooseNode ==
  ASSUME NEW m, NEW ls \in [Heads -> Seq(Nodes)], NEW hd \in Seq(Nodes), NEW n \in Nodes,
         n \notin Range(hd), \A h \in Heads : n \notin Range(ls[h])
  PROVE  SLoose(m, ls, hd, <<n>>)
  <1>1. /\ <<n>> \in Seq(Nodes) /\ Len(<<n>>) = 1 /\ <<n>> # <<>>
        /\ IsInjective(<<n>>) /\ Range(<<n>>) = {n}
    BY SingleNode
  <1>2. Led(m, <<n>>)
    BY <1>1 DEF Led
  <1> QED BY <1>1, <1>2 DEF SLoose

(* What goes out for good is forgotten, which changes nothing else. *)
LEMMA ChainsForgotten ==
  ASSUME NEW m, NEW ls, NEW hd, ChainsOK(m, ls, hd), NEW out \in SUBSET Nodes,
         out \cap Range(hd) = {}, \A h \in Heads : out \cap Range(ls[h]) = {}
  PROVE  ChainsOK(S!Forgotten(m, out), ls, hd)
  <1>1. m \in Chains
    BY DEF ChainsOK
  <1>2. /\ S!Forgotten(m, out) \in Chains
        /\ S!Forgotten(m, out).tail = m.tail
        /\ \A x \in Heads \cup Nodes : x \notin out => S!Forgotten(m, out).next[x] = m.next[x]
    BY <1>1 DEF S!Forgotten, Chains
  <1>3. Heads \cap out = {}
    BY AddressAssumption
  <1> QED BY <1>2, <1>3, ChainsKept

-----------------------------------------------------------------------------
(* The calls of module Slist. *)

ChainsNow == ChainsOK(mem, lists, hand)

(* What the entries of a list are. *)
LEMMA SEntries ==
  ASSUME ChainsNow, NEW h \in Heads
  PROVE  /\ mem \in Chains /\ lists \in [Heads -> Seq(Nodes)] /\ hand \in Seq(Nodes)
         /\ lists[h] \in Seq(Nodes) /\ Len(lists[h]) \in Nat
         /\ IsInjective(lists[h]) /\ h \notin Nodes
         /\ Chained(mem, h, lists[h])
         /\ \A i \in 0 .. Len(lists[h]) + 1 : Entry(h, lists[h], i) \in Heads \cup Nodes
         /\ \A i \in 1 .. Len(lists[h]) :
              /\ Entry(h, lists[h], i) = lists[h][i]
              /\ lists[h][i] \in Nodes /\ lists[h][i] \in Range(lists[h])
         /\ \A i \in 0 .. Len(lists[h]) + 1 : Entry(Null, lists[h], i) \in Nodes \cup {Null}
  <1>1. /\ mem \in Chains /\ lists \in [Heads -> Seq(Nodes)] /\ hand \in Seq(Nodes)
        /\ lists[h] \in Seq(Nodes) /\ IsInjective(lists[h]) /\ h \notin Nodes
        /\ Chained(mem, h, lists[h])
    BY AddressAssumption DEF ChainsNow, ChainsOK, Apart
  <1>2. Len(lists[h]) \in Nat /\ \A i \in 1 .. Len(lists[h]) : lists[h][i] \in Nodes /\ lists[h][i] \in Range(lists[h])
    BY <1>1, Positions
  <1> QED BY <1>1, <1>2 DEF Entry

(* What withdrawing nodes i to j of a list does to the memory. *)
LEMMA SWithdrawn ==
  ASSUME ChainsNow, NEW h \in Heads, NEW i \in 1 .. Len(lists[h]), NEW j \in i .. Len(lists[h])
  PROVE  CutIn(S!Withdraw(mem, h, S!At(h, i - 1), S!At(h, j)), mem, h,
               Entry(h, lists[h], i - 1), Entry(Null, lists[h], j + 1))
  <1> DEFINE s == lists[h]
             a == Entry(h, s, i - 1)
             last == Entry(h, s, j)
             b == Entry(Null, s, j + 1)
  <1>1. Len(s) \in Nat
    BY SEntries
  <1>2. /\ i - 1 \in 0 .. Len(s) + 1 /\ j \in 0 .. Len(s) + 1 /\ j \in 0 .. Len(s)
        /\ j + 1 \in 0 .. Len(s) + 1
    BY <1>1
  <1>3. a \in Heads \cup Nodes /\ last \in Heads \cup Nodes /\ b \in Nodes \cup {Null}
    BY <1>2, SEntries
  <1>4. mem.next[last] = b
    BY <1>2, SEntries DEF Chained
  <1>5. S!Withdraw(mem, h, S!At(h, i - 1), S!At(h, j)) = S!Withdraw(mem, h, a, last)
    BY SlistNames
  <1>6. mem \in Chains
    BY SEntries
  <1> HIDE DEF a, b, last
  <1>7. CutIn(S!Withdraw(mem, h, a, last), mem, h, a, mem.next[last])
    BY <1>3, <1>4, <1>6, SWithdraw
  <1> QED BY <1>4, <1>5, <1>7 DEF a, b

LEMMA SInitList ==
  ASSUME ChainsNow, NEW h \in Heads, S!InitList(h)
  PROVE  ChainsNow'
  <1> DEFINE s == lists[h]
             after == [lists EXCEPT ![h] = <<>>]
  <1>1. /\ mem \in Chains /\ lists \in [Heads -> Seq(Nodes)] /\ Apart(Heads, lists, hand)
        /\ hand \in Seq(Nodes) /\ Led(mem, hand)
        /\ \A g \in Heads : lists[g] \in Seq(Nodes) /\ IsInjective(lists[g]) /\ g \notin Nodes
        /\ \A g \in Heads : Chained(mem, g, lists[g])
    BY AddressAssumption DEF ChainsNow, ChainsOK, Apart
  <1>2. <<>> \in Seq(Nodes) /\ IsInjective(<<>>) /\ Range(<<>>) = {} /\ Len(<<>>) = 0
    BY NoNode
  <1>3. \A r \in Seq(Nodes) : Range(r) \subseteq Nodes
    BY Positions
  <1>4. Apart(Heads, after, hand) /\ after \in [Heads -> Seq(Nodes)]
    <2>1. /\ Range(<<>>) \cap Range(hand) = {}
          /\ \A g \in Heads \ {h} : Range(lists[g]) \cap Range(<<>>) = {}
      BY <1>2
    <2> QED BY <1>1, <1>2, <2>1, ChangeApart
  <1>5. /\ lists' = after /\ hand' = hand
        /\ after[h] = <<>> /\ \A g \in Heads \ {h} : after[g] = lists[g]
    BY <1>1 DEF S!InitList
  <1> HIDE DEF after
  <1>6. /\ mem' \in Chains
        /\ mem'.next[h] = Null /\ mem'.tail[h] = h
        /\ \A g \in Heads : g # h => mem'.tail[g] = mem.tail[g]
        /\ \A x \in Heads \cup Nodes : x # h /\ x \notin Range(s) => mem'.next[x] = mem.next[x]
    <2>1. mem' = S!Forgotten(S!Initialised(mem, h), Range(s)) /\ h \notin Range(s)
      BY <1>1, <1>3, SlistNames DEF S!InitList
    <2> QED BY <1>1, <2>1 DEF S!Forgotten, S!Initialised, Chains
  <1>7. ASSUME NEW g \in Heads PROVE Chained(mem', g, after[g])
    <2>1. CASE g = h
      BY <1>2, <1>5, <1>6, <2>1 DEF Chained, Entry
    <2>2. CASE g # h
      <3>1. /\ Range(lists[g]) \cap Range(s) = {} /\ Range(lists[g]) \subseteq Nodes
            /\ Range(s) \subseteq Nodes
        BY <1>1, <1>3, <2>2 DEF Apart
      <3>2. \A x \in {g} \cup Range(lists[g]) : x \in Heads \cup Nodes /\ x # h /\ x \notin Range(s)
        BY <1>1, <2>2, <3>1
      <3>3. Chained(mem', g, lists[g])
        BY <1>1, <1>6, <2>2, <3>2, ChainKept1
      <3> QED BY <1>5, <2>2, <3>3
    <2> QED BY <2>1, <2>2
  <1>8. Led(mem', hand)
    <2>1. \A x \in Range(hand) : x \in Heads \cup Nodes /\ x # h /\ x \notin Range(s)
      BY <1>1, <1>3 DEF Apart
    <2> QED BY <1>1, <1>6, <2>1, LedKept
  <1> QED BY <1>1, <1>4, <1>5, <1>6, <1>7, <1>8 DEF ChainsNow, ChainsOK

(* A node that is in no list is loose. *)
LEMMA SFree ==
  ASSUME ChainsNow, NEW n \in Nodes, S!Free(n)
  PROVE  /\ n \notin Range(hand) /\ \A h \in Heads : n \notin Range(lists[h])
         /\ SLoose(mem, lists, hand, <<n>>)
         /\ <<n>>[1] = n /\ <<n>>[Len(<<n>>)] = n
  <1>1. n \notin Range(hand) /\ \A h \in Heads : n \notin Range(lists[h])
    BY SlistNames DEF S!Free, S!InLists
  <1>2. SLoose(mem, lists, hand, <<n>>)
    BY <1>1, SLooseNode DEF ChainsNow, ChainsOK
  <1> QED BY <1>1, <1>2

LEMMA SAppendNode ==
  ASSUME ChainsNow, NEW h \in Heads, NEW i \in 0 .. Len(lists[h]), NEW n \in Nodes,
         S!AppendNode(h, i, n)
  PROVE  ChainsNow'
  <1> DEFINE a == Entry(h, lists[h], i)
  <1>1. SLoose(mem, lists, hand, <<n>>) /\ <<n>>[1] = n /\ <<n>>[Len(<<n>>)] = n
    BY SFree DEF S!AppendNode
  <1>2. mem \in Chains /\ a \in Heads \cup Nodes /\ S!At(h, i) = a
    <2>1. i \in 0 .. Len(lists[h]) + 1
      BY SEntries
    <2> QED BY <2>1, SEntries, SlistNames
  <1>3. mem' = S!AppendAfter(mem, h, a, n)
    BY <1>2 DEF S!AppendNode
  <1> HIDE DEF a
  <1>4. ChainedIn(mem', mem, h, a, n, n, mem.next[a])
    BY <1>2, <1>3, SAppendAfter
  <1>5. SJoinedAfter(mem', mem, lists, h, i, <<n>>)
    BY <1>1, <1>4 DEF SJoinedAfter, a
  <1>6. lists' = [lists EXCEPT ![h] = With(lists[h], i, <<n>>)] /\ hand' = hand
    BY SlistNames DEF S!AppendNode
  <1> QED BY <1>1, <1>5, <1>6, ChainsJoinAt DEF ChainsNow

(* What follows the last place is Null, and appending joins there. *)
LEMMA AppendIsWith ==
  ASSUME NEW X, NEW s \in Seq(X), NEW n \in X
  PROVE  Append(s, n) = With(s, Len(s), <<n>>)
  <1> DEFINE p == <<n>>
             t == With(s, Len(s), p)
             u == Append(s, n)
  <1>1. p \in Seq(X) /\ Len(p) = 1 /\ p[1] = n /\ Len(s) \in Nat /\ Len(s) \in 0 .. Len(s)
    OBVIOUS
  <1>2. u \in Seq(X) /\ Len(u) = Len(s) + 1 /\ \A k \in 1 .. Len(u) : u[k] = IF k <= Len(s) THEN s[k] ELSE n
    OBVIOUS
  <1> HIDE DEF p, u
  <1>3. /\ t \in Seq(X) /\ Len(t) = Len(s) + Len(p)
        /\ \A k \in 1 .. Len(t) :
             t[k] = IF k <= Len(s) THEN s[k]
                    ELSE IF k <= Len(s) + Len(p) THEN p[k - Len(s)] ELSE s[k - Len(p)]
    BY <1>1, WithFacts
  <1> HIDE DEF t
  <1>4. ASSUME NEW k \in 1 .. Len(s) + 1 PROVE t[k] = u[k]
    <2>1. CASE k <= Len(s)
      BY <1>1, <1>2, <1>3, <2>1
    <2>2. CASE ~(k <= Len(s))
      <3>1. k - Len(s) = 1 /\ k <= Len(s) + Len(p)
        BY <1>1, <2>2
      <3>2. t[k] = p[k - Len(s)]
        BY <1>1, <1>3, <2>2, <3>1
      <3> QED BY <1>1, <1>2, <2>2, <3>1, <3>2
    <2> QED BY <2>1, <2>2
  <1>5. t = u
    BY <1>1, <1>2, <1>3, <1>4
  <1> QED BY <1>5 DEF p, t, u

LEMMA SNqueueBack ==
  ASSUME ChainsNow, NEW h \in Heads, NEW n \in Nodes, S!NqueueBack(h, n)
  PROVE  ChainsNow'
  <1> DEFINE s == lists[h]
             a == Entry(h, s, Len(s))
  <1>1. /\ SLoose(mem, lists, hand, <<n>>) /\ <<n>>[1] = n /\ <<n>>[Len(<<n>>)] = n
        /\ n \notin Range(s)
    BY SFree DEF S!NqueueBack
  <1>2. /\ mem \in Chains /\ s \in Seq(Nodes) /\ Len(s) \in Nat
        /\ mem.tail[h] = a /\ h \notin Nodes /\ IsInjective(s)
    BY SEntries DEF Chained
  <1>3. Len(s) \in 0 .. Len(s) /\ Len(s) \in 0 .. Len(s) + 1
    BY <1>2
  <1>4. a # n
    BY <1>1, <1>2, <1>3, EntryDistinct
  <1>5. Entry(Null, s, Len(s) + 1) = Null
    BY <1>2 DEF Entry
  <1>6. ChainedIn(mem', mem, h, a, n, n, Null)
    BY <1>2, <1>4, SAppendBack DEF S!NqueueBack
  <1>7. ChainedIn(mem', mem, h, Entry(h, lists[h], Len(s)), <<n>>[1], <<n>>[Len(<<n>>)],
                  Entry(Null, lists[h], Len(s) + 1))
    BY <1>1, <1>5, <1>6
  <1>8. lists' = [lists EXCEPT ![h] = With(lists[h], Len(s), <<n>>)] /\ hand' = hand
    BY <1>2, AppendIsWith DEF S!NqueueBack
  <1> QED BY <1>1, <1>3, <1>7, <1>8, ChainsJoin DEF ChainsNow

(* A node goes out of its list for good. *)
LEMMA STakenOut ==
  ASSUME ChainsNow, NEW h \in Heads, NEW i \in 1 .. Len(lists[h])
  PROVE  ChainsOK(S!Forgotten(S!Withdraw(mem, h, S!At(h, i - 1), S!At(h, i)), {S!At(h, i)}),
                  [lists EXCEPT ![h] = Without(lists[h], i, i)], hand)
  <1> DEFINE s == lists[h]
             n == s[i]
             p == SubSeq(s, i, i)
             after == [lists EXCEPT ![h] = Without(s, i, i)]
             out == S!Withdraw(mem, h, S!At(h, i - 1), S!At(h, i))
  <1>1. i \in i .. Len(s)
    OBVIOUS
  <1>2. CutIn(out, mem, h, Entry(h, s, i - 1), Entry(Null, s, i + 1))
    BY <1>1, SWithdrawn
  <1> HIDE DEF out
  <1>3. ChainsOK(out, after, hand) /\ SLoose(out, after, hand, p)
    BY <1>1, <1>2, ChainsCut DEF ChainsNow
  <1>4. s \in Seq(Nodes) /\ n \in Nodes /\ S!At(h, i) = n
    BY SEntries, SlistNames
  <1>5. n \in Range(p)
    <2>1. p \in Seq(Nodes) /\ Len(p) = i - i + 1 /\ \A k \in 1 .. Len(p) : p[k] = s[i + k - 1]
      BY <1>1, <1>4, PortionFacts
    <2> HIDE DEF s, p, n
    <2>2. 1 \in 1 .. Len(p) /\ i + 1 - 1 = i
      BY <2>1
    <2>3. p[1] = s[i]
      BY <2>1, <2>2
    <2> QED BY <2>1, <2>2, <2>3, Positions DEF n
  <1>6. {n} \cap Range(hand) = {} /\ \A g \in Heads : {n} \cap Range(after[g]) = {}
    BY <1>3, <1>5 DEF SLoose
  <1> HIDE DEF after, n
  <1>7. ChainsOK(S!Forgotten(out, {n}), after, hand)
    BY <1>3, <1>4, <1>6, ChainsForgotten
  <1> QED BY <1>4, <1>7 DEF out, after

LEMMA SRemove ==
  ASSUME ChainsNow, NEW h \in Heads, NEW i \in 1 .. Len(lists[h]), S!Remove(h, i)
  PROVE  ChainsNow'
  <1>1. /\ mem' = S!Forgotten(S!Withdraw(mem, h, S!At(h, i - 1), S!At(h, i)), {S!At(h, i)})
        /\ lists' = [lists EXCEPT ![h] = Without(lists[h], i, i)] /\ hand' = hand
    BY SlistNames DEF S!Remove, S!RemoveNode
  <1> QED BY <1>1, STakenOut DEF ChainsNow

LEMMA TailIsWithout ==
  ASSUME NEW X, NEW s \in Seq(X), s # <<>>
  PROVE  Tail(s) = Without(s, 1, 1)
  <1> DEFINE t == Without(s, 1, 1)
             u == Tail(s)
  <1>1. Len(s) \in Nat /\ 1 \in 1 .. Len(s)
    OBVIOUS
  <1>2. u \in Seq(X) /\ Len(u) = Len(s) - 1 /\ \A k \in 1 .. Len(u) : u[k] = s[k + 1]
    OBVIOUS
  <1>3. /\ t \in Seq(X) /\ Len(t) = Len(s) - 1
        /\ \A k \in 1 .. Len(t) : t[k] = IF k < 1 THEN s[k] ELSE s[k + 1]
    BY <1>1, WithoutOne
  <1> HIDE DEF t, u
  <1>4. t = u
    BY <1>1, <1>2, <1>3
  <1> QED BY <1>4 DEF t, u

LEMMA SDqueueFront ==
  ASSUME ChainsNow, NEW h \in Heads, S!DqueueFront(h)
  PROVE  ChainsNow'
  <1> DEFINE s == lists[h]
  <1>1. s \in Seq(Nodes) /\ Len(s) \in Nat /\ mem.next[h] = Entry(Null, s, 1)
    <2>1. s \in Seq(Nodes) /\ Len(s) \in Nat /\ Chained(mem, h, s)
      BY SEntries
    <2>2. 0 \in 0 .. Len(s) /\ 0 + 1 = 1 /\ Entry(h, s, 0) = h
      BY <2>1 DEF Entry
    <2>3. mem.next[Entry(h, s, 0)] = Entry(Null, s, 0 + 1)
      BY <2>1, <2>2 DEF Chained
    <2> HIDE DEF s
    <2> QED BY <2>1, <2>2, <2>3
  <1>2. 1 \in 1 .. Len(s) /\ s # <<>> /\ mem.next[h] = s[1]
    BY <1>1 DEF S!DqueueFront, S!Empty, Entry
  <1>3. S!At(h, 0) = h /\ S!At(h, 1) = s[1]
    BY <1>2, SlistNames DEF Entry
  <1>4. mem' = S!Forgotten(S!Withdraw(mem, h, S!At(h, 1 - 1), S!At(h, 1)), {S!At(h, 1)})
    <2>1. 1 - 1 = 0
      OBVIOUS
    <2>2. mem' = S!Forgotten(S!Withdraw(mem, h, S!At(h, 0), S!At(h, 1)), {S!At(h, 1)})
      BY <1>2, <1>3 DEF S!DqueueFront, S!RemoveFront, S!RemoveNode
    <2> QED BY <2>1, <2>2
  <1>5. lists' = [lists EXCEPT ![h] = Without(lists[h], 1, 1)] /\ hand' = hand
    BY <1>1, <1>2, TailIsWithout DEF S!DqueueFront
  <1> HIDE DEF s
  <1> QED BY <1>2, <1>4, <1>5, STakenOut DEF ChainsNow, s

LEMMA SPortionEnds ==
  ASSUME ChainsNow, NEW h \in Heads, NEW i \in 1 .. Len(lists[h]), NEW j \in i .. Len(lists[h])
  PROVE  LET p == SubSeq(lists[h], i, j)
         IN  p[1] = lists[h][i] /\ p[Len(p)] = lists[h][j]
  <1> DEFINE p == SubSeq(lists[h], i, j)
  <1>1. lists[h] \in Seq(Nodes)
    BY SEntries
  <1>2. Len(p) = j - i + 1 /\ \A e \in 1 .. Len(p) : p[e] = lists[h][i + e - 1]
    BY <1>1, PortionFacts
  <1> HIDE DEF p
  <1>3. 1 \in 1 .. Len(p) /\ Len(p) \in 1 .. Len(p) /\ i + 1 - 1 = i /\ i + Len(p) - 1 = j
    BY <1>1, <1>2
  <1>4. p[1] = lists[h][i] /\ p[Len(p)] = lists[h][j]
    BY <1>2, <1>3
  <1> QED BY <1>4 DEF p

LEMMA OneNode ==
  ASSUME NEW X, NEW s \in Seq(X), NEW i \in 1 .. Len(s)
  PROVE  SubSeq(s, i, i) = <<s[i]>>
  <1> DEFINE p == SubSeq(s, i, i)
  <1>1. i \in i .. Len(s) /\ i - i + 1 = 1
    OBVIOUS
  <1>2. p \in Seq(X) /\ Len(p) = 1 /\ \A k \in 1 .. Len(p) : p[k] = s[i + k - 1]
    BY <1>1, PortionFacts
  <1> HIDE DEF p
  <1>3. 1 \in 1 .. Len(p) /\ i + 1 - 1 = i
    BY <1>2
  <1>4. p[1] = s[i]
    BY <1>2, <1>3
  <1>5. p = <<s[i]>>
    BY <1>2, <1>4
  <1> QED BY <1>5 DEF p

LEMMA SMove ==
  ASSUME ChainsNow, NEW h \in Heads, NEW i \in 1 .. Len(lists[h]), NEW k \in 0 .. Len(lists[h]),
         S!Move(h, i, k)
  PROVE  ChainsNow'
  <1> DEFINE s == lists[h]
             n == s[i]
             a == Entry(h, s, k)
             p == SubSeq(s, i, i)
             out == S!Withdraw(mem, h, S!At(h, i - 1), S!At(h, i))
  <1>1. i \in i .. Len(s) /\ k \notin i .. i /\ (\A e \in Int : e - (i - i + 1) = e - 1) /\ k \in Int
    BY DEF S!Move
  <1>2. CutIn(out, mem, h, Entry(h, s, i - 1), Entry(Null, s, i + 1))
    BY <1>1, SWithdrawn
  <1>3. s \in Seq(Nodes) /\ n \in Nodes /\ S!At(h, i) = n /\ S!At(h, k) = a /\ a \in Heads \cup Nodes
    <2>1. k \in 0 .. Len(s) + 1
      BY SEntries
    <2> QED BY <2>1, SEntries, SlistNames
  <1>4. p = <<n>>
    BY <1>3, OneNode
  <1>5. p[1] = n /\ p[Len(p)] = n
    BY <1>4
  <1>6. mem' = S!AppendAfter(out, h, a, n)
    BY <1>3 DEF S!Move, S!MoveNode, S!RemoveNode
  <1> HIDE DEF out, a, n
  <1>7. ChainedIn(mem', out, h, a, n, n, out.next[a])
    BY <1>2, <1>3, <1>6, SAppendAfter DEF CutIn
  <1>8. SJoinedAfter(mem', out, lists, h, k, p)
    BY <1>5, <1>7 DEF SJoinedAfter, a
  <1>9. ChainsOK(mem', MovedLists(lists, h, i, i, h, k), hand)
    <2> HIDE DEF p
    <2> QED BY <1>1, <1>2, <1>8, ChainsMove DEF ChainsNow, p
  <1>10. lists' = MovedLists(lists, h, i, i, h, k) /\ hand' = hand
    <2> DEFINE t == Without(s, i, i)
    <2>1. lists' = [lists EXCEPT ![h] = With(t, IF k < i THEN k ELSE k - 1, <<n>>)] /\ hand' = hand
      BY <1>3, SlistNames DEF S!Move
    <2>2. lists' = [lists EXCEPT ![h] = With(t, Shifted(i, i, k), p)]
      BY <1>1, <1>4, <2>1 DEF Shifted
    <2> HIDE DEF t, p
    <2>3. lists \in [Heads -> Seq(Nodes)]
      BY SEntries
    <2> QED BY <2>1, <2>2, <2>3 DEF MovedLists, t, p
  <1> QED BY <1>9, <1>10 DEF ChainsNow

LEMMA SSplice ==
  ASSUME ChainsNow, NEW h \in Heads, NEW i \in 1 .. Len(lists[h]), NEW j \in i .. Len(lists[h]),
         NEW g \in Heads, NEW k \in 0 .. Len(lists[g]), S!Splice(h, i, j, g, k)
  PROVE  ChainsNow'
  <1> DEFINE s == lists[h]
             a == Entry(g, lists[g], k)
             p == SubSeq(s, i, j)
             first == s[i]
             last == s[j]
             out == S!Withdraw(mem, h, S!At(h, i - 1), S!At(h, j))
  <1>1. CutIn(out, mem, h, Entry(h, s, i - 1), Entry(Null, s, j + 1))
    BY SWithdrawn
  <1>2. p[1] = first /\ p[Len(p)] = last
    BY SPortionEnds
  <1>3. /\ S!At(h, j) = last /\ S!At(g, k) = a /\ a \in Heads \cup Nodes
        /\ first \in Nodes /\ last \in Nodes /\ mem.next[S!At(h, i - 1)] = first
    <2>1. k \in 0 .. Len(lists[g]) + 1 /\ j \in 1 .. Len(s) /\ i - 1 \in 0 .. Len(s) /\ i - 1 + 1 = i
      BY SEntries
    <2>2. mem.next[Entry(h, s, i - 1)] = Entry(Null, s, i - 1 + 1)
      BY <2>1, SEntries DEF Chained
    <2>3. Entry(Null, s, i) = s[i]
      BY DEF Entry
    <2>4. S!At(h, j) = last /\ last \in Nodes /\ S!At(g, k) = a /\ a \in Heads \cup Nodes
      BY <2>1, SEntries, SlistNames
    <2>5. first \in Nodes
      BY SEntries
    <2> QED BY <2>1, <2>2, <2>3, <2>4, <2>5, SlistNames
  <1>4. mem' = S!Embed(out, g, a, first, last)
    BY <1>3 DEF S!Splice, S!SpliceAfter
  <1> HIDE DEF out, a, first, last
  <1>5. ChainedIn(mem', out, g, a, first, last, out.next[a])
    BY <1>1, <1>3, <1>4, SEmbed DEF CutIn
  <1>6. SJoinedAfter(mem', out, lists, g, k, p)
    BY <1>2, <1>5 DEF SJoinedAfter, a
  <1>7. g # h
    BY DEF S!Splice
  <1>8. ChainsOK(mem', MovedLists(lists, h, i, j, g, k), hand)
    <2> HIDE DEF p
    <2> QED BY <1>1, <1>6, <1>7, ChainsMove DEF ChainsNow, p
  <1>9. lists' = MovedLists(lists, h, i, j, g, k) /\ hand' = hand
    <2>1. lists' = [lists EXCEPT ![h] = Without(s, i, j), ![g] = With(@, k, p)] /\ hand' = hand
      BY SlistNames DEF S!Splice
    <2> QED BY <1>7, <2>1 DEF MovedLists
  <1> QED BY <1>8, <1>9 DEF ChainsNow

LEMMA SWithdrawPortion ==
  ASSUME ChainsNow, NEW h \in Heads, NEW i \in 1 .. Len(lists[h]), NEW j \in i .. Len(lists[h]),
         S!WithdrawPortion(h, i, j)
  PROVE  ChainsNow'
  <1> DEFINE p == SubSeq(lists[h], i, j)
             after == [lists EXCEPT ![h] = Without(lists[h], i, j)]
  <1>1. ChainsOK(mem, lists, <<>>)
    BY DEF ChainsNow, S!WithdrawPortion
  <1>2. CutIn(mem', mem, h, Entry(h, lists[h], i - 1), Entry(Null, lists[h], j + 1))
    BY SWithdrawn DEF S!WithdrawPortion
  <1>3. lists' = after /\ hand' = p
    BY SlistNames DEF S!WithdrawPortion
  <1>4. ChainsOK(mem', after, <<>>) /\ SLoose(mem', after, <<>>, p)
    BY <1>1, <1>2, ChainsCut
  <1> HIDE DEF p, after
  <1>5. p # <<>>
    BY <1>4 DEF SLoose
  <1> QED BY <1>3, <1>4, <1>5, SInHand DEF ChainsNow

LEMMA SEmbedPortion ==
  ASSUME ChainsNow, NEW h \in Heads, NEW i \in 0 .. Len(lists[h]), S!EmbedPortion(h, i)
  PROVE  ChainsNow'
  <1> DEFINE a == Entry(h, lists[h], i)
  <1>1. ChainsOK(mem, lists, <<>>) /\ SLoose(mem, lists, <<>>, hand)
    BY SInHand DEF ChainsNow, S!EmbedPortion
  <1>2. hand[1] \in Nodes /\ hand[Len(hand)] \in Nodes
    <2>1. hand \in Seq(Nodes) /\ hand # <<>>
      BY <1>1 DEF SLoose
    <2>2. 1 \in 1 .. Len(hand) /\ Len(hand) \in 1 .. Len(hand)
      BY <2>1
    <2> QED BY <2>1, <2>2
  <1>3. mem \in Chains /\ a \in Heads \cup Nodes /\ S!At(h, i) = a
    <2>1. i \in 0 .. Len(lists[h]) + 1
      BY SEntries
    <2> QED BY <2>1, SEntries, SlistNames
  <1>4. mem' = S!Embed(mem, h, a, hand[1], hand[Len(hand)])
    BY <1>3 DEF S!EmbedPortion
  <1> HIDE DEF a
  <1>5. ChainedIn(mem', mem, h, a, hand[1], hand[Len(hand)], mem.next[a])
    BY <1>2, <1>3, <1>4, SEmbed
  <1>6. SJoinedAfter(mem', mem, lists, h, i, hand)
    BY <1>5 DEF SJoinedAfter, a
  <1>7. lists' = [lists EXCEPT ![h] = With(lists[h], i, hand)] /\ hand' = <<>>
    BY SlistNames DEF S!EmbedPortion
  <1> QED BY <1>1, <1>6, <1>7, ChainsJoinAt DEF ChainsNow

ChainsInv == kind = "slist" => ChainsNow

LEMMA SInit ==
  ASSUME S!Init
  PROVE  ChainsNow
  <1>1. /\ mem = [next |-> [a \in Heads \cup Nodes |-> IF a \in Heads THEN Null ELSE Wild],
                  tail |-> [h \in Heads |-> h]]
        /\ lists = [h \in Heads |-> <<>>] /\ hand = <<>>
    BY DEF S!Init
  <1>2. <<>> \in Seq(Nodes) /\ IsInjective(<<>>) /\ Range(<<>>) = {} /\ Len(<<>>) = 0
    BY NoNode
  <1>3. mem \in Chains /\ \A h \in Heads : mem.next[h] = Null /\ mem.tail[h] = h
    BY <1>1 DEF Chains
  <1>4. lists \in [Heads -> Seq(Nodes)] /\ hand \in Seq(Nodes)
    BY <1>1, <1>2
  <1>5. Apart(Heads, lists, hand)
    BY <1>1, <1>2 DEF Apart
  <1>6. \A h \in Heads : Chained(mem, h, lists[h])
    BY <1>1, <1>2, <1>3 DEF Chained, Entry
  <1>7. Led(mem, hand)
    BY <1>1, <1>2 DEF Led
  <1> QED BY <1>3, <1>4, <1>5, <1>6, <1>7 DEF ChainsNow, ChainsOK

LEMMA SNext ==
  ASSUME ChainsNow, S!Next
  PROVE  ChainsNow'
  <1>1. \A h \in Heads : S!Places(h) = 0 .. Len(lists[h]) /\ Len(lists[h]) \in Nat
    BY SlistNames DEF ChainsNow, ChainsOK
  <1>2. \A h \in Heads : \A i : i \in S!Places(h) \ {0} => i \in 1 .. Len(lists[h])
    BY <1>1
  <1>3. ASSUME NEW h \in Heads, S!InitList(h) PROVE ChainsNow'
    BY <1>3, SInitList
  <1>4. ASSUME NEW h \in Heads, S!DqueueFront(h) PROVE ChainsNow'
    BY <1>4, SDqueueFront
  <1>5. ASSUME NEW h \in Heads, NEW n \in Nodes, S!NqueueBack(h, n) PROVE ChainsNow'
    BY <1>5, SNqueueBack
  <1>6. ASSUME NEW h \in Heads, NEW i \in S!Places(h), S!EmbedPortion(h, i) PROVE ChainsNow'
    BY <1>1, <1>6, SEmbedPortion
  <1>7. ASSUME NEW h \in Heads, NEW i \in S!Places(h), NEW n \in Nodes, S!AppendNode(h, i, n)
        PROVE  ChainsNow'
    BY <1>1, <1>7, SAppendNode
  <1>8. ASSUME NEW h \in Heads, NEW i \in S!Places(h) \ {0}, S!Remove(h, i) PROVE ChainsNow'
    BY <1>2, <1>8, SRemove
  <1>9. ASSUME NEW h \in Heads, NEW i \in S!Places(h) \ {0}, NEW k \in S!Places(h), S!Move(h, i, k)
        PROVE  ChainsNow'
    BY <1>1, <1>2, <1>9, SMove
  <1>10. ASSUME NEW h \in Heads, NEW i \in S!Places(h) \ {0}, NEW j \in i .. Len(lists[h]),
                S!WithdrawPortion(h, i, j)
         PROVE  ChainsNow'
    BY <1>2, <1>10, SWithdrawPortion
  <1>11. ASSUME NEW h \in Heads, NEW i \in S!Places(h) \ {0}, NEW j \in i .. Len(lists[h]),
                NEW g \in Heads, NEW k \in S!Places(g), S!Splice(h, i, j, g, k)
         PROVE  ChainsNow'
    BY <1>1, <1>2, <1>11, SSplice
  <1> QED BY <1>3, <1>4, <1>5, <1>6, <1>7, <1>8, <1>9, <1>10, <1>11 DEF S!Next

LEMMA SSound ==
  ASSUME ChainsNow
  PROVE  S!ChainsSound
  <1>1. /\ mem \in Chains /\ lists \in [Heads -> Seq(Nodes)] /\ hand \in Seq(Nodes)
        /\ \A h \in Heads : Chained(mem, h, lists[h]) /\ Len(lists[h]) \in Nat
        /\ Led(mem, hand)
    BY DEF ChainsNow, ChainsOK
  <1>2. S!TypeOK
    BY <1>1 DEF S!TypeOK, Chains
  <1>3. ASSUME NEW h \in Heads, NEW i \in 0 .. Len(lists[h])
        PROVE  mem.next[S!At(h, i)] = IF i = Len(lists[h]) THEN Null ELSE S!At(h, i + 1)
    <2>1. mem.next[Entry(h, lists[h], i)] = Entry(Null, lists[h], i + 1)
      BY <1>1 DEF Chained
    <2>2. Entry(Null, lists[h], i + 1) = IF i = Len(lists[h]) THEN Null ELSE Entry(h, lists[h], i + 1)
      BY <1>1 DEF Entry
    <2> QED BY <2>1, <2>2, SlistNames
  <1>4. \A h \in Heads : mem.tail[h] = S!At(h, Len(lists[h]))
    BY <1>1, SlistNames DEF Chained
  <1>5. \A i \in 1 .. Len(hand) - 1 : mem.next[hand[i]] = hand[i + 1]
    BY <1>1 DEF Led
  <1> QED BY <1>2, <1>3, <1>4, <1>5, SlistNames DEF S!ChainsSound

(* Whatever lists, nodes and calls: each singly linked list chains exactly *)
(* the nodes that the calls put there, in that order, down to Null, its    *)
(* tail is the last of them or its own head, and a portion in hand stays   *)
(* chained.                                                                *)
THEOREM ChainsAlwaysSound == Spec => []ChainsSound
  <1>1. Init => ChainsInv
    BY SInit DEF Init, ChainsInv
  <1>2. ChainsInv /\ [Next]_<<vars, kind, loop>> => ChainsInv'
    <2> SUFFICES ASSUME ChainsInv, [Next]_<<vars, kind, loop>>, kind' = "slist" PROVE ChainsNow'
      BY DEF ChainsInv
    <2>1. CASE S!Next /\ kind = "slist"
      BY <2>1, SNext DEF ChainsInv
    <2>2. CASE UNCHANGED <<vars, kind, loop>>
      BY <2>2 DEF ChainsInv, ChainsNow, vars
    <2> QED BY <2>1, <2>2 DEF Next
  <1>3. ChainsInv => ChainsSound
    BY SSound DEF ChainsInv, ChainsSound
  <1> QED BY <1>1, <1>2, <1>3, PTL DEF Spec

-----------------------------------------------------------------------------
(* Hashed lists: no tail, but nodes that point back to what leads to them. *)
Hashes == [next : [Buckets \cup Nodes -> Nodes \cup {Null, Wild}],
           prev : [Nodes -> Buckets \cup Nodes \cup {Wild}]]

(* The nodes of s, in that order, are the bucket h. *)
Bucket(m, h, s) ==
  \A i \in 0 .. Len(s) :
    /\ m.next[Entry(h, s, i)] = Entry(Null, s, i + 1)
    /\ i > 0 => m.prev[s[i]] = Entry(h, s, i - 1)

(* Nodes in no bucket are initialised, or hold whatever they hold. *)
Spare(m, n) == m.prev[n] = Wild \/ (m.prev[n] = n /\ m.next[n] = Null)

Spares(m, ls, out) ==
  \A n \in Nodes \ out : (\A h \in Buckets : n \notin Range(ls[h])) => Spare(m, n)

BucketsOK(m, ls) ==
  /\ m \in Hashes
  /\ ls \in [Buckets -> Seq(Nodes)]
  /\ Apart(Buckets, ls, <<>>)
  /\ \A h \in Buckets : Bucket(m, h, ls[h])

(* The nodes of the buckets after b, and those after the place p of it. *)
Later(ls, b) == UNION {Range(ls[h]) : h \in {g \in Buckets : g > b}}
After(ls, b, p) == {ls[b][i] : i \in p + 1 .. Len(ls[b])} \cup Later(ls, b)

(* A loop that has a node has got what is due but for what is after the    *)
(* place that it is to go on from, where the node was if it no longer is.  *)
LoopOn(m, ls, lp) ==
  /\ lp.bucket \in Buckets
  /\ ~ lp.safe => \E h \in Buckets : lp.node \in Range(ls[h])
  /\ \E p \in 0 .. Len(ls[lp.bucket]) :
       /\ lp.safe => lp.tmp = Entry(Null, ls[lp.bucket], p + 1)
       /\ (\E h \in Buckets : lp.node \in Range(ls[h])) => p > 0 /\ ls[lp.bucket][p] = lp.node
       /\ lp.due = Range(lp.got) \cup After(ls, lp.bucket, p)
       /\ Range(lp.got) \cap After(ls, lp.bucket, p) = {}

LoopOK(m, ls, lp) ==
  /\ lp.node \in Nodes \cup {Null} /\ lp.got \in Seq(Nodes) /\ lp.safe \in BOOLEAN
  /\ IsInjective(lp.got)
  /\ IF lp.node = Null THEN Range(lp.got) = lp.due ELSE LoopOn(m, ls, lp)

(* The same names, as module Hlist has them. *)
LEMMA HlistNames ==
  /\ \A s : H!Range(s) = Range(s)
  /\ \A s, i, j : H!Without(s, i, j) = Without(s, i, j)
  /\ \A s, i, p : H!With(s, i, p) = With(s, i, p)
  /\ \A h, i : H!At(h, i) = Entry(h, lists[h], i)
  /\ \A h : H!Places(h) = 0 .. Len(lists[h])
  /\ \A e : e \in H!InLists <=> \E h \in Buckets : e \in Range(lists[h])
  BY DEF H!Range, Range, H!Without, Without, H!With, With, H!At, Entry, H!Places, H!InLists

(* What is known of the list of a bucket. *)
LEMMA BucketFacts ==
  ASSUME NEW m, NEW ls, BucketsOK(m, ls), NEW h \in Buckets
  PROVE  /\ m \in Hashes /\ ls \in [Buckets -> Seq(Nodes)] /\ Apart(Buckets, ls, <<>>)
         /\ ls[h] \in Seq(Nodes) /\ Len(ls[h]) \in Nat
         /\ IsInjective(ls[h]) /\ h \notin Nodes
         /\ Bucket(m, h, ls[h])
         /\ \A i \in 0 .. Len(ls[h]) + 1 :
              /\ Entry(h, ls[h], i) \in Buckets \cup Nodes
              /\ Entry(Null, ls[h], i) \in Nodes \cup {Null}
         /\ \A i \in 1 .. Len(ls[h]) :
              /\ Entry(h, ls[h], i) = ls[h][i] /\ Entry(Null, ls[h], i) = ls[h][i]
              /\ ls[h][i] \in Nodes /\ ls[h][i] \in Range(ls[h])
  <1>1. /\ m \in Hashes /\ ls \in [Buckets -> Seq(Nodes)] /\ Apart(Buckets, ls, <<>>)
        /\ ls[h] \in Seq(Nodes) /\ IsInjective(ls[h]) /\ h \notin Nodes
        /\ Bucket(m, h, ls[h])
    BY BucketsAssumption DEF BucketsOK, Apart
  <1>2. Len(ls[h]) \in Nat /\ \A i \in 1 .. Len(ls[h]) : ls[h][i] \in Nodes /\ ls[h][i] \in Range(ls[h])
    BY <1>1, Positions
  <1> QED BY <1>1, <1>2 DEF Entry

(* What is not written to stays. *)
LEMMA BucketKept ==
  ASSUME NEW m, NEW l, NEW h, NEW s \in Seq(Nodes), h \notin Nodes, IsInjective(s), Bucket(m, h, s),
         \A x \in {h} \cup Range(s) : l.next[x] = m.next[x],
         \A x \in Range(s) : l.prev[x] = m.prev[x]
  PROVE  Bucket(l, h, s)
  <1>1. /\ Len(s) \in Nat /\ \A i \in 0 .. Len(s) + 1 : Entry(h, s, i) \in {h} \cup Range(s)
        /\ \A i \in 1 .. Len(s) : s[i] \in Range(s)
    BY EntryDistinct DEF Entry
  <1>2. ASSUME NEW i \in 0 .. Len(s)
        PROVE  /\ l.next[Entry(h, s, i)] = Entry(Null, s, i + 1)
               /\ i > 0 => l.prev[s[i]] = Entry(h, s, i - 1)
    <2>1. Entry(h, s, i) \in {h} \cup Range(s) /\ (i > 0 => s[i] \in Range(s))
      BY <1>1
    <2> QED BY <2>1 DEF Bucket
  <1> QED BY <1>2 DEF Bucket

(* The places of a list without one node, or with one more. *)
LEMMA EntryWithoutOne ==
  ASSUME NEW X, NEW s \in Seq(X), NEW h, NEW i \in 1 .. Len(s)
  PROVE  LET t == Without(s, i, i)
         IN  /\ t \in Seq(X) /\ Len(t) = Len(s) - 1
             /\ \A k \in 0 .. Len(t) + 1 :
                  Entry(h, t, k) = IF k < i THEN Entry(h, s, k) ELSE Entry(h, s, k + 1)
  <1> DEFINE t == Without(s, i, i)
  <1>1. /\ t \in Seq(X) /\ Len(t) = Len(s) - 1 /\ Len(s) \in Nat
        /\ \A k \in 1 .. Len(t) : t[k] = IF k < i THEN s[k] ELSE s[k + 1]
    BY WithoutOne
  <1> HIDE DEF t
  <1>2. ASSUME NEW k \in 0 .. Len(t) + 1
        PROVE  Entry(h, t, k) = IF k < i THEN Entry(h, s, k) ELSE Entry(h, s, k + 1)
    BY <1>1 DEF Entry
  <1> QED BY <1>1, <1>2 DEF t

LEMMA EntryWithOne ==
  ASSUME NEW X, NEW s \in Seq(X), NEW n \in X, NEW h, NEW i \in 0 .. Len(s)
  PROVE  LET t == With(s, i, <<n>>)
         IN  /\ t \in Seq(X) /\ Len(t) = Len(s) + 1
             /\ \A k \in 0 .. Len(t) + 1 :
                  Entry(h, t, k) =
                    IF k <= i THEN Entry(h, s, k)
                    ELSE IF k = i + 1 THEN n
                    ELSE Entry(h, s, k - 1)
  <1> DEFINE p == <<n>>
             t == With(s, i, p)
  <1>1. p \in Seq(X) /\ Len(p) = 1 /\ p[1] = n
    OBVIOUS
  <1> HIDE DEF p
  <1>2. /\ t \in Seq(X) /\ Len(t) = Len(s) + 1 /\ Len(s) \in Nat
        /\ \A k \in 1 .. Len(t) :
             t[k] = IF k <= i THEN s[k] ELSE IF k <= i + 1 THEN p[k - i] ELSE s[k - 1]
    <2>1. /\ t \in Seq(X) /\ Len(t) = Len(s) + Len(p)
          /\ \A k \in 1 .. Len(t) :
               t[k] = IF k <= i THEN s[k] ELSE IF k <= i + Len(p) THEN p[k - i] ELSE s[k - Len(p)]
      BY <1>1, WithFacts
    <2>2. Len(s) \in Nat
      OBVIOUS
    <2> HIDE DEF t
    <2> QED BY <1>1, <2>1, <2>2
  <1> HIDE DEF t
  <1>3. ASSUME NEW k \in 0 .. Len(t) + 1
        PROVE  Entry(h, t, k) =
                 IF k <= i THEN Entry(h, s, k)
                 ELSE IF k = i + 1 THEN n
                 ELSE Entry(h, s, k - 1)
    <2>1. CASE k <= i
      BY <1>2, <2>1 DEF Entry
    <2>2. CASE k = i + 1
      <3>1. k - i = 1 /\ k \in 1 .. Len(t)
        BY <1>2, <2>2
      <3> QED BY <1>1, <1>2, <2>2, <3>1 DEF Entry
    <2>3. CASE k > i + 1
      BY <1>2, <2>3 DEF Entry
    <2> QED BY <1>2, <2>1, <2>2, <2>3
  <1> QED BY <1>2, <1>3 DEF p, t

(* In l, b follows a; in the other, n is between them. *)
HCutIn(l, m, a, b) ==
  /\ l \in Hashes
  /\ \A x \in Buckets \cup Nodes : l.next[x] = IF x = a THEN b ELSE m.next[x]
  /\ \A x \in Nodes : l.prev[x] = IF x = b THEN a ELSE m.prev[x]

HJoinedIn(l, m, a, n, b) ==
  /\ l \in Hashes
  /\ \A x \in Buckets \cup Nodes : l.next[x] = IF x = a THEN n ELSE IF x = n THEN b ELSE m.next[x]
  /\ \A x \in Nodes : l.prev[x] = IF x = n THEN a ELSE IF x = b THEN n ELSE m.prev[x]

(* The chain that a node is taken out of, and the one that it is put in. *)
LEMMA BucketCut ==
  ASSUME NEW m, NEW l, NEW h, NEW s \in Seq(Nodes), h \notin Nodes, IsInjective(s), Bucket(m, h, s),
         NEW i \in 1 .. Len(s),
         \A x \in {h} \cup Range(s) :
           l.next[x] = IF x = Entry(h, s, i - 1) THEN Entry(Null, s, i + 1) ELSE m.next[x],
         \A x \in Range(s) :
           l.prev[x] = IF x = Entry(Null, s, i + 1) THEN Entry(h, s, i - 1) ELSE m.prev[x]
  PROVE  Bucket(l, h, Without(s, i, i))
  <1> DEFINE t == Without(s, i, i)
             at(k) == Entry(h, s, k)
             to(k) == Entry(Null, s, k)
  <1>0. Len(s) \in Nat /\ i \in Nat
    OBVIOUS
  <1>1. /\ Len(t) = Len(s) - 1
        /\ \A k \in 0 .. Len(t) + 1 : Entry(h, t, k) = IF k < i THEN at(k) ELSE at(k + 1)
    BY EntryWithoutOne
  <1>2. \A k \in 0 .. Len(t) + 1 : Entry(Null, t, k) = IF k < i THEN to(k) ELSE to(k + 1)
    BY EntryWithoutOne
  <1>3. /\ \A a, b \in 0 .. Len(s) : at(a) = at(b) => a = b
        /\ \A a \in 0 .. Len(s) + 1 : at(a) \in {h} \cup Range(s)
        /\ \A a \in 1 .. Len(s) : at(a) = s[a] /\ to(a) = s[a] /\ s[a] \in Range(s) /\ s[a] \in Nodes
    BY EntryDistinct DEF Entry
  <1>4. /\ \A k \in 0 .. Len(s) : m.next[at(k)] = to(k + 1)
        /\ \A k \in 1 .. Len(s) : m.prev[at(k)] = at(k - 1)
    <2>1. \A k \in 0 .. Len(s) : m.next[at(k)] = to(k + 1) /\ (k > 0 => m.prev[s[k]] = at(k - 1))
      BY DEF Bucket
    <2> HIDE DEF at, to
    <2> QED BY <1>0, <1>3, <2>1
  <1>5. \A k \in 1 .. Len(s) : at(k) = to(i + 1) <=> k = i + 1
    <2> TAKE k \in 1 .. Len(s)
    <2>1. CASE i + 1 \in 1 .. Len(s)
      BY <1>0, <1>3, <2>1
    <2>2. CASE i + 1 \notin 1 .. Len(s)
      <3>1. to(i + 1) = Null /\ k # i + 1
        BY <2>2 DEF Entry
      <3> QED BY <1>3, <3>1, NullAssumption
    <2> QED BY <2>1, <2>2
  <1> HIDE DEF t, at, to
  <1>6. \A k \in 0 .. Len(s) : l.next[at(k)] = IF k = i - 1 THEN to(i + 1) ELSE to(k + 1)
    <2> TAKE k \in 0 .. Len(s)
    <2>1. at(k) \in {h} \cup Range(s) /\ (at(k) = at(i - 1) <=> k = i - 1)
      BY <1>0, <1>3
    <2> QED BY <2>1, <1>4 DEF at, to
  <1>7. \A k \in 1 .. Len(s) : l.prev[at(k)] = IF k = i + 1 THEN at(i - 1) ELSE at(k - 1)
    <2> TAKE k \in 1 .. Len(s)
    <2>1. at(k) \in Range(s) /\ (at(k) = to(i + 1) <=> k = i + 1)
      BY <1>3, <1>5
    <2> QED BY <2>1, <1>4 DEF at, to
  <1>8. ASSUME NEW k \in 0 .. Len(t) PROVE l.next[Entry(h, t, k)] = Entry(Null, t, k + 1)
    <2>0. k \in 0 .. Len(t) + 1 /\ k + 1 \in 0 .. Len(t) + 1
      BY <1>0, <1>1
    <2>1. CASE k < i - 1
      <3>1. k < i /\ k + 1 < i /\ k \in 0 .. Len(s) /\ k # i - 1
        BY <1>0, <1>1, <2>1
      <3>2. Entry(h, t, k) = at(k) /\ Entry(Null, t, k + 1) = to(k + 1)
        BY <1>1, <1>2, <2>0, <3>1
      <3> QED BY <1>6, <3>1, <3>2
    <2>2. CASE k = i - 1
      <3>1. k + 1 + 1 = i + 1 /\ ~(k + 1 < i) /\ k < i /\ k \in 0 .. Len(s)
        BY <1>0, <1>1, <2>2
      <3>2. Entry(h, t, k) = at(k) /\ Entry(Null, t, k + 1) = to(k + 1 + 1)
        BY <1>1, <1>2, <2>0, <3>1
      <3> QED BY <1>6, <2>2, <3>1, <3>2
    <2>3. CASE k > i - 1
      <3>1. /\ ~(k + 1 < i) /\ ~(k < i) /\ k + 1 \in 0 .. Len(s) /\ k + 1 # i - 1
        BY <1>0, <1>1, <2>3
      <3>2. Entry(h, t, k) = at(k + 1) /\ Entry(Null, t, k + 1) = to(k + 1 + 1)
        BY <1>1, <1>2, <2>0, <3>1
      <3> QED BY <1>6, <3>1, <3>2
    <2> QED BY <1>0, <2>1, <2>2, <2>3
  <1>9. ASSUME NEW k \in 1 .. Len(t) PROVE l.prev[Entry(h, t, k)] = Entry(h, t, k - 1)
    <2>0. k \in 0 .. Len(t) + 1 /\ k - 1 \in 0 .. Len(t) + 1
      BY <1>0, <1>1
    <2>1. CASE k < i
      <3>1. k - 1 < i /\ k \in 1 .. Len(s) /\ k # i + 1
        BY <1>0, <1>1, <2>1
      <3>2. Entry(h, t, k) = at(k) /\ Entry(h, t, k - 1) = at(k - 1)
        BY <1>1, <2>0, <2>1, <3>1
      <3> QED BY <1>7, <3>1, <3>2
    <2>2. CASE k = i
      <3>1. k + 1 \in 1 .. Len(s) /\ ~(k < i) /\ k - 1 < i
        BY <1>0, <1>1, <2>2
      <3>2. Entry(h, t, k) = at(k + 1) /\ Entry(h, t, k - 1) = at(k - 1)
        BY <1>1, <2>0, <3>1
      <3> QED BY <1>7, <2>2, <3>1, <3>2
    <2>3. CASE k > i
      <3>1. /\ k + 1 \in 1 .. Len(s) /\ ~(k < i) /\ ~(k - 1 < i) /\ k + 1 # i + 1
        BY <1>0, <1>1, <2>3
      <3>2. Entry(h, t, k) = at(k + 1) /\ Entry(h, t, k - 1) = at(k - 1 + 1)
        BY <1>1, <2>0, <3>1
      <3>3. l.prev[at(k + 1)] = at(k + 1 - 1) /\ k + 1 - 1 = k /\ k - 1 + 1 = k
        BY <1>7, <3>1
      <3> QED BY <3>2, <3>3
    <2> QED BY <1>0, <2>1, <2>2, <2>3
  <1>10. \A k \in 1 .. Len(t) : Entry(h, t, k) = t[k]
    BY DEF Entry
  <1>11. ASSUME NEW k \in 0 .. Len(t), k > 0 PROVE l.prev[t[k]] = Entry(h, t, k - 1)
    <2>1. k \in 1 .. Len(t)
      BY <1>0, <1>1, <1>11
    <2> QED BY <1>9, <1>10, <2>1
  <1> QED BY <1>8, <1>11 DEF t, Bucket

LEMMA BucketJoin ==
  ASSUME NEW m, NEW l, NEW h, NEW s \in Seq(Nodes), h \notin Nodes, IsInjective(s), Bucket(m, h, s),
         NEW n \in Nodes, n \notin Range(s), NEW i \in 0 .. Len(s),
         \A x \in {h, n} \cup Range(s) :
           l.next[x] = IF x = Entry(h, s, i) THEN n
                       ELSE IF x = n THEN Entry(Null, s, i + 1)
                       ELSE m.next[x],
         \A x \in {n} \cup Range(s) :
           l.prev[x] = IF x = n THEN Entry(h, s, i)
                       ELSE IF x = Entry(Null, s, i + 1) THEN n
                       ELSE m.prev[x]
  PROVE  Bucket(l, h, With(s, i, <<n>>))
  <1> DEFINE t == With(s, i, <<n>>)
             at(k) == Entry(h, s, k)
             to(k) == Entry(Null, s, k)
  <1>0. Len(s) \in Nat /\ i \in Nat
    OBVIOUS
  <1>1. /\ Len(t) = Len(s) + 1
        /\ \A k \in 0 .. Len(t) + 1 :
             Entry(h, t, k) = IF k <= i THEN at(k) ELSE IF k = i + 1 THEN n ELSE at(k - 1)
    BY EntryWithOne
  <1>2. \A k \in 0 .. Len(t) + 1 :
          Entry(Null, t, k) = IF k <= i THEN to(k) ELSE IF k = i + 1 THEN n ELSE to(k - 1)
    BY EntryWithOne
  <1>3. /\ \A a, b \in 0 .. Len(s) : at(a) = at(b) => a = b
        /\ \A a \in 0 .. Len(s) + 1 : at(a) \in {h} \cup Range(s) /\ at(a) # n
        /\ \A a \in 1 .. Len(s) : at(a) = s[a] /\ to(a) = s[a] /\ s[a] \in Range(s) /\ s[a] \in Nodes
    BY EntryDistinct DEF Entry
  <1>4. /\ \A k \in 0 .. Len(s) : m.next[at(k)] = to(k + 1)
        /\ \A k \in 1 .. Len(s) : m.prev[at(k)] = at(k - 1)
    <2>1. \A k \in 0 .. Len(s) : m.next[at(k)] = to(k + 1) /\ (k > 0 => m.prev[s[k]] = at(k - 1))
      BY DEF Bucket
    <2> HIDE DEF at, to
    <2> QED BY <1>0, <1>3, <2>1, SMTT(30)
  <1>5. \A k \in 1 .. Len(s) : at(k) = to(i + 1) <=> k = i + 1
    <2> TAKE k \in 1 .. Len(s)
    <2>1. CASE i + 1 \in 1 .. Len(s)
      BY <1>0, <1>3, <2>1
    <2>2. CASE i + 1 \notin 1 .. Len(s)
      <3>1. to(i + 1) = Null /\ k # i + 1
        BY <2>2 DEF Entry
      <3> QED BY <1>3, <3>1, NullAssumption
    <2> QED BY <2>1, <2>2
  <1>6. /\ l.next[n] = to(i + 1) /\ l.prev[n] = at(i)
    BY <1>0, <1>3
  <1> HIDE DEF t, at, to
  <1>7. \A k \in 0 .. Len(s) : l.next[at(k)] = IF k = i THEN n ELSE to(k + 1)
    <2> TAKE k \in 0 .. Len(s)
    <2>1. at(k) \in {h} \cup Range(s) /\ (at(k) = at(i) <=> k = i) /\ at(k) # n
      BY <1>0, <1>3
    <2> QED BY <2>1, <1>4 DEF at, to
  <1>8. \A k \in 1 .. Len(s) : l.prev[at(k)] = IF k = i + 1 THEN n ELSE at(k - 1)
    <2> TAKE k \in 1 .. Len(s)
    <2>1. at(k) \in Range(s) /\ (at(k) = to(i + 1) <=> k = i + 1) /\ at(k) # n
      BY <1>0, <1>3, <1>5
    <2> QED BY <2>1, <1>4 DEF at, to
  <1>9. ASSUME NEW k \in 0 .. Len(t) PROVE l.next[Entry(h, t, k)] = Entry(Null, t, k + 1)
    <2>0. k \in 0 .. Len(t) + 1 /\ k + 1 \in 0 .. Len(t) + 1
      BY <1>0, <1>1
    <2>1. CASE k < i
      <3>1. k <= i /\ k + 1 <= i /\ k \in 0 .. Len(s) /\ k # i
        BY <1>0, <2>1
      <3>2. Entry(h, t, k) = at(k) /\ Entry(Null, t, k + 1) = to(k + 1)
        BY <1>1, <1>2, <2>0, <3>1
      <3> QED BY <1>7, <3>1, <3>2
    <2>2. CASE k = i
      <3>1. ~(k + 1 <= i) /\ k <= i /\ k \in 0 .. Len(s)
        BY <1>0, <2>2
      <3>2. Entry(h, t, k) = at(k) /\ Entry(Null, t, k + 1) = n
        BY <1>1, <1>2, <2>0, <2>2, <3>1
      <3> QED BY <1>7, <2>2, <3>1, <3>2
    <2>3. CASE k = i + 1
      <3>1. ~(k + 1 <= i) /\ k + 1 # i + 1 /\ ~(k <= i)
        BY <1>0, <2>3
      <3>2. Entry(h, t, k) = n
        BY <1>1, <2>0, <2>3, <3>1
      <3>3. Entry(Null, t, k + 1) = to(k + 1 - 1) /\ k + 1 - 1 = i + 1
        BY <1>0, <1>2, <2>0, <2>3, <3>1
      <3> QED BY <1>6, <3>2, <3>3
    <2>4. CASE k > i + 1
      <3>1. /\ ~(k + 1 <= i) /\ ~(k <= i) /\ k # i + 1 /\ k + 1 # i + 1
            /\ k - 1 \in 0 .. Len(s) /\ k - 1 # i
        BY <1>0, <1>1, <2>4
      <3>2. Entry(h, t, k) = at(k - 1)
        BY <1>1, <2>0, <3>1
      <3>3. Entry(Null, t, k + 1) = to(k + 1 - 1) /\ k + 1 - 1 = k - 1 + 1
        BY <1>0, <1>2, <2>0, <3>1
      <3> QED BY <1>7, <3>1, <3>2, <3>3
    <2> QED BY <1>0, <2>1, <2>2, <2>3, <2>4
  <1>10. ASSUME NEW k \in 1 .. Len(t) PROVE l.prev[Entry(h, t, k)] = Entry(h, t, k - 1)
    <2>0. k \in 0 .. Len(t) + 1 /\ k - 1 \in 0 .. Len(t) + 1
      BY <1>0, <1>1
    <2>1. CASE k <= i
      <3>1. k - 1 <= i /\ k \in 1 .. Len(s) /\ k # i + 1
        BY <1>0, <2>1
      <3>2. Entry(h, t, k) = at(k) /\ Entry(h, t, k - 1) = at(k - 1)
        BY <1>1, <2>0, <2>1, <3>1
      <3> QED BY <1>8, <3>1, <3>2
    <2>2. CASE k = i + 1
      <3>1. ~(k <= i) /\ k - 1 <= i /\ k - 1 = i
        BY <1>0, <2>2
      <3>2. Entry(h, t, k) = n /\ Entry(h, t, k - 1) = at(k - 1)
        BY <1>1, <2>0, <2>2, <3>1
      <3> QED BY <1>6, <3>1, <3>2
    <2>3. CASE k = i + 2
      <3>1. /\ ~(k <= i) /\ k # i + 1 /\ ~(k - 1 <= i) /\ k - 1 = i + 1
            /\ k - 1 \in 1 .. Len(s)
        BY <1>0, <1>1, <2>3
      <3>2. Entry(h, t, k) = at(k - 1) /\ Entry(h, t, k - 1) = n
        BY <1>1, <2>0, <3>1
      <3> QED BY <1>8, <3>1, <3>2
    <2>4. CASE k > i + 2
      <3>1. /\ ~(k <= i) /\ k # i + 1 /\ ~(k - 1 <= i) /\ k - 1 # i + 1
            /\ k - 1 \in 1 .. Len(s)
        BY <1>0, <1>1, <2>4
      <3>2. Entry(h, t, k) = at(k - 1) /\ Entry(h, t, k - 1) = at(k - 1 - 1)
        BY <1>1, <2>0, <3>1
      <3> QED BY <1>8, <3>1, <3>2
    <2> QED BY <1>0, <2>1, <2>2, <2>3, <2>4
  <1>11. \A k \in 1 .. Len(t) : Entry(h, t, k) = t[k]
    BY DEF Entry
  <1>12. ASSUME NEW k \in 0 .. Len(t), k > 0 PROVE l.prev[t[k]] = Entry(h, t, k - 1)
    <2>1. k \in 1 .. Len(t)
      BY <1>0, <1>1, <1>12
    <2> QED BY <1>10, <1>11, <2>1
  <1> QED BY <1>9, <1>12 DEF t, Bucket

(* A node goes out of its bucket. *)
LEMMA BucketsCut ==
  ASSUME NEW m, NEW ls, BucketsOK(m, ls), Spares(m, ls, {}),
         NEW h \in Buckets, NEW i \in 1 .. Len(ls[h]),
         NEW l, HCutIn(l, m, Entry(h, ls[h], i - 1), Entry(Null, ls[h], i + 1))
  PROVE  LET after == [ls EXCEPT ![h] = Without(ls[h], i, i)]
         IN  /\ BucketsOK(l, after) /\ Spares(l, after, {ls[h][i]})
             /\ \A g \in Buckets : ls[h][i] \notin Range(after[g])
  <1> DEFINE s == ls[h]
             n == s[i]
             t == Without(s, i, i)
             p == SubSeq(s, i, i)
             after == [ls EXCEPT ![h] = t]
             a == Entry(h, s, i - 1)
             b == Entry(Null, s, i + 1)
  <1>1. /\ m \in Hashes /\ ls \in [Buckets -> Seq(Nodes)] /\ Apart(Buckets, ls, <<>>)
        /\ s \in Seq(Nodes) /\ Len(s) \in Nat /\ IsInjective(s) /\ n \in Nodes /\ n \in Range(s)
        /\ \A g \in Buckets : ls[g] \in Seq(Nodes) /\ IsInjective(ls[g]) /\ g \notin Nodes
        /\ \A g \in Buckets : Bucket(m, g, ls[g])
    BY BucketFacts
  <1>2. /\ after \in [Buckets -> Seq(Nodes)] /\ after[h] = t
        /\ \A g \in Buckets \ {h} : after[g] = ls[g]
        /\ Apart(Buckets, after, <<>>)
        /\ \A g \in Buckets : n \notin Range(after[g])
        /\ Range(s) = Range(t) \cup {n}
    <2>1. i \in i .. Len(s)
      OBVIOUS
    <2>2. after \in [Buckets -> Seq(Nodes)] /\ after[h] = t /\ Apart(Buckets, after, <<>>)
      BY <1>1, <2>1, CutApart
    <2>6. Range(t) \cup Range(p) = Range(s)
      BY <1>1, <2>1, WithoutDistinct
    <2>3. \A g \in Buckets \ {h} : after[g] = ls[g]
      BY <1>1
    <2>4. p = <<n>> /\ Range(<<n>>) = {n}
      BY <1>1, OneNode, SingleNode
    <2>5. \A g \in Buckets : Range(after[g]) \cap Range(p) = {}
      BY <1>1, <2>1, CutApart
    <2> HIDE DEF after, p
    <2> QED BY <2>2, <2>3, <2>4, <2>5, <2>6
  <1>3. a \in {h} \cup Range(s) /\ b \in Range(s) \cup {Null}
    <2>1. i - 1 \in 0 .. Len(s) + 1
      BY <1>1
    <2>2. a \in {h} \cup Range(s)
      BY <1>1, <2>1, EntryDistinct
    <2>3. \A k \in 1 .. Len(s) : s[k] \in Range(s)
      BY <1>1, Positions
    <2> QED BY <1>1, <2>2, <2>3 DEF Entry
  <1>4. \A r \in Seq(Nodes) : Range(r) \subseteq Nodes
    BY Positions
  <1>5. /\ l \in Hashes
        /\ \A x \in Buckets \cup Nodes : l.next[x] = IF x = a THEN b ELSE m.next[x]
        /\ \A x \in Nodes : l.prev[x] = IF x = b THEN a ELSE m.prev[x]
    BY DEF HCutIn
  <1> HIDE DEF after
  <1>6. /\ \A x \in Buckets \cup Nodes : x \notin {h} \cup Range(s) => l.next[x] = m.next[x]
        /\ \A x \in Nodes : x \notin Range(s) => l.prev[x] = m.prev[x]
    BY <1>3, <1>5, NullAssumption
  <1>7. Bucket(l, h, t)
    <2>1. \A x \in {h} \cup Range(s) :
            l.next[x] = IF x = Entry(h, s, i - 1) THEN Entry(Null, s, i + 1) ELSE m.next[x]
      BY <1>1, <1>4, <1>5
    <2>2. \A x \in Range(s) :
            l.prev[x] = IF x = Entry(Null, s, i + 1) THEN Entry(h, s, i - 1) ELSE m.prev[x]
      BY <1>1, <1>4, <1>5
    <2> HIDE DEF a, b, t
    <2> QED BY <1>1, <2>1, <2>2, BucketCut DEF t
  <1>8. ASSUME NEW g \in Buckets PROVE Bucket(l, g, after[g])
    <2>1. CASE g = h
      BY <1>2, <1>7, <2>1
    <2>2. CASE g # h
      <3>1. Range(ls[g]) \cap Range(s) = {} /\ g \notin Nodes /\ h \notin Nodes /\ Range(s) \subseteq Nodes
        BY <1>1, <1>4, <2>2 DEF Apart
      <3>2. /\ \A x \in {g} \cup Range(ls[g]) : x \in Buckets \cup Nodes /\ x \notin {h} \cup Range(s)
            /\ \A x \in Range(ls[g]) : x \in Nodes /\ x \notin Range(s)
        BY <1>1, <1>4, <2>2, <3>1
      <3>3. Bucket(l, g, ls[g])
        BY <1>1, <1>6, <3>2, BucketKept
      <3> QED BY <1>2, <2>2, <3>3
    <2> QED BY <2>1, <2>2
  <1>9. ASSUME NEW x \in Nodes \ {n}, \A g \in Buckets : x \notin Range(after[g])
        PROVE  Spare(l, x)
    <2>1. x \notin Range(s)
      BY <1>2, <1>9
    <2>2. \A g \in Buckets : x \notin Range(ls[g])
      BY <1>2, <1>9, <2>1
    <2>3. x \notin {h} \cup Range(s) /\ x \in Buckets \cup Nodes
      BY <1>1, <2>1
    <2>4. Spare(m, x)
      BY <2>2 DEF Spares
    <2> QED BY <1>6, <2>1, <2>3, <2>4 DEF Spare
  <1>10. BucketsOK(l, after)
    BY <1>2, <1>5, <1>8 DEF BucketsOK
  <1>11. Spares(l, after, {n})
    BY <1>9 DEF Spares
  <1> QED BY <1>2, <1>10, <1>11 DEF after

(* A node that is in no bucket joins one. *)
LEMMA BucketsJoin ==
  ASSUME NEW m, NEW ls, BucketsOK(m, ls), Spares(m, ls, {}),
         NEW n \in Nodes, \A g \in Buckets : n \notin Range(ls[g]),
         NEW h \in Buckets, NEW i \in 0 .. Len(ls[h]),
         NEW l, HJoinedIn(l, m, Entry(h, ls[h], i), n, Entry(Null, ls[h], i + 1))
  PROVE  LET after == [ls EXCEPT ![h] = With(ls[h], i, <<n>>)]
         IN  BucketsOK(l, after) /\ Spares(l, after, {})
  <1> DEFINE s == ls[h]
             p == <<n>>
             t == With(s, i, p)
             after == [ls EXCEPT ![h] = t]
             a == Entry(h, s, i)
             b == Entry(Null, s, i + 1)
  <1>1. /\ m \in Hashes /\ ls \in [Buckets -> Seq(Nodes)] /\ Apart(Buckets, ls, <<>>)
        /\ s \in Seq(Nodes) /\ Len(s) \in Nat /\ IsInjective(s)
        /\ \A g \in Buckets : ls[g] \in Seq(Nodes) /\ IsInjective(ls[g]) /\ g \notin Nodes
        /\ \A g \in Buckets : Bucket(m, g, ls[g])
    BY BucketFacts
  <1>2. /\ after \in [Buckets -> Seq(Nodes)] /\ after[h] = t
        /\ \A g \in Buckets \ {h} : after[g] = ls[g]
        /\ Apart(Buckets, after, <<>>)
        /\ Range(t) = Range(s) \cup {n}
    <2>1. /\ p \in Seq(Nodes) /\ IsInjective(p) /\ Range(p) = {n}
          /\ Range(<<>>) = {}
      BY SingleNode, NoNode
    <2>2. Range(p) \cap Range(<<>>) = {} /\ \A g \in Buckets : Range(ls[g]) \cap Range(p) = {}
      BY <2>1
    <2> HIDE DEF p
    <2>3. Apart(Buckets, after, <<>>)
      BY <1>1, <2>1, <2>2, JoinApart
    <2>6. after \in [Buckets -> Seq(Nodes)] /\ after[h] = t
      <3>1. t \in Seq(Nodes)
        BY <1>1, <2>1, WithFacts
      <3> HIDE DEF t
      <3> QED BY <1>1, <3>1
    <2>5. Range(t) = Range(s) \cup Range(p)
      BY <1>1, <2>1, <2>2, WithDistinct
    <2>4. \A g \in Buckets \ {h} : after[g] = ls[g]
      BY <1>1
    <2> QED BY <2>1, <2>3, <2>4, <2>5, <2>6
  <1>3. a \in {h} \cup Range(s) /\ b \in Range(s) \cup {Null}
    <2>1. i \in 0 .. Len(s) + 1
      BY <1>1
    <2>2. a \in {h} \cup Range(s)
      BY <1>1, <2>1, EntryDistinct
    <2>3. \A k \in 1 .. Len(s) : s[k] \in Range(s)
      BY <1>1, Positions
    <2> QED BY <1>1, <2>2, <2>3 DEF Entry
  <1>4. \A r \in Seq(Nodes) : Range(r) \subseteq Nodes
    BY Positions
  <1>5. /\ l \in Hashes
        /\ \A x \in Buckets \cup Nodes :
             l.next[x] = IF x = a THEN n ELSE IF x = n THEN b ELSE m.next[x]
        /\ \A x \in Nodes : l.prev[x] = IF x = n THEN a ELSE IF x = b THEN n ELSE m.prev[x]
    BY DEF HJoinedIn
  <1> HIDE DEF after
  <1>6. /\ \A x \in Buckets \cup Nodes : x \notin {h, n} \cup Range(s) => l.next[x] = m.next[x]
        /\ \A x \in Nodes : x \notin {n} \cup Range(s) => l.prev[x] = m.prev[x]
    BY <1>3, <1>5, NullAssumption
  <1>7. Bucket(l, h, t)
    <2>1. \A x \in {h, n} \cup Range(s) :
            l.next[x] = IF x = Entry(h, s, i) THEN n
                        ELSE IF x = n THEN Entry(Null, s, i + 1) ELSE m.next[x]
      BY <1>1, <1>4, <1>5
    <2>2. \A x \in {n} \cup Range(s) :
            l.prev[x] = IF x = n THEN Entry(h, s, i)
                        ELSE IF x = Entry(Null, s, i + 1) THEN n ELSE m.prev[x]
      BY <1>1, <1>4, <1>5
    <2>3. n \notin Range(s)
      OBVIOUS
    <2> HIDE DEF a, b, t
    <2> QED BY <1>1, <2>1, <2>2, <2>3, BucketJoin DEF t
  <1>8. ASSUME NEW g \in Buckets PROVE Bucket(l, g, after[g])
    <2>1. CASE g = h
      BY <1>2, <1>7, <2>1
    <2>2. CASE g # h
      <3>1. Range(ls[g]) \cap Range(s) = {} /\ g \notin Nodes /\ h \notin Nodes /\ Range(s) \subseteq Nodes
        BY <1>1, <1>4, <2>2 DEF Apart
      <3>2. /\ \A x \in {g} \cup Range(ls[g]) : x \in Buckets \cup Nodes /\ x \notin {h, n} \cup Range(s)
            /\ \A x \in Range(ls[g]) : x \in Nodes /\ x \notin {n} \cup Range(s)
        BY <1>1, <1>4, <2>2, <3>1
      <3>3. Bucket(l, g, ls[g])
        BY <1>1, <1>6, <3>2, BucketKept
      <3> QED BY <1>2, <2>2, <3>3
    <2> QED BY <2>1, <2>2
  <1>9. ASSUME NEW x \in Nodes, \A g \in Buckets : x \notin Range(after[g])
        PROVE  Spare(l, x)
    <2>1. x \notin {n} \cup Range(s)
      BY <1>2, <1>9
    <2>2. \A g \in Buckets : x \notin Range(ls[g])
      BY <1>2, <1>9, <2>1
    <2>3. x \notin {h, n} \cup Range(s) /\ x \in Buckets \cup Nodes
      BY <1>1, <2>1
    <2>4. Spare(m, x)
      BY <2>2 DEF Spares
    <2> QED BY <1>6, <2>1, <2>3, <2>4 DEF Spare
  <1>10. BucketsOK(l, after)
    BY <1>2, <1>5, <1>8 DEF BucketsOK
  <1>11. Spares(l, after, {})
    BY <1>9 DEF Spares
  <1> QED BY <1>10, <1>11 DEF after

(* Nodes that are in no bucket are spare once forgotten or initialised. *)
LEMMA BucketsSpared ==
  ASSUME NEW m, NEW ls, BucketsOK(m, ls), NEW n \in Nodes, Spares(m, ls, {n}),
         \A g \in Buckets : n \notin Range(ls[g]),
         NEW l \in {H!Forgotten(m, {n}), H!InitialisedNode(m, n)}
  PROVE  BucketsOK(l, ls) /\ Spares(l, ls, {})
  <1>1. m \in Hashes /\ ls \in [Buckets -> Seq(Nodes)] /\ Apart(Buckets, ls, <<>>)
    BY DEF BucketsOK
  <1>2. /\ l \in Hashes
        /\ \A x \in Buckets \cup Nodes : x # n => l.next[x] = m.next[x]
        /\ \A x \in Nodes : x # n => l.prev[x] = m.prev[x]
        /\ Spare(l, n)
    <2>1. CASE l = H!Forgotten(m, {n})
      BY <1>1, <2>1 DEF H!Forgotten, Hashes, Spare
    <2>2. CASE l = H!InitialisedNode(m, n)
      BY <1>1, <2>2 DEF H!InitialisedNode, Hashes, Spare
    <2> QED BY <2>1, <2>2
  <1>3. ASSUME NEW g \in Buckets PROVE Bucket(l, g, ls[g])
    <2>1. /\ ls[g] \in Seq(Nodes) /\ g \notin Nodes /\ IsInjective(ls[g]) /\ Bucket(m, g, ls[g])
          /\ Range(ls[g]) \subseteq Nodes
      BY BucketFacts, Positions
    <2>2. /\ \A x \in {g} \cup Range(ls[g]) : x \in Buckets \cup Nodes /\ x # n
          /\ \A x \in Range(ls[g]) : x \in Nodes /\ x # n
      BY <2>1
    <2> QED BY <1>2, <2>1, <2>2, BucketKept
  <1>4. BucketsOK(l, ls)
    BY <1>1, <1>2, <1>3 DEF BucketsOK
  <1>5. Spares(l, ls, {})
    <2>1. \A x \in Nodes \ {n} : Spare(m, x) => Spare(l, x)
      BY <1>2 DEF Spare
    <2> QED BY <1>2, <2>1 DEF Spares
  <1> QED BY <1>4, <1>5

(* What the stores of the library do. *)
LEMMA HAppendAfter ==
  ASSUME NEW m \in Hashes, NEW a \in Buckets \cup Nodes, NEW n \in Nodes,
         m.next[a] \in Nodes \cup {Null}, m.next[a] # n
  PROVE  HJoinedIn(H!AppendAfter(m, a, n), m, a, n, m.next[a])
  <1> DEFINE b == m.next[a]
             l == [m EXCEPT !.next = [@ EXCEPT ![n] = b, ![a] = n], !.prev[n] = a]
             k == IF b = Null THEN l ELSE [l EXCEPT !.prev[b] = n]
  <1>1. /\ l \in Hashes
        /\ \A x \in Buckets \cup Nodes : l.next[x] = IF x = a THEN n ELSE IF x = n THEN b ELSE m.next[x]
        /\ \A x \in Nodes : l.prev[x] = IF x = n THEN a ELSE m.prev[x]
    BY DEF Hashes
  <1>2. k = H!AppendAfter(m, a, n)
    BY DEF H!AppendAfter, H!PointsBack
  <1> HIDE DEF l, b
  <1>3. b \in Nodes \cup {Null} /\ b # n
    BY DEF b
  <1>4. /\ k \in Hashes /\ k.next = l.next
        /\ \A x \in Nodes : k.prev[x] = IF x = b THEN n ELSE l.prev[x]
    BY <1>1, <1>3, NullAssumption DEF Hashes
  <1> HIDE DEF k
  <1>5. HJoinedIn(k, m, a, n, b)
    BY <1>1, <1>3, <1>4 DEF HJoinedIn
  <1> QED BY <1>2, <1>5 DEF b

LEMMA HInsertBefore ==
  ASSUME NEW m \in Hashes, NEW at \in Nodes, NEW n \in Nodes, at # n,
         m.prev[at] \in Buckets \cup Nodes
  PROVE  HJoinedIn(H!InsertBefore(m, at, n), m, m.prev[at], n, at)
  BY DEF H!InsertBefore, HJoinedIn, Hashes

LEMMA HRemoveNode ==
  ASSUME NEW m \in Hashes, NEW n \in Nodes,
         m.prev[n] \in Buckets \cup Nodes, m.next[n] \in Nodes \cup {Null}
  PROVE  HCutIn(H!RemoveNode(m, n), m, m.prev[n], m.next[n])
  <1> DEFINE a == m.prev[n]
             b == m.next[n]
             l == [m EXCEPT !.next[a] = b]
             k == IF b = Null THEN l ELSE [l EXCEPT !.prev[b] = a]
  <1>1. /\ l \in Hashes /\ l.prev = m.prev
        /\ \A x \in Buckets \cup Nodes : l.next[x] = IF x = a THEN b ELSE m.next[x]
    BY DEF Hashes
  <1>2. k = H!RemoveNode(m, n)
    BY DEF H!RemoveNode, H!PointsBack
  <1>3. a \in Buckets \cup Nodes /\ b \in Nodes \cup {Null}
    OBVIOUS
  <1> HIDE DEF l, a, b
  <1>4. /\ k \in Hashes /\ k.next = l.next
        /\ \A x \in Nodes : k.prev[x] = IF x = b THEN a ELSE l.prev[x]
    BY <1>1, <1>3, NullAssumption DEF Hashes
  <1> HIDE DEF k
  <1>5. HCutIn(k, m, a, b)
    BY <1>1, <1>4 DEF HCutIn
  <1> QED BY <1>2, <1>5 DEF a, b

-----------------------------------------------------------------------------
(* The calls of module Hlist. *)

HashesNow == BucketsOK(mem, lists) /\ Spares(mem, lists, {}) /\ hand = <<>>

LEMMA HFree ==
  ASSUME HashesNow, NEW n \in Nodes, H!Free(n)
  PROVE  \A h \in Buckets : n \notin Range(lists[h])
  BY HlistNames DEF H!Free

LEMMA HInitList ==
  ASSUME HashesNow, NEW buckets \in SUBSET Buckets, H!InitList(buckets)
  PROVE  HashesNow'
  <1> DEFINE out == UNION {Range(lists[h]) : h \in buckets}
             after == [h \in Buckets |-> IF h \in buckets THEN <<>> ELSE lists[h]]
  <1>1. /\ mem \in Hashes /\ lists \in [Buckets -> Seq(Nodes)] /\ Apart(Buckets, lists, <<>>)
        /\ \A g \in Buckets : lists[g] \in Seq(Nodes) /\ IsInjective(lists[g]) /\ g \notin Nodes
        /\ \A g \in Buckets : Bucket(mem, g, lists[g])
        /\ Spares(mem, lists, {}) /\ hand = <<>>
    BY BucketFacts DEF HashesNow, BucketsOK
  <1>2. <<>> \in Seq(Nodes) /\ IsInjective(<<>>) /\ Range(<<>>) = {} /\ Len(<<>>) = 0
    BY NoNode
  <1>3. \A g \in Buckets : Range(lists[g]) \subseteq Nodes
    BY <1>1, Positions
  <1>4. after \in [Buckets -> Seq(Nodes)] /\ Apart(Buckets, after, <<>>)
    BY <1>1, <1>2 DEF Apart
  <1>5. lists' = after /\ hand' = hand
    BY DEF H!InitList
  <1>6. \A e : e \in out <=> \E h \in buckets : e \in Range(lists[h])
    OBVIOUS
  <1>7. mem' = H!Forgotten(H!Emptied(mem, buckets), out)
    BY HlistNames DEF H!InitList
  <1> HIDE DEF out
  <1>8. out \subseteq Nodes /\ buckets \cap Nodes = {}
    BY <1>1, <1>3, <1>6
  <1>9. /\ mem' \in Hashes
        /\ \A h \in buckets : mem'.next[h] = Null
        /\ \A x \in Buckets \cup Nodes : x \notin buckets \cup out => mem'.next[x] = mem.next[x]
        /\ \A x \in Nodes : mem'.prev[x] = IF x \in out THEN Wild ELSE mem.prev[x]
    BY <1>1, <1>7, <1>8 DEF H!Forgotten, H!Emptied, Hashes
  <1>10. ASSUME NEW g \in Buckets PROVE Bucket(mem', g, after[g])
    <2>1. CASE g \in buckets
      BY <1>2, <1>9, <2>1 DEF Bucket, Entry
    <2>2. CASE g \notin buckets
      <3>1. \A x \in Range(lists[g]) : x \in Nodes /\ x \notin out
        BY <1>1, <1>3, <1>6, <2>2 DEF Apart
      <3>2. \A x \in {g} \cup Range(lists[g]) : x \in Buckets \cup Nodes /\ x \notin buckets \cup out
        BY <1>1, <1>8, <2>2, <3>1
      <3>3. Bucket(mem', g, lists[g])
        BY <1>1, <1>9, <3>1, <3>2, BucketKept
      <3> QED BY <2>2, <3>3
    <2> QED BY <2>1, <2>2
  <1>11. ASSUME NEW n \in Nodes, \A h \in Buckets : n \notin Range(after[h])
         PROVE  Spare(mem', n)
    <2>1. CASE n \in out
      BY <1>9, <2>1 DEF Spare
    <2>2. CASE n \notin out
      <3>1. \A h \in Buckets : n \notin Range(lists[h])
        BY <1>6, <1>11, <2>2
      <3>2. Spare(mem, n)
        BY <1>1, <3>1 DEF Spares
      <3> QED BY <1>8, <1>9, <2>2, <3>2 DEF Spare
    <2> QED BY <2>1, <2>2
  <1>12. BucketsOK(mem', after)
    BY <1>4, <1>9, <1>10 DEF BucketsOK
  <1>13. Spares(mem', after, {})
    BY <1>11 DEF Spares
  <1> QED BY <1>1, <1>5, <1>12, <1>13 DEF HashesNow

LEMMA HInitNode ==
  ASSUME HashesNow, NEW n \in Nodes, H!InitNode(n)
  PROVE  HashesNow'
  <1>1. \A h \in Buckets : n \notin Range(lists[h])
    BY HFree DEF H!InitNode
  <1>2. mem' \in {H!Forgotten(mem, {n}), H!InitialisedNode(mem, n)} /\ lists' = lists /\ hand' = hand
    BY DEF H!InitNode
  <1>3. BucketsOK(mem, lists) /\ Spares(mem, lists, {n})
    BY DEF HashesNow, Spares
  <1>4. BucketsOK(mem', lists) /\ Spares(mem', lists, {})
    BY <1>1, <1>2, <1>3, BucketsSpared
  <1> QED BY <1>2, <1>4 DEF HashesNow

LEMMA HAppendNode ==
  ASSUME HashesNow, NEW h \in Buckets, NEW i \in 0 .. Len(lists[h]), NEW n \in Nodes,
         H!AppendNode(h, i, n)
  PROVE  HashesNow'
  <1> DEFINE a == Entry(h, lists[h], i)
             b == Entry(Null, lists[h], i + 1)
  <1>1. \A g \in Buckets : n \notin Range(lists[g])
    BY HFree DEF H!AppendNode
  <1>2. /\ mem \in Hashes /\ a \in Buckets \cup Nodes /\ mem.next[a] = b
        /\ b \in Nodes \cup {Null} /\ b # n
    <2>1. /\ mem \in Hashes /\ Len(lists[h]) \in Nat /\ Bucket(mem, h, lists[h])
          /\ \A e \in 0 .. Len(lists[h]) + 1 :
               /\ Entry(h, lists[h], e) \in Buckets \cup Nodes
               /\ Entry(Null, lists[h], e) \in Nodes \cup {Null}
          /\ \A e \in 1 .. Len(lists[h]) : lists[h][e] \in Range(lists[h])
      BY BucketFacts DEF HashesNow
    <2>2. i \in 0 .. Len(lists[h]) + 1 /\ i + 1 \in 0 .. Len(lists[h]) + 1
      BY <2>1
    <2>3. mem.next[a] = b
      BY <2>1 DEF Bucket
    <2>4. b # n
      BY <1>1, <2>1, NullAssumption DEF Entry
    <2> QED BY <2>1, <2>2, <2>3, <2>4
  <1>3. mem' = H!AppendAfter(mem, a, n)
    BY HlistNames DEF H!AppendNode
  <1> HIDE DEF a, b
  <1>4. HJoinedIn(mem', mem, a, n, b)
    BY <1>2, <1>3, HAppendAfter
  <1>5. lists' = [lists EXCEPT ![h] = With(lists[h], i, <<n>>)] /\ hand' = hand
    BY HlistNames DEF H!AppendNode
  <1>6. BucketsOK(mem, lists) /\ Spares(mem, lists, {})
    BY DEF HashesNow
  <1>7. BucketsOK(mem', lists') /\ Spares(mem', lists', {})
    BY <1>1, <1>4, <1>5, <1>6, BucketsJoin DEF a, b
  <1> QED BY <1>5, <1>7 DEF HashesNow

(* A node of a bucket, and what it follows and what follows it. *)
LEMMA HNode ==
  ASSUME HashesNow, NEW h \in Buckets, NEW i \in 1 .. Len(lists[h])
  PROVE  /\ mem \in Hashes /\ lists[h][i] \in Nodes /\ lists[h][i] \in Range(lists[h])
         /\ mem.prev[lists[h][i]] = Entry(h, lists[h], i - 1)
         /\ mem.next[lists[h][i]] = Entry(Null, lists[h], i + 1)
         /\ Entry(h, lists[h], i - 1) \in Buckets \cup Nodes
         /\ Entry(Null, lists[h], i + 1) \in Nodes \cup {Null}
         /\ Entry(h, lists[h], i - 1) # lists[h][i]
  <1> DEFINE s == lists[h]
  <1>1. /\ mem \in Hashes /\ Len(s) \in Nat /\ Bucket(mem, h, s) /\ s \in Seq(Nodes)
        /\ IsInjective(s) /\ h \notin Nodes
        /\ \A e \in 0 .. Len(s) + 1 :
             /\ Entry(h, s, e) \in Buckets \cup Nodes
             /\ Entry(Null, s, e) \in Nodes \cup {Null}
        /\ \A e \in 1 .. Len(s) : s[e] \in Nodes /\ s[e] \in Range(s) /\ Entry(h, s, e) = s[e]
    BY BucketFacts DEF HashesNow
  <1> HIDE DEF s
  <1>2. /\ i - 1 \in 0 .. Len(s) + 1 /\ i + 1 \in 0 .. Len(s) + 1
        /\ i \in 0 .. Len(s) /\ i - 1 \in 0 .. Len(s) /\ i > 0 /\ i # i - 1
        /\ i \in 1 .. Len(s)
    BY <1>1 DEF s
  <1>3. mem.prev[s[i]] = Entry(h, s, i - 1) /\ mem.next[s[i]] = Entry(Null, s, i + 1)
    BY <1>1, <1>2 DEF Bucket
  <1>4. Entry(h, s, i - 1) # s[i]
    <2>1. Entry(h, s, i) = s[i]
      BY <1>1, <1>2
    <2> QED BY <1>1, <1>2, <2>1, EntryDistinct
  <1> QED BY <1>1, <1>2, <1>3, <1>4 DEF s

LEMMA HInsertNode ==
  ASSUME HashesNow, NEW h \in Buckets, NEW i \in 1 .. Len(lists[h]), NEW n \in Nodes,
         H!InsertNode(h, i, n)
  PROVE  HashesNow'
  <1> DEFINE s == lists[h]
             at == s[i]
             a == Entry(h, s, i - 1)
  <1>1. \A g \in Buckets : n \notin Range(lists[g])
    BY HFree DEF H!InsertNode
  <1>2. /\ mem \in Hashes /\ at \in Nodes /\ at # n
        /\ mem.prev[at] = a /\ a \in Buckets \cup Nodes
    BY <1>1, HNode
  <1>3. mem' = H!InsertBefore(mem, at, n)
    BY DEF H!InsertNode
  <1>4. at = Entry(Null, s, i - 1 + 1)
    <2>1. i - 1 + 1 = i
      OBVIOUS
    <2> QED BY <2>1 DEF Entry
  <1> HIDE DEF a, at
  <1>5. HJoinedIn(mem', mem, a, n, at)
    BY <1>2, <1>3, HInsertBefore
  <1>6. lists' = [lists EXCEPT ![h] = With(lists[h], i - 1, <<n>>)] /\ hand' = hand
    BY HlistNames DEF H!InsertNode
  <1>7. BucketsOK(mem, lists) /\ Spares(mem, lists, {}) /\ i - 1 \in 0 .. Len(lists[h])
    BY BucketFacts DEF HashesNow
  <1>8. HJoinedIn(mem', mem, Entry(h, lists[h], i - 1), n, Entry(Null, lists[h], i - 1 + 1))
    BY <1>4, <1>5 DEF a
  <1>9. BucketsOK(mem', lists') /\ Spares(mem', lists', {})
    <2> DEFINE k == i - 1
    <2>1. k \in 0 .. Len(lists[h]) /\ HJoinedIn(mem', mem, Entry(h, lists[h], k), n, Entry(Null, lists[h], k + 1))
      BY <1>7, <1>8
    <2>2. lists' = [lists EXCEPT ![h] = With(lists[h], k, <<n>>)]
      BY <1>6
    <2> HIDE DEF k
    <2> QED BY <1>1, <1>7, <2>1, <2>2, BucketsJoin
  <1> QED BY <1>6, <1>9 DEF HashesNow

LEMMA HRemoved ==
  ASSUME HashesNow, NEW h \in Buckets, NEW i \in 1 .. Len(lists[h]), H!Removed(h, i), hand' = hand
  PROVE  /\ HashesNow'
         /\ lists' = [lists EXCEPT ![h] = Without(lists[h], i, i)]
         /\ \A g \in Buckets : lists[h][i] \notin Range(lists'[g])
  <1> DEFINE s == lists[h]
             n == s[i]
             out == H!RemoveNode(mem, n)
             after == [lists EXCEPT ![h] = Without(s, i, i)]
  <1>1. HCutIn(out, mem, Entry(h, s, i - 1), Entry(Null, s, i + 1)) /\ n \in Nodes
    <2>1. /\ mem \in Hashes /\ n \in Nodes
          /\ mem.prev[n] = Entry(h, s, i - 1) /\ mem.prev[n] \in Buckets \cup Nodes
          /\ mem.next[n] = Entry(Null, s, i + 1) /\ mem.next[n] \in Nodes \cup {Null}
      BY HNode
    <2> HIDE DEF n
    <2>2. HCutIn(out, mem, mem.prev[n], mem.next[n])
      BY <2>1, HRemoveNode
    <2> QED BY <2>1, <2>2
  <1>2. BucketsOK(mem, lists) /\ Spares(mem, lists, {})
    BY DEF HashesNow
  <1> HIDE DEF out
  <1>3. /\ BucketsOK(out, after) /\ Spares(out, after, {n})
        /\ \A g \in Buckets : n \notin Range(after[g])
    BY <1>1, <1>2, BucketsCut
  <1>4. mem' \in {H!Forgotten(out, {n}), H!InitialisedNode(out, n)} /\ lists' = after
    BY HlistNames DEF H!Removed, out
  <1> HIDE DEF after, n
  <1>5. BucketsOK(mem', after) /\ Spares(mem', after, {})
    BY <1>1, <1>3, <1>4, BucketsSpared
  <1> QED BY <1>3, <1>4, <1>5 DEF HashesNow, after, n

LEMMA HRemoveUnhashed ==
  ASSUME HashesNow, NEW n \in Nodes, H!RemoveUnhashed(n)
  PROVE  HashesNow'
  <1>1. mem.prev[n] = n /\ lists' = lists /\ hand' = hand
    BY DEF H!RemoveUnhashed
  <1>2. ASSUME NEW h \in Buckets, n \in Range(lists[h]) PROVE FALSE
    <2>1. PICK i \in 1 .. Len(lists[h]) : lists[h][i] = n
      BY <1>2, BucketFacts, Positions DEF HashesNow
    <2> QED BY <1>1, <2>1, HNode
  <1>3. Spare(mem, n) /\ mem \in Hashes /\ n # Wild
    BY <1>2, AddressAssumption DEF HashesNow, Spares, BucketsOK
  <1>4. mem.next[n] = Null
    BY <1>1, <1>3 DEF Spare
  <1>5. H!RemoveNode(mem, n) = mem
    BY <1>1, <1>3, <1>4 DEF H!RemoveNode, H!PointsBack, Hashes
  <1>6. mem' = mem \/ mem' \in {H!Forgotten(mem, {n}), H!InitialisedNode(mem, n)}
    BY <1>5 DEF H!RemoveUnhashed
  <1>7. BucketsOK(mem, lists) /\ Spares(mem, lists, {n}) /\ Spares(mem, lists, {})
    BY DEF HashesNow, Spares
  <1>8. BucketsOK(mem', lists) /\ Spares(mem', lists, {})
    <2>1. CASE mem' = mem
      BY <1>7, <2>1
    <2>2. CASE mem' \in {H!Forgotten(mem, {n}), H!InitialisedNode(mem, n)}
      BY <1>2, <1>7, <2>2, BucketsSpared
    <2> QED BY <1>6, <2>1, <2>2
  <1> QED BY <1>1, <1>8 DEF HashesNow

(* A place that a loop gets to, when rest is what it has yet to get. *)
Gets(ls, place, rest) ==
  /\ place[1] \in Nodes \cup {Null}
  /\ IF place[1] = Null THEN rest = {}
     ELSE /\ place[2] \in Buckets
          /\ \E p \in 1 .. Len(ls[place[2]]) :
               /\ ls[place[2]][p] = place[1]
               /\ rest = {place[1]} \cup After(ls, place[2], p)
               /\ place[1] \notin After(ls, place[2], p)

LEMMA AfterFacts ==
  ASSUME NEW m, NEW ls, BucketsOK(m, ls), NEW b \in Buckets, NEW p \in 0 .. Len(ls[b])
  PROVE  /\ p < Len(ls[b]) =>
              /\ After(ls, b, p) = {ls[b][p + 1]} \cup After(ls, b, p + 1)
              /\ ls[b][p + 1] \notin After(ls, b, p + 1)
         /\ p = Len(ls[b]) => After(ls, b, p) = Later(ls, b)
  <1> DEFINE s == ls[b]
  <1>1. /\ s \in Seq(Nodes) /\ Len(s) \in Nat /\ Apart(Buckets, ls, <<>>)
        /\ \A i \in 1 .. Len(s) : s[i] \in Range(s)
        /\ \A i, j \in 1 .. Len(s) : s[i] = s[j] => i = j
    BY BucketFacts, Positions
  <1>2. \A e : e \in Later(ls, b) <=> \E g \in Buckets : g > b /\ e \in Range(ls[g])
    BY DEF Later
  <1>3. \A e : e \in Later(ls, b) => e \notin Range(s)
    <2> SUFFICES ASSUME NEW g \in Buckets, g > b, NEW e \in Range(ls[g]) PROVE e \notin Range(s)
      BY <1>2
    <2>1. g # b
      BY DEF Buckets
    <2> QED BY <1>1, <2>1 DEF Apart
  <1>4. \A k : \A e : e \in After(ls, b, k) <=>
                 (\E i \in k + 1 .. Len(s) : e = s[i]) \/ e \in Later(ls, b)
    BY DEF After
  <1> HIDE DEF s
  <1>5. ASSUME p < Len(s)
        PROVE  /\ After(ls, b, p) = {s[p + 1]} \cup After(ls, b, p + 1)
               /\ s[p + 1] \notin After(ls, b, p + 1)
    <2>1. p + 1 \in 1 .. Len(s) /\ p \in Int
      BY <1>1, <1>5
    <2>2. \A i : i \in p + 1 .. Len(s) <=> i = p + 1 \/ i \in p + 1 + 1 .. Len(s)
      BY <1>1, <2>1
    <2>3. s[p + 1] \notin After(ls, b, p + 1)
      <3>1. \A i \in p + 1 + 1 .. Len(s) : i \in 1 .. Len(s) /\ i # p + 1
        BY <1>1, <2>1
      <3> QED BY <1>1, <1>3, <1>4, <2>1, <3>1
    <2>4. After(ls, b, p) = {s[p + 1]} \cup After(ls, b, p + 1)
      BY <1>4, <2>2
    <2> QED BY <2>3, <2>4
  <1>6. ASSUME p = Len(s) PROVE After(ls, b, p) = Later(ls, b)
    <2>1. \A i : i \notin p + 1 .. Len(s)
      BY <1>1, <1>6
    <2> QED BY <1>4, <2>1
  <1> QED BY <1>5, <1>6 DEF s

(* The first node of a bucket, and the buckets that have one. *)
LEMMA HFirst ==
  ASSUME HashesNow, NEW h \in Buckets
  PROVE  /\ mem.next[h] = Null => Range(lists[h]) = {}
         /\ mem.next[h] # Null =>
              /\ Len(lists[h]) > 0 /\ mem.next[h] = lists[h][1] /\ mem.next[h] \in Nodes
              /\ Range(lists[h]) = {lists[h][i] : i \in 1 .. Len(lists[h])}
  <1> DEFINE s == lists[h]
  <1>1. /\ s \in Seq(Nodes) /\ Len(s) \in Nat /\ Bucket(mem, h, s)
        /\ \A i \in 1 .. Len(s) : s[i] \in Nodes
        /\ \A e : e \in Range(s) <=> \E i \in 1 .. Len(s) : s[i] = e
    BY BucketFacts, Positions DEF HashesNow
  <1> HIDE DEF s
  <1>2. mem.next[h] = Entry(Null, s, 1)
    <2>1. 0 \in 0 .. Len(s) /\ 0 + 1 = 1 /\ Entry(h, s, 0) = h
      BY <1>1 DEF Entry
    <2>2. mem.next[Entry(h, s, 0)] = Entry(Null, s, 0 + 1)
      BY <1>1, <2>1 DEF Bucket
    <2> QED BY <2>1, <2>2
  <1>3. CASE Len(s) = 0
    <2>1. mem.next[h] = Null
      BY <1>2, <1>3 DEF Entry
    <2> QED BY <1>1, <1>3, <2>1 DEF s
  <1>4. CASE Len(s) > 0
    <2>1. 1 \in 1 .. Len(s) /\ mem.next[h] = s[1]
      BY <1>1, <1>2, <1>4 DEF Entry
    <2>2. mem.next[h] \in Nodes /\ mem.next[h] # Null
      BY <1>1, <2>1, NullAssumption
    <2>3. Range(s) = {s[i] : i \in 1 .. Len(s)}
      BY <1>1
    <2> QED BY <1>4, <2>1, <2>2, <2>3 DEF s
  <1> QED BY <1>1, <1>3, <1>4

(* What a loop gets to past the end of a bucket, or at first. *)
LEMMA HReachedNext ==
  ASSUME HashesNow, NEW b \in Buckets \cup {-1}
  PROVE  Gets(lists, H!Reached(Null, b), Later(lists, b))
  <1> DEFINE some == {h \in Buckets : h >= b + 1 /\ mem.next[h] # Null}
             least == CHOOSE h \in some : \A g \in some : h <= g
  <1>1. Buckets \subseteq Nat /\ b \in Int
    BY DEF Buckets
  <1>2. H!BucketsFrom(b + 1) = some
    BY DEF H!BucketsFrom
  <1>3. \A e : e \in Later(lists, b) <=> \E g \in Buckets : g > b /\ e \in Range(lists[g])
    BY DEF Later
  <1>4. CASE some = {}
    <2>1. Later(lists, b) = {}
      <3>1. \A g \in Buckets : g > b => mem.next[g] = Null
        BY <1>1, <1>4
      <3>2. \A g \in Buckets : g > b => Range(lists[g]) = {}
        BY <3>1, HFirst
      <3> QED BY <1>3, <3>2
    <2>2. H!Reached(Null, b)[1] = Null
      BY <1>2, <1>4 DEF H!Reached
    <2> QED BY <2>1, <2>2 DEF Gets
  <1>5. CASE some # {}
    <2>1. \E h \in some : \A g \in some : h <= g
      BY <1>1, <1>5, LeastElement
    <2> HIDE DEF some
    <2>2. least \in some /\ \A g \in some : least <= g
      BY <2>1
    <2>3. H!Reached(Null, b) = <<mem.next[least], least>>
      BY <1>2, <1>5 DEF H!Reached
    <2> HIDE DEF least
    <2>4. least \in Buckets /\ least >= b + 1 /\ mem.next[least] # Null
      BY <2>2 DEF some
    <2> DEFINE s == lists[least]
    <2>5. /\ Len(s) > 0 /\ mem.next[least] = s[1] /\ s[1] \in Nodes
          /\ Range(s) = {s[i] : i \in 1 .. Len(s)}
      BY <2>4, HFirst
    <2>6. Len(s) \in Nat /\ 0 \in 0 .. Len(s) /\ 1 \in 1 .. Len(s) /\ 0 < Len(s) /\ 0 + 1 = 1
      BY <2>4, <2>5, BucketFacts DEF HashesNow
    <2>7. After(lists, least, 0) = {s[1]} \cup After(lists, least, 1) /\ s[1] \notin After(lists, least, 1)
      <3>1. /\ After(lists, least, 0) = {s[0 + 1]} \cup After(lists, least, 0 + 1)
            /\ s[0 + 1] \notin After(lists, least, 0 + 1)
        BY <2>4, <2>6, AfterFacts DEF HashesNow
      <3> QED BY <2>6, <3>1
    <2>8. Later(lists, b) = After(lists, least, 0)
      <3>1. \A e : e \in After(lists, least, 0) <=>
              e \in Range(s) \/ \E g \in Buckets : g > least /\ e \in Range(lists[g])
        BY <2>5, <2>6 DEF After, Later
      <3>2. \A g \in Buckets : g > b /\ g < least => Range(lists[g]) = {}
        <4> SUFFICES ASSUME NEW g \in Buckets, g > b, g < least PROVE Range(lists[g]) = {}
          OBVIOUS
        <4>1. g >= b + 1 /\ ~ (least <= g)
          BY <1>1, <2>4
        <4>2. mem.next[g] = Null
          BY <2>2, <4>1 DEF some
        <4> QED BY <4>2, HFirst
      <3>3. \A g \in Buckets : g > b <=> (g > b /\ g < least) \/ g = least \/ g > least
        BY <1>1, <2>4
      <3> QED BY <1>3, <2>4, <3>1, <3>2, <3>3
    <2>9. H!Reached(Null, b)[1] = s[1] /\ H!Reached(Null, b)[2] = least
      BY <2>3, <2>5
    <2> HIDE DEF s
    <2>10. s[1] # Null
      BY <2>5, NullAssumption
    <2> QED BY <2>4, <2>5, <2>6, <2>7, <2>8, <2>9, <2>10 DEF Gets, s
  <1> QED BY <1>4, <1>5

LEMMA HReached ==
  ASSUME HashesNow, NEW b \in Buckets, NEW p \in 0 .. Len(lists[b])
  PROVE  Gets(lists, H!Reached(Entry(Null, lists[b], p + 1), b), After(lists, b, p))
  <1> DEFINE s == lists[b]
  <1>1. /\ BucketsOK(mem, lists) /\ Len(s) \in Nat
        /\ \A i \in 1 .. Len(s) : s[i] \in Nodes
    BY BucketFacts DEF HashesNow
  <1>2. CASE p = Len(s)
    <2>1. Entry(Null, s, p + 1) = Null /\ After(lists, b, p) = Later(lists, b)
      BY <1>1, <1>2, AfterFacts DEF Entry
    <2> QED BY <2>1, HReachedNext
  <1>3. CASE p < Len(s)
    <2>1. p + 1 \in 1 .. Len(s)
      BY <1>1, <1>3
    <2>2. Entry(Null, s, p + 1) = s[p + 1] /\ s[p + 1] \in Nodes /\ s[p + 1] # Null
      BY <1>1, <2>1, NullAssumption DEF Entry
    <2>3. H!Reached(s[p + 1], b) = <<s[p + 1], b>>
      BY <2>2 DEF H!Reached
    <2>4. /\ After(lists, b, p) = {s[p + 1]} \cup After(lists, b, p + 1)
          /\ s[p + 1] \notin After(lists, b, p + 1)
      BY <1>1, <1>3, AfterFacts
    <2>5. H!Reached(s[p + 1], b)[1] = s[p + 1] /\ H!Reached(s[p + 1], b)[2] = b
      BY <2>3
    <2>6. Gets(lists, H!Reached(s[p + 1], b), After(lists, b, p))
      BY <2>1, <2>2, <2>4, <2>5 DEF Gets
    <2> QED BY <2>2, <2>6
  <1> QED BY <1>1, <1>2, <1>3

LEMMA HLoopAt ==
  ASSUME HashesNow, NEW safe \in BOOLEAN, NEW place, NEW rest, Gets(lists, place, rest),
         NEW got \in Seq(Nodes), IsInjective(got), Range(got) \cap rest = {},
         NEW due, due = Range(got) \cup rest
  PROVE  LoopOK(mem, lists, H!LoopAt(safe, place, got, due))
  <1> DEFINE n == place[1]
             b == place[2]
             lp == H!LoopAt(safe, place, got, due)
  <1>1. CASE n = Null
    <2>1. lp.node = Null /\ lp.got = got /\ lp.due = due /\ lp.safe = safe
      BY <1>1 DEF H!LoopAt
    <2> QED BY <1>1, <2>1 DEF LoopOK, Gets
  <1>2. CASE n # Null
    <2>1. /\ lp.node = n /\ lp.got = Append(got, n) /\ lp.due = due /\ lp.safe = safe
          /\ lp.bucket = b /\ (safe => lp.tmp = mem.next[n])
      BY <1>2 DEF H!LoopAt
    <2>2. PICK p \in 1 .. Len(lists[b]) :
            lists[b][p] = n /\ rest = {n} \cup After(lists, b, p) /\ n \notin After(lists, b, p)
      BY <1>2 DEF Gets
    <2>3. b \in Buckets /\ n \in Nodes
      BY <1>2 DEF Gets
    <2>4. /\ Append(got, n) \in Seq(Nodes) /\ IsInjective(Append(got, n))
          /\ Range(Append(got, n)) = Range(got) \cup {n}
      <3> DEFINE u == Append(got, n)
      <3>1. /\ u \in Seq(Nodes) /\ Len(u) = Len(got) + 1 /\ Len(got) \in Nat
            /\ \A i \in 1 .. Len(u) : u[i] = IF i = Len(got) + 1 THEN n ELSE got[i]
        BY <2>3
      <3> HIDE DEF u
      <3>2. /\ \A i \in 1 .. Len(got) : got[i] \in Range(got)
            /\ \A e : e \in Range(got) <=> \E i \in 1 .. Len(got) : got[i] = e
            /\ \A i, j \in 1 .. Len(got) : got[i] = got[j] => i = j
        BY Positions
      <3>3. n \notin Range(got)
        BY <2>2
      <3>4. \A i, j \in 1 .. Len(u) : u[i] = u[j] => i = j
        BY <3>1, <3>2, <3>3
      <3>5. \A e : (\E i \in 1 .. Len(u) : u[i] = e) <=> e \in Range(got) \cup {n}
        <4> TAKE e
        <4>1. ASSUME NEW i \in 1 .. Len(u), u[i] = e PROVE e \in Range(got) \cup {n}
          BY <3>1, <3>2, <4>1
        <4>2. ASSUME e \in Range(got) PROVE \E i \in 1 .. Len(u) : u[i] = e
          <5>1. PICK i \in 1 .. Len(got) : got[i] = e
            BY <3>2, <4>2
          <5>2. i \in 1 .. Len(u) /\ i # Len(got) + 1
            BY <3>1
          <5> QED BY <3>1, <5>1, <5>2
        <4>3. ASSUME e = n PROVE \E i \in 1 .. Len(u) : u[i] = e
          <5>1. Len(u) \in 1 .. Len(u)
            BY <3>1
          <5> QED BY <3>1, <4>3, <5>1
        <4> QED BY <4>1, <4>2, <4>3
      <3>6. IsInjective(u) /\ \A e : e \in Range(u) <=> e \in Range(got) \cup {n}
        BY <3>1, <3>4, <3>5, Positions
      <3> QED BY <3>1, <3>6 DEF u
    <2>5. mem.next[n] = Entry(Null, lists[b], p + 1) /\ n \in Range(lists[b])
      BY <2>2, <2>3, HNode
    <2>6. p \in 0 .. Len(lists[b]) /\ p > 0
      OBVIOUS
    <2> HIDE DEF lp, n, b
    <2>7. LoopOn(mem, lists, lp)
      <3>1. /\ lp.due = Range(lp.got) \cup After(lists, lp.bucket, p)
            /\ Range(lp.got) \cap After(lists, lp.bucket, p) = {}
        BY <2>1, <2>2, <2>4
      <3>2. lp.safe => lp.tmp = Entry(Null, lists[lp.bucket], p + 1)
        BY <2>1, <2>5
      <3>3. lists[lp.bucket][p] = lp.node
        BY <2>1, <2>2
      <3>4. lp.bucket \in Buckets /\ lp.node \in Range(lists[lp.bucket]) /\ p \in 0 .. Len(lists[lp.bucket])
        BY <2>1, <2>3, <2>5, <2>6
      <3> QED BY <2>6, <3>1, <3>2, <3>3, <3>4 DEF LoopOn
    <2>8. LoopOK(mem, lists, lp)
      BY <1>2, <2>1, <2>3, <2>4, <2>7 DEF LoopOK
    <2> QED BY <2>8 DEF lp
  <1> QED BY <1>1, <1>2

LEMMA HLoopBegins ==
  ASSUME HashesNow, NEW safe \in BOOLEAN, H!LoopBegins(safe)
  PROVE  LoopOK(mem, lists, loop')
  <1>1. Gets(lists, H!Reached(Null, -1), Later(lists, -1))
    BY HReachedNext
  <1>2. H!InLists = Later(lists, -1)
    <2>1. \A g \in Buckets : g > -1
      BY DEF Buckets
    <2> QED BY <2>1, HlistNames DEF Later
  <1>3. <<>> \in Seq(Nodes) /\ IsInjective(<<>>) /\ Range(<<>>) = {}
    BY NoNode
  <1>4. /\ Range(<<>>) \cap Later(lists, -1) = {}
        /\ H!InLists = Range(<<>>) \cup Later(lists, -1)
    BY <1>2, <1>3
  <1>5. LoopOK(mem, lists, H!LoopAt(safe, H!Reached(Null, -1), <<>>, H!InLists))
    BY <1>1, <1>3, <1>4, HLoopAt
  <1> QED BY <1>5 DEF H!LoopBegins

LEMMA HLoopGoesOn ==
  ASSUME HashesNow, LoopOK(mem, lists, loop), H!LoopGoesOn
  PROVE  LoopOK(mem, lists, loop')
  <1> DEFINE b == loop.bucket
             next == IF loop.safe THEN loop.tmp ELSE mem.next[loop.node]
  <1>1. /\ loop.node # Null /\ loop.got \in Seq(Nodes) /\ loop.safe \in BOOLEAN
        /\ IsInjective(loop.got) /\ LoopOn(mem, lists, loop)
    BY DEF LoopOK, H!LoopGoesOn
  <1>2. PICK p \in 0 .. Len(lists[b]) :
          /\ loop.safe => loop.tmp = Entry(Null, lists[b], p + 1)
          /\ (\E h \in Buckets : loop.node \in Range(lists[h])) => p > 0 /\ lists[b][p] = loop.node
          /\ loop.due = Range(loop.got) \cup After(lists, b, p)
          /\ Range(loop.got) \cap After(lists, b, p) = {}
    BY <1>1 DEF LoopOn
  <1>3. b \in Buckets /\ (~ loop.safe => \E h \in Buckets : loop.node \in Range(lists[h]))
    BY <1>1 DEF LoopOn
  <1>4. next = Entry(Null, lists[b], p + 1)
    <2>1. CASE loop.safe
      BY <1>2, <2>1
    <2>2. CASE ~ loop.safe
      <3>1. p \in 1 .. Len(lists[b]) /\ lists[b][p] = loop.node
        BY <1>2, <1>3, <2>2
      <3>2. mem.next[lists[b][p]] = Entry(Null, lists[b], p + 1)
        BY <1>3, <3>1, HNode
      <3> QED BY <2>2, <3>1, <3>2
    <2> QED BY <2>1, <2>2
  <1>5. loop' = H!LoopAt(loop.safe, H!Reached(next, b), loop.got, loop.due)
    BY DEF H!LoopGoesOn
  <1> HIDE DEF next, b
  <1>6. Gets(lists, H!Reached(next, b), After(lists, b, p))
    BY <1>3, <1>4, HReached
  <1>7. LoopOK(mem, lists, H!LoopAt(loop.safe, H!Reached(next, b), loop.got, loop.due))
    BY <1>1, <1>2, <1>6, HLoopAt
  <1> QED BY <1>5, <1>7

LEMMA HRemoveCurrent ==
  ASSUME HashesNow, LoopOK(mem, lists, loop),
         NEW h \in Buckets, NEW i \in 1 .. Len(lists[h]), H!RemoveCurrent(h, i)
  PROVE  HashesNow' /\ LoopOK(mem', lists', loop)
  <1> DEFINE s == lists[h]
             t == Without(s, i, i)
             n == s[i]
  <1>1. /\ loop.safe /\ n = loop.node /\ H!Removed(h, i) /\ hand' = hand
    BY DEF H!RemoveCurrent
  <1>2. /\ HashesNow' /\ lists' = [lists EXCEPT ![h] = t]
        /\ \A g \in Buckets : n \notin Range(lists'[g])
    BY <1>1, HRemoved
  <1>3. /\ mem \in Hashes /\ lists \in [Buckets -> Seq(Nodes)] /\ Apart(Buckets, lists, <<>>)
        /\ s \in Seq(Nodes) /\ Len(s) \in Nat /\ n \in Nodes /\ n \in Range(s) /\ n # Null
        /\ \A j, k \in 1 .. Len(s) : s[j] = s[k] => j = k
    <2>1. /\ mem \in Hashes /\ lists \in [Buckets -> Seq(Nodes)] /\ Apart(Buckets, lists, <<>>)
          /\ s \in Seq(Nodes) /\ Len(s) \in Nat /\ n \in Nodes /\ n \in Range(s) /\ IsInjective(s)
      BY BucketFacts DEF HashesNow
    <2> QED BY <2>1, Positions, NullAssumption
  <1> HIDE DEF n
  <1>4. /\ LoopOn(mem, lists, loop) /\ loop.node \in Nodes \cup {Null} /\ loop.got \in Seq(Nodes)
        /\ loop.safe \in BOOLEAN /\ IsInjective(loop.got)
    BY <1>1, <1>3 DEF LoopOK
  <1>5. PICK p \in 0 .. Len(lists[loop.bucket]) :
          /\ loop.tmp = Entry(Null, lists[loop.bucket], p + 1)
          /\ p > 0 /\ lists[loop.bucket][p] = n
          /\ loop.due = Range(loop.got) \cup After(lists, loop.bucket, p)
          /\ Range(loop.got) \cap After(lists, loop.bucket, p) = {}
    BY <1>1, <1>3, <1>4 DEF LoopOn
  <1>6. loop.bucket = h /\ p = i
    <2>1. loop.bucket \in Buckets /\ p \in 1 .. Len(lists[loop.bucket])
      BY <1>4, <1>5 DEF LoopOn
    <2>2. n \in Range(lists[loop.bucket])
      BY <1>3, <1>5, <2>1, Positions
    <2>3. loop.bucket = h
      BY <1>3, <2>1, <2>2 DEF Apart
    <2> QED BY <1>3, <1>5, <2>1, <2>3 DEF n
  <1>7. /\ t \in Seq(Nodes) /\ Len(t) = Len(s) - 1
        /\ \A k \in 0 .. Len(t) + 1 :
             Entry(Null, t, k) = IF k < i THEN Entry(Null, s, k) ELSE Entry(Null, s, k + 1)
        /\ \A k \in 1 .. Len(t) : t[k] = IF k < i THEN s[k] ELSE s[k + 1]
    <2>1. /\ t \in Seq(Nodes) /\ Len(t) = Len(s) - 1
          /\ \A k \in 1 .. Len(t) : t[k] = IF k < i THEN s[k] ELSE s[k + 1]
      BY <1>3, WithoutOne
    <2>2. \A k \in 0 .. Len(t) + 1 :
             Entry(Null, t, k) = IF k < i THEN Entry(Null, s, k) ELSE Entry(Null, s, k + 1)
      BY <1>3, EntryWithoutOne
    <2> QED BY <2>1, <2>2
  <1> HIDE DEF t
  <1>8. lists'[h] = t /\ \A g \in Buckets : g # h => lists'[g] = lists[g]
    BY <1>2, <1>3
  <1>9. i - 1 \in 0 .. Len(t) /\ i \in 0 .. Len(t) + 1 /\ i - 1 + 1 = i /\ ~ (i < i)
    BY <1>3, <1>7
  <1>10. Entry(Null, t, i - 1 + 1) = Entry(Null, s, i + 1)
    <2>1. Entry(Null, t, i) = Entry(Null, s, i + 1)
      BY <1>7, <1>9
    <2> QED BY <1>9, <2>1
  <1>11. After(lists', h, i - 1) = After(lists, h, i)
    <2>1. Later(lists', h) = Later(lists, h)
      <3>1. \A g \in {f \in Buckets : f > h} : g \in Buckets /\ g # h
        BY DEF Buckets
      <3>2. \A g \in {f \in Buckets : f > h} : lists'[g] = lists[g]
        BY <1>8, <3>1
      <3> QED BY <3>2 DEF Later
    <2>2. {t[k] : k \in i - 1 + 1 .. Len(t)} = {s[k] : k \in i + 1 .. Len(s)}
      <3>1. ASSUME NEW k \in i - 1 + 1 .. Len(t) PROVE k + 1 \in i + 1 .. Len(s) /\ t[k] = s[k + 1]
        <4>1. k \in 1 .. Len(t) /\ ~ (k < i) /\ k + 1 \in i + 1 .. Len(s)
          BY <1>3, <1>7, <1>9
        <4> QED BY <1>7, <4>1
      <3>2. ASSUME NEW k \in i + 1 .. Len(s) PROVE k - 1 \in i - 1 + 1 .. Len(t) /\ t[k - 1] = s[k]
        <4>1. k - 1 \in 1 .. Len(t) /\ ~ (k - 1 < i) /\ k - 1 \in i - 1 + 1 .. Len(t) /\ k - 1 + 1 = k
          BY <1>3, <1>7, <1>9
        <4>2. t[k - 1] = s[k - 1 + 1]
          BY <1>7, <4>1
        <4> QED BY <4>1, <4>2
      <3> DEFINE A == i - 1 + 1 .. Len(t)
      <3> DEFINE B == i + 1 .. Len(s)
      <3>3. \A k \in A : \E j \in B : t[k] = s[j]
        <4> TAKE k \in A
        <4>1. k + 1 \in B /\ t[k] = s[k + 1]
          BY <3>1
        <4> QED BY <4>1
      <3>4. \A k \in B : \E j \in A : t[j] = s[k]
        <4> TAKE k \in B
        <4>1. k - 1 \in A /\ t[k - 1] = s[k]
          BY <3>2
        <4> QED BY <4>1
      <3>5. {t[k] : k \in A} = {s[k] : k \in B}
        <4> HIDE DEF A, B, s
        <4> QED BY <3>3, <3>4
      <3> QED BY <3>5
    <2> QED BY <1>8, <2>1, <2>2 DEF After, s
  <1>12. \A g \in Buckets : loop.node \notin Range(lists'[g])
    BY <1>1, <1>2
  <1>13. LoopOn(mem', lists', loop)
    <2> DEFINE q == i - 1
    <2>1. /\ q \in 0 .. Len(lists'[loop.bucket])
          /\ loop.tmp = Entry(Null, lists'[loop.bucket], q + 1)
          /\ loop.due = Range(loop.got) \cup After(lists', loop.bucket, q)
          /\ Range(loop.got) \cap After(lists', loop.bucket, q) = {}
      BY <1>5, <1>6, <1>8, <1>9, <1>10, <1>11 DEF s
    <2> HIDE DEF q
    <2> QED BY <1>1, <1>6, <1>12, <2>1 DEF LoopOn
  <1>14. LoopOK(mem', lists', loop)
    BY <1>1, <1>3, <1>4, <1>13 DEF LoopOK
  <1> QED BY <1>2, <1>14

HashesInv ==
  kind = "hlist" => HashesNow /\ (loop # Null => LoopOK(mem, lists, loop))

LEMMA HInit ==
  ASSUME H!Init
  PROVE  HashesNow /\ loop = Null
  <1>1. /\ mem = [next |-> [a \in Buckets \cup Nodes |-> IF a \in Buckets THEN Null ELSE Wild],
                  prev |-> [n \in Nodes |-> Wild]]
        /\ lists = [h \in Buckets |-> <<>>] /\ hand = <<>> /\ loop = Null
    BY DEF H!Init
  <1>2. <<>> \in Seq(Nodes) /\ IsInjective(<<>>) /\ Range(<<>>) = {} /\ Len(<<>>) = 0
    BY NoNode
  <1>3. mem \in Hashes /\ (\A h \in Buckets : mem.next[h] = Null) /\ \A n \in Nodes : Spare(mem, n)
    BY <1>1 DEF Hashes, Spare
  <1>4. lists \in [Buckets -> Seq(Nodes)]
    BY <1>1, <1>2
  <1>5. Apart(Buckets, lists, <<>>)
    BY <1>1, <1>2 DEF Apart
  <1>6. \A h \in Buckets : Bucket(mem, h, lists[h])
    BY <1>1, <1>2, <1>3 DEF Bucket, Entry
  <1> QED BY <1>1, <1>3, <1>4, <1>5, <1>6 DEF HashesNow, BucketsOK, Spares

LEMMA HCall ==
  ASSUME HashesNow, loop = Null, H!Call
  PROVE  HashesNow' /\ (loop' # Null => LoopOK(mem', lists', loop'))
  <1>1. \A h \in Buckets : H!Places(h) = 0 .. Len(lists[h]) /\ Len(lists[h]) \in Nat
    BY BucketFacts, HlistNames DEF HashesNow
  <1>2. \A h \in Buckets : \A i : i \in H!Places(h) \ {0} => i \in 1 .. Len(lists[h])
    BY <1>1
  <1>3. CASE H!InitList(Buckets)
    BY <1>3, HInitList DEF H!InitList
  <1>4. ASSUME NEW h \in Buckets, H!InitList({h}) PROVE HashesNow' /\ loop' = Null
    BY <1>4, HInitList DEF H!InitList
  <1>5. ASSUME NEW h \in Buckets, NEW i \in H!Places(h), NEW n \in Nodes, H!AppendNode(h, i, n)
        PROVE  HashesNow' /\ loop' = Null
    BY <1>1, <1>5, HAppendNode DEF H!AppendNode
  <1>6. ASSUME NEW h \in Buckets, NEW i \in H!Places(h) \ {0}, H!Remove(h, i)
        PROVE  HashesNow' /\ loop' = Null
    BY <1>2, <1>6, HRemoved DEF H!Remove
  <1>7. ASSUME NEW h \in Buckets, NEW i \in H!Places(h) \ {0}, NEW n \in Nodes, H!InsertNode(h, i, n)
        PROVE  HashesNow' /\ loop' = Null
    BY <1>2, <1>7, HInsertNode DEF H!InsertNode
  <1>8. ASSUME NEW n \in Nodes, H!InitNode(n) PROVE HashesNow' /\ loop' = Null
    BY <1>8, HInitNode DEF H!InitNode
  <1>9. ASSUME NEW n \in Nodes, H!RemoveUnhashed(n) PROVE HashesNow' /\ loop' = Null
    BY <1>9, HRemoveUnhashed DEF H!RemoveUnhashed
  <1>10. ASSUME NEW safe \in BOOLEAN, H!LoopBegins(safe)
         PROVE  HashesNow' /\ LoopOK(mem', lists', loop')
    <2>1. mem' = mem /\ lists' = lists /\ hand' = hand
      BY <1>10 DEF H!LoopBegins, H!vars
    <2> QED BY <1>10, <2>1, HLoopBegins DEF HashesNow
  <1> QED BY <1>3, <1>4, <1>5, <1>6, <1>7, <1>8, <1>9, <1>10 DEF H!Call

LEMMA HNext ==
  ASSUME HashesNow, loop # Null => LoopOK(mem, lists, loop), H!Next
  PROVE  HashesNow' /\ (loop' # Null => LoopOK(mem', lists', loop'))
  <1>1. CASE loop = Null /\ H!Call
    BY <1>1, HCall
  <1>2. CASE loop # Null /\ H!LoopGoesOn
    <2>1. mem' = mem /\ lists' = lists /\ hand' = hand
      BY <1>2 DEF H!LoopGoesOn, H!vars
    <2> QED BY <1>2, <2>1, HLoopGoesOn DEF HashesNow
  <1>3. CASE H!LoopEnds
    BY <1>3 DEF H!LoopEnds, H!vars, HashesNow
  <1>4. ASSUME loop # Null, NEW h \in Buckets, NEW i \in H!Places(h) \ {0}, H!RemoveCurrent(h, i)
        PROVE  HashesNow' /\ (loop' # Null => LoopOK(mem', lists', loop'))
    <2>1. i \in 1 .. Len(lists[h]) /\ loop' = loop
      BY <1>4, BucketFacts, HlistNames DEF HashesNow, H!RemoveCurrent
    <2> QED BY <1>4, <2>1, HRemoveCurrent
  <1> QED BY <1>1, <1>2, <1>3, <1>4 DEF H!Next

LEMMA HSound ==
  ASSUME HashesNow, loop # Null => LoopOK(mem, lists, loop)
  PROVE  H!HashChainsSound
  <1>1. /\ mem \in Hashes /\ lists \in [Buckets -> Seq(Nodes)] /\ hand = <<>>
    BY DEF HashesNow, BucketsOK
  <1>2. H!TypeOK
    BY <1>1 DEF H!TypeOK, Hashes
  <1>3. ASSUME NEW h \in Buckets, NEW i \in 0 .. Len(lists[h])
        PROVE  /\ mem.next[H!At(h, i)] = IF i = Len(lists[h]) THEN Null ELSE H!At(h, i + 1)
               /\ i > 0 => mem.prev[lists[h][i]] = H!At(h, i - 1)
    <2>1. /\ mem.next[Entry(h, lists[h], i)] = Entry(Null, lists[h], i + 1)
          /\ i > 0 => mem.prev[lists[h][i]] = Entry(h, lists[h], i - 1)
          /\ Len(lists[h]) \in Nat
      BY BucketFacts DEF HashesNow, Bucket
    <2>2. Entry(Null, lists[h], i + 1) = IF i = Len(lists[h]) THEN Null ELSE Entry(h, lists[h], i + 1)
      BY <2>1 DEF Entry
    <2> QED BY <2>1, <2>2, HlistNames
  <1>4. ASSUME NEW n \in Nodes, mem.prev[n] # Wild PROVE H!Hashed(n) <=> n \in H!InLists
    <2>1. ASSUME NEW h \in Buckets, n \in Range(lists[h]) PROVE mem.prev[n] # n
      <3>1. PICK i \in 1 .. Len(lists[h]) : lists[h][i] = n
        BY <2>1, BucketFacts, Positions DEF HashesNow
      <3> QED BY <3>1, HNode
    <2>2. ASSUME \A h \in Buckets : n \notin Range(lists[h]) PROVE mem.prev[n] = n
      BY <1>4, <2>2 DEF HashesNow, Spares, Spare
    <2> QED BY <2>1, <2>2, HlistNames DEF H!Hashed
  <1>5. ASSUME loop # Null
        PROVE  /\ \A i, j \in 1 .. Len(loop.got) : loop.got[i] = loop.got[j] => i = j
               /\ loop.node = Null => Range(loop.got) = loop.due
    <2>1. /\ loop.got \in Seq(Nodes) /\ IsInjective(loop.got)
          /\ loop.node = Null => Range(loop.got) = loop.due
      BY <1>5 DEF LoopOK
    <2> QED BY <2>1, Positions
  <1>6. \A h \in Buckets : H!Places(h) = 0 .. Len(lists[h])
    BY HlistNames
  <1>7. H!Range(loop.got) = Range(loop.got)
    BY HlistNames
  <1> QED BY <1>2, <1>3, <1>4, <1>5, <1>6, <1>7 DEF H!HashChainsSound

(* Whatever buckets, nodes and calls: each bucket chains exactly the nodes *)
(* that the calls put there, in that order, each pointing back to what     *)
(* leads to it, nodes that are initialised tell whether they are in one,   *)
(* and a loop over the buckets gets each node once, those included that    *)
(* the client takes out when the loop has given them to it.                *)
THEOREM HashChainsAlwaysSound == Spec => []HashChainsSound
  <1>1. Init => HashesInv
    BY HInit DEF Init, HashesInv
  <1>2. HashesInv /\ [Next]_<<vars, kind, loop>> => HashesInv'
    <2> SUFFICES ASSUME HashesInv, [Next]_<<vars, kind, loop>>, kind' = "hlist"
                 PROVE  HashesNow' /\ (loop' # Null => LoopOK(mem', lists', loop'))
      BY DEF HashesInv
    <2>1. CASE H!Next /\ kind = "hlist"
      BY <2>1, HNext DEF HashesInv
    <2>2. CASE UNCHANGED <<vars, kind, loop>>
      BY <2>2 DEF HashesInv, HashesNow, vars
    <2> QED BY <2>1, <2>2 DEF Next
  <1>3. HashesInv => HashChainsSound
    BY HSound DEF HashesInv, HashChainsSound
  <1> QED BY <1>1, <1>2, <1>3, PTL DEF Spec

=============================================================================
