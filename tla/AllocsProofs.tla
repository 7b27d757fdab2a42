---------------------------- MODULE AllocsProofs ----------------------------
(***************************************************************************)
(* Proofs about what owns memory on behalf of a client, for any sizes,     *)
(* numbers and addresses: falloc, palloc, lalloc and lvstr in turn, then   *)
(* a behaviour of MCAllocs, whichever it is about.                         *)
(***************************************************************************)
EXTENDS MCAllocs, NatFacts

(* The instances have names of their own for the operators of sets and     *)
(* sequences.                                                              *)
LEMMA PoolCardinality == \A T : PrePool!Cardinality(T) = Cardinality(T)
  BY DEF PrePool!Cardinality, Cardinality

LEMMA PallocSeqs == \A T : P!SetToSeqs(T) = SetToSeqs(T)
  BY DEF P!SetToSeqs, SetToSeqs, P!Bijection, Bijection, P!Injection, Injection,
         P!Surjection, Surjection, P!IsInjective, IsInjective, P!Cardinality, Cardinality

LEMMA LallocSeqs == \A T : L!SetToSeqs(T) = SetToSeqs(T)
  BY DEF L!SetToSeqs, SetToSeqs, L!Bijection, Bijection, L!Injection, Injection,
         L!Surjection, Surjection, L!IsInjective, IsInjective, L!Cardinality, Cardinality

LEMMA LallocCardinality == \A T : L!Cardinality(T) = Cardinality(T)
  BY DEF L!Cardinality, Cardinality

-----------------------------------------------------------------------------
(* Sequences without repetition. *)

(* Sets and injectivity of a sequence in terms of its positions. *)
LEMMA SeqPositions ==
  ASSUME NEW Base, NEW s \in Seq(Base)
  PROVE  /\ Len(s) \in Nat
         /\ DOMAIN s = 1 .. Len(s)
         /\ ToSet(s) \subseteq Base
         /\ \A e : e \in ToSet(s) <=> \E i \in 1 .. Len(s) : s[i] = e
         /\ IsInjective(s) <=> \A i, j \in 1 .. Len(s) : s[i] = s[j] => i = j
  BY DEF ToSet, IsInjective

LEMMA ConsFacts ==
  ASSUME NEW Base, NEW s \in Seq(Base), NEW e \in Base
  PROVE  /\ Cons(e, s) \in Seq(Base)
         /\ Len(Cons(e, s)) = Len(s) + 1
         /\ Cons(e, s)[1] = e
         /\ \A i \in 1 .. Len(s) : Cons(e, s)[i + 1] = s[i]
         /\ \A i \in 2 .. Len(s) + 1 : Cons(e, s)[i] = s[i - 1]
  BY DEF Cons

LEMMA ConsDistinct ==
  ASSUME NEW Base, NEW s \in Seq(Base), NEW e \in Base
  PROVE  /\ ToSet(Cons(e, s)) = ToSet(s) \cup {e}
         /\ IsInjective(s) /\ e \notin ToSet(s) => IsInjective(Cons(e, s))
  <1> DEFINE t == Cons(e, s)
  <1>1. /\ t \in Seq(Base) /\ Len(t) = Len(s) + 1 /\ t[1] = e
        /\ \A i \in 1 .. Len(s) : t[i + 1] = s[i]
        /\ \A i \in 2 .. Len(s) + 1 : t[i] = s[i - 1]
    BY DEF Cons
  <1> HIDE DEF t
  <1>2. /\ Len(s) \in Nat
        /\ \A x : x \in ToSet(s) <=> \E i \in 1 .. Len(s) : s[i] = x
        /\ \A x : x \in ToSet(t) <=> \E i \in 1 .. Len(t) : t[i] = x
        /\ IsInjective(s) <=> \A i, j \in 1 .. Len(s) : s[i] = s[j] => i = j
        /\ IsInjective(t) <=> \A i, j \in 1 .. Len(t) : t[i] = t[j] => i = j
    BY <1>1, SeqPositions
  <1>3. ToSet(t) = ToSet(s) \cup {e}
    <2>1. ASSUME NEW x \in ToSet(t) PROVE x \in ToSet(s) \cup {e}
      <3>1. PICK i \in 1 .. Len(t) : t[i] = x
        BY <1>2
      <3>2. CASE i = 1
        BY <1>1, <3>1, <3>2
      <3>3. CASE i # 1
        <4>1. i - 1 \in 1 .. Len(s) /\ s[i - 1] = x
          BY <1>1, <1>2, <3>1, <3>3
        <4> QED BY <4>1, <1>2
      <3> QED BY <3>2, <3>3
    <2>2. ASSUME NEW x \in ToSet(s) PROVE x \in ToSet(t)
      <3>1. PICK i \in 1 .. Len(s) : s[i] = x
        BY <1>2
      <3>2. i + 1 \in 1 .. Len(t) /\ t[i + 1] = x
        BY <1>1, <1>2, <3>1
      <3> QED BY <3>2, <1>2
    <2>3. e \in ToSet(t)
      <3>1. 1 \in 1 .. Len(t) /\ t[1] = e
        BY <1>1, <1>2
      <3> QED BY <3>1, <1>2
    <2> QED BY <2>1, <2>2, <2>3
  <1>4. ASSUME IsInjective(s), e \notin ToSet(s)
        PROVE  IsInjective(t)
    <2> SUFFICES ASSUME NEW i \in 1 .. Len(t), NEW j \in 1 .. Len(t), t[i] = t[j]
                 PROVE  i = j
      BY <1>2
    <2>1. \A k \in 2 .. Len(t) : t[k] # e
      <3> TAKE k \in 2 .. Len(t)
      <3>1. k - 1 \in 1 .. Len(s) /\ t[k] = s[k - 1]
        BY <1>1, <1>2
      <3> QED BY <3>1, <1>2, <1>4
    <2>2. CASE i = 1 \/ j = 1
      BY <1>1, <1>2, <2>1, <2>2
    <2>3. CASE i # 1 /\ j # 1
      <3>1. i - 1 \in 1 .. Len(s) /\ j - 1 \in 1 .. Len(s) /\ s[i - 1] = s[j - 1]
        BY <1>1, <1>2, <2>3
      <3>2. i - 1 = j - 1
        BY <3>1, <1>2, <1>4
      <3> QED BY <3>2
    <2> QED BY <2>2, <2>3
  <1> QED BY <1>3, <1>4 DEF t

(* What removing the element at a position leaves. *)
LEMMA RemoveAtFacts ==
  ASSUME NEW Base, NEW s \in Seq(Base), NEW n \in 1 .. Len(s)
  PROVE  LET t == RemoveAt(s, n)
         IN  /\ t \in Seq(Base)
             /\ Len(t) = Len(s) - 1
             /\ \A i \in 1 .. Len(t) : t[i] = IF i < n THEN s[i] ELSE s[i + 1]
  <1> DEFINE u == SubSeq(s, 1, n - 1)
             v == SubSeq(s, n + 1, Len(s))
             t == u \o v
  <1>1. /\ u \in Seq(Base) /\ Len(u) = n - 1
        /\ \A i \in 1 .. n - 1 : u[i] = s[i]
    OBVIOUS
  <1>2. /\ v \in Seq(Base) /\ Len(v) = Len(s) - n
        /\ \A i \in 1 .. Len(s) - n : v[i] = s[i + n]
    OBVIOUS
  <1> HIDE DEF u, v
  <1>3. t \in Seq(Base) /\ Len(t) = Len(s) - 1
    BY <1>1, <1>2
  <1>4. ASSUME NEW i \in 1 .. Len(t)
        PROVE  t[i] = IF i < n THEN s[i] ELSE s[i + 1]
    <2>1. CASE i < n
      BY <1>1, <1>2, <1>3, <2>1
    <2>2. CASE ~(i < n)
      <3>1. t[i] = v[i - (n - 1)] /\ i - (n - 1) \in 1 .. Len(s) - n
        BY <1>1, <1>2, <1>3, <2>2
      <3>2. v[i - (n - 1)] = s[(i - (n - 1)) + n]
        BY <1>2, <3>1
      <3>3. (i - (n - 1)) + n = i + 1
        OBVIOUS
      <3> QED BY <3>1, <3>2, <3>3, <2>2
    <2> QED BY <2>1, <2>2
  <1>5. t = RemoveAt(s, n)
    BY DEF RemoveAt, u, v
  <1> HIDE DEF t
  <1> QED BY <1>3, <1>4, <1>5

LEMMA RemoveAtDistinct ==
  ASSUME NEW Base, NEW s \in Seq(Base), IsInjective(s), NEW n \in 1 .. Len(s)
  PROVE  /\ IsInjective(RemoveAt(s, n))
         /\ ToSet(RemoveAt(s, n)) = ToSet(s) \ {s[n]}
  <1> DEFINE t == RemoveAt(s, n)
             from(i) == IF i < n THEN i ELSE i + 1
  <1>1. /\ t \in Seq(Base) /\ Len(t) = Len(s) - 1
        /\ \A i \in 1 .. Len(t) : t[i] = s[from(i)]
    BY RemoveAtFacts
  <1> HIDE DEF t
  <1>2. /\ Len(s) \in Nat
        /\ \A x : x \in ToSet(s) <=> \E i \in 1 .. Len(s) : s[i] = x
        /\ \A x : x \in ToSet(t) <=> \E i \in 1 .. Len(t) : t[i] = x
        /\ \A i, j \in 1 .. Len(s) : s[i] = s[j] => i = j
        /\ IsInjective(t) <=> \A i, j \in 1 .. Len(t) : t[i] = t[j] => i = j
    BY <1>1, SeqPositions
  <1>3. \A i \in 1 .. Len(t) : from(i) \in 1 .. Len(s) /\ from(i) # n
    BY <1>1, <1>2
  <1>4. \A i, j \in 1 .. Len(t) : from(i) = from(j) => i = j
    BY <1>1, <1>2
  <1>5. \A k \in 1 .. Len(s) : k # n => \E i \in 1 .. Len(t) : from(i) = k
    <2> TAKE k \in 1 .. Len(s)
    <2> HAVE k # n
    <2>1. CASE k < n
      <3>1. k \in 1 .. Len(t) /\ from(k) = k
        BY <1>1, <1>2, <2>1
      <3> QED BY <3>1
    <2>2. CASE k > n
      <3>1. k - 1 \in 1 .. Len(t) /\ from(k - 1) = k
        BY <1>1, <1>2, <2>2
      <3> QED BY <3>1
    <2> QED BY <2>1, <2>2
  <1> HIDE DEF from
  <1>6. IsInjective(t)
    <2> SUFFICES ASSUME NEW i \in 1 .. Len(t), NEW j \in 1 .. Len(t), t[i] = t[j]
                 PROVE  i = j
      BY <1>2
    <2>1. s[from(i)] = s[from(j)]
      BY <1>1
    <2>2. from(i) = from(j)
      BY <1>2, <1>3, <2>1
    <2> QED BY <2>2, <1>4
  <1>7. ASSUME NEW x \in ToSet(t) PROVE x \in ToSet(s) \ {s[n]}
    <2>1. PICK i \in 1 .. Len(t) : t[i] = x
      BY <1>2
    <2>2. s[from(i)] = x /\ from(i) \in 1 .. Len(s) /\ from(i) # n
      BY <1>1, <1>3, <2>1
    <2> QED BY <1>2, <2>2
  <1>8. ASSUME NEW x \in ToSet(s) \ {s[n]} PROVE x \in ToSet(t)
    <2>1. PICK k \in 1 .. Len(s) : s[k] = x
      BY <1>2
    <2>2. PICK i \in 1 .. Len(t) : from(i) = k
      BY <1>5, <2>1
    <2>3. t[i] = x
      BY <1>1, <2>1, <2>2
    <2> QED BY <2>3, <1>2
  <1> QED BY <1>6, <1>7, <1>8 DEF t

(* Taking the first element away. *)
LEMMA TailDistinct ==
  ASSUME NEW Base, NEW s \in Seq(Base), s # <<>>, IsInjective(s)
  PROVE  /\ Head(s) \in ToSet(s)
         /\ Tail(s) \in Seq(Base)
         /\ Len(Tail(s)) = Len(s) - 1
         /\ IsInjective(Tail(s))
         /\ ToSet(Tail(s)) = ToSet(s) \ {Head(s)}
  <1>1. Len(s) \in Nat \ {0} /\ Head(s) = s[1] /\ Tail(s) \in Seq(Base)
    OBVIOUS
  <1>2. Len(Tail(s)) = Len(s) - 1
    OBVIOUS
  <1>3. RemoveAt(s, 1) \in Seq(Base) /\ Len(RemoveAt(s, 1)) = Len(s) - 1
    BY <1>1, RemoveAtFacts
  <1>4. \A i \in 1 .. Len(s) - 1 : RemoveAt(s, 1)[i] = s[i + 1]
    BY <1>1, <1>3, RemoveAtFacts
  <1>5. \A i \in 1 .. Len(s) - 1 : Tail(s)[i] = s[i + 1]
    OBVIOUS
  <1>6. Tail(s) = RemoveAt(s, 1)
    BY <1>1, <1>2, <1>3, <1>4, <1>5
  <1>7. /\ IsInjective(RemoveAt(s, 1))
        /\ ToSet(RemoveAt(s, 1)) = ToSet(s) \ {s[1]}
    BY <1>1, RemoveAtDistinct
  <1>8. s[1] \in ToSet(s)
    BY <1>1, SeqPositions
  <1> QED BY <1>1, <1>2, <1>6, <1>7, <1>8

(* Moving the first element to the tail. *)
LEMMA RotateDistinct ==
  ASSUME NEW Base, NEW s \in Seq(Base), s # <<>>, IsInjective(s)
  PROVE  LET t == Append(Tail(s), Head(s))
         IN  /\ t \in Seq(Base)
             /\ Len(t) = Len(s)
             /\ \A i \in 1 .. Len(s) - 1 : t[i] = s[i + 1]
             /\ t[Len(s)] = s[1]
             /\ IsInjective(t)
             /\ ToSet(t) = ToSet(s)
  <1> DEFINE t == Append(Tail(s), Head(s))
             from(i) == IF i = Len(s) THEN 1 ELSE i + 1
  <1>1. /\ t \in Seq(Base) /\ Len(t) = Len(s) /\ Len(s) \in Nat \ {0}
        /\ \A i \in 1 .. Len(s) - 1 : t[i] = s[i + 1]
        /\ t[Len(s)] = s[1]
    OBVIOUS
  <1> HIDE DEF t
  <1>2. \A i \in 1 .. Len(t) : t[i] = s[from(i)] /\ from(i) \in 1 .. Len(s)
    BY <1>1
  <1>3. /\ \A x : x \in ToSet(s) <=> \E i \in 1 .. Len(s) : s[i] = x
        /\ \A x : x \in ToSet(t) <=> \E i \in 1 .. Len(t) : t[i] = x
        /\ \A i, j \in 1 .. Len(s) : s[i] = s[j] => i = j
        /\ IsInjective(t) <=> \A i, j \in 1 .. Len(t) : t[i] = t[j] => i = j
    BY <1>1, SeqPositions
  <1>4. \A i, j \in 1 .. Len(t) : from(i) = from(j) => i = j
    BY <1>1
  <1>5. \A k \in 1 .. Len(s) : \E i \in 1 .. Len(t) : from(i) = k
    <2> TAKE k \in 1 .. Len(s)
    <2>1. CASE k = 1
      <3>1. Len(s) \in 1 .. Len(t) /\ from(Len(s)) = k
        BY <1>1, <2>1
      <3> QED BY <3>1
    <2>2. CASE k # 1
      <3>1. k - 1 \in 1 .. Len(t) /\ from(k - 1) = k
        BY <1>1, <2>2
      <3> QED BY <3>1
    <2> QED BY <2>1, <2>2
  <1> HIDE DEF from
  <1>6. IsInjective(t)
    <2> SUFFICES ASSUME NEW i \in 1 .. Len(t), NEW j \in 1 .. Len(t), t[i] = t[j]
                 PROVE  i = j
      BY <1>3
    <2>1. from(i) = from(j)
      BY <1>2, <1>3, SMTT(30)
    <2> QED BY <2>1, <1>4
  <1>7. ASSUME NEW x \in ToSet(t) PROVE x \in ToSet(s)
    BY <1>2, <1>3
  <1>8. ASSUME NEW x \in ToSet(s) PROVE x \in ToSet(t)
    <2>1. PICK k \in 1 .. Len(s) : s[k] = x
      BY <1>3
    <2>2. PICK i \in 1 .. Len(t) : from(i) = k
      BY <1>5
    <2>3. t[i] = x
      BY <1>2, <2>1, <2>2
    <2> QED BY <2>3, <1>3
  <1> QED BY <1>1, <1>6, <1>7, <1>8 DEF t

-----------------------------------------------------------------------------
(* Chains: sequences without repetition whose elements point to the next.  *)

(* s is the chain that starts at first, w being where elements point to.   *)
Chain(first, w, null, s) ==
  /\ first = IF Len(s) = 0 THEN null ELSE s[1]
  /\ \A i \in 1 .. Len(s) : w[s[i]] = IF i = Len(s) THEN null ELSE s[i + 1]

(* What follows the first element of a chain. *)
LEMMA ChainTail ==
  ASSUME NEW Base, NEW s \in Seq(Base), NEW first, NEW w, NEW null,
         Chain(first, w, null, s), first # null
  PROVE  /\ s # <<>> /\ first = Head(s) /\ first \in Base
         /\ Chain(w[first], w, null, Tail(s))
  <1>1. Len(s) \in Nat \ {0} /\ first = s[1]
    BY DEF Chain
  <1>2. s # <<>> /\ s[1] = Head(s) /\ s[1] \in Base
    BY <1>1
  <1> DEFINE t == Tail(s)
  <1>3. /\ t \in Seq(Base) /\ Len(t) = Len(s) - 1
        /\ \A i \in 1 .. Len(s) - 1 : t[i] = s[i + 1]
    BY <1>1
  <1> HIDE DEF t
  <1>4. ASSUME NEW i \in 1 .. Len(t) PROVE w[t[i]] = IF i = Len(t) THEN null ELSE t[i + 1]
    <2>1. i \in 1 .. Len(s) - 1 /\ i + 1 \in 1 .. Len(s) /\ t[i] = s[i + 1]
      BY <1>1, <1>3
    <2>2. w[s[i + 1]] = IF i + 1 = Len(s) THEN null ELSE s[i + 1 + 1]
      BY <2>1 DEF Chain
    <2>3. i # Len(t) => t[i + 1] = s[i + 1 + 1]
      BY <1>1, <1>3
    <2> QED BY <1>1, <1>3, <2>1, <2>2, <2>3
  <1>5. w[first] = IF Len(t) = 0 THEN null ELSE t[1]
    <2>1. w[s[1]] = IF 1 = Len(s) THEN null ELSE s[1 + 1]
      <3>1. 1 \in 1 .. Len(s)
        BY <1>1
      <3> QED BY <3>1 DEF Chain
    <2>2. Len(t) # 0 => t[1] = s[1 + 1]
      BY <1>1, <1>3
    <2> QED BY <1>1, <1>3, <2>1, <2>2
  <1>6. Chain(w[first], w, null, t)
    BY <1>4, <1>5 DEF Chain
  <1> QED BY <1>1, <1>2, <1>6 DEF t

(* A chain does not depend upon where other elements point to. *)
LEMMA ChainKept ==
  ASSUME NEW Base, NEW s \in Seq(Base), NEW first, NEW w, NEW v, NEW null,
         Chain(first, w, null, s), \A e \in ToSet(s) : v[e] = w[e]
  PROVE  Chain(first, v, null, s)
  BY SeqPositions DEF Chain

(* An element is put in front of a chain. *)
LEMMA ChainCons ==
  ASSUME NEW Base, NEW s \in Seq(Base), NEW first, NEW w, NEW null,
         Chain(first, w, null, s), NEW e \in Base, w[e] = first
  PROVE  Chain(e, w, null, Cons(e, s))
  <1> DEFINE t == Cons(e, s)
  <1>1. t \in Seq(Base) /\ Len(t) = Len(s) + 1 /\ t[1] = e
    BY ConsFacts
  <1>2. Len(s) \in Nat
    OBVIOUS
  <1>0. \A i \in 1 .. Len(s) : t[i + 1] = s[i]
    BY ConsFacts
  <1> HIDE DEF t
  <1>3. ASSUME NEW i \in 1 .. Len(t) PROVE w[t[i]] = IF i = Len(t) THEN null ELSE t[i + 1]
    <2>1. CASE i = 1
      <3>1. CASE Len(s) = 0
        BY <1>1, <2>1, <3>1 DEF Chain
      <3>2. CASE Len(s) # 0
        <4>1. first = s[1] /\ t[1 + 1] = s[1]
          BY <1>0, <1>1, <1>2, <3>2 DEF Chain
        <4> QED BY <1>1, <1>2, <2>1, <3>2, <4>1
      <3> QED BY <3>1, <3>2
    <2>2. CASE i # 1
      <3>1. i \in 2 .. Len(s) + 1 /\ i - 1 \in 1 .. Len(s)
        BY <1>1, <1>2, <2>2
      <3>2. w[s[i - 1]] = IF i - 1 = Len(s) THEN null ELSE s[i - 1 + 1]
        BY <3>1 DEF Chain
      <3>3. t[i] = s[i - 1] /\ (i # Len(t) => t[i + 1] = s[i])
        <4>1. t[i - 1 + 1] = s[i - 1] /\ i - 1 + 1 = i
          BY <1>0, <3>1
        <4>2. i # Len(t) => i \in 1 .. Len(s)
          BY <1>1, <1>2, <3>1
        <4> QED BY <1>0, <4>1, <4>2
      <3> QED BY <1>1, <1>2, <3>1, <3>2, <3>3
    <2> QED BY <2>1, <2>2
  <1>4. Chain(e, w, null, t)
    BY <1>1, <1>2, <1>3 DEF Chain
  <1> QED BY <1>4 DEF t

(* A sequence without repetition orders the set of its elements. *)
LEMMA OrdersItsElements ==
  ASSUME NEW T, NEW s \in Seq(T), IsInjective(s), ToSet(s) = T
  PROVE  IsFiniteSet(T) /\ Cardinality(T) = Len(s) /\ s \in SetToSeqs(T)
  <1>1. /\ Len(s) \in Nat /\ s \in [1 .. Len(s) -> T]
        /\ \A i, j \in 1 .. Len(s) : s[i] = s[j] => i = j
        /\ \A e \in T : \E i \in 1 .. Len(s) : s[i] = e
    BY SeqPositions
  <1>2. s \in Bijection(1 .. Len(s), T)
    BY <1>1 DEF Bijection, Injection, Surjection, IsInjective
  <1>3. IsFiniteSet(1 .. Len(s)) /\ Cardinality(1 .. Len(s)) = Len(s)
    <2> SUFFICES ASSUME NEW n \in Nat PROVE IsFiniteSet(1 .. n) /\ Cardinality(1 .. n) = n
      BY <1>1
    <2>1. /\ IsFiniteSet(1 .. n)
          /\ Cardinality(1 .. n) = IF 1 > n THEN 0 ELSE n - 1 + 1
      BY FS_Interval
    <2> QED BY <2>1
  <1>4. IsFiniteSet(T) /\ Cardinality(T) = Len(s)
    BY <1>2, <1>3, FS_Bijection DEF ExistsBijection
  <1> QED BY <1>1, <1>4 DEF SetToSeqs

-----------------------------------------------------------------------------
(* Address arithmetic. *)

(* A remainder less than the divisor is what % returns. *)
LEMMA RemainderOfSum ==
  ASSUME NEW a \in Nat \ {0}, NEW b \in Nat, b % a = 0, NEW r \in Nat, r < a
  PROVE  (b + r) % a = r
  <1>1. b = a * (b \div a) /\ b \div a \in Int
    BY Z3
  <1> QED BY <1>1, Quotient

(* Two multiples are a whole step apart. *)
LEMMA MultiplesApart ==
  ASSUME NEW m \in Nat \ {0}, NEW a \in Nat, NEW b \in Nat,
         a % m = 0, b % m = 0, a < b
  PROVE  a + m <= b
  <1>1. a = m * (a \div m) /\ b = m * (b \div m)
    BY Z3
  <1>2. a \div m \in Nat /\ b \div m \in Nat
    BY Z3
  <1> SUFFICES ASSUME NEW p \in Nat, NEW q \in Nat, a = m * p, b = m * q
               PROVE  a + m <= b
    BY <1>1, <1>2
  <1>3. p < q
    BY Z3
  <1>4. m * p + m <= m * q
    BY <1>3, Z3
  <1> QED BY <1>4

(* Chunks of a block are laid out in the order of their indices. *)
LEMMA ChunkOffset ==
  ASSUME NEW i \in Nat, NEW j \in Nat, i < j
  PROVE  /\ i * ChunkSz \in Nat
         /\ i * ChunkSz + ChunkSz <= j * ChunkSz
  BY SizeAssumption, Z3

LEMMA ChunkInBlock ==
  ASSUME NEW b \in BlockAddrs, NEW i \in 0 .. ChunkPerBlock - 1
  PROVE  /\ i * ChunkSz \in Nat
         /\ ChunkAt(b, i) \in Nat
         /\ b + HdrSz <= ChunkAt(b, i)
         /\ ChunkAt(b, i) + ChunkSz <= b + BlockSz
         /\ BlockSz <= BlockAl
         /\ BlockSz \in Nat
  <1>1. /\ i * ChunkSz \in Nat
        /\ i * ChunkSz + ChunkSz <= ChunkPerBlock * ChunkSz
    BY PerBlockAssumption, ChunkOffset
  <1>2. ChunkPerBlock * ChunkSz \in Nat
    BY PerBlockAssumption, SizeAssumption, Z3
  <1>3. b \in Nat
    BY BlockAddrsAssumption
  <1> QED
    BY <1>1, <1>2, <1>3, SizeAssumption, AlignAssumption DEF ChunkAt, BlockSz

(* Clearing the low bits of a chunk's address gives its block: this is how *)
(* stroll_falloc_free() finds the block of the chunk it is given.          *)
LEMMA BlockOfChunkAt ==
  ASSUME NEW b \in BlockAddrs, NEW i \in 0 .. ChunkPerBlock - 1
  PROVE  BlockOf(ChunkAt(b, i)) = b
  <1> DEFINE r == HdrSz + i * ChunkSz
  <1>1. /\ i * ChunkSz \in Nat
        /\ ChunkAt(b, i) + ChunkSz <= b + BlockSz
        /\ BlockSz <= BlockAl
        /\ BlockSz \in Nat
    BY ChunkInBlock
  <1>2. b \in Nat /\ b % BlockAl = 0
    BY BlockAddrsAssumption
  <1>3. ChunkAt(b, i) = b + r /\ r \in Nat
    BY <1>1, <1>2, SizeAssumption DEF ChunkAt
  <1>4. r < BlockAl
    BY <1>1, <1>2, <1>3, SizeAssumption, AlignAssumption
  <1> HIDE DEF r
  <1>5. (b + r) % BlockAl = r
    BY <1>2, <1>3, <1>4, AlignAssumption, RemainderOfSum
  <1> QED
    BY <1>2, <1>3, <1>5 DEF BlockOf

LEMMA ChunkAtInjective ==
  ASSUME NEW b \in BlockAddrs, NEW i \in 0 .. ChunkPerBlock - 1,
         NEW j \in 0 .. ChunkPerBlock - 1, ChunkAt(b, i) = ChunkAt(b, j)
  PROVE  i = j
  <1>1. \A k, l \in 0 .. ChunkPerBlock - 1 : k < l => ChunkAt(b, k) < ChunkAt(b, l)
    <2> TAKE k, l \in 0 .. ChunkPerBlock - 1
    <2> HAVE k < l
    <2>1. k * ChunkSz \in Nat /\ l * ChunkSz \in Nat
      BY ChunkInBlock
    <2>2. k * ChunkSz + ChunkSz <= l * ChunkSz
      BY ChunkOffset
    <2> QED
      BY <2>1, <2>2, BlockAddrsAssumption, SizeAssumption DEF ChunkAt
  <1>2. ChunkAt(b, i) \in Nat /\ ChunkAt(b, j) \in Nat
    BY ChunkInBlock
  <1> QED
    BY <1>1, <1>2, PerBlockAssumption

LEMMA ChunkHasBlock ==
  ASSUME NEW ch \in Chunks
  PROVE  /\ BlockOf(ch) \in BlockAddrs
         /\ \E i \in 0 .. ChunkPerBlock - 1 : ch = ChunkAt(BlockOf(ch), i)
  <1>1. PICK b \in BlockAddrs, i \in 0 .. ChunkPerBlock - 1 : ch = ChunkAt(b, i)
    BY DEF Chunks, ChunksOf
  <1> QED
    BY <1>1, BlockOfChunkAt

LEMMA ChunkAtIsChunk ==
  ASSUME NEW b \in BlockAddrs, NEW i \in 0 .. ChunkPerBlock - 1
  PROVE  ChunkAt(b, i) \in Chunks
  BY DEF Chunks, ChunksOf
-----------------------------------------------------------------------------
(* The inductive invariant. *)

(* The chunks of a block that the client holds and those of its free list  *)
(* share out the used part of the block.                                   *)
BlockSound(b) ==
  /\ busy_cnt[b] = Cardinality(HeldIn(b))
  /\ busy_cnt[b] > 0
  /\ busy_cnt[b] + Len(next_free[b]) <= ChunkPerBlock
  /\ IsInjective(next_free[b])
  /\ ToSet(next_free[b]) \cap held = {}
  /\ ToSet(next_free[b]) \cup HeldIn(b) = UsedChunks(b)

(* No chunk outlives its block. *)
HeldLive == \A ch \in held : BlockOf(ch) \in heap

CountAgrees == up => chunk_cnt = Cardinality(held) /\ chunk_cnt <= ChunkNr

FallocIInv ==
  /\ TypeOK
  /\ IsFiniteSet(held)
  /\ BlocksOwned
  /\ HeldLive
  /\ CountAgrees
  /\ \A b \in heap : BlockSound(b)
  /\ RoomFirst
  /\ RefusedOnlyWhenExhausted

LEMMA HeldInFinite ==
  ASSUME IsFiniteSet(held), NEW b
  PROVE  IsFiniteSet(HeldIn(b))
  BY FS_Subset DEF HeldIn

(* The used chunks of a block are chunks of that block. *)
LEMMA UsedInBlock ==
  ASSUME NEW b \in BlockAddrs, NEW n \in 0 .. ChunkPerBlock,
         NEW ch \in {ChunkAt(b, i) : i \in 0 .. n - 1}
  PROVE  ch \in Chunks /\ BlockOf(ch) = b
  <1>1. PICK i \in 0 .. n - 1 : ch = ChunkAt(b, i)
    OBVIOUS
  <1>2. i \in 0 .. ChunkPerBlock - 1
    BY PerBlockAssumption
  <1> QED BY <1>1, <1>2, BlockOfChunkAt, ChunkAtIsChunk

(* stroll_falloc_next_free_chunk() on a sound block with room returns a    *)
(* chunk of that block that the client does not hold, and leaves a free    *)
(* list that shares out the used chunks with the chunks then held.         *)
LEMMA NextFreeChunkIsFresh ==
  ASSUME TypeOK, NEW b \in BlockAddrs, BlockSound(b), busy_cnt[b] < ChunkPerBlock
  PROVE  LET ch == NextFreeChunk(b)
             r == RemainingFree(b)
         IN  /\ ch \in Chunks
             /\ BlockOf(ch) = b
             /\ ch \notin held
             /\ r \in Seq(Chunks)
             /\ IsInjective(r)
             /\ busy_cnt[b] + 1 + Len(r) <= ChunkPerBlock
             /\ ToSet(r) \cap (held \cup {ch}) = {}
             /\ ToSet(r) \cup (HeldIn(b) \cup {ch})
                  = {ChunkAt(b, i) : i \in 0 .. busy_cnt[b] + 1 + Len(r) - 1}
  <1> DEFINE ch == NextFreeChunk(b)
             r == RemainingFree(b)
             n == busy_cnt[b] + Len(next_free[b])
  <1>1. /\ busy_cnt[b] \in 0 .. ChunkPerBlock /\ next_free[b] \in Seq(Chunks)
        /\ Len(next_free[b]) \in Nat /\ n \in 0 .. ChunkPerBlock
    BY PerBlockAssumption DEF TypeOK, BlockSound
  <1>2. \A x \in UsedChunks(b) : x \in Chunks /\ BlockOf(x) = b
    BY <1>1, UsedInBlock DEF UsedChunks
  <1>3. CASE next_free[b] # <<>>
    <2>1. ch = Head(next_free[b]) /\ r = Tail(next_free[b])
      BY <1>3 DEF NextFreeChunk, RemainingFree
    <2>2. /\ ch \in ToSet(next_free[b]) /\ r \in Seq(Chunks)
          /\ Len(r) = Len(next_free[b]) - 1
          /\ IsInjective(r) /\ ToSet(r) = ToSet(next_free[b]) \ {ch}
      BY <1>1, <1>3, <2>1, TailDistinct DEF BlockSound
    <2> HIDE DEF ch, r
    <2>3. ch \notin held /\ ch \in UsedChunks(b)
      BY <2>2 DEF BlockSound
    <2>4. ch \in Chunks /\ BlockOf(ch) = b
      BY <1>2, <2>3
    <2>5. busy_cnt[b] + 1 + Len(r) = n
      BY <1>1, <2>2
    <2>6. ToSet(r) \cap (held \cup {ch}) = {}
      BY <2>2 DEF BlockSound
    <2>7. ToSet(r) \cup (HeldIn(b) \cup {ch}) = UsedChunks(b)
      BY <2>2 DEF BlockSound
    <2> QED
      BY <1>1, <2>2, <2>3, <2>4, <2>5, <2>6, <2>7, SMTT(30) DEF UsedChunks, ch, r
  <1>4. CASE next_free[b] = <<>>
    <2>1. ch = ChunkAt(b, busy_cnt[b]) /\ r = <<>>
      BY <1>4 DEF NextFreeChunk, RemainingFree
    <2>2. Len(next_free[b]) = 0 /\ Len(r) = 0 /\ ToSet(r) = {} /\ ToSet(next_free[b]) = {}
      BY <1>4, <2>1 DEF ToSet
    <2>3. r \in Seq(Chunks) /\ IsInjective(r)
      BY <2>1 DEF IsInjective
    <2>4. busy_cnt[b] \in 0 .. ChunkPerBlock - 1
      BY <1>1, PerBlockAssumption
    <2>5. ch \in Chunks /\ BlockOf(ch) = b
      BY <2>1, <2>4, BlockOfChunkAt, ChunkAtIsChunk
    <2>6. HeldIn(b) = UsedChunks(b)
      BY <2>2 DEF BlockSound
    <2>7. ch \notin UsedChunks(b)
      <3> SUFFICES ASSUME NEW i \in 0 .. busy_cnt[b] - 1, ch = ChunkAt(b, i)
                   PROVE  FALSE
        BY <1>1, <2>2 DEF UsedChunks
      <3>1. i \in 0 .. ChunkPerBlock - 1
        BY <1>1, PerBlockAssumption
      <3>2. i = busy_cnt[b]
        BY <2>1, <2>4, <3>1, ChunkAtInjective
      <3> QED BY <1>1, <3>2
    <2>8. ch \notin held
      BY <2>5, <2>6, <2>7 DEF HeldIn
    <2>9. UsedChunks(b) \cup {ch} = {ChunkAt(b, i) : i \in 0 .. busy_cnt[b]}
      <3>1. 0 .. busy_cnt[b] + Len(next_free[b]) - 1 = 0 .. busy_cnt[b] - 1
        BY <1>1, <2>2
      <3>2. 0 .. busy_cnt[b] = (0 .. busy_cnt[b] - 1) \cup {busy_cnt[b]}
        BY <1>1
      <3> QED BY <2>1, <3>1, <3>2 DEF UsedChunks
    <2>10. busy_cnt[b] + 1 + Len(r) - 1 = busy_cnt[b]
      BY <1>1, <2>2
    <2>11. busy_cnt[b] + 1 + Len(r) <= ChunkPerBlock
      BY <1>1, <2>2, <2>4, PerBlockAssumption
    <2> HIDE DEF ch, r
    <2>12. ToSet(r) \cup (HeldIn(b) \cup {ch}) = {ChunkAt(b, i) : i \in 0 .. busy_cnt[b] + 1 + Len(r) - 1}
      BY <2>2, <2>6, <2>9, <2>10
    <2> QED BY <2>2, <2>3, <2>5, <2>8, <2>11, <2>12 DEF ch, r
  <1> QED BY <1>3, <1>4


(* A block the step does not touch stays sound. *)
LEMMA OtherBlockKept ==
  ASSUME TypeOK, NEW d \in BlockAddrs, BlockSound(d),
         busy_cnt'[d] = busy_cnt[d], next_free'[d] = next_free[d],
         \A ch : BlockOf(ch) = d => (ch \in held' <=> ch \in held)
  PROVE  BlockSound(d)'
  <1>1. HeldIn(d)' = HeldIn(d)
    BY DEF HeldIn
  <1>2. UsedChunks(d)' = UsedChunks(d)
    BY DEF UsedChunks, ChunkAt
  <1>3. /\ busy_cnt[d] \in 0 .. ChunkPerBlock
        /\ busy_cnt[d] + Len(next_free[d]) \in 0 .. ChunkPerBlock
    BY PerBlockAssumption DEF TypeOK, BlockSound
  <1>4. \A ch \in ToSet(next_free[d]) : BlockOf(ch) = d
    BY <1>3, UsedInBlock DEF BlockSound, UsedChunks
  <1>5. ToSet(next_free[d]) \cap held' = {}
    BY <1>4 DEF BlockSound
  <1> QED BY <1>1, <1>2, <1>5 DEF BlockSound

LEMMA FallocInitIInv == Init => FallocIInv
  <1> SUFFICES ASSUME Init PROVE FallocIInv
    OBVIOUS
  <1>1. TypeOK
    <2>1. up \in BOOLEAN /\ iface \in BOOLEAN /\ refused \in BOOLEAN
      BY Zenon DEF Init
    <2>2. /\ blocks \in Seq(BlockAddrs)
          /\ busy_cnt \in [BlockAddrs -> 0 .. ChunkPerBlock]
          /\ next_free \in [BlockAddrs -> Seq(Chunks)]
          /\ chunk_cnt \in Nat /\ heap \in SUBSET BlockAddrs /\ held \in SUBSET Chunks
      BY PerBlockAssumption DEF Init
    <2> QED BY <2>1, <2>2, Zenon DEF TypeOK
  <1>2. IsFiniteSet(held)
    BY FS_EmptySet DEF Init
  <1>3. BlocksOwned
    BY DEF Init, BlocksOwned, ToSet, IsInjective
  <1> QED
    BY <1>1, <1>2, <1>3
    DEF Init, FallocIInv, HeldLive, CountAgrees, RoomFirst, RefusedOnlyWhenExhausted

LEMMA FallocSetupStep ==
  ASSUME FallocIInv, NEW create \in BOOLEAN, Setup(create)
  PROVE  FallocIInv'
  <1>1. heap = {} /\ heap' = {} /\ held' = held
    BY DEF FallocIInv, Setup, BlocksOwned
  <1>2. held = {}
    BY <1>1 DEF FallocIInv, HeldLive
  <1>3. Cardinality({}) = 0
    BY FS_EmptySet
  <1>4. TypeOK'
    <2>1. (up \in BOOLEAN /\ iface \in BOOLEAN /\ refused \in BOOLEAN)'
      BY Zenon DEF Setup
    <2>2. blocks' \in Seq(BlockAddrs) /\ chunk_cnt' \in Nat
      BY DEF Setup
    <2> QED BY <2>1, <2>2, Zenon DEF FallocIInv, Setup, TypeOK
  <1>5. BlocksOwned'
    BY <1>1 DEF Setup, BlocksOwned, ToSet, IsInjective
  <1>6. CountAgrees'
    BY <1>1, <1>2, <1>3, ChunkNrAssumption, PerBlockAssumption DEF Setup, CountAgrees
  <1>7. IsFiniteSet(held)' /\ HeldLive' /\ (\A b \in heap' : BlockSound(b)')
    BY <1>1, <1>2 DEF FallocIInv, HeldLive
  <1>8. RoomFirst' /\ RefusedOnlyWhenExhausted'
    BY DEF Setup, RoomFirst, RefusedOnlyWhenExhausted
  <1> QED BY <1>4, <1>5, <1>6, <1>7, <1>8 DEF FallocIInv

LEMMA FallocAllocFromFirstStep ==
  ASSUME FallocIInv, AllocFromFirst
  PROVE  FallocIInv'
  <1> SUFFICES ASSUME NEW b, b = Head(blocks), NEW ch, ch = NextFreeChunk(b),
                      NEW r, r = RemainingFree(b)
               PROVE  FallocIInv'
    OBVIOUS
  <1>1. /\ blocks \in Seq(BlockAddrs) /\ blocks # <<>> /\ IsInjective(blocks)
        /\ Len(blocks) \in Nat \ {0} /\ b = blocks[1]
        /\ \A i, j \in 1 .. Len(blocks) : blocks[i] = blocks[j] => i = j
        /\ \A i \in 1 .. Len(blocks) : blocks[i] \in heap
    <2>1. blocks \in Seq(BlockAddrs) /\ blocks # <<>> /\ IsInjective(blocks) /\ heap = ToSet(blocks)
      BY DEF FallocIInv, TypeOK, BlocksOwned, AllocFromFirst
    <2> QED BY <2>1, SeqPositions
  <1>2. b \in heap /\ b \in BlockAddrs /\ BlockSound(b)
    BY <1>1 DEF FallocIInv, TypeOK
  <1>3. /\ ch \in Chunks /\ BlockOf(ch) = b /\ ch \notin held
        /\ r \in Seq(Chunks) /\ IsInjective(r)
        /\ busy_cnt[b] + 1 + Len(r) <= ChunkPerBlock
        /\ ToSet(r) \cap (held \cup {ch}) = {}
        /\ ToSet(r) \cup (HeldIn(b) \cup {ch})
             = {ChunkAt(b, i) : i \in 0 .. busy_cnt[b] + 1 + Len(r) - 1}
    BY <1>2, NextFreeChunkIsFresh DEF FallocIInv, AllocFromFirst
  <1>4. /\ held' = held \cup {ch} /\ next_free' = [next_free EXCEPT ![b] = r]
        /\ busy_cnt' = [busy_cnt EXCEPT ![b] = busy_cnt[b] + 1]
        /\ blocks' = IF busy_cnt[b] + 1 = ChunkPerBlock
                     THEN Append(Tail(blocks), b) ELSE blocks
        /\ chunk_cnt' = chunk_cnt + 1 /\ chunk_cnt < ChunkNr /\ busy_cnt[b] < ChunkPerBlock
        /\ refused' = FALSE /\ up' = up /\ up /\ heap' = heap /\ iface' = iface
    BY DEF AllocFromFirst, BelowLimit
  <1>5. /\ busy_cnt \in [BlockAddrs -> 0 .. ChunkPerBlock]
        /\ next_free \in [BlockAddrs -> Seq(Chunks)]
        /\ busy_cnt'[b] = busy_cnt[b] + 1 /\ next_free'[b] = r
        /\ \A d \in BlockAddrs \ {b} :
             busy_cnt'[d] = busy_cnt[d] /\ next_free'[d] = next_free[d]
    BY <1>2, <1>4 DEF FallocIInv, TypeOK
  <1>6. /\ blocks' \in Seq(BlockAddrs) /\ Len(blocks') = Len(blocks)
        /\ IsInjective(blocks') /\ ToSet(blocks') = ToSet(blocks)
    <2>1. CASE busy_cnt[b] + 1 = ChunkPerBlock
      BY <1>1, <1>4, <2>1, RotateDistinct
    <2>2. CASE busy_cnt[b] + 1 # ChunkPerBlock
      BY <1>1, <1>4, <2>2
    <2> QED BY <2>1, <2>2
  <1>7. TypeOK'
    <2>1. busy_cnt[b] + 1 \in 0 .. ChunkPerBlock
      BY <1>2, <1>4, <1>5, PerBlockAssumption
    <2>2. busy_cnt' \in [BlockAddrs -> 0 .. ChunkPerBlock]
      BY <1>4, <1>5, <2>1
    <2>3. next_free' \in [BlockAddrs -> Seq(Chunks)]
      BY <1>3, <1>4, <1>5
    <2>4. (up \in BOOLEAN /\ iface \in BOOLEAN /\ refused \in BOOLEAN)'
      BY <1>4, Zenon DEF FallocIInv, TypeOK
    <2>5. chunk_cnt' \in Nat /\ heap' \in SUBSET BlockAddrs /\ held' \in SUBSET Chunks
      BY <1>3, <1>4 DEF FallocIInv, TypeOK
    <2> QED BY <1>6, <2>2, <2>3, <2>4, <2>5, Zenon DEF TypeOK
  <1>8. /\ IsFiniteSet(held')
        /\ Cardinality(held') = Cardinality(held) + 1
        /\ HeldIn(b)' = HeldIn(b) \cup {ch}
        /\ Cardinality(HeldIn(b)') = Cardinality(HeldIn(b)) + 1
    <2>1. IsFiniteSet(held)
      BY DEF FallocIInv
    <2>2. HeldIn(b)' = HeldIn(b) \cup {ch}
      BY <1>3, <1>4 DEF HeldIn
    <2>3. IsFiniteSet(HeldIn(b))
      BY <2>1, HeldInFinite
    <2>4. ch \notin HeldIn(b)
      BY <1>3, Zenon DEF HeldIn
    <2> QED BY <1>3, <1>4, <2>1, <2>2, <2>3, <2>4, FS_AddElement, SMTT(30)
  <1>9. BlocksOwned'
    BY <1>4, <1>6 DEF FallocIInv, BlocksOwned
  <1>10. HeldLive'
    BY <1>2, <1>3, <1>4 DEF FallocIInv, HeldLive, BlockOf
  <1>11. CountAgrees'
    BY <1>4, <1>8, ChunkNrAssumption DEF FallocIInv, TypeOK, CountAgrees
  <1>12. \A d \in heap' : BlockSound(d)'
    <2>1. BlockSound(b)'
      <3>1. UsedChunks(b)' = {ChunkAt(b, i) : i \in 0 .. busy_cnt[b] + 1 + Len(r) - 1}
        BY <1>5 DEF UsedChunks, ChunkAt
      <3>2. busy_cnt[b] \in Nat
        BY <1>2, <1>5
      <3> QED BY <1>2, <1>3, <1>4, <1>5, <1>8, <3>1, <3>2 DEF BlockSound
    <2>2. ASSUME NEW d \in heap, d # b
          PROVE  BlockSound(d)'
      <3>1. d \in BlockAddrs /\ BlockSound(d) /\ TypeOK
        BY DEF FallocIInv, TypeOK
      <3>2. \A x : BlockOf(x) = d => (x \in held' <=> x \in held)
        BY <1>3, <1>4, <2>2
      <3> QED BY <1>5, <2>2, <3>1, <3>2, OtherBlockKept
    <2> QED BY <1>4, <2>1, <2>2
  <1>13. RoomFirst'
    <2> SUFFICES ASSUME NEW i \in 1 .. Len(blocks), NEW j \in 1 .. Len(blocks), i < j,
                        busy_cnt'[blocks'[j]] < ChunkPerBlock
                 PROVE  busy_cnt'[blocks'[i]] < ChunkPerBlock
      BY <1>6 DEF RoomFirst
    <2>1. \A k \in 1 .. Len(blocks) : blocks[k] \in BlockAddrs
      BY <1>1
    <2>2. \A k \in 2 .. Len(blocks) : busy_cnt'[blocks[k]] = busy_cnt[blocks[k]]
      <3> TAKE k \in 2 .. Len(blocks)
      <3>1. blocks[k] # b /\ blocks[k] \in BlockAddrs
        BY <1>1, <2>1
      <3> QED BY <1>5, <3>1
    <2>3. CASE busy_cnt[b] + 1 = ChunkPerBlock
      <3>1. /\ \A k \in 1 .. Len(blocks) - 1 : blocks'[k] = blocks[k + 1]
            /\ blocks'[Len(blocks)] = b
        BY <1>1, <1>4, <2>3, RotateDistinct
      <3>2. j # Len(blocks)
        BY <1>2, <1>5, <2>3, <3>1, PerBlockAssumption
      <3>3. i + 1 \in 2 .. Len(blocks) /\ j + 1 \in 2 .. Len(blocks) /\ i + 1 < j + 1
        BY <1>1, <3>2
      <3>4. blocks'[i] = blocks[i + 1] /\ blocks'[j] = blocks[j + 1]
        <4>1. i \in 1 .. Len(blocks) - 1 /\ j \in 1 .. Len(blocks) - 1
          BY <1>1, <3>2
        <4> QED BY <3>1, <4>1
      <3>5. i + 1 \in 1 .. Len(blocks) /\ j + 1 \in 1 .. Len(blocks)
        BY <3>3
      <3>6. busy_cnt[blocks[j + 1]] < ChunkPerBlock
        BY <2>2, <3>3, <3>4
      <3>7. busy_cnt[blocks[i + 1]] < ChunkPerBlock
        BY <3>3, <3>5, <3>6 DEF FallocIInv, RoomFirst
      <3> QED BY <2>2, <3>3, <3>4, <3>7
    <2>4. CASE busy_cnt[b] + 1 # ChunkPerBlock
      <3>1. blocks' = blocks
        BY <1>4, <2>4
      <3>2. CASE i = 1
        BY <1>1, <1>2, <1>4, <1>5, <2>4, <3>1, <3>2, PerBlockAssumption
      <3>3. CASE i # 1
        <4>1. i \in 2 .. Len(blocks) /\ j \in 2 .. Len(blocks)
          BY <1>1, <3>3
        <4>2. busy_cnt[blocks[j]] < ChunkPerBlock
          BY <2>2, <3>1, <4>1
        <4>3. busy_cnt[blocks[i]] < ChunkPerBlock
          BY <4>2 DEF FallocIInv, RoomFirst
        <4> QED BY <2>2, <3>1, <4>1, <4>3
      <3> QED BY <3>2, <3>3
    <2> QED BY <2>3, <2>4
  <1>14. RefusedOnlyWhenExhausted'
    BY <1>4 DEF RefusedOnlyWhenExhausted
  <1> QED BY <1>7, <1>8, <1>9, <1>10, <1>11, <1>12, <1>13, <1>14 DEF FallocIInv


(* When the first block is full, all of them are. *)
LEMMA FirstFullMeansAllFull ==
  ASSUME FallocIInv, FirstIsFull, NEW d \in heap
  PROVE  busy_cnt[d] = ChunkPerBlock
  <1>1. /\ blocks \in Seq(BlockAddrs) /\ heap = ToSet(blocks)
        /\ busy_cnt \in [BlockAddrs -> 0 .. ChunkPerBlock]
    BY DEF FallocIInv, TypeOK, BlocksOwned
  <1>2. PICK j \in 1 .. Len(blocks) : blocks[j] = d
    BY <1>1, SeqPositions
  <1>3. blocks # <<>> /\ Head(blocks) = blocks[1] /\ 1 \in 1 .. Len(blocks) /\ (j = 1 \/ 1 < j)
    BY <1>1, <1>2
  <1>4. ~(busy_cnt[blocks[1]] < ChunkPerBlock)
    <2>1. busy_cnt[blocks[1]] >= ChunkPerBlock /\ blocks[1] \in BlockAddrs
      BY <1>1, <1>3 DEF FirstIsFull
    <2> QED BY <1>1, <2>1, PerBlockAssumption
  <1>5. ~(busy_cnt[blocks[j]] < ChunkPerBlock)
    BY <1>2, <1>3, <1>4 DEF FallocIInv, RoomFirst
  <1>6. d \in BlockAddrs
    BY <1>1, <1>2
  <1> QED BY <1>1, <1>2, <1>5, <1>6, PerBlockAssumption

LEMMA FallocAllocFromNewBlockStep ==
  ASSUME FallocIInv, AllocFromNewBlock
  PROVE  FallocIInv'
  <1>1. PICK b \in BlockAddrs \ heap :
          /\ heap' = heap \cup {b}
          /\ busy_cnt' = [busy_cnt EXCEPT ![b] = 1]
          /\ next_free' = [next_free EXCEPT ![b] = <<>>]
          /\ blocks' = Cons(b, blocks)
          /\ held' = held \cup {ChunkAt(b, 0)}
    BY DEF AllocFromNewBlock
  <1>2. /\ chunk_cnt' = chunk_cnt + 1 /\ chunk_cnt < ChunkNr
        /\ refused' = FALSE /\ up' = up /\ up /\ iface' = iface /\ FirstIsFull
    BY DEF AllocFromNewBlock, BelowLimit
  <1> SUFFICES ASSUME NEW ch, ch = ChunkAt(b, 0) PROVE FallocIInv'
    OBVIOUS
  <1>3. /\ blocks \in Seq(BlockAddrs) /\ IsInjective(blocks)
        /\ ToSet(blocks) = heap /\ Len(blocks) \in Nat
        /\ \A i \in 1 .. Len(blocks) : blocks[i] \in heap
    <2>1. blocks \in Seq(BlockAddrs) /\ IsInjective(blocks) /\ heap = ToSet(blocks)
      BY DEF FallocIInv, TypeOK, BlocksOwned
    <2> QED BY <2>1, SeqPositions
  <1>4. ch \in Chunks /\ BlockOf(ch) = b /\ ch \notin held
    <2>1. 0 \in 0 .. ChunkPerBlock - 1
      BY PerBlockAssumption
    <2>2. ch \in Chunks /\ BlockOf(ch) = b
      BY <2>1, BlockOfChunkAt, ChunkAtIsChunk
    <2> QED BY <2>2 DEF FallocIInv, HeldLive
  <1>5. /\ busy_cnt \in [BlockAddrs -> 0 .. ChunkPerBlock]
        /\ next_free \in [BlockAddrs -> Seq(Chunks)]
        /\ busy_cnt'[b] = 1 /\ next_free'[b] = <<>>
        /\ \A d \in BlockAddrs \ {b} :
             busy_cnt'[d] = busy_cnt[d] /\ next_free'[d] = next_free[d]
    BY <1>1 DEF FallocIInv, TypeOK
  <1>6. /\ blocks' \in Seq(BlockAddrs) /\ Len(blocks') = Len(blocks) + 1
        /\ blocks'[1] = b
        /\ \A i \in 2 .. Len(blocks) + 1 : blocks'[i] = blocks[i - 1]
        /\ IsInjective(blocks') /\ ToSet(blocks') = heap'
    <2>1. /\ blocks' \in Seq(BlockAddrs) /\ Len(blocks') = Len(blocks) + 1
          /\ blocks'[1] = b
          /\ \A i \in 2 .. Len(blocks) + 1 : blocks'[i] = blocks[i - 1]
      BY <1>1, <1>3 DEF Cons
    <2>2. IsInjective(blocks') /\ ToSet(blocks') = ToSet(blocks) \cup {b}
      BY <1>1, <1>3, ConsDistinct
    <2> QED BY <1>1, <1>3, <2>1, <2>2
  <1>7. TypeOK'
    <2>1. busy_cnt' \in [BlockAddrs -> 0 .. ChunkPerBlock]
      BY <1>1, <1>5, PerBlockAssumption
    <2>2. next_free' \in [BlockAddrs -> Seq(Chunks)]
      BY <1>1, <1>5
    <2>3. (up \in BOOLEAN /\ iface \in BOOLEAN /\ refused \in BOOLEAN)'
      BY <1>2, Zenon DEF FallocIInv, TypeOK
    <2>4. chunk_cnt' \in Nat /\ heap' \in SUBSET BlockAddrs /\ held' \in SUBSET Chunks
      BY <1>1, <1>2, <1>4 DEF FallocIInv, TypeOK
    <2> QED BY <1>6, <2>1, <2>2, <2>3, <2>4, Zenon DEF TypeOK
  <1>8. IsFiniteSet(held') /\ Cardinality(held') = Cardinality(held) + 1
    BY <1>1, <1>4, FS_AddElement DEF FallocIInv
  <1>9. BlocksOwned'
    BY <1>2, <1>6 DEF BlocksOwned
  <1>10. HeldLive'
    BY <1>1, <1>4 DEF FallocIInv, HeldLive, BlockOf
  <1>11. CountAgrees'
    BY <1>2, <1>8, ChunkNrAssumption DEF FallocIInv, TypeOK, CountAgrees
  <1>12. \A d \in heap' : BlockSound(d)'
    <2>1. BlockSound(b)'
      <3>1. HeldIn(b)' = {ch}
        BY <1>1, <1>4 DEF FallocIInv, HeldLive, HeldIn, BlockOf
      <3>2. Cardinality({ch}) = 1
        BY FS_Singleton
      <3>3. /\ Len(next_free'[b]) = 0 /\ ToSet(next_free'[b]) = {}
            /\ IsInjective(next_free'[b])
        BY <1>5 DEF ToSet, IsInjective
      <3>4. UsedChunks(b)' = {ChunkAt(b, i) : i \in {0}}
        <4>1. 0 .. 1 + 0 - 1 = {0}
          OBVIOUS
        <4> QED BY <1>5, <3>3, <4>1 DEF UsedChunks, ChunkAt
      <3> QED BY <1>5, <3>1, <3>2, <3>3, <3>4, PerBlockAssumption DEF BlockSound
    <2>2. ASSUME NEW d \in heap
          PROVE  BlockSound(d)'
      <3>1. d \in BlockAddrs /\ BlockSound(d) /\ TypeOK /\ d # b
        BY <1>1 DEF FallocIInv, TypeOK
      <3>2. \A x : BlockOf(x) = d => (x \in held' <=> x \in held)
        BY <1>1, <1>4, <3>1
      <3> QED BY <1>5, <3>1, <3>2, OtherBlockKept
    <2> QED BY <1>1, <2>1, <2>2
  <1>13. RoomFirst'
    <2> SUFFICES ASSUME NEW i \in 1 .. Len(blocks) + 1, NEW j \in 1 .. Len(blocks) + 1, i < j,
                        busy_cnt'[blocks'[j]] < ChunkPerBlock
                 PROVE  FALSE
      BY <1>6 DEF RoomFirst
    <2>1. j - 1 \in 1 .. Len(blocks) /\ blocks'[j] = blocks[j - 1]
      BY <1>3, <1>6
    <2>2. blocks[j - 1] \in heap /\ blocks[j - 1] \in BlockAddrs \ {b}
      BY <1>1, <1>3, <2>1 DEF FallocIInv, TypeOK
    <2>3. busy_cnt'[blocks'[j]] = ChunkPerBlock
      BY <1>2, <1>5, <2>1, <2>2, FirstFullMeansAllFull
    <2> QED BY <2>3, PerBlockAssumption
  <1>14. RefusedOnlyWhenExhausted'
    BY <1>2 DEF RefusedOnlyWhenExhausted
  <1> QED BY <1>7, <1>8, <1>9, <1>10, <1>11, <1>12, <1>13, <1>14 DEF FallocIInv

LEMMA FallocAllocRefusedStep ==
  ASSUME FallocIInv, AllocRefused
  PROVE  FallocIInv'
  <1>1. RefusedOnlyWhenExhausted'
    <2>1. CASE ~BelowLimit
      <3>1. chunk_cnt \in Nat /\ chunk_cnt <= ChunkNr
        BY DEF FallocIInv, TypeOK, CountAgrees, AllocRefused
      <3> QED BY <2>1, <3>1, ChunkNrAssumption DEF AllocRefused, RefusedOnlyWhenExhausted, BelowLimit
    <2>2. CASE FirstIsFull
      BY <2>2, FirstFullMeansAllFull DEF AllocRefused, RefusedOnlyWhenExhausted
    <2> QED BY <2>1, <2>2 DEF AllocRefused
  <1>2. TypeOK'
    BY Zenon DEF FallocIInv, AllocRefused, TypeOK
  <1>3. (IsFiniteSet(held) /\ BlocksOwned /\ HeldLive /\ CountAgrees /\ RoomFirst)'
    BY DEF FallocIInv, AllocRefused, BlocksOwned, HeldLive, BlockOf, CountAgrees, RoomFirst
  <1>4. \A d \in heap' : BlockSound(d)'
    BY DEF FallocIInv, AllocRefused, BlockSound, HeldIn, BlockOf, UsedChunks, ChunkAt
  <1> QED BY <1>1, <1>2, <1>3, <1>4 DEF FallocIInv

LEMMA FallocFiniStep ==
  ASSUME FallocIInv, Fini
  PROVE  FallocIInv'
  <1>1. heap' = {} /\ held' = {} /\ up' = FALSE /\ blocks' = <<>> /\ refused' = FALSE
    BY DEF FallocIInv, BlocksOwned, Fini
  <1>2. TypeOK'
    <2>1. busy_cnt' \in [BlockAddrs -> 0 .. ChunkPerBlock]
      BY PerBlockAssumption DEF FallocIInv, TypeOK, Fini
    <2>2. next_free' \in [BlockAddrs -> Seq(Chunks)]
      BY DEF FallocIInv, TypeOK, Fini
    <2>3. (up \in BOOLEAN /\ iface \in BOOLEAN /\ refused \in BOOLEAN)'
      BY Zenon DEF Fini
    <2>4. blocks' \in Seq(BlockAddrs) /\ heap' \in SUBSET BlockAddrs /\ held' \in SUBSET Chunks
      BY <1>1
    <2>5. chunk_cnt' \in Nat
      BY DEF FallocIInv, TypeOK, Fini
    <2> QED BY <2>1, <2>2, <2>3, <2>4, <2>5, Zenon DEF TypeOK
  <1>3. IsFiniteSet(held')
    BY <1>1, FS_EmptySet
  <1>4. BlocksOwned'
    BY <1>1 DEF BlocksOwned, ToSet, IsInjective
  <1>5. (HeldLive /\ CountAgrees /\ RoomFirst /\ RefusedOnlyWhenExhausted)'
    BY <1>1 DEF HeldLive, CountAgrees, RoomFirst, RefusedOnlyWhenExhausted
  <1> QED BY <1>1, <1>2, <1>3, <1>4, <1>5 DEF FallocIInv


(* stroll_falloc_free(): the block found by masking the chunk's address is *)
(* live and sound, the chunk is one of those it counts as allocated, and   *)
(* it is released exactly when that chunk was the only one.                *)
LEMMA FallocFreeStep ==
  ASSUME FallocIInv, NEW ch \in held, Free(ch)
  PROVE  FallocIInv'
  <1> SUFFICES ASSUME NEW b, b = BlockOf(ch) PROVE FallocIInv'
    OBVIOUS
  <1>1. /\ ch \in Chunks /\ b \in heap /\ b \in BlockAddrs /\ BlockSound(b)
        /\ ch \in HeldIn(b)
    BY DEF FallocIInv, TypeOK, HeldLive, HeldIn
  <1>2. /\ blocks \in Seq(BlockAddrs) /\ IsInjective(blocks)
        /\ ToSet(blocks) = heap /\ Len(blocks) \in Nat
        /\ \A i \in 1 .. Len(blocks) : blocks[i] \in heap
        /\ \A i, j \in 1 .. Len(blocks) : blocks[i] = blocks[j] => i = j
        /\ \E i \in 1 .. Len(blocks) : blocks[i] = b
    <2>1. blocks \in Seq(BlockAddrs) /\ IsInjective(blocks) /\ heap = ToSet(blocks)
      BY DEF FallocIInv, TypeOK, BlocksOwned
    <2> QED BY <1>1, <2>1, SeqPositions
  <1>3. PICK n \in 1 .. Len(blocks) : blocks[n] = b /\ Unlink(b) = RemoveAt(blocks, n)
    BY <1>2 DEF Unlink
  <1> SUFFICES ASSUME NEW u, u = RemoveAt(blocks, n) PROVE FallocIInv'
    OBVIOUS
  <1>4. /\ u \in Seq(BlockAddrs) /\ Len(u) = Len(blocks) - 1
        /\ \A i \in 1 .. Len(u) : u[i] = IF i < n THEN blocks[i] ELSE blocks[i + 1]
        /\ IsInjective(u) /\ ToSet(u) = heap \ {b}
    <2>1. /\ u \in Seq(BlockAddrs) /\ Len(u) = Len(blocks) - 1
          /\ \A i \in 1 .. Len(u) : u[i] = IF i < n THEN blocks[i] ELSE blocks[i + 1]
      BY <1>2, RemoveAtFacts
    <2>2. IsInjective(u) /\ ToSet(u) = ToSet(blocks) \ {blocks[n]}
      BY <1>2, RemoveAtDistinct
    <2> QED BY <1>2, <1>3, <2>1, <2>2
  <1>5. /\ held' = held \ {ch} /\ chunk_cnt' = chunk_cnt - 1 /\ refused' = FALSE
        /\ up /\ up' = up /\ iface' = iface
    BY DEF Free
  <1>6. /\ busy_cnt \in [BlockAddrs -> 0 .. ChunkPerBlock]
        /\ next_free \in [BlockAddrs -> Seq(Chunks)]
        /\ busy_cnt[b] \in 1 .. ChunkPerBlock
    BY <1>1, PerBlockAssumption DEF FallocIInv, TypeOK, BlockSound
  <1>7. /\ IsFiniteSet(held') /\ Cardinality(held') = Cardinality(held) - 1
        /\ Cardinality(held) \in Nat \ {0}
        /\ HeldIn(b)' = HeldIn(b) \ {ch}
        /\ IsFiniteSet(HeldIn(b)')
        /\ Cardinality(HeldIn(b)') = busy_cnt[b] - 1
    <2>1. IsFiniteSet(held) /\ IsFiniteSet(HeldIn(b))
      BY HeldInFinite DEF FallocIInv
    <2>2. HeldIn(b)' = HeldIn(b) \ {ch}
      BY <1>5 DEF HeldIn, BlockOf
    <2>3. Cardinality(held) \in Nat /\ Cardinality(held) # 0
      BY <2>1, FS_CardinalityType, FS_EmptySet
    <2> QED BY <1>1, <1>5, <2>1, <2>2, <2>3, FS_RemoveElement DEF BlockSound
  <1>8. CountAgrees'
    BY <1>5, <1>7, ChunkNrAssumption DEF FallocIInv, TypeOK, CountAgrees
  <1>9. /\ (up \in BOOLEAN /\ iface \in BOOLEAN /\ refused \in BOOLEAN)'
        /\ RefusedOnlyWhenExhausted'
    <2>1. (up \in BOOLEAN /\ iface \in BOOLEAN /\ refused \in BOOLEAN)'
      BY <1>5, Zenon DEF FallocIInv, TypeOK
    <2> QED BY <1>5, <2>1 DEF RefusedOnlyWhenExhausted
  <1>10. chunk_cnt' \in Nat /\ held' \in SUBSET Chunks
    BY <1>5, <1>7 DEF FallocIInv, TypeOK, CountAgrees
  <1>11. \A d \in BlockAddrs \ {b} : \A x : BlockOf(x) = d => (x \in held' <=> x \in held)
    BY <1>5
  <1>12. CASE busy_cnt[b] - 1 # 0
    <2>1. /\ next_free' = [next_free EXCEPT ![b] = Cons(ch, next_free[b])]
          /\ busy_cnt' = [busy_cnt EXCEPT ![b] = busy_cnt[b] - 1]
          /\ blocks' = Cons(b, u)
          /\ heap' = heap
      BY <1>3, <1>12 DEF Free, MoveToFront
    <2> SUFFICES ASSUME NEW f, f = Cons(ch, next_free[b]) PROVE FallocIInv'
      OBVIOUS
    <2>2. /\ busy_cnt'[b] = busy_cnt[b] - 1 /\ next_free'[b] = f
          /\ \A d \in BlockAddrs \ {b} :
               busy_cnt'[d] = busy_cnt[d] /\ next_free'[d] = next_free[d]
      BY <1>1, <1>6, <2>1
    <2>3. /\ f \in Seq(Chunks) /\ Len(f) = Len(next_free[b]) + 1
          /\ ToSet(f) = ToSet(next_free[b]) \cup {ch} /\ IsInjective(f)
      <3>1. next_free[b] \in Seq(Chunks) /\ ch \notin ToSet(next_free[b]) /\ IsInjective(next_free[b])
        BY <1>1, <1>6 DEF BlockSound
      <3>2. f \in Seq(Chunks) /\ Len(f) = Len(next_free[b]) + 1
        BY <1>1, <3>1 DEF Cons
      <3>3. ToSet(f) = ToSet(next_free[b]) \cup {ch} /\ IsInjective(f)
        BY <1>1, <3>1, ConsDistinct
      <3> QED BY <3>2, <3>3
    <2>4. /\ blocks' \in Seq(BlockAddrs) /\ Len(blocks') = Len(u) + 1
          /\ blocks'[1] = b
          /\ \A i \in 2 .. Len(u) + 1 : blocks'[i] = u[i - 1]
          /\ IsInjective(blocks') /\ ToSet(blocks') = heap'
      <3>1. /\ blocks' \in Seq(BlockAddrs) /\ Len(blocks') = Len(u) + 1
            /\ blocks'[1] = b
            /\ \A i \in 2 .. Len(u) + 1 : blocks'[i] = u[i - 1]
        BY <1>1, <1>4, <2>1 DEF Cons
      <3>2. IsInjective(blocks') /\ ToSet(blocks') = ToSet(u) \cup {b}
        BY <1>1, <1>4, <2>1, ConsDistinct
      <3> QED BY <1>1, <1>4, <2>1, <3>1, <3>2
    <2>5. TypeOK'
      <3>1. busy_cnt' \in [BlockAddrs -> 0 .. ChunkPerBlock]
        <4>1. busy_cnt[b] - 1 \in 0 .. ChunkPerBlock
          BY <1>6, PerBlockAssumption
        <4> QED BY <1>6, <2>1, <4>1
      <3>2. next_free' \in [BlockAddrs -> Seq(Chunks)]
        BY <1>6, <2>1, <2>3
      <3>3. heap' \in SUBSET BlockAddrs
        BY <2>1 DEF FallocIInv, TypeOK
      <3> QED BY <1>9, <1>10, <2>4, <3>1, <3>2, <3>3, Zenon DEF TypeOK
    <2>6. BlocksOwned'
      BY <1>5, <2>4 DEF BlocksOwned
    <2>7. HeldLive'
      BY <1>5, <2>1 DEF FallocIInv, HeldLive, BlockOf
    <2>8. \A d \in heap' : BlockSound(d)'
      <3>1. BlockSound(b)'
        <4>1. Len(next_free[b]) \in Nat
          BY <1>1, <1>6
        <4>2. (busy_cnt[b] - 1) + Len(f) = busy_cnt[b] + Len(next_free[b])
          BY <1>6, <2>3, <4>1
        <4>3. UsedChunks(b)' = UsedChunks(b)
          <5>1. busy_cnt'[b] + Len(next_free'[b]) = busy_cnt[b] + Len(next_free[b])
            BY <2>2, <4>2
          <5>2. 0 .. busy_cnt'[b] + Len(next_free'[b]) - 1
                  = 0 .. busy_cnt[b] + Len(next_free[b]) - 1
            BY <1>6, <2>2, <2>3, <4>1, <5>1
          <5> QED BY <5>2, Zenon DEF UsedChunks, ChunkAt
        <4>4. busy_cnt'[b] = Cardinality(HeldIn(b)') /\ busy_cnt'[b] > 0
          BY <1>6, <1>7, <1>12, <2>2
        <4>5. ToSet(f) \cap held' = {}
          BY <1>1, <1>5, <2>3 DEF BlockSound
        <4>6. ToSet(f) \cup HeldIn(b)' = UsedChunks(b)
          BY <1>1, <1>7, <2>3 DEF BlockSound
        <4> QED BY <1>1, <2>2, <2>3, <4>2, <4>3, <4>4, <4>5, <4>6 DEF BlockSound
      <3>2. ASSUME NEW d \in heap, d # b
            PROVE  BlockSound(d)'
        <4>1. d \in BlockAddrs \ {b} /\ BlockSound(d) /\ TypeOK
          BY <3>2 DEF FallocIInv, TypeOK
        <4> QED BY <1>11, <2>2, <4>1, OtherBlockKept
      <3> QED BY <2>1, <3>1, <3>2
    <2>9. RoomFirst'
      <3> SUFFICES ASSUME NEW i \in 1 .. Len(blocks'), NEW j \in 1 .. Len(blocks'), i < j,
                          busy_cnt'[blocks'[j]] < ChunkPerBlock
                   PROVE  busy_cnt'[blocks'[i]] < ChunkPerBlock
        BY DEF RoomFirst
      <3>1. CASE i = 1
        BY <1>6, <2>2, <2>4, <3>1, PerBlockAssumption, SMTT(30)
      <3>2. CASE i # 1
        <4> DEFINE from(k) == IF k - 1 < n THEN k - 1 ELSE k
        <4>1. \A k \in 2 .. Len(blocks') :
                /\ from(k) \in 1 .. Len(blocks) /\ from(k) # n
                /\ blocks'[k] = blocks[from(k)]
          <5> TAKE k \in 2 .. Len(blocks')
          <5>1. k - 1 \in 1 .. Len(u) /\ blocks'[k] = u[k - 1]
            BY <1>2, <1>4, <2>4
          <5>2. u[k - 1] = IF k - 1 < n THEN blocks[k - 1] ELSE blocks[(k - 1) + 1]
            BY <1>4, <5>1
          <5>3. (k - 1) + 1 = k
            OBVIOUS
          <5>4. from(k) \in 1 .. Len(blocks) /\ from(k) # n
            BY <1>2, <1>4, <5>1
          <5> QED BY <5>1, <5>2, <5>3, <5>4
        <4>2. i \in 2 .. Len(blocks') /\ j \in 2 .. Len(blocks') /\ from(i) < from(j)
          BY <1>2, <1>4, <2>4, <3>2
        <4> HIDE DEF from
        <4>3. \A k \in 2 .. Len(blocks') : busy_cnt'[blocks'[k]] = busy_cnt[blocks[from(k)]]
          <5> TAKE k \in 2 .. Len(blocks')
          <5>1. blocks[from(k)] # b /\ blocks[from(k)] \in BlockAddrs
            BY <1>2, <1>3, <4>1
          <5> QED BY <2>2, <4>1, <5>1
        <4>4. busy_cnt[blocks[from(j)]] < ChunkPerBlock
          BY <4>2, <4>3
        <4>5. busy_cnt[blocks[from(i)]] < ChunkPerBlock
          BY <4>1, <4>2, <4>4 DEF FallocIInv, RoomFirst
        <4> QED BY <4>2, <4>3, <4>5
      <3> QED BY <3>1, <3>2
    <2> QED BY <1>7, <1>8, <1>9, <2>5, <2>6, <2>7, <2>8, <2>9 DEF FallocIInv
  <1>13. CASE busy_cnt[b] - 1 = 0
    <2>1. /\ next_free' = [next_free EXCEPT ![b] = <<>>]
          /\ busy_cnt' = [busy_cnt EXCEPT ![b] = 0]
          /\ blocks' = u
          /\ heap' = heap \ {b}
      BY <1>3, <1>13 DEF Free, MoveToFront
    <2>2. \A d \in BlockAddrs \ {b} :
            busy_cnt'[d] = busy_cnt[d] /\ next_free'[d] = next_free[d]
      BY <1>1, <1>6, <2>1
    <2>3. TypeOK'
      <3>1. busy_cnt' \in [BlockAddrs -> 0 .. ChunkPerBlock]
        <4>1. 0 \in 0 .. ChunkPerBlock
          BY PerBlockAssumption
        <4>2. busy_cnt \in [BlockAddrs -> 0 .. ChunkPerBlock]
          BY <1>6
        <4> QED BY <2>1, <4>1, <4>2
      <3>2. next_free' \in [BlockAddrs -> Seq(Chunks)]
        <4>1. <<>> \in Seq(Chunks) /\ next_free \in [BlockAddrs -> Seq(Chunks)]
          BY <1>6
        <4> QED BY <2>1, <4>1
      <3>3. heap' \in SUBSET BlockAddrs /\ blocks' \in Seq(BlockAddrs)
        BY <1>4, <2>1 DEF FallocIInv, TypeOK
      <3> QED BY <1>9, <1>10, <3>1, <3>2, <3>3, Zenon DEF TypeOK
    <2>4. BlocksOwned'
      BY <1>4, <1>5, <2>1 DEF BlocksOwned
    <2>5. HeldIn(b)' = {}
      <3>1. Cardinality(HeldIn(b)') = 0
        BY <1>7, <1>13
      <3> QED BY <1>7, <3>1, FS_EmptySet
    <2>6. HeldLive'
      BY <1>5, <2>1, <2>5 DEF FallocIInv, HeldLive, HeldIn, BlockOf
    <2>7. \A d \in heap' : BlockSound(d)'
      <3> SUFFICES ASSUME NEW d \in heap, d # b PROVE BlockSound(d)'
        BY <2>1
      <3>1. d \in BlockAddrs \ {b} /\ BlockSound(d) /\ TypeOK
        BY DEF FallocIInv, TypeOK
      <3> QED BY <1>11, <2>2, <3>1, OtherBlockKept
    <2>8. RoomFirst'
      <3> SUFFICES ASSUME NEW i \in 1 .. Len(u), NEW j \in 1 .. Len(u), i < j,
                          busy_cnt'[u[j]] < ChunkPerBlock
                   PROVE  busy_cnt'[u[i]] < ChunkPerBlock
        BY <2>1 DEF RoomFirst
      <3> DEFINE from(k) == IF k < n THEN k ELSE k + 1
      <3>1. \A k \in 1 .. Len(u) : /\ from(k) \in 1 .. Len(blocks) /\ from(k) # n
                                   /\ u[k] = blocks[from(k)]
        BY <1>2, <1>4
      <3>2. from(i) < from(j)
        BY <1>4
      <3> HIDE DEF from
      <3>3. \A k \in 1 .. Len(u) : busy_cnt'[u[k]] = busy_cnt[blocks[from(k)]]
        <4> TAKE k \in 1 .. Len(u)
        <4>1. blocks[from(k)] # b /\ blocks[from(k)] \in BlockAddrs
          BY <1>2, <1>3, <3>1
        <4> QED BY <2>2, <3>1, <4>1
      <3>4. busy_cnt[blocks[from(j)]] < ChunkPerBlock
        BY <3>3
      <3>5. busy_cnt[blocks[from(i)]] < ChunkPerBlock
        BY <3>1, <3>2, <3>4 DEF FallocIInv, RoomFirst
      <3> QED BY <3>3, <3>5
    <2> QED BY <1>7, <1>8, <1>9, <2>3, <2>4, <2>6, <2>7, <2>8 DEF FallocIInv
  <1> QED BY <1>12, <1>13


-----------------------------------------------------------------------------
(* The theorems. *)

LEMMA FallocNextIInv == FallocIInv /\ [Next]_vars => FallocIInv'
  <1> SUFFICES ASSUME FallocIInv, [Next]_vars PROVE FallocIInv'
    OBVIOUS
  <1>1. ASSUME NEW create \in BOOLEAN, Setup(create) PROVE FallocIInv'
    BY <1>1, FallocSetupStep
  <1>2. CASE AllocFromFirst
    BY <1>2, FallocAllocFromFirstStep
  <1>3. CASE AllocFromNewBlock
    BY <1>3, FallocAllocFromNewBlockStep
  <1>4. CASE AllocRefused
    BY <1>4, FallocAllocRefusedStep
  <1>5. ASSUME NEW chunk \in held, Free(chunk) PROVE FallocIInv'
    BY <1>5, FallocFreeStep
  <1>6. CASE Fini
    BY <1>6, FallocFiniStep
  <1>7. CASE UNCHANGED vars
    <2>1. TypeOK'
      BY <1>7, Zenon DEF FallocIInv, vars, TypeOK
    <2>2. (IsFiniteSet(held) /\ BlocksOwned /\ HeldLive /\ CountAgrees
             /\ RoomFirst /\ RefusedOnlyWhenExhausted)'
      BY <1>7 DEF FallocIInv, vars, BlocksOwned, HeldLive, BlockOf, CountAgrees, RoomFirst,
                  RefusedOnlyWhenExhausted
    <2>3. \A d \in heap' : BlockSound(d)'
      BY <1>7 DEF FallocIInv, vars, BlockSound, HeldIn, BlockOf, UsedChunks, ChunkAt
    <2> QED BY <2>1, <2>2, <2>3 DEF FallocIInv
  <1> QED BY <1>1, <1>2, <1>3, <1>4, <1>5, <1>6, <1>7 DEF Next

(* The strengthening every safety property below is drawn from. *)
THEOREM FallocInductive == Spec => []FallocIInv
  BY FallocInitIInv, FallocNextIInv, PTL DEF Spec

(* Every variable keeps its type: in particular no block ever counts more  *)
(* chunks than it holds, and free lists only hold chunks.                  *)
THEOREM FallocTyping == Spec => []TypeOK
  <1>1. FallocIInv => TypeOK
    BY DEF FallocIInv
  <1> QED BY <1>1, FallocInductive, PTL

(* No block leaks and none is used once freed. *)
THEOREM FallocBlocksOwned == Spec => []BlocksOwned
  <1>1. FallocIInv => BlocksOwned
    BY DEF FallocIInv
  <1> QED BY <1>1, FallocInductive, PTL

(* chunk_cnt and every busy_cnt count what the client holds. *)
THEOREM FallocCounters == Spec => []CountersAgree
  <1>1. FallocIInv => CountersAgree
    BY DEF FallocIInv, CountAgrees, BlockSound, CountersAgree
  <1> QED BY <1>1, FallocInductive, PTL

(* In every block the free list and the held chunks share out the used     *)
(* part, so that next_free_chunk() never returns a held chunk.             *)
THEOREM FallocFreeLists == Spec => []FreeListSound
  <1>1. FallocIInv => FreeListSound
    BY DEF FallocIInv, BlockSound, FreeListSound
  <1> QED BY <1>1, FallocInductive, PTL

(* Full blocks stay behind those with room. *)
THEOREM FallocRoomFirst == Spec => []RoomFirst
  <1>1. FallocIInv => RoomFirst
    BY DEF FallocIInv
  <1> QED BY <1>1, FallocInductive, PTL

(* An allocation never fails while a chunk is available. *)
THEOREM FallocRefusal == Spec => []RefusedOnlyWhenExhausted
  <1>1. FallocIInv => RefusedOnlyWhenExhausted
    BY DEF FallocIInv
  <1> QED BY <1>1, FallocInductive, PTL

(* Two blocks do not overlap, and their chunks neither. *)
LEMMA ChunksApart ==
  ASSUME NEW ch \in Chunks, NEW d \in Chunks, ch < d
  PROVE  ch + ChunkSz <= d
  <1>1. PICK a \in BlockAddrs, i \in 0 .. ChunkPerBlock - 1 : ch = ChunkAt(a, i)
    BY DEF Chunks, ChunksOf
  <1>2. PICK b \in BlockAddrs, j \in 0 .. ChunkPerBlock - 1 : d = ChunkAt(b, j)
    BY DEF Chunks, ChunksOf
  <1>3. /\ a + HdrSz <= ch /\ ch + ChunkSz <= a + BlockSz /\ BlockSz <= BlockAl
        /\ b + HdrSz <= d /\ d + ChunkSz <= b + BlockSz
        /\ i * ChunkSz \in Nat /\ j * ChunkSz \in Nat /\ BlockSz \in Nat
        /\ ch \in Nat /\ d \in Nat
    BY <1>1, <1>2, ChunkInBlock
  <1>4. /\ a \in Nat /\ b \in Nat /\ a % BlockAl = 0 /\ b % BlockAl = 0
        /\ BlockAl \in Nat \ {0} /\ ChunkSz \in Nat \ {0} /\ HdrSz \in Nat
    BY BlockAddrsAssumption, AlignAssumption, SizeAssumption
  <1>5. CASE a = b
    <2>1. i < j
      <3> SUFFICES ASSUME ~(i < j) PROVE FALSE
        OBVIOUS
      <3>1. CASE i = j
        BY <1>1, <1>2, <1>3, <1>5, <3>1
      <3>2. CASE j < i
        <4>1. j * ChunkSz + ChunkSz <= i * ChunkSz
          BY <3>2, ChunkOffset
        <4> QED BY <1>1, <1>2, <1>3, <1>4, <1>5, <4>1 DEF ChunkAt
      <3> QED BY <3>1, <3>2, PerBlockAssumption
    <2>2. i * ChunkSz + ChunkSz <= j * ChunkSz
      BY <2>1, ChunkOffset
    <2> QED BY <1>1, <1>2, <1>3, <1>4, <1>5, <2>2 DEF ChunkAt
  <1>6. CASE a < b
    <2>1. a + BlockAl <= b
      BY <1>4, <1>6, MultiplesApart
    <2> QED BY <1>3, <1>4, <2>1
  <1>7. CASE b < a
    <2>1. b + BlockAl <= a
      BY <1>4, <1>7, MultiplesApart
    <2> QED BY <1>3, <1>4, <2>1
  <1> QED BY <1>4, <1>5, <1>6, <1>7

(* A chunk the client holds lies in a live block, past its header, and     *)
(* apart from every other one: the memory the client writes is its own.    *)
THEOREM FallocMemory == Spec => []HeldMemoryValid
  <1>1. FallocIInv => HeldMemoryValid
    <2> SUFFICES ASSUME FallocIInv PROVE HeldMemoryValid
      OBVIOUS
    <2>1. ASSUME NEW ch \in held
          PROVE  \E b \in heap : b + HdrSz <= ch /\ ch + ChunkSz <= b + BlockSz
      <3>1. ch \in Chunks /\ BlockOf(ch) \in heap
        BY DEF FallocIInv, TypeOK, HeldLive
      <3>2. /\ BlockOf(ch) \in BlockAddrs
            /\ \E i \in 0 .. ChunkPerBlock - 1 : ch = ChunkAt(BlockOf(ch), i)
        BY <3>1, ChunkHasBlock
      <3>3. BlockOf(ch) + HdrSz <= ch /\ ch + ChunkSz <= BlockOf(ch) + BlockSz
        BY <3>2, ChunkInBlock
      <3> QED BY <3>1, <3>3
    <2>2. \A ch, d \in held : ch < d => ch + ChunkSz <= d
      BY ChunksApart DEF FallocIInv, TypeOK
    <2> QED BY <2>1, <2>2 DEF HeldMemoryValid
  <1> QED BY <1>1, FallocInductive, PTL

(* The pool counts what the client holds the way the allocator does. *)
LEMMA SameCardinality == Pool!Cardinality(held) = Cardinality(held)
  BY DEF Pool!Cardinality, Cardinality

(* A step of the allocator is a step of the abstract pool, or leaves the   *)
(* chunks the client holds alone.                                          *)
LEMMA FallocStepRefines ==
  ASSUME FallocIInv, [Next]_vars
  PROVE  [Pool!Next]_held
  <1>1. ASSUME NEW create \in BOOLEAN, Setup(create) PROVE held' = held
    BY <1>1 DEF Setup
  <1>2. CASE AllocFromFirst
    <2>1. /\ Head(blocks) \in BlockAddrs /\ Head(blocks) \in heap
          /\ BlockSound(Head(blocks)) /\ TypeOK
      <3>1. blocks \in Seq(BlockAddrs) /\ blocks # <<>> /\ heap = ToSet(blocks) /\ IsInjective(blocks)
        BY <1>2 DEF FallocIInv, TypeOK, BlocksOwned, AllocFromFirst
      <3> QED BY <3>1, TailDistinct DEF FallocIInv
    <2>2. NextFreeChunk(Head(blocks)) \in Chunks \ held
      BY <1>2, <2>1, NextFreeChunkIsFresh DEF AllocFromFirst
    <2>3. Pool!Cardinality(held) < ChunkNr
      <3>1. Cardinality(held) < ChunkNr
        BY <1>2 DEF FallocIInv, CountAgrees, AllocFromFirst, BelowLimit
      <3> QED BY <3>1, SameCardinality
    <2>4. held' = held \cup {NextFreeChunk(Head(blocks))}
      BY <1>2 DEF AllocFromFirst
    <2>5. Pool!Take
      BY <2>2, <2>3, <2>4 DEF Pool!Take
    <2> QED BY <2>5 DEF Pool!Next
  <1>3. CASE AllocFromNewBlock
    <2>1. PICK b \in BlockAddrs \ heap : held' = held \cup {ChunkAt(b, 0)}
      BY <1>3 DEF AllocFromNewBlock
    <2>2. ChunkAt(b, 0) \in Chunks /\ BlockOf(ChunkAt(b, 0)) = b
      BY PerBlockAssumption, BlockOfChunkAt, ChunkAtIsChunk
    <2>3. ChunkAt(b, 0) \notin held
      BY <2>2 DEF FallocIInv, HeldLive
    <2>4. Pool!Cardinality(held) < ChunkNr
      <3>1. Cardinality(held) < ChunkNr
        BY <1>3 DEF FallocIInv, CountAgrees, AllocFromNewBlock, BelowLimit
      <3> QED BY <3>1, SameCardinality
    <2>5. Pool!Take
      BY <2>1, <2>2, <2>3, <2>4 DEF Pool!Take
    <2> QED BY <2>5 DEF Pool!Next
  <1>4. CASE AllocRefused
    BY <1>4 DEF AllocRefused
  <1>5. ASSUME NEW chunk \in held, Free(chunk) PROVE Pool!Give
    BY <1>5 DEF Free, Pool!Give
  <1>6. CASE Fini
    BY <1>6 DEF Fini, Pool!Next, Pool!Release
  <1>7. CASE UNCHANGED vars
    BY <1>7 DEF vars
  <1> QED BY <1>1, <1>2, <1>3, <1>4, <1>5, <1>6, <1>7 DEF Next, Pool!Next

(* The allocator implements the abstract pool of ChunkNr chunks: it never  *)
(* hands out a chunk the client holds, nor one more than the limit.        *)
THEOREM FallocRefinesPool == Spec => PoolSpec
  <1>1. Init => Pool!Init
    BY DEF Init, Pool!Init
  <1>2. FallocIInv /\ [Next]_vars => [Pool!Next]_held
    BY FallocStepRefines
  <1> QED BY <1>1, <1>2, FallocInductive, PTL DEF Spec, PoolSpec, Pool!Spec

-----------------------------------------------------------------------------
(* Palloc.                                                                 *)

(* The constants: those of any build and of any client. *)
PallocAssumptions ==
  /\ P!ChunkNrAssumption /\ P!SizesAssumption /\ P!AddrsAssumption /\ P!NullAssumption

(* The areas and the distances between chunks that an allocator may have.  *)
PallocAreas == HeapAddrs \cup MemAddrs
PallocSizes == ChunkSizes \cup {P!AlignUpper(s) : s \in ChunkSizes}

-----------------------------------------------------------------------------
(* The layout of an area. *)

LEMMA PallocSizesArePositive ==
  ASSUME PallocAssumptions
  PROVE  PallocSizes \subseteq Nat \ {0}
  <1> SUFFICES ASSUME NEW s \in ChunkSizes PROVE P!AlignUpper(s) \in Nat \ {0}
    BY DEF PallocSizes, PallocAssumptions, P!SizesAssumption
  <1>1. s \in Nat \ {0} /\ Word \in Nat \ {0}
    BY DEF PallocAssumptions, P!SizesAssumption
  <1>2. (s + Word - 1) \div Word \in Nat /\ (s + Word - 1) \div Word >= 1
    BY <1>1, Z3
  <1>3. \A q \in Nat : q >= 1 => q * Word \in Nat \ {0}
    BY <1>1, Z3
  <1> QED BY <1>2, <1>3 DEF P!AlignUpper

LEMMA PallocChunksOfFacts ==
  ASSUME PallocAssumptions, NEW mem \in PallocAreas, NEW sz \in PallocSizes
  PROVE  /\ mem \in Nat /\ sz \in Nat \ {0} /\ PreNr \in Nat \ {0}
         /\ \A i \in Nat : i * sz \in Nat
         /\ \A i, j \in Nat : i < j => i * sz < j * sz
         /\ \A i \in Nat : (i + 1) * sz = i * sz + sz
         /\ P!ChunksOf(mem, sz) \subseteq P!AllChunks
         /\ P!ChunksOf(mem, sz) \subseteq Nat
         /\ mem \in P!ChunksOf(mem, sz)
         /\ Null \notin P!ChunksOf(mem, sz)
  <1>1. mem \in Nat /\ sz \in Nat \ {0} /\ PreNr \in Nat \ {0}
    BY PallocSizesArePositive DEF PallocAssumptions, P!ChunkNrAssumption, P!AddrsAssumption, PallocAreas
  <1>2. \A i \in Nat : i * sz \in Nat
    BY <1>1, Z3
  <1>3. \A i, j \in Nat : i < j => i * sz < j * sz
    BY <1>1, Z3
  <1>4. \A i \in Nat : (i + 1) * sz = i * sz + sz
    BY <1>1, Z3
  <1>5. P!ChunksOf(mem, sz) \subseteq P!AllChunks
    BY DEF P!AllChunks, PallocAreas, PallocSizes
  <1>6. P!ChunksOf(mem, sz) \subseteq Nat
    BY <1>1, <1>2 DEF P!ChunksOf
  <1>7. mem \in P!ChunksOf(mem, sz)
    <2>1. 0 \in 0 .. PreNr - 1 /\ mem + 0 * sz = mem
      BY <1>1, Z3
    <2> QED BY <2>1 DEF P!ChunksOf
  <1> QED BY <1>1, <1>2, <1>3, <1>4, <1>5, <1>6, <1>7 DEF PallocAssumptions, P!NullAssumption

(* The chunks of an area, in order. *)
PallocLayout(mem, sz) == [i \in 1 .. PreNr |-> mem + (i - 1) * sz]

LEMMA PallocLayoutFacts ==
  ASSUME PallocAssumptions, NEW mem \in PallocAreas, NEW sz \in PallocSizes
  PROVE  /\ PallocLayout(mem, sz) \in Seq(P!ChunksOf(mem, sz))
         /\ Len(PallocLayout(mem, sz)) = PreNr
         /\ IsInjective(PallocLayout(mem, sz))
         /\ ToSet(PallocLayout(mem, sz)) = P!ChunksOf(mem, sz)
         /\ Chain(mem, P!Threaded(mem, sz), Null, PallocLayout(mem, sz))
  <1> DEFINE s == PallocLayout(mem, sz)
  <1>0. /\ mem \in Nat /\ sz \in Nat \ {0} /\ PreNr \in Nat \ {0}
        /\ \A i \in Nat : i * sz \in Nat
        /\ \A i, j \in Nat : i < j => i * sz < j * sz
        /\ \A i \in Nat : (i + 1) * sz = i * sz + sz
    BY PallocChunksOfFacts
  <1>1. ASSUME NEW i \in 1 .. PreNr PROVE mem + (i - 1) * sz \in P!ChunksOf(mem, sz)
    <2>1. i - 1 \in 0 .. PreNr - 1
      BY <1>0
    <2> QED BY <2>1 DEF P!ChunksOf
  <1>2. /\ s \in Seq(P!ChunksOf(mem, sz)) /\ Len(s) = PreNr
        /\ \A i \in 1 .. PreNr : s[i] = mem + (i - 1) * sz
    <2>1. PreNr \in Nat
      BY <1>0
    <2>2. s \in [1 .. PreNr -> P!ChunksOf(mem, sz)]
      BY <1>1 DEF PallocLayout
    <2>3. s \in Seq(P!ChunksOf(mem, sz)) /\ Len(s) = PreNr
      BY <2>1, <2>2
    <2>4. \A i \in 1 .. PreNr : s[i] = mem + (i - 1) * sz
      BY DEF PallocLayout
    <2> QED BY <2>3, <2>4
  <1> HIDE DEF s
  <1>3. \A i, j \in 1 .. PreNr : i < j => s[i] < s[j]
    <2> SUFFICES ASSUME NEW i \in 1 .. PreNr, NEW j \in 1 .. PreNr, i < j PROVE s[i] < s[j]
      OBVIOUS
    <2>1. i - 1 \in Nat /\ j - 1 \in Nat /\ i - 1 < j - 1
      BY <1>0
    <2>2. (i - 1) * sz \in Nat /\ (j - 1) * sz \in Nat /\ (i - 1) * sz < (j - 1) * sz
      BY <1>0, <2>1
    <2>3. s[i] = mem + (i - 1) * sz /\ s[j] = mem + (j - 1) * sz
      BY <1>2
    <2> QED BY <1>0, <2>2, <2>3
  <1>4. \A i \in 1 .. PreNr : s[i] \in Nat
    BY <1>0, <1>2
  <1>5. IsInjective(s)
    <2> SUFFICES ASSUME NEW i \in 1 .. PreNr, NEW j \in 1 .. PreNr, s[i] = s[j] PROVE i = j
      BY <1>2, SeqPositions
    <2>1. ~ i < j /\ ~ j < i
      BY <1>3, <1>4
    <2> QED BY <1>0, <2>1
  <1>6. ToSet(s) = P!ChunksOf(mem, sz)
    <2>1. ASSUME NEW ch \in P!ChunksOf(mem, sz) PROVE ch \in ToSet(s)
      <3>1. PICK i \in 0 .. PreNr - 1 : ch = mem + i * sz
        BY DEF P!ChunksOf
      <3>2. i + 1 \in 1 .. PreNr /\ i + 1 - 1 = i
        BY <1>0
      <3>3. s[i + 1] = ch
        BY <1>2, <3>1, <3>2
      <3> QED BY <1>2, <3>2, <3>3, SeqPositions
    <2> QED BY <1>2, <2>1, SeqPositions
  <1>7. Chain(mem, P!Threaded(mem, sz), Null, s)
    <2>1. s[1] = mem
      <3>1. 1 - 1 = 0 /\ 0 * sz = 0
        BY <1>0, Z3
      <3> QED BY <1>0, <1>2, <3>1
    <2>2. ASSUME NEW i \in 1 .. PreNr
          PROVE  P!Threaded(mem, sz)[s[i]] = IF i = PreNr THEN Null ELSE s[i + 1]
      <3>1. s[i] \in P!ChunksOf(mem, sz) /\ s[i] = mem + (i - 1) * sz
        BY <1>1, <1>2
      <3>2. P!Threaded(mem, sz)[s[i]]
              = IF s[i] < mem + (PreNr - 1) * sz THEN s[i] + sz ELSE Null
        BY <3>1 DEF P!Threaded
      <3>3. CASE i = PreNr
        <4>1. ~ s[i] < mem + (PreNr - 1) * sz
          BY <1>0, <3>1, <3>3
        <4> QED BY <3>2, <3>3, <4>1
      <3>4. CASE i # PreNr
        <4>1. PreNr \in 1 .. PreNr /\ i < PreNr /\ i + 1 \in 1 .. PreNr
          BY <1>0, <3>4
        <4>2. s[i] < mem + (PreNr - 1) * sz
          BY <1>2, <1>3, <4>1
        <4>3. (i + 1 - 1) * sz = (i - 1) * sz + sz
          <5>1. i - 1 \in Nat /\ i - 1 + 1 = i /\ i + 1 - 1 = i
            BY <1>0
          <5> QED BY <1>0, <5>1
        <4>4. s[i + 1] = s[i] + sz
          <5>1. (i - 1) * sz \in Nat
            BY <1>0
          <5> QED BY <1>0, <1>2, <3>1, <4>1, <4>3, <5>1
        <4> QED BY <3>2, <3>4, <4>2, <4>4
      <3> QED BY <3>3, <3>4
    <2> QED BY <1>0, <1>2, <2>1, <2>2 DEF Chain
  <1> QED BY <1>2, <1>5, <1>6, <1>7 DEF s

-----------------------------------------------------------------------------
(* The inductive invariant. *)

(* While the allocator is up, the client holds chunks of its area and the  *)
(* chain goes once through all others.                                     *)
PallocChainOK ==
  /\ chunks \in PallocAreas /\ size \in PallocSizes
  /\ pre_held \subseteq P!ChunksOf(chunks, size)
  /\ \E s \in Seq(P!AllChunks) :
       /\ IsInjective(s)
       /\ ToSet(s) = P!ChunksOf(chunks, size) \ pre_held
       /\ Chain(pre_next_free, word, Null, s)

PallocIInv ==
  /\ P!TypeOK /\ P!AreaOwned
  /\ pre_up => PallocChainOK
  /\ ~pre_up => pre_held = {}

LEMMA PallocInitIInv == PallocAssumptions /\ P!Init => PallocIInv
  <1> SUFFICES ASSUME P!Init PROVE PallocIInv
    OBVIOUS
  <1>1. DOMAIN word = {} /\ ~pre_up
    BY DEF P!Init
  <1>2. P!TypeOK
    BY <1>1 DEF P!Init, P!TypeOK
  <1>3. P!AreaOwned
    BY DEF P!Init, P!AreaOwned
  <1> QED BY <1>1, <1>2, <1>3 DEF P!Init, PallocIInv

LEMMA PallocSetupIInv ==
  ASSUME PallocAssumptions, PallocIInv, ~pre_up, NEW mem \in PallocAreas, NEW sz \in PallocSizes,
         NEW owner \in BOOLEAN, NEW create \in BOOLEAN,
         P!InitFromMem(mem, sz, owner, create), pre_held' = pre_held,
         owner => mem \in HeapAddrs,
         pre_heap' = IF owner THEN {mem} ELSE {}
  PROVE  PallocIInv'
  <1>1. /\ mem \in Nat /\ sz \in Nat
        /\ P!ChunksOf(mem, sz) \subseteq P!AllChunks /\ mem \in P!ChunksOf(mem, sz)
    BY PallocChunksOfFacts
  <1>2. /\ PallocLayout(mem, sz) \in Seq(P!ChunksOf(mem, sz))
        /\ IsInjective(PallocLayout(mem, sz))
        /\ ToSet(PallocLayout(mem, sz)) = P!ChunksOf(mem, sz)
        /\ Chain(mem, P!Threaded(mem, sz), Null, PallocLayout(mem, sz))
        /\ Len(PallocLayout(mem, sz)) = PreNr
    BY PallocLayoutFacts
  <1>3. PallocLayout(mem, sz) \in Seq(P!AllChunks)
    BY <1>1, <1>2
  <1>4. /\ pre_up' = TRUE /\ pre_iface' = create /\ own' = owner /\ chunks' = mem /\ size' = sz
        /\ pre_next_free' = mem /\ word' = P!Threaded(mem, sz) /\ pre_held' = {}
    BY DEF P!InitFromMem, PallocIInv
  <1>5. \A ch \in DOMAIN P!Threaded(mem, sz) : P!Threaded(mem, sz)[ch] \in P!AllChunks \cup {Null}
    <2> SUFFICES ASSUME NEW ch \in P!ChunksOf(mem, sz)
                 PROVE  P!Threaded(mem, sz)[ch] \in P!AllChunks \cup {Null}
      BY DEF P!Threaded
    <2>1. PICK i \in 1 .. PreNr : PallocLayout(mem, sz)[i] = ch
      BY <1>2, SeqPositions
    <2>2. P!Threaded(mem, sz)[ch] = IF i = PreNr THEN Null ELSE PallocLayout(mem, sz)[i + 1]
      BY <1>2, <2>1 DEF Chain
    <2>3. i # PreNr => PallocLayout(mem, sz)[i + 1] \in P!AllChunks
      <3>1. i # PreNr => i + 1 \in 1 .. Len(PallocLayout(mem, sz))
        BY <1>2, PallocChunksOfFacts
      <3> QED BY <1>3, <3>1
    <2> QED BY <2>2, <2>3
  <1>6. DOMAIN P!Threaded(mem, sz) = P!ChunksOf(mem, sz)
    BY DEF P!Threaded
  <1>7. P!TypeOK'
    BY <1>1, <1>4, <1>5, <1>6 DEF P!TypeOK, PallocAreas
  <1>8. PallocChainOK'
    BY <1>2, <1>3, <1>4 DEF PallocChainOK
  <1>9. P!AreaOwned'
    BY <1>4 DEF P!AreaOwned
  <1> QED BY <1>4, <1>7, <1>8, <1>9 DEF PallocIInv

LEMMA PallocAllocIInv ==
  ASSUME PallocAssumptions, PallocIInv, P!Alloc
  PROVE  PallocIInv'
  <1>1. pre_up /\ pre_next_free # Null /\ PallocChainOK
    BY DEF P!Alloc, PallocIInv
  <1>2. PICK s \in Seq(P!AllChunks) :
          /\ IsInjective(s)
          /\ ToSet(s) = P!ChunksOf(chunks, size) \ pre_held
          /\ Chain(pre_next_free, word, Null, s)
    BY <1>1 DEF PallocChainOK
  <1>3. /\ s # << >> /\ pre_next_free = Head(s) /\ pre_next_free \in P!AllChunks
        /\ Chain(word[pre_next_free], word, Null, Tail(s))
    BY <1>1, <1>2, ChainTail
  <1>4. /\ Head(s) \in ToSet(s) /\ Tail(s) \in Seq(P!AllChunks) /\ IsInjective(Tail(s))
        /\ ToSet(Tail(s)) = ToSet(s) \ {Head(s)}
    BY <1>2, <1>3, TailDistinct
  <1>5. pre_next_free \in P!ChunksOf(chunks, size) /\ pre_next_free \notin pre_held
    BY <1>2, <1>3, <1>4
  <1>6. PallocChainOK'
    BY <1>1, <1>2, <1>3, <1>4, <1>5 DEF P!Alloc, PallocChainOK
  <1>7. P!TypeOK'
    BY <1>1, <1>3, <1>5 DEF P!Alloc, PallocIInv, P!TypeOK
  <1> QED BY <1>1, <1>6, <1>7 DEF P!Alloc, PallocIInv, P!AreaOwned

LEMMA PallocFreeIInv ==
  ASSUME PallocAssumptions, PallocIInv, NEW chunk \in pre_held, P!Free(chunk)
  PROVE  PallocIInv'
  <1>1. pre_up /\ PallocChainOK
    BY DEF P!Free, PallocIInv
  <1>2. PICK s \in Seq(P!AllChunks) :
          /\ IsInjective(s)
          /\ ToSet(s) = P!ChunksOf(chunks, size) \ pre_held
          /\ Chain(pre_next_free, word, Null, s)
    BY <1>1 DEF PallocChainOK
  <1>3. /\ chunk \in P!ChunksOf(chunks, size) /\ chunk \in P!AllChunks
        /\ chunk \notin ToSet(s)
    BY <1>1, <1>2 DEF PallocChainOK, PallocIInv, P!TypeOK
  <1>4. /\ DOMAIN word' = DOMAIN word /\ chunk \in DOMAIN word
        /\ word'[chunk] = pre_next_free
        /\ \A e \in DOMAIN word \ {chunk} : word'[e] = word[e]
        /\ DOMAIN word = P!ChunksOf(chunks, size)
    BY <1>1, <1>3 DEF P!Free, PallocIInv, P!TypeOK
  <1>5. \A e \in ToSet(s) : word'[e] = word[e]
    BY <1>2, <1>3, <1>4
  <1>6. Chain(pre_next_free, word', Null, s)
    BY <1>2, <1>5, ChainKept
  <1>7. Chain(chunk, word', Null, Cons(chunk, s))
    BY <1>3, <1>4, <1>6, ChainCons
  <1>8. /\ Cons(chunk, s) \in Seq(P!AllChunks) /\ IsInjective(Cons(chunk, s))
        /\ ToSet(Cons(chunk, s)) = ToSet(s) \cup {chunk}
    <2>1. Cons(chunk, s) \in Seq(P!AllChunks)
      BY <1>3, ConsFacts
    <2>2. /\ ToSet(Cons(chunk, s)) = ToSet(s) \cup {chunk}
          /\ IsInjective(s) /\ chunk \notin ToSet(s) => IsInjective(Cons(chunk, s))
      BY <1>3, ConsDistinct
    <2> QED BY <1>2, <1>3, <2>1, <2>2
  <1>9. ToSet(Cons(chunk, s)) = P!ChunksOf(chunks, size) \ pre_held'
    BY <1>2, <1>3, <1>8 DEF P!Free
  <1>10. PallocChainOK'
    <2>1. chunks' = chunks /\ size' = size /\ pre_next_free' = chunk /\ pre_held' \subseteq pre_held
      BY DEF P!Free
    <2> QED BY <1>1, <1>7, <1>8, <1>9, <2>1 DEF PallocChainOK
  <1>11. P!TypeOK'
    BY <1>1, <1>3, <1>4 DEF P!Free, PallocIInv, P!TypeOK
  <1> QED BY <1>1, <1>10, <1>11 DEF P!Free, PallocIInv, P!AreaOwned

LEMMA PallocClientWriteIInv ==
  ASSUME PallocAssumptions, PallocIInv, NEW chunk \in pre_held,
         NEW value \in P!ChunksOf(chunks, size) \cup {Null}, P!ClientWrite(chunk, value)
  PROVE  PallocIInv'
  <1>1. pre_up /\ PallocChainOK
    BY DEF P!ClientWrite, PallocIInv
  <1>2. PICK s \in Seq(P!AllChunks) :
          /\ IsInjective(s)
          /\ ToSet(s) = P!ChunksOf(chunks, size) \ pre_held
          /\ Chain(pre_next_free, word, Null, s)
    BY <1>1 DEF PallocChainOK
  <1>3. chunk \in P!ChunksOf(chunks, size) /\ chunk \notin ToSet(s)
    BY <1>1, <1>2 DEF PallocChainOK
  <1>4. /\ DOMAIN word' = DOMAIN word /\ chunk \in DOMAIN word
        /\ word'[chunk] = value
        /\ \A e \in DOMAIN word \ {chunk} : word'[e] = word[e]
        /\ DOMAIN word = P!ChunksOf(chunks, size)
    BY <1>1, <1>3 DEF P!ClientWrite, PallocIInv, P!TypeOK
  <1>5. \A e \in ToSet(s) : word'[e] = word[e]
    BY <1>2, <1>3, <1>4
  <1>6. Chain(pre_next_free, word', Null, s)
    BY <1>2, <1>5, ChainKept
  <1>7. PallocChainOK'
    BY <1>1, <1>2, <1>6 DEF P!ClientWrite, PallocChainOK
  <1>8. value \in P!AllChunks \cup {Null}
    BY <1>1, PallocChunksOfFacts DEF PallocChainOK
  <1>9. P!TypeOK'
    BY <1>1, <1>4, <1>8 DEF P!ClientWrite, PallocIInv, P!TypeOK
  <1> QED BY <1>1, <1>7, <1>9 DEF P!ClientWrite, PallocIInv, P!AreaOwned

LEMMA PallocFiniIInv ==
  ASSUME PallocAssumptions, PallocIInv, P!Fini
  PROVE  PallocIInv'
  <1>1. pre_up /\ ~pre_up' /\ pre_up' \in BOOLEAN /\ pre_iface' \in BOOLEAN
    BY DEF P!Fini
  <1>2. DOMAIN word' = {} /\ pre_held' = {}
    BY DEF P!Fini
  <1>3. pre_heap' = {}
    BY <1>1 DEF P!Fini, P!AreasLeft, PallocIInv, P!AreaOwned
  <1>4. P!TypeOK'
    BY <1>1, <1>2, <1>3 DEF P!Fini, PallocIInv, P!TypeOK
  <1>5. P!AreaOwned'
    BY <1>1, <1>3 DEF P!AreaOwned
  <1> QED BY <1>1, <1>2, <1>4, <1>5 DEF PallocIInv

LEMMA PallocNextIInv == PallocAssumptions /\ PallocIInv /\ [P!Next]_(P!vars) => PallocIInv'
  <1> SUFFICES ASSUME PallocAssumptions, PallocIInv, [P!Next]_(P!vars) PROVE PallocIInv'
    OBVIOUS
  <1>1. ASSUME NEW chunk_size \in ChunkSizes, NEW create \in BOOLEAN,
               P!SetupOwned(chunk_size, create)
        PROVE  PallocIInv'
    <2>1. PICK mem \in HeapAddrs \ pre_heap :
            /\ P!InitFromMem(mem, P!AlignUpper(chunk_size), TRUE, create)
            /\ pre_heap' = pre_heap \cup {mem}
      BY <1>1 DEF P!SetupOwned
    <2>2. ~pre_up /\ pre_held' = pre_held /\ pre_heap = {}
      BY <1>1 DEF P!SetupOwned, PallocIInv, P!AreaOwned
    <2>3. mem \in PallocAreas /\ P!AlignUpper(chunk_size) \in PallocSizes
      BY DEF PallocAreas, PallocSizes
    <2> QED BY <2>1, <2>2, <2>3, PallocSetupIInv
  <1>2. ASSUME NEW chunk_size \in ChunkSizes, NEW create \in BOOLEAN, NEW mem \in MemAddrs,
               P!SetupFromMem(mem, chunk_size, create)
        PROVE  PallocIInv'
    <2>1. P!InitFromMem(mem, chunk_size, FALSE, create) /\ ~pre_up /\ pre_held' = pre_held /\ pre_heap' = {}
      BY <1>2 DEF P!SetupFromMem, PallocIInv, P!AreaOwned
    <2>2. mem \in PallocAreas /\ chunk_size \in PallocSizes
      BY DEF PallocAreas, PallocSizes
    <2> QED BY <2>1, <2>2, PallocSetupIInv
  <1>3. ASSUME P!Alloc PROVE PallocIInv'
    BY <1>3, PallocAllocIInv
  <1>4. ASSUME NEW chunk \in pre_held, P!Free(chunk) PROVE PallocIInv'
    BY <1>4, PallocFreeIInv
  <1>5. ASSUME NEW chunk \in pre_held, NEW value \in P!ChunksOf(chunks, size) \cup {Null},
               P!ClientWrite(chunk, value)
        PROVE  PallocIInv'
    BY <1>5, PallocClientWriteIInv
  <1>6. ASSUME P!Fini PROVE PallocIInv'
    BY <1>6, PallocFiniIInv
  <1>7. CASE UNCHANGED P!vars
    BY <1>7 DEF P!vars, PallocIInv, P!TypeOK, PallocChainOK, P!AreaOwned
  <1> QED BY <1>1, <1>2, <1>3, <1>4, <1>5, <1>6, <1>7 DEF P!Next

-----------------------------------------------------------------------------

LEMMA PallocChainSound ==
  ASSUME PallocAssumptions, PallocIInv
  PROVE  P!FreeChainSound
  <1> SUFFICES ASSUME pre_up
               PROVE  /\ pre_held \subseteq P!ChunksOf(chunks, size)
                      /\ \E s \in P!SetToSeqs(P!ChunksOf(chunks, size) \ pre_held) : P!Linked(s)
    BY DEF PallocIInv, P!FreeChainSound
  <1> DEFINE T == P!ChunksOf(chunks, size) \ pre_held
  <1>1. PICK s \in Seq(P!AllChunks) :
          IsInjective(s) /\ ToSet(s) = T /\ Chain(pre_next_free, word, Null, s)
    BY DEF PallocIInv, PallocChainOK
  <1> HIDE DEF T
  <1>2. s \in Seq(T)
    <2>1. \A i \in 1 .. Len(s) : s[i] \in T
      BY <1>1, SeqPositions
    <2> QED BY <2>1
  <1>3. s \in P!SetToSeqs(T)
    BY <1>1, <1>2, OrdersItsElements, PallocSeqs
  <1>4. P!Linked(s)
    BY <1>1 DEF P!Linked, Chain
  <1>5. pre_held \subseteq P!ChunksOf(chunks, size)
    BY DEF PallocIInv, PallocChainOK
  <1> QED BY <1>3, <1>4, <1>5 DEF T

(* The chain of free chunks goes once through every chunk that the client  *)
(* does not hold, and ends, whatever the client wrote into those it holds  *)
(* and in whatever order it frees them.                                    *)
THEOREM PallocFreeChain ==
  ASSUME PallocAssumptions
  PROVE  P!Spec => []P!FreeChainSound
  <1>1. P!Init => PallocIInv
    BY PallocInitIInv
  <1>2. PallocIInv /\ [P!Next]_(P!vars) => PallocIInv'
    BY PallocNextIInv
  <1>3. PallocIInv => P!FreeChainSound
    BY PallocChainSound
  <1> QED BY <1>1, <1>2, <1>3, PTL DEF P!Spec

-----------------------------------------------------------------------------

LEMMA PallocPoolStep == PallocAssumptions /\ PallocIInv /\ [P!Next]_(P!vars) => [PrePool!Next]_pre_held
  <1> SUFFICES ASSUME PallocAssumptions, PallocIInv, [P!Next]_(P!vars) PROVE [PrePool!Next]_pre_held
    OBVIOUS
  <1>1. ASSUME P!Alloc PROVE PrePool!Take
    <2>1. pre_up /\ pre_next_free # Null /\ PallocChainOK
      BY <1>1 DEF P!Alloc, PallocIInv
    <2>2. PICK s \in Seq(P!AllChunks) :
            /\ IsInjective(s)
            /\ ToSet(s) = P!ChunksOf(chunks, size) \ pre_held
            /\ Chain(pre_next_free, word, Null, s)
      BY <2>1 DEF PallocChainOK
    <2>3. s # << >> /\ pre_next_free = Head(s) /\ pre_next_free \in P!AllChunks
      BY <2>1, <2>2, ChainTail
    <2>4. pre_next_free \in P!ChunksOf(chunks, size) \ pre_held
      BY <2>2, <2>3, TailDistinct
    <2>5. /\ IsFiniteSet(P!ChunksOf(chunks, size))
          /\ Cardinality(P!ChunksOf(chunks, size)) = PreNr
      <3> DEFINE l == PallocLayout(chunks, size)
      <3>1. /\ l \in Seq(P!ChunksOf(chunks, size)) /\ Len(l) = PreNr
            /\ IsInjective(l) /\ ToSet(l) = P!ChunksOf(chunks, size)
        BY <2>1, PallocLayoutFacts DEF PallocChainOK
      <3> HIDE DEF l
      <3> QED BY <3>1, OrdersItsElements
    <2>6. /\ Cardinality(pre_held) <= PreNr
          /\ PreNr = Cardinality(pre_held) => P!ChunksOf(chunks, size) = pre_held
      BY <2>1, <2>5, FS_Subset DEF PallocChainOK
    <2>7. Cardinality(pre_held) \in Nat
      <3>1. IsFiniteSet(pre_held)
        BY <2>1, <2>5, FS_Subset DEF PallocChainOK
      <3> QED BY <3>1, FS_CardinalityType
    <2>8. PrePool!Cardinality(pre_held) < PreNr
      BY <2>4, <2>6, <2>7, PoolCardinality DEF PallocAssumptions, P!ChunkNrAssumption
    <2> QED BY <1>1, <2>3, <2>4, <2>8 DEF P!Alloc, PrePool!Take
  <1>2. ASSUME NEW chunk \in pre_held, P!Free(chunk) PROVE PrePool!Give
    BY <1>2 DEF P!Free, PrePool!Give
  <1>3. ASSUME P!Fini PROVE PrePool!Release
    BY <1>3 DEF P!Fini, PrePool!Release
  <1>4. ASSUME NEW chunk_size \in ChunkSizes, NEW create \in BOOLEAN,
               \/ P!SetupOwned(chunk_size, create)
               \/ \E mem \in MemAddrs : P!SetupFromMem(mem, chunk_size, create)
        PROVE  UNCHANGED pre_held
    BY <1>4 DEF P!SetupOwned, P!SetupFromMem
  <1>5. ASSUME NEW chunk \in pre_held, NEW value \in P!ChunksOf(chunks, size) \cup {Null},
               P!ClientWrite(chunk, value)
        PROVE  UNCHANGED pre_held
    BY <1>5 DEF P!ClientWrite
  <1>6. CASE UNCHANGED P!vars
    BY <1>6 DEF P!vars
  <1> QED BY <1>1, <1>2, <1>3, <1>4, <1>5, <1>6 DEF P!Next, PrePool!Next

(* Palloc implements the abstract pool: it hands out one chunk at a time,  *)
(* never one that is held, and no more than there are.                     *)
THEOREM PallocIsAPool ==
  ASSUME PallocAssumptions
  PROVE  P!Spec => PrePool!Spec
  <1>1. P!Init => PallocIInv /\ PrePool!Init
    BY PallocInitIInv DEF P!Init, PrePool!Init
  <1>2. PallocIInv /\ [P!Next]_(P!vars) => PallocIInv'
    BY PallocNextIInv
  <1>3. PallocIInv /\ [P!Next]_(P!vars) => [PrePool!Next]_pre_held
    BY PallocPoolStep
  <1> QED BY <1>1, <1>2, <1>3, PTL DEF P!Spec, PrePool!Spec

(* An area obtained from malloc() lives exactly as long as its allocator,  *)
(* and an area of the client's is never freed.                             *)
THEOREM PallocArea ==
  ASSUME PallocAssumptions
  PROVE  P!Spec => []P!AreaOwned
  <1>1. P!Init => PallocIInv
    BY PallocInitIInv
  <1>2. PallocIInv /\ [P!Next]_(P!vars) => PallocIInv'
    BY PallocNextIInv
  <1>3. PallocIInv => P!AreaOwned
    BY DEF PallocIInv
  <1> QED BY <1>1, <1>2, <1>3, PTL DEF P!Spec

-----------------------------------------------------------------------------
(* Lalloc.                                                                 *)

(* The constants: those of any client and of any heap. *)
LallocAssumptions == L!ChunkNrAssumption /\ L!NullAssumption

-----------------------------------------------------------------------------
(* The inductive invariant. *)

(* What the allocator has not lost to a client that kept it. *)
LallocServed == pre_heap \ kept

(* The chunks are the client's, or kept, or on the heap and in the chain.  *)
LallocChunksOK ==
  /\ pre_held \subseteq pre_heap /\ kept \subseteq pre_heap /\ pre_held \cap kept = {}
  /\ phase # "up" => pre_held = {}
  /\ phase = "down" => pre_heap = kept /\ ~pre_iface

(* How many they are: as many as the loop of stroll_lalloc_init() made.    *)
LallocCountOK ==
  /\ IsFiniteSet(LallocServed)
  /\ phase = "init" => Cardinality(LallocServed) = c
  /\ phase = "up" => Cardinality(LallocServed) = PreNr

LallocChainOK ==
  \E s \in Seq(Places) :
    /\ IsInjective(s)
    /\ ToSet(s) = pre_heap \ (pre_held \cup kept)
    /\ Chain(pre_next_free, word, Null, s)

LallocIInv == L!TypeOK /\ LallocChunksOK /\ LallocCountOK /\ LallocChainOK

(* What an allocator that has no chunk but those that were kept satisfies. *)
LEMMA LallocEmptyChain ==
  ASSUME pre_next_free = Null, pre_heap \ (pre_held \cup kept) = {}
  PROVE  LallocChainOK
  <1>1. << >> \in Seq(Places) /\ Len(<< >>) = 0
    OBVIOUS
  <1>2. IsInjective(<< >>) /\ ToSet(<< >>) = {}
    BY DEF IsInjective, ToSet
  <1>3. Chain(pre_next_free, word, Null, << >>)
    BY <1>1 DEF Chain
  <1> QED BY <1>1, <1>2, <1>3 DEF LallocChainOK

LEMMA LallocInitIInv == LallocAssumptions /\ L!Init => LallocIInv
  <1> SUFFICES ASSUME LallocAssumptions, L!Init PROVE LallocIInv
    OBVIOUS
  <1>1. L!TypeOK
    <2>1. pre_iface \in BOOLEAN /\ err \in BOOLEAN
      BY DEF L!Init
    <2>2. c \in 0 .. PreNr
      BY DEF L!Init, LallocAssumptions, L!ChunkNrAssumption
    <2> QED BY <2>1, <2>2 DEF L!Init, L!TypeOK
  <1>2. LallocChunksOK
    BY DEF L!Init, LallocChunksOK
  <1>3. LallocCountOK
    <2>1. LallocServed = {} /\ phase = "down"
      BY DEF L!Init, LallocServed
    <2> QED BY <2>1, FS_EmptySet DEF LallocCountOK
  <1>4. LallocChainOK
    BY LallocEmptyChain DEF L!Init
  <1> QED BY <1>1, <1>2, <1>3, <1>4 DEF LallocIInv

LEMMA LallocInitEnterIInv ==
  ASSUME LallocAssumptions, LallocIInv, NEW create \in BOOLEAN, L!InitEnter(create)
  PROVE  LallocIInv'
  <1>1. pre_heap = kept /\ pre_held = {} /\ pre_heap' = pre_heap /\ kept' = kept /\ pre_held' = pre_held
    BY DEF L!InitEnter, LallocIInv, LallocChunksOK
  <1>2. L!TypeOK'
    <2>1. pre_iface' \in BOOLEAN /\ err' \in BOOLEAN
      BY DEF L!InitEnter
    <2>2. c' \in 0 .. PreNr
      BY DEF L!InitEnter, LallocAssumptions, L!ChunkNrAssumption
    <2> QED BY <2>1, <2>2 DEF L!InitEnter, LallocIInv, L!TypeOK
  <1>3. LallocChunksOK'
    BY <1>1 DEF L!InitEnter, LallocIInv, LallocChunksOK
  <1>4. LallocServed' = {}
    BY <1>1 DEF LallocServed
  <1>5. LallocCountOK'
    <2>1. phase' = "init" /\ c' = 0
      BY DEF L!InitEnter
    <2> QED BY <1>4, <2>1, FS_EmptySet DEF LallocCountOK
  <1>6. LallocChainOK'
    <2>1. pre_next_free' = Null /\ pre_heap' \ (pre_held' \cup kept') = {}
      BY <1>1 DEF L!InitEnter
    <2>2. /\ << >> \in Seq(Places) /\ Len(<< >>) = 0
          /\ IsInjective(<< >>) /\ ToSet(<< >>) = {}
      BY DEF IsInjective, ToSet
    <2>3. Chain(pre_next_free', word', Null, << >>)
      BY <2>1, <2>2 DEF Chain
    <2> QED BY <2>1, <2>2, <2>3 DEF LallocChainOK
  <1> QED BY <1>2, <1>3, <1>5, <1>6 DEF LallocIInv

(* A chunk is put in front of the chain. *)
LEMMA LallocChaining ==
  ASSUME LallocIInv, NEW chunk \in Places, word' = L!Chained(chunk), pre_next_free' = chunk,
         chunk \notin pre_heap \ (pre_held \cup kept),
         pre_heap' \ (pre_held' \cup kept') = (pre_heap \ (pre_held \cup kept)) \cup {chunk}
  PROVE  LallocChainOK'
  <1>1. PICK s \in Seq(Places) :
          /\ IsInjective(s)
          /\ ToSet(s) = pre_heap \ (pre_held \cup kept)
          /\ Chain(pre_next_free, word, Null, s)
    BY DEF LallocIInv, LallocChainOK
  <1>2. /\ word'[chunk] = pre_next_free
        /\ \A e \in Places \ {chunk} : word'[e] = word[e]
    BY DEF L!Chained, LallocIInv, L!TypeOK
  <1>3. \A e \in ToSet(s) : word'[e] = word[e]
    BY <1>1, <1>2, SeqPositions
  <1>4. Chain(pre_next_free, word', Null, s)
    BY <1>1, <1>3, ChainKept
  <1>5. Chain(chunk, word', Null, Cons(chunk, s))
    BY <1>2, <1>4, ChainCons
  <1>6. Cons(chunk, s) \in Seq(Places)
    BY ConsFacts
  <1>7. /\ ToSet(Cons(chunk, s)) = ToSet(s) \cup {chunk}
        /\ IsInjective(s) /\ chunk \notin ToSet(s) => IsInjective(Cons(chunk, s))
    BY ConsDistinct
  <1>8. ToSet(Cons(chunk, s)) = pre_heap' \ (pre_held' \cup kept')
    BY <1>1, <1>7
  <1> QED BY <1>1, <1>5, <1>6, <1>7, <1>8 DEF LallocChainOK

(* The head of the chain, and what is behind it. *)
LEMMA LallocUnchaining ==
  ASSUME LallocIInv, pre_next_free # Null
  PROVE  /\ pre_next_free \in pre_heap \ (pre_held \cup kept)
         /\ pre_next_free \in Places
         /\ \E t \in Seq(Places) :
              /\ IsInjective(t)
              /\ ToSet(t) = (pre_heap \ (pre_held \cup kept)) \ {pre_next_free}
              /\ Chain(word[pre_next_free], word, Null, t)
  <1>1. PICK s \in Seq(Places) :
          /\ IsInjective(s)
          /\ ToSet(s) = pre_heap \ (pre_held \cup kept)
          /\ Chain(pre_next_free, word, Null, s)
    BY DEF LallocIInv, LallocChainOK
  <1>2. /\ s # << >> /\ pre_next_free = Head(s) /\ pre_next_free \in Places
        /\ Chain(word[pre_next_free], word, Null, Tail(s))
    BY <1>1, ChainTail
  <1>3. /\ Head(s) \in ToSet(s) /\ Tail(s) \in Seq(Places) /\ IsInjective(Tail(s))
        /\ ToSet(Tail(s)) = ToSet(s) \ {Head(s)}
    BY <1>1, <1>2, TailDistinct
  <1> QED BY <1>1, <1>2, <1>3

LEMMA LallocInitChunkIInv ==
  ASSUME LallocAssumptions, LallocIInv, L!InitChunk
  PROVE  LallocIInv'
  <1>1. PICK chnk \in Places \ pre_heap :
          pre_heap' = pre_heap \cup {chnk} /\ word' = L!Chained(chnk) /\ pre_next_free' = chnk
    BY DEF L!InitChunk
  <1>2. /\ phase = "init" /\ phase' = "init" /\ c < PreNr /\ c' = c + 1
        /\ pre_held' = pre_held /\ kept' = kept /\ pre_iface' = pre_iface /\ err' = err
    BY DEF L!InitChunk, L!MoreToObtain
  <1>3. L!TypeOK'
    BY <1>1, <1>2 DEF LallocIInv, L!TypeOK, L!Chained, LallocAssumptions, L!ChunkNrAssumption
  <1>4. LallocChunksOK'
    BY <1>1, <1>2 DEF LallocIInv, LallocChunksOK
  <1>5. LallocCountOK'
    <2>1. LallocServed' = LallocServed \cup {chnk} /\ chnk \notin LallocServed
      BY <1>1, <1>2 DEF LallocServed, LallocIInv, LallocChunksOK
    <2>2. IsFiniteSet(LallocServed) /\ Cardinality(LallocServed) = c
      BY <1>2 DEF LallocIInv, LallocCountOK
    <2>3. IsFiniteSet(LallocServed') /\ Cardinality(LallocServed') = Cardinality(LallocServed) + 1
      BY <2>1, <2>2, FS_AddElement
    <2> QED BY <1>2, <2>2, <2>3 DEF LallocCountOK
  <1>6. LallocChainOK'
    <2>1. pre_heap' \ (pre_held' \cup kept') = (pre_heap \ (pre_held \cup kept)) \cup {chnk}
      BY <1>1, <1>2 DEF LallocIInv, LallocChunksOK
    <2> QED BY <1>1, <2>1, LallocChaining
  <1> QED BY <1>3, <1>4, <1>5, <1>6 DEF LallocIInv

LEMMA LallocInitFailsIInv ==
  ASSUME LallocAssumptions, LallocIInv, L!InitFails
  PROVE  LallocIInv'
  BY DEF L!InitFails, LallocIInv, L!TypeOK, LallocChunksOK, LallocCountOK, LallocServed, LallocChainOK

LEMMA LallocInitReturnsIInv ==
  ASSUME LallocAssumptions, LallocIInv, L!InitReturns
  PROVE  LallocIInv'
  <1>1. c = PreNr
    BY DEF L!InitReturns, L!MoreToObtain, LallocIInv, L!TypeOK, LallocAssumptions, L!ChunkNrAssumption
  <1> QED BY <1>1 DEF L!InitReturns, LallocIInv, L!TypeOK, LallocChunksOK, LallocCountOK, LallocServed, LallocChainOK

LEMMA LallocAllocIInv ==
  ASSUME LallocAssumptions, LallocIInv, L!Alloc
  PROVE  LallocIInv'
  <1>1. /\ pre_next_free \in pre_heap \ (pre_held \cup kept) /\ pre_next_free \in Places
        /\ \E t \in Seq(Places) :
             /\ IsInjective(t)
             /\ ToSet(t) = (pre_heap \ (pre_held \cup kept)) \ {pre_next_free}
             /\ Chain(word[pre_next_free], word, Null, t)
    BY LallocUnchaining DEF L!Alloc
  <1>2. /\ phase = "up" /\ phase' = "up" /\ pre_held' = pre_held \cup {pre_next_free}
        /\ pre_next_free' = word[pre_next_free] /\ word' = word /\ pre_heap' = pre_heap /\ kept' = kept
        /\ pre_iface' = pre_iface /\ c' = c /\ err' = err
    BY DEF L!Alloc, L!NextHead
  <1>3. L!TypeOK'
    BY <1>1, <1>2 DEF LallocIInv, L!TypeOK
  <1>4. LallocChunksOK'
    BY <1>1, <1>2 DEF LallocIInv, LallocChunksOK
  <1>5. LallocCountOK'
    BY <1>2 DEF LallocIInv, LallocCountOK, LallocServed
  <1>6. LallocChainOK'
    <2>1. pre_heap' \ (pre_held' \cup kept') = (pre_heap \ (pre_held \cup kept)) \ {pre_next_free}
      BY <1>2
    <2> QED BY <1>1, <1>2, <2>1 DEF LallocChainOK
  <1> QED BY <1>3, <1>4, <1>5, <1>6 DEF LallocIInv

LEMMA LallocFreeIInv ==
  ASSUME LallocAssumptions, LallocIInv, NEW chunk \in pre_held, L!Free(chunk)
  PROVE  LallocIInv'
  <1>1. chunk \in Places /\ chunk \in pre_heap /\ chunk \notin kept
    BY DEF LallocIInv, L!TypeOK, LallocChunksOK
  <1>2. /\ phase = "up" /\ phase' = "up" /\ pre_held' = pre_held \ {chunk}
        /\ pre_next_free' = chunk /\ word' = L!Chained(chunk) /\ pre_heap' = pre_heap /\ kept' = kept
        /\ pre_iface' = pre_iface /\ c' = c /\ err' = err
    BY DEF L!Free
  <1>3. L!TypeOK'
    BY <1>1, <1>2 DEF LallocIInv, L!TypeOK, L!Chained
  <1>4. LallocChunksOK'
    BY <1>1, <1>2 DEF LallocIInv, LallocChunksOK
  <1>5. LallocCountOK'
    BY <1>2 DEF LallocIInv, LallocCountOK, LallocServed
  <1>6. LallocChainOK'
    <2>1. pre_heap' \ (pre_held' \cup kept') = (pre_heap \ (pre_held \cup kept)) \cup {chunk}
      BY <1>1, <1>2
    <2> QED BY <1>1, <1>2, <2>1, LallocChaining
  <1> QED BY <1>3, <1>4, <1>5, <1>6 DEF LallocIInv

LEMMA LallocClientWriteIInv ==
  ASSUME LallocAssumptions, LallocIInv, NEW chunk \in pre_held, NEW value \in Places \cup {Null},
         L!ClientWrite(chunk, value)
  PROVE  LallocIInv'
  <1>1. PICK s \in Seq(Places) :
          /\ IsInjective(s)
          /\ ToSet(s) = pre_heap \ (pre_held \cup kept)
          /\ Chain(pre_next_free, word, Null, s)
    BY DEF LallocIInv, LallocChainOK
  <1>2. \A e \in ToSet(s) : word'[e] = word[e]
    BY <1>1, SeqPositions DEF L!ClientWrite, LallocIInv, L!TypeOK
  <1>3. Chain(pre_next_free, word', Null, s)
    BY <1>1, <1>2, ChainKept
  <1>4. LallocChainOK'
    BY <1>1, <1>3 DEF L!ClientWrite, LallocChainOK
  <1>5. L!TypeOK'
    BY DEF L!ClientWrite, LallocIInv, L!TypeOK
  <1> QED BY <1>4, <1>5 DEF L!ClientWrite, LallocIInv, LallocChunksOK, LallocCountOK, LallocServed

LEMMA LallocFiniEnterIInv ==
  ASSUME LallocAssumptions, LallocIInv, L!FiniEnter
  PROVE  LallocIInv'
  <1>1. /\ phase = "up" /\ phase' = "fini" /\ kept' = kept \cup pre_held /\ pre_held' = {}
        /\ pre_heap' = pre_heap /\ word' = word /\ pre_next_free' = pre_next_free
        /\ pre_iface' = pre_iface /\ c' = c /\ err' = err
    BY DEF L!FiniEnter
  <1>2. L!TypeOK' /\ LallocChunksOK'
    BY <1>1 DEF LallocIInv, L!TypeOK, LallocChunksOK
  <1>3. LallocCountOK'
    <2>1. LallocServed' \in SUBSET LallocServed /\ IsFiniteSet(LallocServed)
      BY <1>1 DEF LallocServed, LallocIInv, LallocCountOK
    <2>2. IsFiniteSet(LallocServed')
      BY <2>1, FS_Subset
    <2> QED BY <1>1, <2>2 DEF LallocCountOK
  <1>4. LallocChainOK'
    <2>1. pre_heap' \ (pre_held' \cup kept') = pre_heap \ (pre_held \cup kept)
      BY <1>1
    <2> QED BY <1>1, <2>1 DEF LallocIInv, LallocChainOK
  <1> QED BY <1>2, <1>3, <1>4 DEF LallocIInv

LEMMA LallocFiniChunkIInv ==
  ASSUME LallocAssumptions, LallocIInv, L!FiniChunk
  PROVE  LallocIInv'
  <1>1. /\ pre_next_free \in pre_heap \ (pre_held \cup kept) /\ pre_next_free \in Places
        /\ \E t \in Seq(Places) :
             /\ IsInjective(t)
             /\ ToSet(t) = (pre_heap \ (pre_held \cup kept)) \ {pre_next_free}
             /\ Chain(word[pre_next_free], word, Null, t)
    BY LallocUnchaining DEF L!FiniChunk
  <1>2. PICK t \in Seq(Places) :
          /\ IsInjective(t)
          /\ ToSet(t) = (pre_heap \ (pre_held \cup kept)) \ {pre_next_free}
          /\ Chain(word[pre_next_free], word, Null, t)
    BY <1>1
  <1>3. /\ phase = "fini" /\ phase' = "fini" /\ pre_held' = pre_held /\ kept' = kept
        /\ pre_next_free' = word[pre_next_free] /\ pre_heap' = pre_heap \ {pre_next_free}
        /\ word' = [word EXCEPT ![pre_next_free] = Null]
        /\ pre_iface' = pre_iface /\ c' = c /\ err' = err
    BY DEF L!FiniChunk, L!NextHead
  <1>4. L!TypeOK' /\ LallocChunksOK'
    BY <1>1, <1>3 DEF LallocIInv, L!TypeOK, LallocChunksOK
  <1>5. LallocCountOK'
    <2>1. LallocServed' \in SUBSET LallocServed /\ IsFiniteSet(LallocServed)
      BY <1>3 DEF LallocServed, LallocIInv, LallocCountOK
    <2>2. IsFiniteSet(LallocServed')
      BY <2>1, FS_Subset
    <2> QED BY <1>3, <2>2 DEF LallocCountOK
  <1>6. LallocChainOK'
    <2>1. \A e \in ToSet(t) : word'[e] = word[e]
      BY <1>2, <1>3, SeqPositions DEF LallocIInv, L!TypeOK
    <2>2. Chain(pre_next_free', word', Null, t)
      BY <1>2, <1>3, <2>1, ChainKept
    <2>3. ToSet(t) = pre_heap' \ (pre_held' \cup kept')
      BY <1>2, <1>3
    <2> QED BY <1>2, <2>2, <2>3 DEF LallocChainOK
  <1> QED BY <1>4, <1>5, <1>6 DEF LallocIInv

LEMMA LallocFiniReturnsIInv ==
  ASSUME LallocAssumptions, LallocIInv, L!FiniReturns
  PROVE  LallocIInv'
  <1>1. PICK s \in Seq(Places) :
          /\ IsInjective(s)
          /\ ToSet(s) = pre_heap \ (pre_held \cup kept)
          /\ Chain(pre_next_free, word, Null, s)
    BY DEF LallocIInv, LallocChainOK
  <1>2. pre_next_free = Null /\ phase = "fini" /\ phase' = "down" /\ ~pre_iface'
    BY DEF L!FiniReturns
  <1>3. Len(s) = 0
    <2>1. Len(s) # 0 => s[1] \in Places
      OBVIOUS
    <2> QED BY <1>1, <1>2, <2>1 DEF Chain, LallocAssumptions, L!NullAssumption
  <1>4. ToSet(s) = {}
    <2>1. \A e : e \in ToSet(s) <=> \E i \in 1 .. Len(s) : s[i] = e
      BY SeqPositions
    <2> QED BY <1>3, <2>1
  <1>5. pre_heap = kept /\ pre_held = {}
    BY <1>1, <1>2, <1>4 DEF LallocIInv, LallocChunksOK
  <1>6. LallocChunksOK'
    BY <1>2, <1>5 DEF L!FiniReturns, LallocChunksOK
  <1>7. L!TypeOK'
    BY DEF L!FiniReturns, LallocIInv, L!TypeOK
  <1>8. LallocCountOK' /\ LallocChainOK'
    BY <1>2 DEF L!FiniReturns, LallocIInv, LallocCountOK, LallocServed, LallocChainOK
  <1> QED BY <1>6, <1>7, <1>8 DEF LallocIInv

LEMMA LallocNextIInv == LallocAssumptions /\ LallocIInv /\ [L!Next]_(L!vars) => LallocIInv'
  <1> SUFFICES ASSUME LallocAssumptions, LallocIInv, [L!Next]_(L!vars) PROVE LallocIInv'
    OBVIOUS
  <1>1. ASSUME NEW create \in BOOLEAN, L!InitEnter(create) PROVE LallocIInv'
    BY <1>1, LallocInitEnterIInv
  <1>2. ASSUME L!InitChunk PROVE LallocIInv'
    BY <1>2, LallocInitChunkIInv
  <1>3. ASSUME L!InitFails PROVE LallocIInv'
    BY <1>3, LallocInitFailsIInv
  <1>4. ASSUME L!InitReturns PROVE LallocIInv'
    BY <1>4, LallocInitReturnsIInv
  <1>5. ASSUME L!Alloc PROVE LallocIInv'
    BY <1>5, LallocAllocIInv
  <1>6. ASSUME NEW chunk \in pre_held, L!Free(chunk) PROVE LallocIInv'
    BY <1>6, LallocFreeIInv
  <1>7. ASSUME NEW chunk \in pre_held, NEW value \in Places \cup {Null}, L!ClientWrite(chunk, value)
        PROVE  LallocIInv'
    BY <1>7, LallocClientWriteIInv
  <1>8. ASSUME L!FiniEnter PROVE LallocIInv'
    BY <1>8, LallocFiniEnterIInv
  <1>9. ASSUME L!FiniChunk PROVE LallocIInv'
    BY <1>9, LallocFiniChunkIInv
  <1>10. ASSUME L!FiniReturns PROVE LallocIInv'
    BY <1>10, LallocFiniReturnsIInv
  <1>11. CASE UNCHANGED L!vars
    BY <1>11 DEF L!vars, LallocIInv, L!TypeOK, LallocChunksOK, LallocCountOK, LallocServed, LallocChainOK
  <1> QED
    BY <1>1, <1>2, <1>3, <1>4, <1>5, <1>6, <1>7, <1>8, <1>9, <1>10, <1>11
    DEF L!Next, L!Call, L!Run

-----------------------------------------------------------------------------

LEMMA LallocChainSound ==
  ASSUME LallocIInv
  PROVE  L!FreeChainSound
  <1> DEFINE T == pre_heap \ (pre_held \cup kept)
  <1>1. PICK s \in Seq(Places) :
          IsInjective(s) /\ ToSet(s) = T /\ Chain(pre_next_free, word, Null, s)
    BY DEF LallocIInv, LallocChainOK
  <1> HIDE DEF T
  <1>2. s \in Seq(T)
    <2>1. \A i \in 1 .. Len(s) : s[i] \in T
      BY <1>1, SeqPositions
    <2> QED BY <2>1
  <1>3. s \in L!SetToSeqs(T)
    BY <1>1, <1>2, OrdersItsElements, LallocSeqs
  <1>4. L!Linked(s)
    BY <1>1 DEF L!Linked, Chain
  <1> QED BY <1>3, <1>4 DEF T, LallocIInv, L!FreeChainSound

(* The chain of free chunks goes once through every chunk the allocator    *)
(* has on the heap and the client does not hold, and ends, half way        *)
(* through initialisation and finalisation too: each is freed once.        *)
THEOREM LallocFreeChain ==
  ASSUME LallocAssumptions
  PROVE  L!Spec => []L!FreeChainSound
  <1>1. L!Init => LallocIInv
    BY LallocInitIInv
  <1>2. LallocIInv /\ [L!Next]_(L!vars) => LallocIInv'
    BY LallocNextIInv
  <1>3. LallocIInv => L!FreeChainSound
    BY LallocChainSound
  <1> QED BY <1>1, <1>2, <1>3, PTL DEF L!Spec

(* Whichever malloc() failed, nothing remains on the heap of an allocator  *)
(* that is down but the chunks that the client never gave back, and one    *)
(* that is up serves ChunkNr chunks.                                       *)
THEOREM LallocNothingLost ==
  ASSUME LallocAssumptions
  PROVE  L!Spec => []L!NothingLost
  <1>1. L!Init => LallocIInv
    BY LallocInitIInv
  <1>2. LallocIInv /\ [L!Next]_(L!vars) => LallocIInv'
    BY LallocNextIInv
  <1>3. LallocIInv => L!NothingLost
    BY LallocCardinality DEF LallocIInv, LallocChunksOK, LallocCountOK, LallocServed, L!NothingLost
  <1> QED BY <1>1, <1>2, <1>3, PTL DEF L!Spec

-----------------------------------------------------------------------------

LEMMA LallocPoolStep == LallocAssumptions /\ LallocIInv /\ [L!Next]_(L!vars) => [PrePool!Next]_pre_held
  <1> SUFFICES ASSUME LallocAssumptions, LallocIInv, [L!Next]_(L!vars) PROVE [PrePool!Next]_pre_held
    OBVIOUS
  <1>1. ASSUME L!Alloc PROVE PrePool!Take
    <2>1. phase = "up" /\ pre_next_free \in LallocServed \ pre_held /\ pre_next_free \in Places
      BY <1>1, LallocUnchaining DEF L!Alloc, LallocServed
    <2>2. pre_held \in SUBSET LallocServed /\ IsFiniteSet(LallocServed) /\ Cardinality(LallocServed) = PreNr
      BY <2>1 DEF LallocIInv, LallocChunksOK, LallocCountOK, LallocServed
    <2>3. /\ IsFiniteSet(pre_held) /\ Cardinality(pre_held) <= PreNr
          /\ PreNr = Cardinality(pre_held) => LallocServed = pre_held
      BY <2>2, FS_Subset
    <2>4. Cardinality(pre_held) \in Nat
      BY <2>3, FS_CardinalityType
    <2>5. PrePool!Cardinality(pre_held) < PreNr
      BY <2>1, <2>3, <2>4, PoolCardinality DEF LallocAssumptions, L!ChunkNrAssumption
    <2> QED BY <1>1, <2>1, <2>5 DEF L!Alloc, PrePool!Take
  <1>2. ASSUME NEW chunk \in pre_held, L!Free(chunk) PROVE PrePool!Give
    BY <1>2 DEF L!Free, PrePool!Give
  <1>3. ASSUME L!FiniEnter PROVE PrePool!Release
    BY <1>3 DEF L!FiniEnter, PrePool!Release
  <1>4. ASSUME NEW create \in BOOLEAN, L!InitEnter(create) PROVE UNCHANGED pre_held
    BY <1>4 DEF L!InitEnter
  <1>5. ASSUME NEW chunk \in pre_held, NEW value \in Places \cup {Null}, L!ClientWrite(chunk, value)
        PROVE  UNCHANGED pre_held
    BY <1>5 DEF L!ClientWrite
  <1>6. ASSUME L!Run PROVE UNCHANGED pre_held
    BY <1>6 DEF L!Run, L!InitChunk, L!InitFails, L!InitReturns, L!FiniChunk, L!FiniReturns
  <1>7. CASE UNCHANGED L!vars
    BY <1>7 DEF L!vars
  <1> QED BY <1>1, <1>2, <1>3, <1>4, <1>5, <1>6, <1>7 DEF L!Next, L!Call, PrePool!Next

(* Lalloc implements the abstract pool, as palloc does. *)
THEOREM LallocIsAPool ==
  ASSUME LallocAssumptions
  PROVE  L!Spec => PrePool!Spec
  <1>1. L!Init => LallocIInv /\ PrePool!Init
    BY LallocInitIInv DEF L!Init, PrePool!Init
  <1>2. LallocIInv /\ [L!Next]_(L!vars) => LallocIInv'
    BY LallocNextIInv
  <1>3. LallocIInv /\ [L!Next]_(L!vars) => [PrePool!Next]_pre_held
    BY LallocPoolStep
  <1> QED BY <1>1, <1>2, <1>3, PTL DEF L!Spec, PrePool!Spec

-----------------------------------------------------------------------------
(* Lvstr.                                                                  *)

(* What is asked of the constants. *)
LvstrAssumptions == S!LengthsAssumption /\ S!SizeMaxAssumption /\ S!NullAssumption

(* What stroll_lvstr_init() needs to know: nothing was registered with a   *)
(* structure that is not initialised.                                      *)
LvstrUnregistered == \A l \in Lvs \ ready : told[l] = S!Nothing

(* The inductive invariant. *)
LvstrIInv == S!TypeOK /\ S!StringsOwned /\ LvstrUnregistered

(* The low bit of a length is what it was registered with. *)
LEMMA LvstrPacked ==
  ASSUME LvstrAssumptions, NEW n \in Nat, n <= S!LenMax, NEW owner \in {S!LEASER, S!OWNER}
  PROVE  LET len == (2 * n + owner) % (SizeMax + 1) IN
         /\ len \in 0 .. SizeMax
         /\ len % 2 = owner
         /\ len \div 2 = n
  <1>1. 2 * n + owner \in Nat /\ 2 * n + owner <= SizeMax
    BY DEF LvstrAssumptions, S!SizeMaxAssumption, S!LenMax, S!PtrdiffMax, S!LEASER, S!OWNER
  <1>2. (2 * n + owner) % (SizeMax + 1) = 2 * n + owner
    BY <1>1, Z3 DEF LvstrAssumptions, S!SizeMaxAssumption
  <1>3. (2 * n + owner) % 2 = owner /\ (2 * n + owner) \div 2 = n
    BY DEF S!LEASER, S!OWNER
  <1> QED BY <1>1, <1>2, <1>3

LEMMA LvstrInitIInv == LvstrAssumptions /\ S!Init => LvstrIInv
  <1> SUFFICES ASSUME LvstrAssumptions, S!Init PROVE LvstrIInv
    OBVIOUS
  <1>1. DOMAIN strings = {} /\ strings \in [DOMAIN strings -> Nat]
    BY DEF S!Init
  <1>2. S!TypeOK
    BY <1>1 DEF LvstrAssumptions, S!SizeMaxAssumption, S!Init, S!TypeOK
  <1>3. S!StringsOwned
    BY <1>1 DEF S!Init, S!StringsOwned, S!Owners
  <1> QED BY <1>2, <1>3 DEF LvstrIInv, S!Init, LvstrUnregistered

(* What the heap is after a release: the string that l owned is gone, and  *)
(* the others are as they were.                                            *)
LEMMA LvstrReleasedHeap ==
  ASSUME LvstrAssumptions, LvstrIInv, NEW l \in ready
  PROVE  /\ DOMAIN S!Released(l) = mine \cup {S!Cstr(k) : k \in S!Owners \ {l}}
         /\ \A p \in DOMAIN S!Released(l) : S!Released(l)[p] = strings[p]
  <1>1. CASE S!Owns(l)
    <2>1. S!Cstr(l) \notin mine /\ \A k \in S!Owners \ {l} : S!Cstr(k) # S!Cstr(l)
      BY <1>1 DEF LvstrIInv, S!StringsOwned, S!Owners
    <2>2. DOMAIN S!Released(l) = DOMAIN strings \ {S!Cstr(l)}
      BY <1>1 DEF S!Released, S!Without, S!Restrict
    <2>3. DOMAIN strings \ {S!Cstr(l)} = mine \cup {S!Cstr(k) : k \in S!Owners \ {l}}
      BY <2>1, <1>1 DEF LvstrIInv, S!StringsOwned, S!Owners
    <2>4. \A p \in DOMAIN S!Released(l) : S!Released(l)[p] = strings[p]
      BY <1>1 DEF S!Released, S!Without, S!Restrict
    <2> QED BY <2>2, <2>3, <2>4
  <1>2. CASE ~ S!Owns(l)
    <2>1. S!Owners \ {l} = S!Owners
      BY <1>2 DEF S!Owners
    <2> QED BY <1>2, <2>1 DEF S!Released, LvstrIInv, S!StringsOwned
  <1> QED BY <1>1, <1>2

(* The same before a structure gets another string, be it initialised.     *)
LEMMA LvstrRemainingHeap ==
  ASSUME LvstrAssumptions, LvstrIInv, NEW l \in Lvs
  PROVE  /\ DOMAIN S!Remaining(l) = mine \cup {S!Cstr(k) : k \in S!Owners \ {l}}
         /\ \A p \in DOMAIN S!Remaining(l) : S!Remaining(l)[p] = strings[p]
         /\ DOMAIN S!Remaining(l) \subseteq DOMAIN strings
  <1>1. CASE l \in ready
    <2>1. /\ DOMAIN S!Released(l) = mine \cup {S!Cstr(k) : k \in S!Owners \ {l}}
          /\ \A p \in DOMAIN S!Released(l) : S!Released(l)[p] = strings[p]
      BY <1>1, LvstrReleasedHeap
    <2>2. DOMAIN S!Released(l) \subseteq DOMAIN strings
      BY DEF S!Released, S!Without, S!Restrict
    <2> QED BY <1>1, <2>1, <2>2 DEF S!Remaining
  <1>2. CASE l \notin ready
    BY <1>2 DEF S!Remaining, LvstrIInv, S!StringsOwned, S!Owners
  <1> QED BY <1>1, <1>2

(* What registering a string does to the structures.                       *)
LEMMA LvstrRegistered ==
  ASSUME LvstrAssumptions, LvstrIInv, NEW l \in Lvs, NEW p \in StringPlaces, NEW n \in Nat, n <= S!LenMax,
         NEW owner \in {S!LEASER, S!OWNER}, S!Register(l, p, n, owner)
  PROVE  /\ lvs' \in [Lvs -> [len : 0 .. SizeMax, str : StringPlaces \cup {NoString}]]
         /\ ready' \subseteq Lvs
         /\ DOMAIN told' = Lvs
         /\ S!Cstr(l)' = p /\ S!Length(l)' = n
         /\ S!Owns(l)' <=> owner = S!OWNER
         /\ told'[l] = <<p, n, owner>>
         /\ \A k \in ready' \ {l} :
              /\ k \in ready
              /\ lvs'[k] = lvs[k] /\ told'[k] = told[k]
  <1> DEFINE len == (2 * n + owner) % (SizeMax + 1)
  <1>1. len \in 0 .. SizeMax /\ len % 2 = owner /\ len \div 2 = n
    BY LvstrPacked
  <1>2. lvs' = [lvs EXCEPT ![l] = [len |-> len, str |-> p]]
    BY DEF S!Register
  <1>3. lvs'[l] = [len |-> len, str |-> p]
    BY <1>2 DEF LvstrIInv, S!TypeOK
  <1>4. lvs' \in [Lvs -> [len : 0 .. SizeMax, str : StringPlaces \cup {NoString}]]
    BY <1>1, <1>2 DEF LvstrIInv, S!TypeOK
  <1>5. S!Cstr(l)' = p /\ S!Length(l)' = n /\ (S!Owns(l)' <=> owner = S!OWNER)
    BY <1>1, <1>3 DEF LvstrAssumptions, S!NullAssumption, S!Cstr, S!Length, S!Owns
  <1>6. \A k \in ready' \ {l} : k \in ready /\ lvs'[k] = lvs[k] /\ told'[k] = told[k]
    BY <1>2 DEF LvstrIInv, S!TypeOK, S!Register
  <1> QED BY <1>4, <1>5, <1>6 DEF LvstrIInv, S!TypeOK, S!Register

(* A call that registers a string keeps the invariant if the heap is left  *)
(* with what remains, the string if l is to own it, and what the client    *)
(* has not ceded.                                                          *)
LEMMA LvstrRegisterIInv ==
  ASSUME LvstrAssumptions, LvstrIInv, NEW l \in Lvs, NEW p \in StringPlaces, NEW n \in Nat, n <= S!LenMax,
         NEW owner \in {S!LEASER, S!OWNER}, S!Register(l, p, n, owner),
         mine' \subseteq mine,
         strings' \in [DOMAIN strings' -> Nat],
         DOMAIN strings' = mine' \cup {S!Cstr(k) : k \in S!Owners \ {l}}
                            \cup (IF owner = S!OWNER THEN {p} ELSE {}),
         owner = S!OWNER =>
           /\ p \notin mine' \cup {S!Cstr(k) : k \in S!Owners \ {l}}
           /\ strings'[p] = n,
         \A k \in S!Owners \ {l} : strings'[S!Cstr(k)] = strings[S!Cstr(k)]
  PROVE  LvstrIInv'
  <1>1. /\ lvs' \in [Lvs -> [len : 0 .. SizeMax, str : StringPlaces \cup {NoString}]]
        /\ ready' \subseteq Lvs
        /\ DOMAIN told' = Lvs
        /\ S!Cstr(l)' = p /\ S!Length(l)' = n
        /\ S!Owns(l)' <=> owner = S!OWNER
        /\ told'[l] = <<p, n, owner>>
        /\ ready' = ready \cup {l}
        /\ \A k \in ready' \ {l} :
             k \in ready /\ lvs'[k] = lvs[k] /\ told'[k] = told[k]
    BY LvstrRegistered, ZenonT(30) DEF S!Register
  <1>2. \A k \in ready' \ {l} : S!Cstr(k)' = S!Cstr(k) /\ S!Length(k)' = S!Length(k) /\ (S!Owns(k)' <=> S!Owns(k))
    BY <1>1 DEF S!Cstr, S!Length, S!Owns
  <1>3. S!Owners' = (S!Owners \ {l}) \cup (IF owner = S!OWNER THEN {l} ELSE {})
    BY <1>1, <1>2 DEF S!Owners
  <1>4. S!TypeOK'
    <2>1. \A k \in S!Owners : S!Cstr(k) \in StringPlaces
      BY DEF LvstrIInv, S!TypeOK, S!Owners, S!Owns, S!Cstr
    <2> QED BY <1>1, <2>1 DEF LvstrIInv, S!TypeOK
  <1>5. DOMAIN strings' = mine' \cup {S!Cstr(k)' : k \in S!Owners'}
    BY <1>1, <1>2, <1>3 DEF S!Owners
  <1>6. \A k \in S!Owners' : S!Cstr(k)' \notin mine' /\ \A m \in S!Owners' : S!Cstr(m)' = S!Cstr(k)' => m = k
    <2>1. \A k \in S!Owners' \ {l} : k \in S!Owners /\ k \in ready' /\ S!Cstr(k)' = S!Cstr(k)
      BY <1>2, <1>3 DEF S!Owners
    <2>2. l \in S!Owners' => owner = S!OWNER
      BY <1>3
    <2> QED BY <1>1, <2>1, <2>2 DEF LvstrIInv, S!StringsOwned
  <1>7. ASSUME NEW k \in ready'
        PROVE  /\ told'[k] = IF S!Cstr(k)' = NoString THEN S!Nothing
                             ELSE <<S!Cstr(k)', S!Length(k)', IF S!Owns(k)' THEN S!OWNER ELSE S!LEASER>>
               /\ S!Owns(k)' => strings'[S!Cstr(k)'] = S!Length(k)'
    <2>1. CASE k = l
      BY <1>1, <2>1 DEF LvstrAssumptions, S!NullAssumption
    <2>2. CASE k # l
      BY <1>1, <1>2, <2>2 DEF LvstrIInv, S!StringsOwned, S!Owners
    <2> QED BY <2>1, <2>2
  <1>8. S!StringsOwned'
    BY <1>5, <1>6, <1>7 DEF S!StringsOwned
  <1>9. LvstrUnregistered'
    BY DEF S!Register, LvstrIInv, S!TypeOK, LvstrUnregistered
  <1> QED BY <1>4, <1>8, <1>9 DEF LvstrIInv

-----------------------------------------------------------------------------

LEMMA LvstrLendIInv ==
  ASSUME LvstrAssumptions, LvstrIInv, NEW l \in Lvs, NEW p \in DOMAIN strings, S!Lend(l, p)
  PROVE  LvstrIInv'
  <1>1. p \in StringPlaces /\ strings[p] \in Nat /\ strings[p] <= S!LenMax
    BY DEF S!Lend, LvstrIInv, S!TypeOK
  <1>2. /\ DOMAIN strings' = mine \cup {S!Cstr(k) : k \in S!Owners \ {l}}
        /\ \A q \in DOMAIN strings' : strings'[q] = strings[q]
        /\ DOMAIN strings' \subseteq DOMAIN strings
    BY LvstrRemainingHeap DEF S!Lend
  <1>3. strings' \in [DOMAIN strings' -> Nat]
    BY <1>2 DEF S!Lend, S!Remaining, S!Released, S!Without, S!Restrict, LvstrIInv, S!TypeOK
  <1> QED
    BY <1>1, <1>2, <1>3, LvstrRegisterIInv DEF S!Lend, S!LEASER, S!OWNER

LEMMA LvstrCedeIInv ==
  ASSUME LvstrAssumptions, LvstrIInv, NEW l \in Lvs, NEW p \in DOMAIN strings, S!Cede(l, p)
  PROVE  LvstrIInv'
  <1>1. p \in StringPlaces /\ strings[p] \in Nat /\ strings[p] <= S!LenMax /\ p \in mine
    BY DEF S!Cede, LvstrIInv, S!TypeOK
  <1>2. /\ DOMAIN strings' = mine \cup {S!Cstr(k) : k \in S!Owners \ {l}}
        /\ \A q \in DOMAIN strings' : strings'[q] = strings[q]
        /\ DOMAIN strings' \subseteq DOMAIN strings
    BY LvstrRemainingHeap DEF S!Cede
  <1>3. strings' \in [DOMAIN strings' -> Nat]
    BY <1>2 DEF S!Cede, S!Remaining, S!Released, S!Without, S!Restrict, LvstrIInv, S!TypeOK
  <1>4. p \notin mine' \cup {S!Cstr(k) : k \in S!Owners \ {l}} /\ mine' = mine \ {p}
    BY <1>1 DEF S!Cede, LvstrIInv, S!StringsOwned
  <1> QED
    BY <1>1, <1>2, <1>3, <1>4, LvstrRegisterIInv DEF S!Cede, S!LEASER, S!OWNER

LEMMA LvstrDupIInv ==
  ASSUME LvstrAssumptions, LvstrIInv, NEW l \in Lvs, NEW p \in DOMAIN strings, NEW n \in 0 .. strings[p], S!Dup(l, p, n)
  PROVE  LvstrIInv'
  <1>1. n \in Nat /\ n <= S!LenMax
    BY DEF S!Dup, LvstrIInv, S!TypeOK
  <1>2. PICK q \in StringPlaces \ DOMAIN strings :
          strings' = S!With(S!Remaining(l), q, n) /\ S!Register(l, q, n, S!OWNER)
    BY DEF S!Dup
  <1>3. /\ DOMAIN S!Remaining(l) = mine \cup {S!Cstr(k) : k \in S!Owners \ {l}}
        /\ \A r \in DOMAIN S!Remaining(l) : S!Remaining(l)[r] = strings[r]
        /\ DOMAIN S!Remaining(l) \subseteq DOMAIN strings
    BY LvstrRemainingHeap
  <1>4. /\ DOMAIN strings' = DOMAIN S!Remaining(l) \cup {q}
        /\ strings'[q] = n
        /\ \A r \in DOMAIN S!Remaining(l) : strings'[r] = strings[r]
    BY <1>2, <1>3 DEF S!With
  <1>5. strings' \in [DOMAIN strings' -> Nat]
    BY <1>1, <1>2, <1>3, <1>4 DEF S!With, LvstrIInv, S!TypeOK
  <1>6. q \notin mine \cup {S!Cstr(k) : k \in S!Owners \ {l}} /\ mine' = mine
    BY <1>2, <1>3 DEF S!Dup
  <1> QED
    BY <1>1, <1>2, <1>3, <1>4, <1>5, <1>6, LvstrRegisterIInv DEF S!LEASER, S!OWNER

(* A call that leaves the structures as they are.                          *)
LEMMA LvstrClientMakesIInv ==
  ASSUME LvstrAssumptions, LvstrIInv, NEW p \in StringPlaces, NEW n \in Lengths, S!ClientMakes(p, n)
  PROVE  LvstrIInv'
  <1>1. /\ DOMAIN strings' = DOMAIN strings \cup {p} /\ mine' = mine \cup {p}
        /\ strings' \in [DOMAIN strings' -> Nat]
        /\ \A q \in DOMAIN strings : strings'[q] = strings[q]
        /\ p \notin DOMAIN strings
    BY DEF LvstrAssumptions, S!LengthsAssumption, S!ClientMakes, S!With, LvstrIInv, S!TypeOK
  <1>2. S!TypeOK'
    BY <1>1 DEF S!ClientMakes, LvstrIInv, S!TypeOK
  <1>3. S!StringsOwned'
    BY <1>1, SMTT(30) DEF S!ClientMakes, LvstrIInv, S!StringsOwned, S!Owners, S!Owns, S!Cstr, S!Length
  <1> QED BY <1>2, <1>3 DEF S!ClientMakes, LvstrIInv, LvstrUnregistered

LEMMA LvstrClientFreesIInv ==
  ASSUME LvstrAssumptions, LvstrIInv, NEW p \in StringPlaces, S!ClientFrees(p)
  PROVE  LvstrIInv'
  <1>1. /\ DOMAIN strings' = DOMAIN strings \ {p} /\ mine' = mine \ {p} /\ p \in mine
        /\ strings' \in [DOMAIN strings' -> Nat]
        /\ \A q \in DOMAIN strings' : strings'[q] = strings[q]
    BY DEF S!ClientFrees, S!Without, S!Restrict, LvstrIInv, S!TypeOK
  <1>2. S!TypeOK'
    BY <1>1 DEF S!ClientFrees, LvstrIInv, S!TypeOK
  <1>3. S!StringsOwned'
    BY <1>1, SMTT(30) DEF S!ClientFrees, LvstrIInv, S!StringsOwned, S!Owners, S!Owns, S!Cstr, S!Length
  <1> QED BY <1>2, <1>3 DEF S!ClientFrees, LvstrIInv, LvstrUnregistered

LEMMA LvstrInitEmptyIInv ==
  ASSUME LvstrAssumptions, LvstrIInv, NEW l \in Lvs, S!InitEmpty(l)
  PROVE  LvstrIInv'
  <1>1. /\ lvs'[l].str = NoString
        /\ \A k \in Lvs \ {l} : lvs'[k] = lvs[k]
        /\ lvs' \in [Lvs -> [len : 0 .. SizeMax, str : StringPlaces \cup {NoString}]]
    BY DEF S!InitEmpty, LvstrIInv, S!TypeOK
  <1>2. S!TypeOK'
    BY <1>1 DEF S!InitEmpty, LvstrIInv, S!TypeOK
  <1>3. S!Owners' = S!Owners /\ ~ S!Owns(l)' /\ l \notin S!Owners /\ ready' = ready \cup {l}
    BY <1>1 DEF S!InitEmpty, LvstrIInv, S!TypeOK, S!Owners, S!Owns
  <1>4. S!StringsOwned'
    BY <1>1, <1>3, SMTT(30) DEF S!InitEmpty, LvstrIInv, LvstrUnregistered, S!TypeOK, S!StringsOwned, S!Owners, S!Owns, S!Cstr, S!Length
  <1> QED BY <1>2, <1>4 DEF S!InitEmpty, LvstrIInv, LvstrUnregistered

LEMMA LvstrDropIInv ==
  ASSUME LvstrAssumptions, LvstrIInv, NEW l \in Lvs, S!Drop(l)
  PROVE  LvstrIInv'
  <1>1. /\ DOMAIN strings' = mine \cup {S!Cstr(k) : k \in S!Owners \ {l}}
        /\ \A p \in DOMAIN strings' : strings'[p] = strings[p]
    BY LvstrReleasedHeap DEF S!Drop
  <1>2. strings' \in [DOMAIN strings' -> Nat]
    BY DEF S!Drop, S!Released, S!Without, S!Restrict, LvstrIInv, S!TypeOK
  <1>3. /\ lvs'[l].str = NoString
        /\ \A k \in Lvs \ {l} : lvs'[k] = lvs[k]
        /\ lvs' \in [Lvs -> [len : 0 .. SizeMax, str : StringPlaces \cup {NoString}]]
    BY DEF S!Drop, S!Emptied, LvstrIInv, S!TypeOK
  <1>4. DOMAIN strings' \subseteq DOMAIN strings
    BY DEF S!Drop, S!Released, S!Without, S!Restrict
  <1>5. DOMAIN told' = Lvs /\ told'[l] = S!Nothing /\ \A k \in Lvs \ {l} : told'[k] = told[k]
    BY DEF S!Drop, LvstrIInv, S!TypeOK
  <1>6. S!TypeOK'
    BY <1>2, <1>3, <1>4, <1>5 DEF S!Drop, LvstrIInv, S!TypeOK
  <1>7. S!Owners' = S!Owners \ {l} /\ ~ S!Owns(l)' /\ ready' = ready /\ mine' = mine
    BY <1>3 DEF S!Drop, LvstrIInv, S!TypeOK, S!Owners, S!Owns
  <1>8. \A k \in S!Owners \ {l} : k \in ready /\ S!Cstr(k)' = S!Cstr(k) /\ S!Length(k)' = S!Length(k) /\ S!Owns(k)'
    BY <1>3, <1>7 DEF LvstrIInv, S!TypeOK, S!Owners, S!Owns, S!Cstr, S!Length
  <1>9. ASSUME NEW k \in ready
        PROVE  /\ told'[k] = IF S!Cstr(k)' = NoString THEN S!Nothing
                             ELSE <<S!Cstr(k)', S!Length(k)', IF S!Owns(k)' THEN S!OWNER ELSE S!LEASER>>
               /\ S!Owns(k)' => strings'[S!Cstr(k)'] = S!Length(k)'
    <2>1. CASE k = l
      BY <1>3, <1>5, <1>7, <2>1 DEF S!Cstr
    <2>2. CASE k # l
      <3>1. lvs'[k] = lvs[k] /\ told'[k] = told[k] /\ S!Owns(k)' = S!Owns(k)
        BY <1>3, <1>5, <2>2 DEF LvstrIInv, S!TypeOK, S!Owns
      <3>2. told'[k] = IF S!Cstr(k)' = NoString THEN S!Nothing
                       ELSE <<S!Cstr(k)', S!Length(k)', IF S!Owns(k)' THEN S!OWNER ELSE S!LEASER>>
        BY <3>1 DEF LvstrIInv, S!StringsOwned, S!Cstr, S!Length
      <3>3. ASSUME S!Owns(k)' PROVE strings'[S!Cstr(k)'] = S!Length(k)'
        BY <1>1, <1>8, <2>2, <3>1, <3>3, ZenonT(30) DEF LvstrIInv, S!StringsOwned, S!Owners, S!Cstr, S!Length
      <3> QED BY <3>2, <3>3
    <2> QED BY <2>1, <2>2
  <1>10. \A k \in S!Owners' : S!Cstr(k)' \notin mine' /\ \A m \in S!Owners' : S!Cstr(m)' = S!Cstr(k)' => m = k
    BY <1>7, <1>8 DEF LvstrIInv, S!StringsOwned
  <1>11. DOMAIN strings' = mine' \cup {S!Cstr(k)' : k \in S!Owners'}
    BY <1>1, <1>7, <1>8
  <1>12. S!StringsOwned'
    BY <1>7, <1>9, <1>10, <1>11 DEF S!StringsOwned
  <1>13. LvstrUnregistered'
    BY <1>5, <1>7 DEF LvstrIInv, LvstrUnregistered
  <1> QED BY <1>6, <1>12, <1>13 DEF LvstrIInv

LEMMA LvstrFiniIInv ==
  ASSUME LvstrAssumptions, LvstrIInv, NEW l \in Lvs, S!Fini(l)
  PROVE  LvstrIInv'
  <1>1. /\ DOMAIN strings' = mine \cup {S!Cstr(k) : k \in S!Owners \ {l}}
        /\ \A p \in DOMAIN strings' : strings'[p] = strings[p]
    BY LvstrReleasedHeap DEF S!Fini
  <1>2. strings' \in [DOMAIN strings' -> Nat]
    BY DEF S!Fini, S!Released, S!Without, S!Restrict, LvstrIInv, S!TypeOK
  <1>3. S!TypeOK'
    BY <1>1, <1>2 DEF S!Fini, LvstrIInv, S!TypeOK, S!StringsOwned, S!Owners
  <1>4. S!Owners' = S!Owners \ {l}
    BY DEF S!Fini, S!Owners, S!Owns
  <1>5. S!StringsOwned'
    BY <1>1, <1>4, SMTT(30) DEF S!Fini, LvstrIInv, S!TypeOK, S!StringsOwned, S!Owners, S!Owns, S!Cstr, S!Length
  <1>6. LvstrUnregistered'
    BY DEF S!Fini, LvstrIInv, S!TypeOK, LvstrUnregistered
  <1> QED BY <1>3, <1>5, <1>6 DEF LvstrIInv

LEMMA LvstrNextIInv == LvstrAssumptions /\ LvstrIInv /\ [S!Next]_(S!vars) => LvstrIInv'
  <1> SUFFICES ASSUME LvstrAssumptions, LvstrIInv, [S!Next]_(S!vars) PROVE LvstrIInv'
    OBVIOUS
  <1>1. ASSUME NEW p \in StringPlaces, S!ClientFrees(p) PROVE LvstrIInv'
    BY <1>1, LvstrClientFreesIInv
  <1>2. ASSUME NEW p \in StringPlaces, NEW n \in Lengths, S!ClientMakes(p, n) PROVE LvstrIInv'
    BY <1>2, LvstrClientMakesIInv
  <1>3. ASSUME NEW l \in Lvs, S!InitEmpty(l) PROVE LvstrIInv'
    BY <1>3, LvstrInitEmptyIInv
  <1>4. ASSUME NEW l \in Lvs, S!Drop(l) PROVE LvstrIInv'
    BY <1>4, LvstrDropIInv
  <1>5. ASSUME NEW l \in Lvs, S!Fini(l) PROVE LvstrIInv'
    BY <1>5, LvstrFiniIInv
  <1>6. ASSUME NEW l \in Lvs, NEW p \in DOMAIN strings, S!Lend(l, p) PROVE LvstrIInv'
    BY <1>6, LvstrLendIInv
  <1>7. ASSUME NEW l \in Lvs, NEW p \in DOMAIN strings, S!Cede(l, p) PROVE LvstrIInv'
    BY <1>7, LvstrCedeIInv
  <1>8. ASSUME NEW l \in Lvs, NEW p \in DOMAIN strings, NEW n \in 0 .. strings[p], S!Dup(l, p, n)
        PROVE  LvstrIInv'
    BY <1>8, LvstrDupIInv
  <1>9. CASE UNCHANGED S!vars
    BY <1>9, SMTT(30) DEF S!vars, LvstrIInv, LvstrUnregistered, S!TypeOK, S!StringsOwned, S!Owners, S!Owns, S!Cstr, S!Length
  <1> QED BY <1>1, <1>2, <1>3, <1>4, <1>5, <1>6, <1>7, <1>8, <1>9 DEF S!Next

(* Every string on the heap has exactly one owner that will free it, the   *)
(* client or one lvstr, whatever was lent, ceded, duplicated, dropped or   *)
(* freed, and each lvstr has the string that it was given last, with its   *)
(* length: there is neither leak nor double free.                          *)
THEOREM LvstrStringsOwned ==
  ASSUME LvstrAssumptions
  PROVE  S!Spec => []S!StringsOwned
  <1>1. S!Init => LvstrIInv
    BY LvstrInitIInv
  <1>2. LvstrIInv /\ [S!Next]_(S!vars) => LvstrIInv'
    BY LvstrNextIInv
  <1>3. LvstrIInv => S!StringsOwned
    BY DEF LvstrIInv
  <1> QED BY <1>1, <1>2, <1>3, PTL DEF S!Spec

-----------------------------------------------------------------------------
(* Behaviours of MCAllocs.                                                 *)

About(k) == kind = k

(* What a behaviour is about does not change. *)
LEMMA KindStays ==
  ASSUME [MCNext]_allVars
  PROVE  kind' = kind
  BY DEF MCNext, allVars

(* The steps of a behaviour are those of falloc, or none of its own. *)
LEMMA FallocBehaves == MCSpec => Spec
  <1>1. MCInit => Init
    BY DEF MCInit
  <1>2. [MCNext]_allVars => [Next]_vars
    BY DEF MCNext, allVars
  <1> QED BY <1>1, <1>2, PTL DEF MCSpec, Spec

LEMMA PallocBehaves == MCSpec /\ About("palloc") => P!Spec
  <1>1. MCInit /\ About("palloc") => P!Init
    BY DEF MCInit, About
  <1>2. About("palloc") /\ [MCNext]_allVars => About("palloc")' /\ [P!Next]_(P!vars)
    BY KindStays DEF MCNext, allVars, preVars, pallocVars, P!vars, About
  <1> QED BY <1>1, <1>2, PTL DEF MCSpec, P!Spec

LEMMA LallocBehaves == MCSpec /\ About("lalloc") => L!Spec
  <1>1. MCInit /\ About("lalloc") => L!Init
    BY DEF MCInit, About
  <1>2. About("lalloc") /\ [MCNext]_allVars => About("lalloc")' /\ [L!Next]_(L!vars)
    BY KindStays DEF MCNext, allVars, preVars, lallocVars, L!vars, About
  <1> QED BY <1>1, <1>2, PTL DEF MCSpec, L!Spec

LEMMA LvstrBehaves == MCSpec /\ About("lvstr") => S!Spec
  <1>1. MCInit /\ About("lvstr") => S!Init
    BY DEF MCInit, About
  <1>2. About("lvstr") /\ [MCNext]_allVars => About("lvstr")' /\ [S!Next]_(S!vars)
    BY KindStays DEF MCNext, allVars, lvstrVars, S!vars, About
  <1> QED BY <1>1, <1>2, PTL DEF MCSpec, S!Spec

(* A behaviour that is not about an allocator never is. *)
LEMMA AboutStays ==
  ASSUME NEW k
  PROVE  (~ About(k)) /\ [MCNext]_allVars => ~ About(k)'
  BY KindStays DEF About

LEMMA StaysAway ==
  /\ (~ About("palloc")) /\ [MCNext]_allVars => ~ About("palloc")'
  /\ (~ About("lalloc")) /\ [MCNext]_allVars => ~ About("lalloc")'
  /\ (~ About("lvstr")) /\ [MCNext]_allVars => ~ About("lvstr")'
  BY AboutStays

(* Whatever the client writes into the chunks it holds, the chain of free  *)
(* chunks of palloc, and of lalloc half way through its loops too, goes    *)
(* once through every chunk that the client does not hold.                 *)
THEOREM FreeChainAlwaysSound == MCSpec => []FreeChainSound
  <1>1. P!Spec => []P!FreeChainSound
    BY PallocFreeChain, PallocAssumption DEF PallocAssumptions
  <1>2. L!Spec => []L!FreeChainSound
    BY LallocFreeChain, LallocAssumption DEF LallocAssumptions
  <1>3. (About("palloc") => P!FreeChainSound) /\ (About("lalloc") => L!FreeChainSound)
          => FreeChainSound
    BY DEF About, FreeChainSound
  <1> QED BY <1>1, <1>2, <1>3, PallocBehaves, LallocBehaves, StaysAway, PTL DEF MCSpec

(* The area of palloc goes back to the heap with the allocator when it     *)
(* came from there, and only then; what is left of lalloc when it is down  *)
(* is what the client kept, whichever malloc() failed.                     *)
THEOREM NothingEverLost == MCSpec => []NothingLost
  <1>1. P!Spec => []P!AreaOwned
    BY PallocArea, PallocAssumption DEF PallocAssumptions
  <1>2. L!Spec => []L!NothingLost
    BY LallocNothingLost, LallocAssumption DEF LallocAssumptions
  <1>3. (About("palloc") => P!AreaOwned) /\ (About("lalloc") => L!NothingLost) => NothingLost
    BY DEF About, NothingLost
  <1> QED BY <1>1, <1>2, <1>3, PallocBehaves, LallocBehaves, StaysAway, PTL DEF MCSpec

(* Strings of lvstr have one owner each.                                   *)
THEOREM StringsAlwaysOwned == MCSpec => []StringsOwned
  <1>1. S!Spec => []S!StringsOwned
    BY LvstrStringsOwned, LvstrAssumption DEF LvstrAssumptions
  <1>2. (About("lvstr") => S!StringsOwned) => StringsOwned
    BY DEF About, StringsOwned
  <1> QED BY <1>1, <1>2, LvstrBehaves, StaysAway, PTL DEF MCSpec

(* Palloc and lalloc are the abstract pool of chunks.                      *)
THEOREM PreIsAPool == MCSpec => PrePoolSpec
  <1>1. P!Spec => PrePool!Spec
    BY PallocIsAPool, PallocAssumption DEF PallocAssumptions
  <1>2. L!Spec => PrePool!Spec
    BY LallocIsAPool, LallocAssumption DEF LallocAssumptions
  <1>3. MCInit => PrePool!Init
    BY DEF MCInit, P!Init, L!Init, PrePool!Init
  <1>4. (~ About("palloc")) /\ (~ About("lalloc")) /\ [MCNext]_allVars => [PrePool!Next]_pre_held
    BY DEF MCNext, allVars, preVars, About
  <1> QED
    BY <1>1, <1>2, <1>3, <1>4, PallocBehaves, LallocBehaves, StaysAway, PTL
    DEF MCSpec, PrePoolSpec, PrePool!Spec

=============================================================================
