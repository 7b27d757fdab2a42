---------------------------- MODULE PairingProofs ---------------------------
(***************************************************************************)
(* Proofs about what the pairing heaps share, whatever their nodes point   *)
(* to: sets reached by following links, chains and rings of nodes, the     *)
(* forest that the heaps make, each node given its parent, and the queues  *)
(* that it makes them; then about hprheap and pprheap, whose siblings make *)
(* chains that end with no head.                                           *)
(***************************************************************************)
EXTENDS PairingHeaps, NatFacts

-----------------------------------------------------------------------------
(* The nodes that are one step away from T. *)
Stepped(step, T) == UNION {step[p] : p \in T}

(* What is reached by steps from a set of nodes: the least set that has it *)
(* and that no step leaves.                                                *)
Reached(N, step, base) ==
  {n \in N : \A T \in SUBSET N : base \subseteq T /\ (\A p \in T : step[p] \subseteq T) => n \in T}

(* g[i] is what i steps reach. *)
Grown(N, step, base, k, g) ==
  /\ g \in [0 .. k -> SUBSET N]
  /\ g[0] = base
  /\ \A i \in 1 .. k : g[i] = Stepped(step, g[i - 1])

(* Growing a set step by step is possible. *)
LEMMA Grows ==
  ASSUME NEW N, NEW base \in SUBSET N, NEW step \in [N -> SUBSET N], NEW k \in Nat
  PROVE  \E g : Grown(N, step, base, k, g)
  <1> DEFINE F == [a \in Nat \X SUBSET N |-> Stepped(step, a[2])]
  <1>1. F \in [Nat \X SUBSET N -> SUBSET N]
    BY DEF Stepped
  <1>2. PICK f \in [Nat -> SUBSET N] : Recurs(f, base, F)
    BY <1>1, Recursion
  <1> DEFINE g == [i \in 0 .. k |-> f[i]]
  <1>3. g \in [0 .. k -> SUBSET N]
    OBVIOUS
  <1>4. g[0] = base
    BY <1>2 DEF Recurs
  <1>5. ASSUME NEW i \in 1 .. k PROVE g[i] = Stepped(step, g[i - 1])
    <2>1. i - 1 \in Nat /\ (i - 1) + 1 = i /\ i \in 0 .. k /\ i - 1 \in 0 .. k
      OBVIOUS
    <2>2. f[i] = F[<<i - 1, f[i - 1]>>]
      BY <1>2, <2>1 DEF Recurs
    <2>3. f[i - 1] \in SUBSET N
      BY <1>2, <2>1
    <2> QED BY <2>1, <2>2, <2>3
  <1>6. Grown(N, step, base, k, g)
    BY <1>3, <1>4, <1>5 DEF Grown
  <1> HIDE DEF g
  <1> QED BY <1>6

(* After as many steps as there are nodes nothing is left to reach: as     *)
(* long as a step leaves the set it makes it larger.                       *)
LEMMA GrownReaches ==
  ASSUME NEW N, IsFiniteSet(N), NEW base \in SUBSET N, NEW step \in [N -> SUBSET N],
         \A p \in N : p \in step[p],
         NEW g, g[0] = base,
         \A i \in 1 .. Cardinality(N) :
           g[i - 1] \in SUBSET N => g[i] = Stepped(step, g[i - 1])
  PROVE  g[Cardinality(N)] = Reached(N, step, base)
  <1> DEFINE k == Cardinality(N)
             Stable(S) == \A p \in S : step[p] \subseteq S
             Good(i) == /\ g[i] \in SUBSET N
                        /\ g[i] \subseteq Reached(N, step, base)
                        /\ base \subseteq g[i]
                        /\ Stable(g[i]) \/ Cardinality(g[i]) > i
             Q == {i \in Nat : i <= k => Good(i)}
  <1>0. k \in Nat
    BY FS_CardinalityType
  <1>1. \A S \in SUBSET N : IsFiniteSet(S) /\ Cardinality(S) \in Nat /\ Cardinality(S) <= k
    BY FS_Subset, FS_CardinalityType
  <1>2. 0 \in Q
    <2>1. g[0] \in SUBSET N /\ g[0] \subseteq Reached(N, step, base) /\ base \subseteq g[0]
      BY DEF Reached
    <2>2. CASE base = {}
      BY <2>1, <2>2
    <2>3. CASE base # {}
      <3>1. Cardinality(base) # 0
        BY <1>1, <2>3, FS_EmptySet
      <3> QED BY <1>1, <2>1, <3>1
    <2> QED BY <2>2, <2>3
  <1>3. ASSUME NEW i \in Nat, i \in Q PROVE i + 1 \in Q
    <2> SUFFICES ASSUME i + 1 <= k PROVE Good(i + 1)
      OBVIOUS
    <2>1. Good(i)
      BY <1>0, <1>3
    <2>2. i + 1 \in 1 .. k /\ (i + 1) - 1 = i
      BY <1>0
    <2>3. g[i + 1] = UNION {step[p] : p \in g[i]}
      BY <2>1, <2>2 DEF Stepped
    <2>4. g[i + 1] \in SUBSET N /\ g[i] \subseteq g[i + 1]
      BY <2>1, <2>3
    <2>5. g[i + 1] \subseteq Reached(N, step, base)
      <3> SUFFICES ASSUME NEW x \in g[i + 1], NEW T \in SUBSET N,
                          base \subseteq T, \A p \in T : step[p] \subseteq T
                   PROVE  x \in T
        BY <2>4 DEF Reached
      <3>1. PICK p \in g[i] : x \in step[p]
        BY <2>3
      <3>2. p \in T
        BY <2>1 DEF Reached
      <3> QED BY <3>1, <3>2
    <2>6. Stable(g[i + 1]) \/ Cardinality(g[i + 1]) > i + 1
      <3>1. CASE Stable(g[i])
        <4>1. g[i + 1] = g[i]
          BY <2>1, <2>3, <2>4, <3>1
        <4> QED BY <3>1, <4>1
      <3>2. CASE ~ Stable(g[i])
        <4>1. g[i] # g[i + 1]
          BY <2>1, <2>3, <3>2
        <4>2. Cardinality(g[i]) < Cardinality(g[i + 1])
          BY <1>1, <2>1, <2>4, <4>1, FS_Subset
        <4>3. Cardinality(g[i]) \in Nat /\ Cardinality(g[i + 1]) \in Nat
          BY <1>1, <2>1, <2>4
        <4>4. Cardinality(g[i]) > i
          BY <2>1, <3>2
        <4> HIDE DEF Stable
        <4> QED BY <4>2, <4>3, <4>4
      <3> QED BY <3>1, <3>2
    <2> QED BY <2>1, <2>4, <2>5, <2>6
  <1> HIDE DEF Q
  <1>4. k \in Q
    BY <1>0, <1>2, <1>3, NatSet
  <1>5. Good(k)
    BY <1>0, <1>4 DEF Q
  <1>6. Stable(g[k])
    BY <1>0, <1>1, <1>5
  <1>7. Reached(N, step, base) \subseteq g[k]
    BY <1>5, <1>6 DEF Reached
  <1> QED BY <1>5, <1>7

-----------------------------------------------------------------------------
(* The forest, u being the parent of each node, or None for a root: the    *)
(* children of a node, and that going up from parent to parent ends.       *)
Below(u, p) == {n \in Nodes : u[n] = p}

Rooted(u) == \A T \in SUBSET Nodes : (\A n \in T : u[n] \in T) => T = {}

(* The nodes of the trees rooted in R. *)
Sub(u, R) ==
  {n \in Nodes : \A T \in SUBSET Nodes :
                   R \subseteq T /\ (\A x \in Nodes : u[x] \in T => x \in T) => n \in T}

LEMMA SubFacts ==
  ASSUME NEW u, NEW R \in SUBSET Nodes
  PROVE  /\ Sub(u, R) \in SUBSET Nodes
         /\ R \subseteq Sub(u, R)
         /\ \A x \in Nodes : u[x] \in Sub(u, R) => x \in Sub(u, R)
         /\ \A x \in Sub(u, R) : x \in R \/ u[x] \in Sub(u, R)
  <1>1. Sub(u, R) \in SUBSET Nodes /\ R \subseteq Sub(u, R)
    BY DEF Sub
  <1>2. ASSUME NEW x \in Nodes, u[x] \in Sub(u, R) PROVE x \in Sub(u, R)
    BY <1>2 DEF Sub
  <1>3. ASSUME NEW x \in Sub(u, R), x \notin R, u[x] \notin Sub(u, R) PROVE FALSE
    <2> DEFINE T == Sub(u, R) \ {x}
    <2>1. T \in SUBSET Nodes /\ R \subseteq T
      BY <1>1, <1>3
    <2>2. ASSUME NEW y \in Nodes, u[y] \in T PROVE y \in T
      BY <1>2, <1>3, <2>2
    <2> HIDE DEF T
    <2>3. x \in T
      BY <1>3, <2>1, <2>2 DEF Sub
    <2> QED BY <2>3 DEF T
  <1> QED BY <1>1, <1>2, <1>3

LEMMA SubLeast ==
  ASSUME NEW u, NEW R, NEW T \in SUBSET Nodes, R \subseteq T,
         \A x \in Nodes : u[x] \in T => x \in T
  PROVE  Sub(u, R) \subseteq T
  BY DEF Sub

(* A tree has its root, and the trees of the children of its root. *)
LEMMA SubGrows ==
  ASSUME NEW u, NEW R \in SUBSET Nodes, NEW S \in SUBSET Nodes, R \subseteq Sub(u, S)
  PROVE  Sub(u, R) \subseteq Sub(u, S)
  BY SubFacts, SubLeast

(* The trees of R are those of each of its nodes. *)
LEMMA SubUnion ==
  ASSUME NEW u, NEW R \in SUBSET Nodes
  PROVE  Sub(u, R) = UNION {Sub(u, {n}) : n \in R}
  <1> DEFINE T == UNION {Sub(u, {n}) : n \in R}
  <1>1. \A n \in R : /\ Sub(u, {n}) \in SUBSET Nodes /\ n \in Sub(u, {n})
                     /\ \A x \in Nodes : u[x] \in Sub(u, {n}) => x \in Sub(u, {n})
    <2> SUFFICES ASSUME NEW n \in R
                 PROVE  /\ Sub(u, {n}) \in SUBSET Nodes /\ n \in Sub(u, {n})
                        /\ \A x \in Nodes : u[x] \in Sub(u, {n}) => x \in Sub(u, {n})
      OBVIOUS
    <2>1. PICK S : S = {n}
      OBVIOUS
    <2>2. S \in SUBSET Nodes /\ n \in S
      BY <2>1
    <2>3. /\ Sub(u, S) \in SUBSET Nodes /\ S \subseteq Sub(u, S)
          /\ \A x \in Nodes : u[x] \in Sub(u, S) => x \in Sub(u, S)
      BY <2>2, SubFacts
    <2> QED BY <2>1, <2>2, <2>3
  <1>2. Sub(u, R) \subseteq T
    <2>1. T \in SUBSET Nodes /\ R \subseteq T /\ \A x \in Nodes : u[x] \in T => x \in T
      <3>1. T \in SUBSET Nodes
        BY <1>1
      <3>2. R \subseteq T
        BY <1>1
      <3>3. ASSUME NEW x \in Nodes, u[x] \in T PROVE x \in T
        <4>1. PICK n \in R : u[x] \in Sub(u, {n})
          BY <3>3
        <4>2. x \in Sub(u, {n})
          BY <1>1, <4>1
        <4> QED BY <4>2
      <3> QED BY <3>1, <3>2, <3>3
    <2> HIDE DEF T
    <2> QED BY <2>1, SubLeast
  <1>3. T \subseteq Sub(u, R)
    <2> SUFFICES ASSUME NEW n \in R PROVE Sub(u, {n}) \subseteq Sub(u, R)
      OBVIOUS
    <2>1. PICK S : S = {n}
      OBVIOUS
    <2>2. S \in SUBSET Nodes /\ S \subseteq Sub(u, R)
      BY <2>1, SubFacts
    <2> QED BY <2>1, <2>2, SubGrows
  <1> QED BY <1>2, <1>3

(* Trees whose roots are siblings, or have no parent, have no node in      *)
(* common, and none has the parent of their roots.                         *)
LEMMA SubApart ==
  ASSUME NEW u, Rooted(u), NEW v, NEW R \in SUBSET Nodes, \A r \in R : u[r] = v
  PROVE  v \notin Sub(u, R)
  <1> SUFFICES ASSUME v \in Sub(u, R) PROVE FALSE
    OBVIOUS
  <1>1. \A x \in Sub(u, R) : u[x] \in Sub(u, R)
    BY SubFacts
  <1> QED BY <1>1, SubFacts DEF Rooted

LEMMA SubDisjoint ==
  ASSUME NEW u, Rooted(u), NEW v, NEW R \in SUBSET Nodes, NEW S \in SUBSET Nodes,
         \A r \in R \cup S : u[r] = v, R \cap S = {}
  PROVE  Sub(u, R) \cap Sub(u, S) = {}
  <1>1. v \notin Sub(u, R) /\ v \notin Sub(u, S)
    BY SubApart
  <1> DEFINE T == Sub(u, R) \cap Sub(u, S)
  <1>2. ASSUME NEW x \in T PROVE u[x] \in T
    <2>1. x \in R \/ u[x] \in Sub(u, R)
      BY SubFacts
    <2>2. x \in S \/ u[x] \in Sub(u, S)
      BY SubFacts
    <2> QED BY <1>1, <2>1, <2>2
  <1>3. T \in SUBSET Nodes
    BY SubFacts
  <1> HIDE DEF T
  <1>4. T = {}
    BY <1>2, <1>3 DEF Rooted
  <1> QED BY <1>4 DEF T

(* A set of nodes that has the parents of its nodes but of those of R is   *)
(* in the trees of R.                                                      *)
LEMMA SubCovers ==
  ASSUME NEW u, Rooted(u), NEW R \in SUBSET Nodes, NEW G \in SUBSET Nodes,
         \A n \in G : n \in R \/ u[n] \in G
  PROVE  G \subseteq Sub(u, R)
  <1> DEFINE T == G \ Sub(u, R)
  <1>1. ASSUME NEW n \in T PROVE u[n] \in T
    <2>1. n \notin R /\ u[n] \notin Sub(u, R)
      BY SubFacts
    <2> QED BY <2>1
  <1>2. T \in SUBSET Nodes
    OBVIOUS
  <1> HIDE DEF T
  <1>3. T = {}
    BY <1>1, <1>2 DEF Rooted
  <1> QED BY <1>3 DEF T

(* What steps from parents to children reach are trees. *)
LEMMA SubReached ==
  ASSUME NEW u, NEW R \in SUBSET Nodes, NEW step,
         \A p \in Sub(u, R) : step[p] = {p} \cup Below(u, p)
  PROVE  Reached(Nodes, step, R) = Sub(u, R)
  <1>1. Sub(u, R) \in SUBSET Nodes /\ R \subseteq Sub(u, R)
    BY SubFacts
  <1>2. \A p \in Sub(u, R) : step[p] \subseteq Sub(u, R)
    BY SubFacts DEF Below
  <1>3. Reached(Nodes, step, R) \subseteq Sub(u, R)
    BY <1>1, <1>2 DEF Reached
  <1>4. ASSUME NEW T \in SUBSET Nodes, R \subseteq T, \A p \in T : step[p] \subseteq T
        PROVE  Sub(u, R) \subseteq T
    <2> DEFINE X == T \cap Sub(u, R)
    <2>1. X \in SUBSET Nodes /\ R \subseteq X
      BY <1>1, <1>4
    <2>2. ASSUME NEW x \in Nodes, u[x] \in X PROVE x \in X
      <3>1. x \in Below(u, u[x])
        BY DEF Below
      <3>2. x \in step[u[x]]
        BY <2>2, <3>1
      <3> QED BY <1>2, <1>4, <2>2, <3>2
    <2> HIDE DEF X
    <2>3. Sub(u, R) \subseteq X
      BY <2>1, <2>2, SubLeast
    <2> QED BY <2>3 DEF X
  <1>5. Sub(u, R) \subseteq Reached(Nodes, step, R)
    BY <1>1, <1>4 DEF Reached
  <1> QED BY <1>3, <1>5

-----------------------------------------------------------------------------
(* S is strung by next from c to end: a chain that meets each node of S    *)
(* once.                                                                   *)
Strung(next, c, S, end) ==
  /\ c \in S \cup {end}
  /\ \A x \in S : next[x] \in S \cup {end} /\ next[x] # c
  /\ \A x, y \in S : next[x] = next[y] /\ next[x] # end => x = y
  /\ \A T \in SUBSET S : c \in T \cup {end} /\ (\A x \in T : next[x] \in T \cup {end}) => T = S

LEMMA StrungNothing ==
  ASSUME NEW next, NEW end
  PROVE  Strung(next, end, {}, end)
  BY DEF Strung

LEMMA StrungEmpty ==
  ASSUME NEW next, NEW S, NEW end, Strung(next, end, S, end)
  PROVE  S = {}
  <1>1. {} \in SUBSET S /\ end \in {} \cup {end} /\ \A x \in {} : next[x] \in {} \cup {end}
    OBVIOUS
  <1>2. \A T \in SUBSET S : end \in T \cup {end} /\ (\A x \in T : next[x] \in T \cup {end}) => T = S
    BY DEF Strung
  <1> QED BY <1>1, <1>2, Zenon

(* Other nodes may change. *)
LEMMA StrungKept ==
  ASSUME NEW next, NEW after, NEW c, NEW S, NEW end, Strung(next, c, S, end),
         \A x \in S : after[x] = next[x]
  PROVE  Strung(after, c, S, end)
  BY DEF Strung

(* The first node is looked at, and the chain goes on from the next one. *)
LEMMA StrungNext ==
  ASSUME NEW next, NEW c, NEW S, NEW end, Strung(next, c, S, end), c # end, end \notin S
  PROVE  /\ c \in S
         /\ Strung(next, next[c], S \ {c}, end)
  <1>1. c \in S
    BY DEF Strung
  <1>2. next[c] = end => S = {c}
    <2>1. next[c] = end => {c} = S
      BY <1>1, {c} \in SUBSET S DEF Strung
    <2> QED BY <2>1
  <1>3. next[c] \in (S \ {c}) \cup {end}
    BY <1>1 DEF Strung
  <1>4. \A x \in S \ {c} : next[x] \in (S \ {c}) \cup {end} /\ next[x] # next[c]
    BY <1>1, <1>2 DEF Strung
  <1>5. \A x, y \in S \ {c} : next[x] = next[y] /\ next[x] # end => x = y
    BY DEF Strung
  <1>6. ASSUME NEW T \in SUBSET (S \ {c}), next[c] \in T \cup {end},
               \A x \in T : next[x] \in T \cup {end}
        PROVE  T = S \ {c}
    <2>1. T \cup {c} \in SUBSET S
      BY <1>1
    <2>2. \A x \in T \cup {c} : next[x] \in (T \cup {c}) \cup {end}
      BY <1>6
    <2>3. T \cup {c} = S
      BY <2>1, <2>2 DEF Strung
    <2> QED BY <2>3
  <1> QED BY <1>1, <1>3, <1>4, <1>5, <1>6 DEF Strung

(* A node is put first. *)
LEMMA StrungPush ==
  ASSUME NEW next, NEW after, NEW c, NEW S, NEW end, Strung(next, c, S, end), end \notin S,
         NEW n, n \notin S, n # end, after[n] = c, \A x \in S : after[x] = next[x]
  PROVE  Strung(after, n, S \cup {n}, end)
  <1>1. c \in S \cup {end} /\ c # n
    BY DEF Strung
  <1>2. \A x \in S \cup {n} : after[x] \in (S \cup {n}) \cup {end} /\ after[x] # n
    BY <1>1 DEF Strung
  <1>3. \A x, y \in S \cup {n} : after[x] = after[y] /\ after[x] # end => x = y
    BY <1>1 DEF Strung
  <1>4. ASSUME NEW T \in SUBSET (S \cup {n}), n \in T \cup {end},
               \A x \in T : after[x] \in T \cup {end}
        PROVE  T = S \cup {n}
    <2>1. T \ {n} \in SUBSET S /\ n \in T
      BY <1>4
    <2>2. c \in (T \ {n}) \cup {end}
      BY <1>1, <1>4, <2>1
    <2>3. \A x \in T \ {n} : next[x] \in (T \ {n}) \cup {end}
      BY <1>4, <2>1 DEF Strung
    <2>4. T \ {n} = S
      BY <2>1, <2>2, <2>3 DEF Strung
    <2> QED BY <2>1, <2>4
  <1> QED BY <1>2, <1>3, <1>4 DEF Strung

(* A node that is not the first follows another one, which alone points to *)
(* it, and taking it out leaves the others strung.                         *)
LEMMA StrungPrevious ==
  ASSUME NEW next, NEW c, NEW S, NEW end, Strung(next, c, S, end), end \notin S,
         NEW n \in S, n # c
  PROVE  \E p \in S \ {n} : next[p] = n
  <1> SUFFICES ASSUME \A p \in S \ {n} : next[p] # n PROVE FALSE
    OBVIOUS
  <1>1. c \in (S \ {n}) \cup {end}
    BY DEF Strung
  <1>2. \A x \in S \ {n} : next[x] \in (S \ {n}) \cup {end}
    BY DEF Strung
  <1>3. S \ {n} = S
    BY <1>1, <1>2, S \ {n} \in SUBSET S DEF Strung
  <1> QED BY <1>3

LEMMA StrungRemove ==
  ASSUME NEW next, NEW after, NEW c, NEW S, NEW end, Strung(next, c, S, end), end \notin S,
         NEW p \in S, NEW n \in S, next[p] = n, after[p] = next[n],
         \A x \in S \ {p, n} : after[x] = next[x]
  PROVE  Strung(after, c, S \ {n}, end)
  <1>1. n # end /\ c # n /\ c \in S
    <2>1. c # end
      BY StrungEmpty
    <2> QED BY <2>1 DEF Strung
  <1>2. p # n
    <2> SUFFICES ASSUME p = n PROVE FALSE
      OBVIOUS
    <2>1. \A x \in S \ {n} : next[x] \in (S \ {n}) \cup {end}
      BY <1>1 DEF Strung
    <2>2. S \ {n} = S
      BY <1>1, <2>1, S \ {n} \in SUBSET S DEF Strung
    <2> QED BY <2>2
  <1>3. next[n] \in S \cup {end} /\ next[n] # c
    BY DEF Strung
  <1>4. next[n] # n
    BY <1>1, <1>2 DEF Strung
  <1>5. \A x \in S \ {p, n} : next[x] \in S \cup {end} /\ next[x] # n /\ next[x] # c
                              /\ (next[x] = next[n] => next[x] = end)
    BY <1>1 DEF Strung
  <1>6. \A x \in S \ {n} : after[x] \in (S \ {n}) \cup {end} /\ after[x] # c
    BY <1>3, <1>4, <1>5
  <1>7. ASSUME NEW x \in S \ {n}, NEW y \in S \ {n}, after[x] = after[y], after[x] # end
        PROVE  x = y
    <2>1. CASE x = p
      BY <1>5, <1>7, <2>1
    <2>2. CASE y = p
      BY <1>5, <1>7, <2>2
    <2>3. CASE x # p /\ y # p
      BY <1>7, <2>3 DEF Strung
    <2> QED BY <2>1, <2>2, <2>3
  <1>8. ASSUME NEW T \in SUBSET (S \ {n}), c \in T \cup {end},
               \A x \in T : after[x] \in T \cup {end}
        PROVE  T = S \ {n}
    <2> DEFINE U == IF p \in T THEN T \cup {n} ELSE T
    <2>1. U \in SUBSET S /\ c \in U \cup {end}
      BY <1>8
    <2>2. ASSUME NEW x \in U PROVE next[x] \in U \cup {end}
      <3>1. CASE x = n
        BY <1>8, <3>1
      <3>2. CASE x = p
        BY <1>2, <3>2
      <3>3. CASE x # n /\ x # p
        <4>1. x \in T /\ after[x] = next[x]
          BY <2>1, <3>3
        <4> QED BY <1>8, <4>1
      <3> QED BY <3>1, <3>2, <3>3
    <2> HIDE DEF U
    <2>3. U = S
      BY <2>1, <2>2 DEF Strung
    <2> QED BY <1>8, <2>3 DEF U
  <1> QED BY <1>1, <1>6, <1>7, <1>8 DEF Strung

(* Following a chain reaches its nodes. *)
LEMMA StrungReached ==
  ASSUME NEW next, NEW c, NEW S \in SUBSET Nodes, NEW end, Strung(next, c, S, end),
         end \notin Nodes, NEW step,
         \A x \in S : step[x] = {x} \cup ({next[x]} \cap Nodes)
  PROVE  Reached(Nodes, step, {c} \cap Nodes) = S
  <1>1. {c} \cap Nodes \subseteq S
    BY DEF Strung
  <1>2. \A x \in S : step[x] \subseteq S
    BY DEF Strung
  <1>3. Reached(Nodes, step, {c} \cap Nodes) \subseteq S
    BY <1>1, <1>2 DEF Reached
  <1>4. ASSUME NEW T \in SUBSET Nodes, {c} \cap Nodes \subseteq T,
               \A x \in T : step[x] \subseteq T
        PROVE  S \subseteq T
    <2>1. c \in (S \cap T) \cup {end}
      BY <1>4 DEF Strung
    <2>2. \A x \in S \cap T : next[x] \in (S \cap T) \cup {end}
      BY <1>4 DEF Strung
    <2>3. S \cap T = S
      BY <2>1, <2>2, S \cap T \in SUBSET S DEF Strung
    <2> QED BY <2>3
  <1> QED BY <1>3, <1>4 DEF Reached

-----------------------------------------------------------------------------
(* The nodes of S make a ring with its head h, both ways.                  *)
Ring(next, prev, h, S) ==
  /\ h \notin S
  /\ \A x \in S \cup {h} : /\ next[x] \in S \cup {h} /\ prev[next[x]] = x
                           /\ prev[x] \in S \cup {h} /\ next[prev[x]] = x
  /\ \A T \in SUBSET S : next[h] \in T \cup {h} /\ (\A x \in T : next[x] \in T \cup {h}) => T = S

LEMMA RingAlone ==
  ASSUME NEW next, NEW prev, NEW h, next[h] = h, prev[h] = h
  PROVE  Ring(next, prev, h, {})
  BY DEF Ring

LEMMA RingEmpty ==
  ASSUME NEW next, NEW prev, NEW h, NEW S, Ring(next, prev, h, S)
  PROVE  next[h] = h <=> S = {}
  <1>1. next[h] \in S \cup {h}
    BY DEF Ring
  <1>2. next[h] = h => {} = S
    BY {} \in SUBSET S DEF Ring
  <1> QED BY <1>1, <1>2

LEMMA RingKept ==
  ASSUME NEW next, NEW prev, NEW nx, NEW pv, NEW h, NEW S, Ring(next, prev, h, S),
         \A x \in S \cup {h} : nx[x] = next[x] /\ pv[x] = prev[x]
  PROVE  Ring(nx, pv, h, S)
  BY DEF Ring

(* A ring is followed from the first of its nodes to its head. *)
LEMMA RingStrung ==
  ASSUME NEW next, NEW prev, NEW h, NEW S, Ring(next, prev, h, S)
  PROVE  Strung(next, next[h], S, h)
  <1>1. \A x \in S \cup {h} : next[x] \in S \cup {h} /\ prev[next[x]] = x
    BY DEF Ring
  <1>2. \A x, y \in S \cup {h} : next[x] = next[y] => x = y
    BY <1>1
  <1>3. h \notin S
    BY DEF Ring
  <1>4. \A T \in SUBSET S : next[h] \in T \cup {h} /\ (\A x \in T : next[x] \in T \cup {h}) => T = S
    BY DEF Ring
  <1> QED BY <1>1, <1>2, <1>3, <1>4 DEF Strung

(* A node goes between two of a ring. *)
LEMMA RingInsert ==
  ASSUME NEW next, NEW prev, NEW h, NEW S, Ring(next, prev, h, S),
         NEW n, n \notin S \cup {h}, NEW p \in S \cup {h}, NEW nx, NEW pv,
         nx[p] = n, nx[n] = next[p], pv[next[p]] = n, pv[n] = p,
         \A x \in (S \cup {h}) \ {p} : nx[x] = next[x],
         \A x \in (S \cup {h}) \ {next[p]} : pv[x] = prev[x]
  PROVE  Ring(nx, pv, h, S \cup {n})
  <1> DEFINE R == S \cup {h}
  <1>1. /\ h \notin S
        /\ \A x \in R : /\ next[x] \in R /\ prev[next[x]] = x
                        /\ prev[x] \in R /\ next[prev[x]] = x
    BY DEF Ring
  <1>2. \A x \in R : nx[x] \in R \cup {n} /\ pv[nx[x]] = x
    <2> SUFFICES ASSUME NEW x \in R PROVE nx[x] \in R \cup {n} /\ pv[nx[x]] = x
      OBVIOUS
    <2>1. CASE x = p
      BY <2>1
    <2>2. CASE x # p
      <3>1. nx[x] = next[x] /\ next[x] # next[p] /\ next[x] \in R
        BY <1>1, <2>2
      <3> QED BY <1>1, <3>1
    <2> QED BY <2>1, <2>2
  <1>3. \A x \in R : pv[x] \in R \cup {n} /\ nx[pv[x]] = x
    <2> SUFFICES ASSUME NEW x \in R PROVE pv[x] \in R \cup {n} /\ nx[pv[x]] = x
      OBVIOUS
    <2>1. CASE x = next[p]
      BY <2>1
    <2>2. CASE x # next[p]
      <3>1. pv[x] = prev[x] /\ prev[x] # p /\ prev[x] \in R
        BY <1>1, <2>2
      <3> QED BY <1>1, <3>1
    <2> QED BY <2>1, <2>2
  <1>4. /\ nx[n] \in R /\ pv[nx[n]] = n
        /\ pv[n] \in R /\ nx[pv[n]] = n
    BY <1>1
  <1>5. ASSUME NEW T \in SUBSET (S \cup {n}), nx[h] \in T \cup {h},
               \A x \in T : nx[x] \in T \cup {h}
        PROVE  T = S \cup {n}
    <2> DEFINE U == T \ {n}
    <2>1. U \in SUBSET S
      OBVIOUS
    <2>2. \A x \in U \cup {h} : next[x] \in U \cup {h}
      <3> SUFFICES ASSUME NEW x \in U \cup {h} PROVE next[x] \in U \cup {h}
        OBVIOUS
      <3>1. nx[x] \in T \cup {h} /\ x \in R
        BY <1>5
      <3>2. CASE x = p
        <4>1. n \in T
          BY <3>1, <3>2
        <4>2. nx[n] \in T \cup {h}
          BY <1>5, <4>1
        <4> QED BY <1>1, <3>1, <3>2, <4>2
      <3>3. CASE x # p
        BY <1>1, <3>1, <3>3
      <3> QED BY <3>2, <3>3
    <2>3. U = S
      <3> HIDE DEF U
      <3> QED BY <2>1, <2>2 DEF Ring
    <2>4. n \in T
      <3>1. p \in T \cup {h}
        BY <2>3
      <3> QED BY <1>5, <3>1
    <2> QED BY <2>3, <2>4
  <1>6. (S \cup {n}) \cup {h} = R \cup {n} /\ h \notin S \cup {n}
    BY <1>1
  <1>7. \A x \in (S \cup {n}) \cup {h} : /\ nx[x] \in (S \cup {n}) \cup {h} /\ pv[nx[x]] = x
                                         /\ pv[x] \in (S \cup {n}) \cup {h} /\ nx[pv[x]] = x
    BY <1>2, <1>3, <1>4, <1>6
  <1> QED BY <1>5, <1>6, <1>7 DEF Ring

(* A node leaves a ring. *)
LEMMA RingRemove ==
  ASSUME NEW next, NEW prev, NEW h, NEW S, Ring(next, prev, h, S),
         NEW n \in S, NEW nx, NEW pv,
         nx[prev[n]] = next[n], pv[next[n]] = prev[n],
         \A x \in (S \cup {h}) \ {n, prev[n]} : nx[x] = next[x],
         \A x \in (S \cup {h}) \ {n, next[n]} : pv[x] = prev[x]
  PROVE  Ring(nx, pv, h, S \ {n})
  <1> DEFINE R == S \cup {h}
  <1>1. /\ h \notin S
        /\ \A x \in R : /\ next[x] \in R /\ prev[next[x]] = x
                        /\ prev[x] \in R /\ next[prev[x]] = x
    BY DEF Ring
  <1>2. prev[n] # n /\ next[n] # n
    <2> SUFFICES ASSUME next[n] = n PROVE FALSE
      BY <1>1
    <2>1. \A x \in S \ {n} : next[x] \in (S \ {n}) \cup {h}
      BY <1>1
    <2>2. next[h] \in (S \ {n}) \cup {h}
      BY <1>1
    <2>3. S \ {n} = S
      BY <2>1, <2>2, S \ {n} \in SUBSET S DEF Ring
    <2> QED BY <2>3
  <1>3. ASSUME NEW x \in R \ {n} PROVE nx[x] \in R \ {n} /\ pv[nx[x]] = x
    <2>1. CASE x = prev[n]
      BY <1>1, <1>2, <2>1
    <2>2. CASE x # prev[n]
      <3>1. nx[x] = next[x] /\ next[x] # n /\ next[x] # next[n] /\ next[x] \in R
        BY <1>1, <2>2
      <3> QED BY <1>1, <3>1
    <2> QED BY <2>1, <2>2
  <1>4. ASSUME NEW x \in R \ {n} PROVE pv[x] \in R \ {n} /\ nx[pv[x]] = x
    <2>1. CASE x = next[n]
      BY <1>1, <1>2, <2>1
    <2>2. CASE x # next[n]
      <3>1. pv[x] = prev[x] /\ prev[x] # n /\ prev[x] # prev[n] /\ prev[x] \in R
        BY <1>1, <2>2
      <3> QED BY <1>1, <3>1
    <2> QED BY <2>1, <2>2
  <1>5. ASSUME NEW T \in SUBSET (S \ {n}), nx[h] \in T \cup {h},
               \A x \in T : nx[x] \in T \cup {h}
        PROVE  T = S \ {n}
    <2> DEFINE U == IF prev[n] \in T \cup {h} THEN T \cup {n} ELSE T
    <2>1. U \in SUBSET S
      OBVIOUS
    <2>2. \A x \in U \cup {h} : next[x] \in U \cup {h}
      <3> SUFFICES ASSUME NEW x \in U \cup {h} PROVE next[x] \in U \cup {h}
        OBVIOUS
      <3>1. CASE x = prev[n]
        <4>1. next[x] = n /\ x \in T \cup {h}
          BY <1>1, <1>2, <3>1
        <4> QED BY <3>1, <4>1
      <3>2. CASE x = n
        <4>1. prev[n] \in T \cup {h}
          BY <1>1, <3>2
        <4>2. nx[prev[n]] \in T \cup {h}
          BY <1>5, <4>1
        <4> QED BY <3>2, <4>2
      <3>3. CASE x # n /\ x # prev[n]
        <4>1. x \in T \cup {h} /\ x \in R
          BY <3>3
        <4>2. nx[x] = next[x] /\ nx[x] \in T \cup {h}
          BY <1>5, <3>3, <4>1
        <4> QED BY <4>2
      <3> QED BY <3>1, <3>2, <3>3
    <2>3. U = S
      <3> HIDE DEF U
      <3> QED BY <2>1, <2>2 DEF Ring
    <2> QED BY <2>3
  <1>6. (S \ {n}) \cup {h} = R \ {n} /\ h \notin S \ {n}
    BY <1>1
  <1>7. \A x \in (S \ {n}) \cup {h} : /\ nx[x] \in (S \ {n}) \cup {h} /\ pv[nx[x]] = x
                                      /\ pv[x] \in (S \ {n}) \cup {h} /\ nx[pv[x]] = x
    BY <1>3, <1>4, <1>6
  <1> QED BY <1>5, <1>6, <1>7 DEF Ring

(* w goes k - 1 steps from a on, as long as it stays in X. *)
Walk(next, w, a, X, k) ==
  /\ w \in [1 .. k -> X]
  /\ w[1] = a
  /\ \A i \in 1 .. k - 1 : next[w[i]] \in X => w[i + 1] = next[w[i]]

Walked(next, f, a, X, k) ==
  /\ f \in [1 .. k -> X]
  /\ \A i \in 1 .. k : f[i] = IF i = 1 THEN a
                              ELSE IF next[f[i - 1]] \in X THEN next[f[i - 1]] ELSE f[i - 1]

LEMMA Walks ==
  ASSUME NEW X, NEW next, NEW a \in X, NEW k \in Nat
  PROVE  \E f : Walked(next, f, a, X, k)
  <1> DEFINE F == [p \in Nat \X X |-> IF next[p[2]] \in X THEN next[p[2]] ELSE p[2]]
  <1>1. F \in [Nat \X X -> X]
    OBVIOUS
  <1>2. PICK f \in [Nat -> X] : Recurs(f, a, F)
    BY <1>1, Recursion
  <1> DEFINE g == [i \in 1 .. k |-> f[i - 1]]
  <1>3. g \in [1 .. k -> X]
    OBVIOUS
  <1>4. ASSUME NEW i \in 1 .. k
        PROVE  g[i] = IF i = 1 THEN a ELSE IF next[g[i - 1]] \in X THEN next[g[i - 1]] ELSE g[i - 1]
    <2>1. CASE i = 1
      BY <1>2, <2>1 DEF Recurs
    <2>2. CASE i # 1
      <3>1. i - 2 \in Nat /\ (i - 2) + 1 = i - 1 /\ i - 1 \in 1 .. k /\ (i - 1) - 1 = i - 2
        BY <2>2
      <3>2. f[i - 1] = F[<<i - 2, f[i - 2]>>]
        <4> HIDE DEF F
        <4>1. \A j \in Nat : f[j + 1] = F[<<j, f[j]>>]
          BY <1>2 DEF Recurs
        <4>2. PICK j \in Nat : j = i - 2
          BY <3>1
        <4>3. f[j + 1] = F[<<j, f[j]>>] /\ j + 1 = i - 1
          BY <3>1, <4>1, <4>2
        <4> QED BY <4>2, <4>3
      <3>3. g[i] = f[i - 1] /\ g[i - 1] = f[i - 2] /\ f[i - 2] \in X
        BY <3>1
      <3>4. F[<<i - 2, f[i - 2]>>] = IF next[f[i - 2]] \in X THEN next[f[i - 2]] ELSE f[i - 2]
        BY <3>1, <3>3
      <3> HIDE DEF F, g
      <3> QED BY <2>2, <3>2, <3>3, <3>4
    <2> QED BY <2>1, <2>2
  <1> HIDE DEF g
  <1> QED BY <1>3, <1>4 DEF Walked

(* In a ring it comes back to where it was. *)
LEMMA RingReturns ==
  ASSUME NEW next, NEW prev, NEW h, NEW S, Ring(next, prev, h, S), NEW X, IsFiniteSet(X),
         S \cup {h} \subseteq X, NEW a \in S \cup {h}, NEW w,
         Walk(next, w, a, X, Cardinality(X) + 1)
  PROVE  /\ \A i \in 1 .. Cardinality(X) + 1 : w[i] \in S \cup {h}
         /\ \A i \in 1 .. Cardinality(X) : w[i + 1] = next[w[i]]
         /\ \E d \in 1 .. Cardinality(X) : w[d + 1] = a
  <1>1. PICK k \in Nat : k = Cardinality(X)
    BY FS_CardinalityType
  <1>2. PICK R : R = S \cup {h}
    OBVIOUS
  <1>3. /\ w \in [1 .. k + 1 -> X] /\ w[1] = a /\ a \in R /\ R \subseteq X
        /\ \A i \in 1 .. k : next[w[i]] \in X => w[i + 1] = next[w[i]]
    BY <1>1, <1>2 DEF Walk
  <1>4. \A x \in R : next[x] \in R /\ prev[next[x]] = x
    BY <1>2 DEF Ring
  <1>5. \A i \in 1 .. k + 1 : w[i] \in R
    <2> DEFINE T == {n \in Nat : n + 1 \in 1 .. k + 1 => w[n + 1] \in R}
    <2>1. 0 \in T
      BY <1>3
    <2>2. ASSUME NEW n \in Nat, n \in T PROVE n + 1 \in T
      <3> SUFFICES ASSUME (n + 1) + 1 \in 1 .. k + 1 PROVE w[(n + 1) + 1] \in R
        OBVIOUS
      <3>1. PICK i \in 1 .. k : i = n + 1
        OBVIOUS
      <3>2. w[i] \in R
        BY <2>2, <3>1
      <3>3. w[i + 1] = next[w[i]]
        BY <1>3, <1>4, <3>2
      <3> QED BY <1>4, <3>1, <3>2, <3>3
    <2> HIDE DEF T
    <2>3. \A n \in Nat : n \in T
      BY <2>1, <2>2, NatSet
    <2>4. ASSUME NEW i \in 1 .. k + 1 PROVE w[i] \in R
      <3>1. i - 1 \in Nat /\ (i - 1) + 1 = i
        OBVIOUS
      <3> QED BY <2>3, <3>1 DEF T
    <2> QED BY <2>4
  <1>6. \A i \in 1 .. k : w[i + 1] = next[w[i]] /\ prev[w[i + 1]] = w[i]
    <2> SUFFICES ASSUME NEW i \in 1 .. k PROVE w[i + 1] = next[w[i]] /\ prev[w[i + 1]] = w[i]
      OBVIOUS
    <2>1. w[i] \in R
      BY <1>5
    <2> QED BY <1>3, <1>4, <2>1
  <1>7. PICK i \in 1 .. k + 1, j \in 1 .. k + 1 : i < j /\ w[i] = w[j]
    <2>1. PICK D : D = 1 .. k + 1
      OBVIOUS
    <2>2. IsFiniteSet(D) /\ Cardinality(D) = k + 1
      BY <2>1, FS_Interval
    <2>3. Cardinality(X) < Cardinality(D) /\ w \in [D -> X]
      BY <1>1, <1>3, <2>1, <2>2
    <2>4. \E x, y \in D : x # y /\ w[x] = w[y]
      BY <2>2, <2>3, FS_PigeonHole
    <2> QED BY <2>1, <2>4
  <1>8. w[1] = w[(j - i) + 1]
    <2> DEFINE T == {n \in Nat : n < i => w[i - n] = w[j - n]}
    <2>1. 0 \in T
      BY <1>7
    <2>2. ASSUME NEW n \in Nat, n \in T PROVE n + 1 \in T
      <3> SUFFICES ASSUME n + 1 < i PROVE w[i - (n + 1)] = w[j - (n + 1)]
        OBVIOUS
      <3>1. PICK p \in 1 .. k : p = i - (n + 1)
        BY <1>7
      <3>2. PICK q \in 1 .. k : q = j - (n + 1)
        BY <1>7
      <3>3. w[p + 1] = w[q + 1]
        BY <2>2, <3>1, <3>2
      <3> QED BY <1>6, <3>1, <3>2, <3>3
    <2> HIDE DEF T
    <2>3. \A n \in Nat : n \in T
      BY <2>1, <2>2, NatSet
    <2>4. i - 1 \in Nat /\ i - (i - 1) = 1 /\ j - (i - 1) = (j - i) + 1 /\ i - 1 < i
      OBVIOUS
    <2> QED BY <2>3, <2>4 DEF T
  <1>9. j - i \in 1 .. k
    BY <1>7
  <1> QED BY <1>1, <1>2, <1>3, <1>5, <1>6, <1>8, <1>9

-----------------------------------------------------------------------------
(* The nodes that a heap has while a call works on it: the node that       *)
(* leaves is with them until the call ends.                                *)
Group(h) == content[h] \cup (IF h = heap THEN {node} \cap Nodes ELSE {})

(* Those that have no parent. *)
Tops(h) == ({root[h]} \cup (IF h = heap THEN {node} ELSE {})) \cap Nodes

(* u is a forest of the nodes of each heap apart. *)
Shape(u) ==
  /\ u \in [Nodes -> Nodes \cup {None}]
  /\ Rooted(u)
  /\ \A h \in Heaps : Tops(h) = {n \in Group(h) : u[n] = None}
  /\ \A n \in Nodes : u[n] \in Nodes => \E h \in live : n \in Group(h) /\ u[n] \in Group(h)

(* Heaps are apart, and counted. *)
Apart ==
  /\ \A h \in Heaps \ live : Group(h) = {} /\ root[h] = None
  /\ \A g, h \in Heaps : g # h => Group(g) \cap Group(h) = {}
  /\ \A h \in Heaps : cnt[h] = Cardinality(Group(h))

(* No node precedes its parent, but for the one that a call works on. *)
Ordered(u) == \A n \in Nodes : u[n] \in Nodes /\ u[n] # node => key[u[n]] <= key[n]

(* While the children of a node are merged those that are left, C, those   *)
(* that have been merged, A, and the one that waits remain its children;   *)
(* when the root stays above the node it precedes them.                    *)
Busy(u, C, A) ==
  IF pc = "idle"
  THEN call = "none" /\ heap = None /\ node = None /\ twin = None /\ C = {} /\ A = {}
  ELSE /\ heap \in live /\ node \in Nodes /\ root[heap] \in Nodes
       /\ call # "none"
       /\ call \in {"drop", "demote"} <=> node = root[heap]
       /\ call \in {"update", "demote"} <=> node \in content[heap]
       /\ call \in {"remove", "update"} => \A n \in Below(u, node) : key[root[heap]] <= key[n]
       /\ Below(u, node) = (C \cup A) \cup ({twin} \cap Nodes)
       /\ C \cap A = {} /\ twin \notin C \cup A
       /\ pc = "fold" => twin = None

Forestry(u, C, A) ==
  /\ TypeOK
  /\ Shape(u)
  /\ Apart
  /\ Ordered(u)
  /\ Busy(u, C, A)

(* The node that a join puts below the other one. *)
Loser(k, a, b) == IF Winner(k, a, b) = a THEN b ELSE a

Linking(u, a, b) == [u EXCEPT ![Loser(key, a, b)] = Winner(key, a, b)]

LEMMA JoinChoice ==
  ASSUME TypeOK, NEW a \in Nodes, NEW b \in Nodes, a # b
  PROVE  /\ {Winner(key, a, b), Loser(key, a, b)} = {a, b}
         /\ Winner(key, a, b) # Loser(key, a, b)
         /\ key[Winner(key, a, b)] <= key[Loser(key, a, b)]
  <1>1. key[a] \in Int /\ key[b] \in Int
    BY KeysAssumption DEF TypeOK
  <1>2. CASE key[a] <= key[b]
    <2>1. Winner(key, a, b) = a /\ Loser(key, a, b) = b
      BY <1>2 DEF Winner, Loser
    <2> QED BY <1>2, <2>1
  <1>3. CASE ~ (key[a] <= key[b])
    <2>1. Winner(key, a, b) = b /\ Loser(key, a, b) = a
      BY <1>3 DEF Winner, Loser
    <2>2. key[b] <= key[a]
      BY <1>1, <1>3
    <2> QED BY <2>1, <2>2
  <1> QED BY <1>2, <1>3

LEMMA FiniteNodes ==
  ASSUME NEW S \in SUBSET Nodes
  PROVE  IsFiniteSet(S) /\ Cardinality(S) \in Nat
  BY NodesAssumption, FS_Subset, FS_CardinalityType

(* Nodes may become roots, or go below a root, or below a sibling.         *)
LEMMA RootedLess ==
  ASSUME NEW u, Rooted(u), NEW v, \A x \in Nodes : v[x] = u[x] \/ v[x] \notin Nodes
  PROVE  Rooted(v)
  BY DEF Rooted

LEMMA RootedLink ==
  ASSUME NEW u \in [Nodes -> Nodes \cup {None}], Rooted(u), NEW a \in Nodes, NEW b \in Nodes,
         a # b, u[a] = None \/ u[a] = u[b]
  PROVE  Rooted([u EXCEPT ![b] = a])
  <1> DEFINE v == [u EXCEPT ![b] = a]
  <1> SUFFICES ASSUME NEW T \in SUBSET Nodes, \A n \in T : v[n] \in T PROVE T = {}
    BY DEF Rooted
  <1>1. \A n \in T : u[n] \in T
    <2>1. ASSUME b \in T PROVE u[b] \in T
      <3>1. a \in T /\ u[a] \in T
        BY <2>1
      <3> QED BY <3>1, NoneAssumption
    <2> QED BY <2>1
  <1> QED BY <1>1 DEF Rooted

LEMMA BelowLink ==
  ASSUME NEW u \in [Nodes -> Nodes \cup {None}], NEW a \in Nodes \cup {None}, NEW b \in Nodes, u[b] # a
  PROVE  /\ Below([u EXCEPT ![b] = a], a) = Below(u, a) \cup {b}
         /\ Below([u EXCEPT ![b] = a], u[b]) = Below(u, u[b]) \ {b}
         /\ \A p \in Nodes \cup {None} : p # a /\ p # u[b] =>
              Below([u EXCEPT ![b] = a], p) = Below(u, p)
  BY DEF Below

(* A node has a parent among the nodes of its heap or is a top. *)
LEMMA ShapeFacts ==
  ASSUME NEW u, Shape(u), TypeOK, Apart
  PROVE  /\ \A h \in Heaps : Group(h) \in SUBSET Nodes /\ IsFiniteSet(Group(h))
         /\ \A h \in Heaps : \A n \in Nodes : u[n] \in Nodes =>
              (n \in Group(h) <=> u[n] \in Group(h))
         /\ \A h \in Heaps : \A n \in Group(h) : n \in Tops(h) <=> u[n] = None
         /\ \A n \in Nodes : (\A h \in Heaps : n \notin Group(h)) =>
              u[n] = None /\ Below(u, n) = {}
         /\ \A n \in Nodes : u[n] # n
  <1>1. \A h \in Heaps : Group(h) \in SUBSET Nodes
    BY DEF Group, TypeOK
  <1>2. \A h \in Heaps : IsFiniteSet(Group(h))
    BY <1>1, FiniteNodes
  <1>3. ASSUME NEW h \in Heaps, NEW n \in Nodes, u[n] \in Nodes
        PROVE  n \in Group(h) <=> u[n] \in Group(h)
    <2>1. PICK g \in Heaps : n \in Group(g) /\ u[n] \in Group(g)
      BY <1>3 DEF Shape, TypeOK
    <2> QED BY <2>1 DEF Apart
  <1>4. \A h \in Heaps : \A n \in Group(h) : n \in Tops(h) <=> u[n] = None
    BY DEF Shape
  <1>5. ASSUME NEW n \in Nodes, \A h \in Heaps : n \notin Group(h)
        PROVE  u[n] = None /\ Below(u, n) = {}
    <2>1. u[n] \in Nodes \cup {None}
      BY DEF Shape
    <2>2. \A h \in live : h \in Heaps
      BY DEF TypeOK
    <2>3. u[n] \notin Nodes
      BY <1>5, <2>2 DEF Shape
    <2>4. \A x \in Nodes : u[x] # n
      BY <1>5, <2>2 DEF Shape
    <2> QED BY <2>1, <2>3, <2>4 DEF Below
  <1>6. ASSUME NEW n \in Nodes, u[n] = n PROVE FALSE
    <2>1. \A x \in {n} : u[x] \in {n}
      BY <1>6
    <2> QED BY <2>1, {n} \in SUBSET Nodes DEF Shape, Rooted
  <1> QED BY <1>1, <1>2, <1>3, <1>4, <1>5, <1>6

(* Between calls the tops are the roots of heaps, and each is the least of *)
(* its heap.                                                               *)
LEMMA IdleFacts ==
  ASSUME NEW u, NEW C, NEW A, Forestry(u, C, A), pc = "idle"
  PROVE  /\ \A h \in Heaps : Group(h) = content[h] /\ Tops(h) = {root[h]} \cap Nodes
         /\ \A h \in Heaps : root[h] = None <=> content[h] = {}
         /\ \A h \in Heaps : root[h] # None => root[h] \in content[h] /\ u[root[h]] = None
         /\ \A h \in Heaps : \A n \in content[h] : n # root[h] => u[n] \in content[h]
         /\ \A h \in Heaps : \A n \in content[h] : key[root[h]] <= key[n]
  <1>0. TypeOK /\ Shape(u) /\ Apart /\ Ordered(u) /\ Busy(u, C, A)
    BY DEF Forestry
  <1>1. \A h \in Heaps : Group(h) = content[h] /\ Tops(h) = {root[h]} \cap Nodes
    BY <1>0, NoneAssumption DEF Group, Tops, Busy
  <1>2. \A h \in Heaps : \A n \in content[h] : n = root[h] <=> u[n] = None
    BY <1>0, <1>1, ShapeFacts DEF TypeOK
  <1>3. \A h \in Heaps : root[h] # None => root[h] \in content[h] /\ u[root[h]] = None
    <2>1. \A h \in Heaps : root[h] # None => root[h] \in Tops(h)
      BY <1>0, <1>1 DEF TypeOK
    <2> QED BY <1>0, <1>1, <2>1 DEF Shape
  <1>4. \A h \in Heaps : \A n \in content[h] : n # root[h] => u[n] \in content[h]
    <2> SUFFICES ASSUME NEW h \in Heaps, NEW n \in content[h], n # root[h] PROVE u[n] \in content[h]
      OBVIOUS
    <2>1. n \in Nodes /\ u[n] \in Nodes
      BY <1>0, <1>2 DEF TypeOK, Shape
    <2> QED BY <1>0, <1>1, <2>1, ShapeFacts
  <1>5. ASSUME NEW h \in Heaps, root[h] = None PROVE content[h] = {}
    <2>1. \A n \in content[h] : n # root[h]
      BY <1>0, <1>5, NoneAssumption DEF TypeOK
    <2>2. \A n \in content[h] : u[n] \in content[h]
      BY <1>4, <2>1
    <2>3. content[h] \in SUBSET Nodes
      BY <1>0 DEF TypeOK
    <2> QED BY <1>0, <2>2, <2>3 DEF Shape, Rooted
  <1>6. ASSUME NEW h \in Heaps, NEW m \in content[h] PROVE key[root[h]] <= key[m]
    <2> DEFINE T == {n \in content[h] : ~ (key[root[h]] <= key[n])}
    <2>1. T \in SUBSET Nodes
      BY <1>0 DEF TypeOK
    <2>2. root[h] \in Nodes
      BY <1>0, <1>5, <1>6 DEF TypeOK
    <2>3. ASSUME NEW n \in T PROVE u[n] \in T
      <3>1. n \in Nodes /\ key[n] \in Int /\ key[root[h]] \in Int
        BY <1>0, <2>1, <2>2, KeysAssumption DEF TypeOK
      <3>2. u[n] \in content[h]
        BY <1>4, <3>1
      <3>3. u[n] \in Nodes /\ key[u[n]] \in Int
        BY <1>0, <3>2, KeysAssumption DEF TypeOK
      <3>4. u[n] # node
        BY <1>0, <3>3, NoneAssumption DEF Busy
      <3>5. key[u[n]] <= key[n]
        BY <1>0, <3>1, <3>3, <3>4 DEF Ordered
      <3>6. ~ (key[root[h]] <= key[n])
        OBVIOUS
      <3> QED BY <3>1, <3>2, <3>3, <3>5, <3>6
    <2> HIDE DEF T
    <2>4. T = {}
      BY <1>0, <2>1, <2>3 DEF Shape, Rooted
    <2> QED BY <1>6, <2>4 DEF T
  <1> QED BY <1>1, <1>3, <1>4, <1>5, <1>6, NoneAssumption

-----------------------------------------------------------------------------
(* Calls.  The forest u becomes v. *)
LEMMA ForestryDown ==
  ASSUME Down
  PROVE  Forestry([n \in Nodes |-> None], {}, {})
  <1> DEFINE u == [n \in Nodes |-> None]
  <1>1. TypeOK
    BY NrAssumption DEF Down, TypeOK
  <1>2. \A h \in Heaps : Group(h) = {} /\ Tops(h) = {} /\ cnt[h] = 0
    BY NoneAssumption DEF Down, Group, Tops
  <1>3. Rooted(u)
    BY NoneAssumption DEF Rooted
  <1>4. Shape(u)
    BY <1>2, <1>3, NoneAssumption DEF Shape
  <1>5. Apart
    BY <1>2, FS_EmptySet DEF Apart, Down
  <1>6. Ordered(u)
    BY NoneAssumption DEF Ordered
  <1>7. Busy(u, {}, {})
    BY DEF Busy, Down
  <1> QED BY <1>1, <1>4, <1>5, <1>6, <1>7 DEF Forestry

(* What is known between two steps that leave no call in progress. *)
LEMMA IdleGroups ==
  ASSUME heap = None, node = None
  PROVE  \A h \in Heaps : Group(h) = content[h] /\ Tops(h) = {root[h]} \cap Nodes
  BY NoneAssumption DEF Group, Tops

LEMMA BusyIdle ==
  ASSUME NEW u, NEW C, NEW A, Forestry(u, C, A), pc = "idle"
  PROVE  /\ call = "none" /\ heap = None /\ node = None /\ twin = None
         /\ C = {} /\ A = {}
  BY DEF Forestry, Busy

LEMMA ForestrySetup ==
  ASSUME NEW u, NEW C, NEW A, Forestry(u, C, A), NEW h \in Heaps, NEW memory,
         SetupTo(h, memory),
         NEW v, v = [n \in Nodes |-> IF n \in content[h] THEN None ELSE u[n]]
  PROVE  Forestry(v, {}, {})'
  <1>0. /\ pc = "idle" /\ TypeOK /\ Shape(u) /\ Apart /\ Ordered(u)
        /\ call = "none" /\ heap = None /\ node = None /\ twin = None
    BY BusyIdle DEF SetupTo, Forestry
  <1>1. TypeOK'
    BY <1>0, NrAssumption DEF TypeOK, SetupTo, NoneOut, Locals
  <1>2. /\ \A g \in Heaps : Group(g) = content[g] /\ Tops(g) = {root[g]} \cap Nodes
        /\ \A g \in Heaps : Group(g)' = content'[g] /\ Tops(g)' = {root'[g]} \cap Nodes
    BY <1>0, NoneAssumption DEF Group, Tops, SetupTo, Locals
  <1>3. /\ content' = [content EXCEPT ![h] = {}]
        /\ root' = [root EXCEPT ![h] = None]
        /\ cnt' = [cnt EXCEPT ![h] = 0]
        /\ live' = live \cup {h} /\ key' = key /\ node' = node
    BY DEF SetupTo, Locals
  <1>4. Shape(v)'
    <2>1. v \in [Nodes -> Nodes \cup {None}]
      BY <1>0 DEF Shape
    <2>2. Rooted(v)
      BY <1>0, NoneAssumption, RootedLess DEF Shape
    <2>3. ASSUME NEW g \in Heaps PROVE Tops(g)' = {n \in Group(g)' : v[n] = None}
      <3>1. CASE g = h
        BY <1>0, <1>2, <1>3, <3>1, NoneAssumption DEF TypeOK
      <3>2. CASE g # h
        <4>1. content'[g] = content[g] /\ root'[g] = root[g]
          BY <1>0, <1>3, <3>2 DEF TypeOK
        <4>2. \A n \in content[g] : n \in Nodes /\ n \notin content[h]
          BY <1>0, <1>2, <3>2 DEF Apart, TypeOK
        <4>3. {root[g]} \cap Nodes = {n \in content[g] : u[n] = None}
          BY <1>0, <1>2 DEF Shape
        <4> QED BY <1>2, <4>1, <4>2, <4>3
      <3> QED BY <3>1, <3>2
    <2>4. ASSUME NEW n \in Nodes, v[n] \in Nodes
          PROVE  \E g \in live' : n \in Group(g)' /\ v[n] \in Group(g)'
      <3>1. n \notin content[h] /\ v[n] = u[n]
        BY <2>4, NoneAssumption
      <3>2. PICK g \in live : n \in Group(g) /\ u[n] \in Group(g)
        BY <1>0, <2>4, <3>1 DEF Shape
      <3>3. g \in Heaps /\ g # h
        BY <1>0, <1>2, <3>1, <3>2 DEF TypeOK
      <3>4. Group(g)' = Group(g)
        BY <1>0, <1>2, <1>3, <3>3 DEF TypeOK
      <3> QED BY <1>3, <3>1, <3>2, <3>4
    <2> QED BY <2>1, <2>2, <2>3, <2>4 DEF Shape, Rooted
  <1>5. Apart'
    <2>1. ASSUME NEW g \in Heaps
          PROVE  /\ g = h => Group(g)' = {} /\ cnt'[g] = 0
                 /\ g # h => Group(g)' = Group(g) /\ cnt'[g] = cnt[g] /\ root'[g] = root[g]
      BY <1>0, <1>2, <1>3 DEF TypeOK
    <2>2. Cardinality({}) = 0
      BY FS_EmptySet
    <2> QED BY <1>0, <1>3, <2>1, <2>2 DEF Apart
  <1>6. Ordered(v)'
    BY <1>0, <1>3, NoneAssumption DEF Ordered, Shape
  <1>7. Busy(v, {}, {})'
    BY <1>0 DEF Busy, SetupTo, Locals
  <1> QED BY <1>1, <1>4, <1>5, <1>6, <1>7 DEF Forestry

LEMMA ForestrySetKey ==
  ASSUME NEW u, NEW C, NEW A, Forestry(u, C, A), NEW n \in Nodes, NEW k \in Keys, SetKey(n, k)
  PROVE  Forestry(u, {}, {})'
  <1>0. /\ pc = "idle" /\ TypeOK /\ Shape(u) /\ Apart /\ Ordered(u)
        /\ call = "none" /\ heap = None /\ node = None /\ twin = None
    BY BusyIdle DEF SetKey, Forestry
  <1>1. TypeOK'
    BY <1>0 DEF TypeOK, SetKey, NoneOut, Locals
  <1>2. \A g \in Heaps : Group(g) = content[g] /\ Group(g)' = Group(g) /\ Tops(g)' = Tops(g)
    BY <1>0, NoneAssumption DEF Group, Tops, SetKey, Locals
  <1>3. live' = live /\ cnt' = cnt /\ root' = root /\ key' = [key EXCEPT ![n] = k] /\ node' = None
    BY <1>0 DEF SetKey, Locals
  <1>4. Shape(u)'
    BY <1>0, <1>2, <1>3 DEF Shape, Rooted, TypeOK
  <1>5. Apart'
    BY <1>0, <1>2, <1>3 DEF Apart
  <1>6. Ordered(u)'
    <2>1. u[n] = None /\ Below(u, n) = {}
      BY <1>0, <1>2, ShapeFacts DEF SetKey
    <2>2. ASSUME NEW x \in Nodes, u[x] \in Nodes, u[x] # node' PROVE key'[u[x]] <= key'[x]
      <3>1. x # n /\ u[x] # n
        BY <2>1, <2>2, NoneAssumption DEF Below
      <3> QED BY <1>0, <1>3, <2>2, <3>1 DEF Ordered, TypeOK
    <2> QED BY <2>2 DEF Ordered
  <1>7. Busy(u, {}, {})'
    BY <1>0 DEF Busy, SetKey, Locals
  <1> QED BY <1>1, <1>4, <1>5, <1>6, <1>7 DEF Forestry

(* A node that is in no heap is inserted. *)
LEMMA ForestryInsert ==
  ASSUME NEW u, NEW C, NEW A, Forestry(u, C, A), NEW h \in Heaps, NEW n \in Nodes,
         NEW alone, NEW joined, InsertTo(h, n, alone, joined),
         NEW v, v = IF root[h] = None THEN u ELSE Linking(u, root[h], n)
  PROVE  Forestry(v, {}, {})'
  <1>0. /\ pc = "idle" /\ TypeOK /\ Shape(u) /\ Apart /\ Ordered(u)
        /\ call = "none" /\ heap = None /\ node = None /\ twin = None
        /\ h \in live /\ cnt[h] < Nr
    BY BusyIdle DEF InsertTo, Forestry
  <1>1. /\ content' = [content EXCEPT ![h] = @ \cup {n}]
        /\ root' = [root EXCEPT ![h] = IF root[h] = None THEN n ELSE Winner(key, root[h], n)]
        /\ cnt' = [cnt EXCEPT ![h] = cnt[h] + 1]
        /\ live' = live /\ key' = key
        /\ pc' = pc /\ call' = call /\ heap' = heap /\ node' = node /\ twin' = twin
    <2>1. root' = [root EXCEPT ![h] = IF root[h] = None THEN n ELSE Winner(key, root[h], n)]
      BY DEF InsertTo
    <2>2. cnt' = [cnt EXCEPT ![h] = cnt[h] + 1]
      BY DEF InsertTo
    <2> QED BY <2>1, <2>2 DEF InsertTo, Locals
  <1>2. \A g \in Heaps : n \notin content[g]
    BY DEF InsertTo
  <1>3. /\ \A g \in Heaps : Group(g) = content[g] /\ Tops(g) = {root[g]} \cap Nodes
        /\ \A g \in Heaps : Group(g)' = content'[g] /\ Tops(g)' = {root'[g]} \cap Nodes
    BY <1>0, <1>1, NoneAssumption DEF Group, Tops
  <1>4. /\ \A g \in Heaps \ {h} : Group(g)' = Group(g) /\ Tops(g)' = Tops(g)
                                  /\ cnt'[g] = cnt[g] /\ root'[g] = root[g]
        /\ Group(h)' = Group(h) \cup {n} /\ n \notin Group(h)
    BY <1>0, <1>1, <1>2, <1>3 DEF TypeOK
  <1>5. u[n] = None /\ Below(u, n) = {}
    BY <1>0, <1>2, <1>3, ShapeFacts
  <1>6. root[h] # None => /\ root[h] \in content[h] /\ root[h] \in Nodes /\ root[h] # n
                          /\ u[root[h]] = None
    BY <1>0, <1>2, IdleFacts DEF TypeOK
  <1>7. root[h] = None => content[h] = {}
    BY <1>0, IdleFacts
  <1> DEFINE w == Winner(key, root[h], n)
             l == Loser(key, root[h], n)
  <1>8. root[h] # None => /\ {w, l} = {root[h], n} /\ w # l /\ key[w] <= key[l]
                          /\ v = [u EXCEPT ![l] = w] /\ w \in Nodes /\ l \in Nodes
                          /\ u[w] = None /\ u[l] = None
    BY <1>0, <1>5, <1>6, JoinChoice DEF Linking
  <1> HIDE DEF w, l
  <1>9. TypeOK'
    <2>1. cnt[h] + 1 \in 0 .. Nr
      BY <1>0, NrAssumption DEF TypeOK
    <2>2. root'[h] \in Nodes
      BY <1>0, <1>1, <1>8 DEF TypeOK, w
    <2>3. root' \in [Heaps -> Nodes \cup {None}]
      BY <1>0, <1>1, <2>2 DEF TypeOK
    <2>4. out' \in [Heaps -> Nodes \cup {None}]
      BY DEF InsertTo, NoneOut
    <2> QED BY <1>0, <1>1, <2>1, <2>3, <2>4 DEF TypeOK
  <1>10. Shape(v)'
    <2>1. v \in [Nodes -> Nodes \cup {None}] /\ Rooted(v)
      <3>1. CASE root[h] = None
        BY <1>0, <3>1 DEF Shape
      <3>2. CASE root[h] # None
        <4>1. u \in [Nodes -> Nodes \cup {None}] /\ Rooted(u)
          BY <1>0 DEF Shape
        <4>2. w \in Nodes /\ l \in Nodes /\ w # l /\ u[w] = None /\ v = [u EXCEPT ![l] = w]
          BY <1>8, <3>2
        <4>3. Rooted([u EXCEPT ![l] = w])
          BY <4>1, <4>2, RootedLink
        <4> QED BY <4>1, <4>2, <4>3
      <3> QED BY <3>1, <3>2
    <2>2. \A x \in Nodes : x # n /\ x # root[h] => v[x] = u[x]
      BY <1>0, <1>8 DEF Shape
    <2>3. ASSUME NEW g \in Heaps PROVE Tops(g)' = {x \in Group(g)' : v[x] = None}
      <3>1. CASE g # h
        <4>1. Tops(g)' = {x \in Group(g) : u[x] = None} /\ Group(g)' = Group(g)
          BY <1>0, <1>4, <3>1 DEF Shape
        <4>2. \A x \in Group(g) : x \in Nodes /\ x # n /\ x # root[h]
          BY <1>0, <1>2, <1>3, <1>6, <3>1, NoneAssumption DEF TypeOK, Apart
        <4> QED BY <2>2, <4>1, <4>2
      <3>2. CASE g = h
        <4>1. CASE root[h] = None
          <5>1. Group(h)' = {n} /\ Tops(h)' = {n}
            BY <1>0, <1>1, <1>3, <1>4, <1>7, <4>1 DEF TypeOK
          <5> QED BY <1>5, <3>2, <4>1, <5>1
        <4>2. CASE root[h] # None
          <5>1. Tops(h)' = {w}
            BY <1>0, <1>1, <1>3, <1>8, <4>2 DEF TypeOK, w
          <5>2. \A x \in Group(h) : u[x] = None <=> x = root[h]
            BY <1>0, <1>3, <1>6, <4>2 DEF Shape
          <5>3. \A x \in Group(h)' : v[x] = None <=> x = w
            <6> SUFFICES ASSUME NEW x \in Group(h)' PROVE v[x] = None <=> x = w
              OBVIOUS
            <6>1. x \in Nodes /\ (x \in Group(h) \/ x = n)
              BY <1>0, <1>3, <1>4 DEF TypeOK
            <6>2. CASE x = l
              BY <1>0, <1>8, <4>2, <6>2, NoneAssumption DEF Shape
            <6>3. CASE x # l
              <7>1. v[x] = u[x]
                BY <1>0, <1>8, <4>2, <6>1, <6>3 DEF Shape
              <7>2. u[x] = None => x \in {root[h], n}
                BY <5>2, <6>1
              <7> QED BY <1>8, <4>2, <6>3, <7>1, <7>2
            <6> QED BY <6>2, <6>3
          <5>4. w \in Group(h)'
            BY <1>3, <1>4, <1>6, <1>8, <4>2
          <5> QED BY <3>2, <5>1, <5>3, <5>4
        <4> QED BY <4>1, <4>2
      <3> QED BY <3>1, <3>2
    <2>4. ASSUME NEW x \in Nodes, v[x] \in Nodes
          PROVE  \E g \in live' : x \in Group(g)' /\ v[x] \in Group(g)'
      <3>1. CASE root[h] # None /\ x = l
        <4>1. x \in Group(h)' /\ v[x] \in Group(h)'
          <5>1. w \in Group(h)' /\ l \in Group(h)'
            BY <1>3, <1>4, <1>6, <1>8, <3>1
          <5>2. v[x] = w
            BY <1>0, <1>8, <3>1 DEF Shape
          <5> QED BY <3>1, <5>1, <5>2
        <4> QED BY <1>0, <1>1, <4>1
      <3>2. CASE ~ (root[h] # None /\ x = l)
        <4>1. v[x] = u[x]
          BY <1>0, <1>8, <3>2 DEF Shape
        <4>2. PICK g \in live : x \in Group(g) /\ u[x] \in Group(g)
          BY <1>0, <2>4, <4>1 DEF Shape
        <4>3. g \in Heaps /\ Group(g) \subseteq Group(g)'
          BY <1>0, <1>4, <4>2 DEF TypeOK
        <4> QED BY <1>1, <4>1, <4>2, <4>3
      <3> QED BY <3>1, <3>2
    <2> QED BY <2>1, <2>3, <2>4 DEF Shape, Rooted
  <1>11. Apart'
    <2>1. Cardinality(Group(h)') = Cardinality(Group(h)) + 1
      BY <1>0, <1>4, ShapeFacts, FS_AddElement
    <2>2. cnt'[h] = cnt[h] + 1
      BY <1>0, <1>1 DEF TypeOK
    <2>3. \A g \in Heaps : cnt'[g] = Cardinality(Group(g)')
      BY <1>0, <1>4, <2>1, <2>2 DEF Apart
    <2>4. \A g1, g2 \in Heaps : g1 # g2 => Group(g1)' \cap Group(g2)' = {}
      BY <1>0, <1>2, <1>3, <1>4 DEF Apart
    <2>5. \A g \in Heaps \ live' : Group(g)' = {} /\ root'[g] = None
      BY <1>0, <1>1, <1>4 DEF Apart
    <2> QED BY <2>3, <2>4, <2>5 DEF Apart
  <1>12. Ordered(v)'
    <2> SUFFICES ASSUME NEW x \in Nodes, v[x] \in Nodes PROVE key[v[x]] <= key[x]
      BY <1>1 DEF Ordered
    <2>1. CASE root[h] # None /\ x = l
      BY <1>0, <1>8, <2>1 DEF Shape
    <2>2. CASE ~ (root[h] # None /\ x = l)
      <3>1. v[x] = u[x]
        BY <1>0, <1>8, <2>2 DEF Shape
      <3> QED BY <1>0, <3>1, NoneAssumption DEF Ordered
    <2> QED BY <2>1, <2>2
  <1>13. Busy(v, {}, {})'
    BY <1>0, <1>1 DEF Busy
  <1> QED BY <1>9, <1>10, <1>11, <1>12, <1>13 DEF Forestry

(* A heap is merged into another one. *)
LEMMA ForestryMerge ==
  ASSUME NEW u, NEW C, NEW A, Forestry(u, C, A), NEW r \in Heaps, NEW s \in Heaps,
         NEW joined, MergeTo(r, s, joined),
         NEW v, v = IF root[r] # None /\ root[s] # None THEN Linking(u, root[r], root[s]) ELSE u
  PROVE  Forestry(v, {}, {})'
  <1>0. /\ pc = "idle" /\ TypeOK /\ Shape(u) /\ Apart /\ Ordered(u)
        /\ call = "none" /\ heap = None /\ node = None /\ twin = None
        /\ r \in live /\ s \in live /\ r # s /\ cnt[r] + cnt[s] <= Nr
    BY BusyIdle DEF MergeTo, Forestry
  <1> DEFINE both == root[r] # None /\ root[s] # None
             w == Winner(key, root[r], root[s])
             l == Loser(key, root[r], root[s])
             top == IF both THEN w ELSE IF root[s] = None THEN root[r] ELSE root[s]
  <1>1. /\ content' = [content EXCEPT ![r] = @ \cup content[s], ![s] = {}]
        /\ root' = [root EXCEPT ![r] = top, ![s] = None]
        /\ cnt' = [cnt EXCEPT ![r] = cnt[r] + cnt[s], ![s] = 0]
        /\ live' = live \ {s} /\ key' = key
        /\ pc' = pc /\ call' = call /\ heap' = heap /\ node' = node /\ twin' = twin
    <2>1. root' = [root EXCEPT ![r] = top, ![s] = None]
      BY <1>0 DEF MergeTo
    <2> QED BY <2>1 DEF MergeTo, Locals, CountAfterMerge
  <1>3. /\ \A g \in Heaps : Group(g) = content[g] /\ Tops(g) = {root[g]} \cap Nodes
        /\ \A g \in Heaps : Group(g)' = content'[g] /\ Tops(g)' = {root'[g]} \cap Nodes
    BY <1>0, <1>1, NoneAssumption DEF Group, Tops
  <1>4. /\ \A g \in Heaps \ {r, s} : Group(g)' = Group(g) /\ Tops(g)' = Tops(g)
                                     /\ cnt'[g] = cnt[g] /\ root'[g] = root[g]
        /\ Group(r)' = Group(r) \cup Group(s) /\ Group(s)' = {}
        /\ root'[r] = top /\ root'[s] = None /\ cnt'[r] = cnt[r] + cnt[s] /\ cnt'[s] = 0
    BY <1>0, <1>1, <1>3 DEF TypeOK
  <1>5. \A g \in {r, s} : /\ root[g] # None => root[g] \in Group(g) /\ root[g] \in Nodes
                                               /\ u[root[g]] = None
                          /\ root[g] = None => Group(g) = {}
    BY <1>0, <1>3, IdleFacts DEF TypeOK
  <1>6. Group(r) \cap Group(s) = {}
    BY <1>0 DEF Apart
  <1>7. both => /\ {w, l} = {root[r], root[s]} /\ w # l /\ key[w] <= key[l]
                /\ v = [u EXCEPT ![l] = w] /\ w \in Nodes /\ l \in Nodes
                /\ u[w] = None /\ u[l] = None
                /\ w \in Group(r)' /\ l \in Group(r)'
    BY <1>0, <1>4, <1>5, <1>6, JoinChoice, SMTT(30) DEF Linking
  <1>8. ~ both => v = u
    OBVIOUS
  <1>9. top \in Nodes \cup {None}
    BY <1>0, <1>5, <1>7 DEF TypeOK
  <1>20. both => top = w
    OBVIOUS
  <1>21. ~ both => top = IF root[s] = None THEN root[r] ELSE root[s]
    OBVIOUS
  <1>22. both <=> root[r] # None /\ root[s] # None
    OBVIOUS
  <1> HIDE DEF w, l, top, both
  <1>10. TypeOK'
    <2>1. cnt[r] + cnt[s] \in 0 .. Nr
      BY <1>0, NrAssumption DEF TypeOK
    <2>2. out' \in [Heaps -> Nodes \cup {None}]
      BY DEF MergeTo, NoneOut
    <2>3. 0 \in 0 .. Nr
      BY NrAssumption
    <2>4. root' \in [Heaps -> Nodes \cup {None}]
      BY <1>0, <1>1, <1>9 DEF TypeOK
    <2>5. cnt' \in [Heaps -> 0 .. Nr]
      BY <1>0, <1>1, <2>1, <2>3 DEF TypeOK
    <2>6. content' \in [Heaps -> SUBSET Nodes]
      BY <1>0, <1>1 DEF TypeOK
    <2> QED BY <1>0, <1>1, <2>2, <2>4, <2>5, <2>6 DEF TypeOK
  <1>11. Shape(v)'
    <2>1. v \in [Nodes -> Nodes \cup {None}] /\ Rooted(v)
      <3>1. CASE ~ both
        BY <1>0, <1>8, <3>1 DEF Shape
      <3>2. CASE both
        <4>1. u \in [Nodes -> Nodes \cup {None}] /\ Rooted(u)
          BY <1>0 DEF Shape
        <4>2. w \in Nodes /\ l \in Nodes /\ w # l /\ u[w] = None /\ v = [u EXCEPT ![l] = w]
          BY <1>7, <3>2
        <4>3. Rooted([u EXCEPT ![l] = w])
          BY <4>1, <4>2, RootedLink
        <4> QED BY <4>1, <4>2, <4>3
      <3> QED BY <3>1, <3>2
    <2>2. \A x \in Nodes : ~ (both /\ x = l) => v[x] = u[x]
      BY <1>0, <1>7, <1>8 DEF Shape
    <2>3. ASSUME NEW g \in Heaps PROVE Tops(g)' = {x \in Group(g)' : v[x] = None}
      <3>1. CASE g \notin {r, s}
        <4>1. Tops(g)' = {x \in Group(g) : u[x] = None} /\ Group(g)' = Group(g)
          BY <1>0, <1>4, <3>1 DEF Shape
        <4>2. \A x \in Group(g) : x \in Nodes /\ ~ (both /\ x = l)
          BY <1>0, <1>3, <1>5, <1>7, <1>22, <3>1 DEF TypeOK, Apart
        <4> QED BY <2>2, <4>1, <4>2
      <3>2. CASE g = s
        BY <1>3, <1>4, <3>2, NoneAssumption
      <3>3. CASE g = r
        <4>1. \A y \in {r, s} : \A x \in Group(y) : u[x] = None <=> x = root[y]
          BY <1>0, <1>3, <1>5, ShapeFacts DEF TypeOK
        <4>2. Tops(r)' = {top} \cap Nodes
          BY <1>3, <1>4
        <4>3. CASE both
          <5>1. \A x \in Group(r)' : v[x] = None <=> x = w
            <6> SUFFICES ASSUME NEW x \in Group(r)' PROVE v[x] = None <=> x = w
              OBVIOUS
            <6>1. x \in Nodes /\ (x \in Group(r) \/ x \in Group(s))
              BY <1>0, <1>3, <1>4 DEF TypeOK
            <6>2. CASE x = l
              BY <1>0, <1>7, <4>3, <6>2, NoneAssumption DEF Shape
            <6>3. CASE x # l
              <7>1. v[x] = u[x]
                BY <2>2, <6>1, <6>3
              <7>2. u[x] = None => x \in {root[r], root[s]}
                BY <4>1, <6>1
              <7> QED BY <1>7, <4>3, <6>3, <7>1, <7>2
            <6> QED BY <6>2, <6>3
          <5> QED BY <1>7, <1>20, <3>3, <4>2, <4>3, <5>1
        <4>4. CASE ~ both
          <5>1. \A x \in Group(r)' : u[x] = None <=> x = top
            BY <1>4, <1>5, <1>21, <1>22, <4>1, <4>4
          <5>2. top \in Nodes => top \in Group(r)'
            BY <1>4, <1>5, <1>21, <1>22, <4>4, NoneAssumption
          <5>3. Group(r)' \in SUBSET Nodes
            BY <1>0, <1>3, <1>4 DEF TypeOK
          <5> QED BY <1>8, <3>3, <4>2, <4>4, <5>1, <5>2, <5>3
        <4> QED BY <4>3, <4>4
      <3> QED BY <3>1, <3>2, <3>3
    <2>4. ASSUME NEW x \in Nodes, v[x] \in Nodes
          PROVE  \E g \in live' : x \in Group(g)' /\ v[x] \in Group(g)'
      <3>0. r \in live'
        BY <1>0, <1>1
      <3>1. CASE both /\ x = l
        <4>1. x \in Group(r)' /\ v[x] \in Group(r)'
          BY <1>0, <1>7, <3>1 DEF Shape
        <4> QED BY <3>0, <4>1
      <3>2. CASE ~ (both /\ x = l)
        <4>1. v[x] = u[x]
          BY <2>2, <3>2
        <4>2. PICK g \in live : x \in Group(g) /\ u[x] \in Group(g)
          BY <1>0, <2>4, <4>1 DEF Shape
        <4>3. CASE g \in {r, s}
          <5>1. x \in Group(r)' /\ v[x] \in Group(r)'
            BY <1>4, <4>1, <4>2, <4>3
          <5> QED BY <3>0, <5>1
        <4>4. CASE g \notin {r, s}
          <5>1. g \in Heaps /\ Group(g)' = Group(g) /\ g \in live'
            BY <1>0, <1>1, <1>4, <4>2, <4>4 DEF TypeOK
          <5> QED BY <4>1, <4>2, <5>1
        <4> QED BY <4>3, <4>4
      <3> QED BY <3>1, <3>2
    <2> QED BY <2>1, <2>3, <2>4 DEF Shape, Rooted
  <1>12. Apart'
    <2>1. Cardinality(Group(r)') = Cardinality(Group(r)) + Cardinality(Group(s))
      <3>1. IsFiniteSet(Group(r)) /\ IsFiniteSet(Group(s))
        BY <1>0, ShapeFacts
      <3>2. Cardinality(Group(r)) \in Nat /\ Cardinality(Group(s)) \in Nat
        BY <3>1, FS_CardinalityType
      <3>3. Cardinality(Group(r) \cap Group(s)) = 0
        BY <1>6, FS_EmptySet
      <3>4. Cardinality(Group(r) \cup Group(s))
              = Cardinality(Group(r)) + Cardinality(Group(s)) - Cardinality(Group(r) \cap Group(s))
        BY <3>1, FS_Union, Zenon
      <3> QED BY <1>4, <3>2, <3>3, <3>4
    <2>2. Cardinality({}) = 0
      BY FS_EmptySet
    <2>3. \A g \in Heaps : cnt'[g] = Cardinality(Group(g)')
      BY <1>0, <1>4, <2>1, <2>2 DEF Apart
    <2>4. \A g1, g2 \in Heaps : g1 # g2 => Group(g1)' \cap Group(g2)' = {}
      BY <1>0, <1>4 DEF Apart
    <2>5. \A g \in Heaps \ live' : Group(g)' = {} /\ root'[g] = None
      BY <1>0, <1>1, <1>4 DEF Apart
    <2> QED BY <2>3, <2>4, <2>5 DEF Apart
  <1>13. Ordered(v)'
    <2> SUFFICES ASSUME NEW x \in Nodes, v[x] \in Nodes PROVE key[v[x]] <= key[x]
      BY <1>1 DEF Ordered
    <2>1. CASE both /\ x = l
      BY <1>0, <1>7, <2>1 DEF Shape
    <2>2. CASE ~ (both /\ x = l)
      <3>1. v[x] = u[x]
        BY <1>0, <1>7, <1>8, <2>2 DEF Shape
      <3> QED BY <1>0, <3>1, NoneAssumption DEF Ordered
    <2> QED BY <2>1, <2>2
  <1>14. Busy(v, {}, {})'
    BY <1>0, <1>1 DEF Busy
  <1> QED BY <1>10, <1>11, <1>12, <1>13, <1>14 DEF Forestry

(* The merge of the children of a node of a heap is entered. *)
LEMMA ForestryEnter ==
  ASSUME NEW u, NEW C, NEW A, Forestry(u, C, A), pc = "idle",
         NEW h \in Heaps, h \in live, NEW n \in content[h],
         NEW what \in {"drop", "remove", "update", "demote"},
         what \in {"drop", "demote"} <=> n = root[h],
         NEW memory, NEW first, NEW built, Enter(what, h, n, memory, first, built),
         content' = IF what \in {"drop", "remove"} THEN [content EXCEPT ![h] = @ \ {n}] ELSE content,
         key' \in [Nodes -> Keys], \A x \in Nodes \ {n} : key'[x] = key[x],
         out' \in [Heaps -> Nodes \cup {None}],
         NEW v, v = [u EXCEPT ![n] = None]
  PROVE  Forestry(v, Below(u, n), {})'
  <1>0. /\ TypeOK /\ Shape(u) /\ Apart /\ Ordered(u)
        /\ call = "none" /\ heap = None /\ node = None /\ twin = None
    BY BusyIdle DEF Forestry
  <1>1. /\ live' = live /\ root' = root /\ cnt' = cnt
        /\ pc' = "pair" /\ call' = what /\ heap' = h /\ node' = n /\ twin' = None
    BY DEF Enter
  <1>2. n \in Nodes /\ u \in [Nodes -> Nodes \cup {None}] /\ h \in live
    BY <1>0 DEF TypeOK, Shape
  <1>3. /\ \A g \in Heaps : Group(g) = content[g] /\ Tops(g) = {root[g]} \cap Nodes
        /\ root[h] \in content[h] /\ root[h] \in Nodes /\ u[root[h]] = None
        /\ \A m \in content[h] : key[root[h]] <= key[m]
    BY <1>0, <1>2, IdleFacts DEF TypeOK
  <1>4. /\ \A g \in Heaps : Group(g)' = Group(g)
        /\ \A g \in Heaps \ {h} : Tops(g)' = Tops(g)
        /\ Tops(h)' = {root[h], n}
    BY <1>0, <1>1, <1>2, <1>3 DEF Group, Tops, TypeOK
  <1>5. \A x \in Nodes : v[x] = IF x = n THEN None ELSE u[x]
    BY <1>2
  <1>6. Below(v, n) = Below(u, n)
    <2>1. u[n] # n
      BY <1>0, <1>2, ShapeFacts
    <2> QED BY <1>2, <1>5, <2>1, NoneAssumption DEF Below
  <1>7. TypeOK'
    BY <1>0, <1>1, <1>2, NoneAssumption DEF TypeOK
  <1>8. Shape(v)'
    <2>1. v \in [Nodes -> Nodes \cup {None}]
      BY <1>2
    <2>2. Rooted(v)
      BY <1>0, <1>5, NoneAssumption, RootedLess DEF Shape
    <2>3. ASSUME NEW g \in Heaps PROVE Tops(g)' = {x \in Group(g)' : v[x] = None}
      <3>1. Tops(g) = {x \in Group(g) : u[x] = None}
        BY <1>0 DEF Shape
      <3>2. CASE g = h
        <4>1. \A x \in content[h] : x \in Nodes /\ (u[x] = None <=> x = root[h])
          BY <1>0, <1>3, <3>1, <3>2 DEF TypeOK
        <4>2. \A x \in content[h] : v[x] = None <=> x \in {root[h], n}
          BY <1>5, <4>1
        <4> QED BY <1>3, <1>4, <3>2, <4>2
      <3>3. CASE g # h
        <4>1. \A x \in Group(g) : x \in Nodes /\ x # n
          BY <1>0, <1>3, <3>3 DEF TypeOK, Apart
        <4> QED BY <1>4, <1>5, <3>1, <3>3, <4>1
      <3> QED BY <3>2, <3>3
    <2>4. ASSUME NEW x \in Nodes, v[x] \in Nodes
          PROVE  \E g \in live' : x \in Group(g)' /\ v[x] \in Group(g)'
      <3>1. v[x] = u[x]
        BY <1>5, <2>4, NoneAssumption
      <3>2. PICK g \in live : x \in Group(g) /\ u[x] \in Group(g)
        BY <1>0, <2>4, <3>1 DEF Shape
      <3>3. g \in Heaps
        BY <1>0 DEF TypeOK
      <3> QED BY <1>1, <1>4, <3>1, <3>2, <3>3
    <2> QED BY <2>1, <2>2, <2>3, <2>4 DEF Shape, Rooted
  <1>9. Apart'
    BY <1>0, <1>1, <1>4 DEF Apart
  <1>10. Ordered(v)'
    <2> SUFFICES ASSUME NEW x \in Nodes, v[x] \in Nodes, v[x] # n PROVE key'[v[x]] <= key'[x]
      BY <1>1 DEF Ordered
    <2>1. x # n /\ v[x] = u[x]
      BY <1>5, NoneAssumption
    <2>2. key[u[x]] <= key[x]
      BY <1>0, <2>1, NoneAssumption DEF Ordered
    <2> QED BY <2>1, <2>2
  <1>11. Busy(v, Below(u, n), {})'
    <2>1. n = root[h] \/ \A y \in Below(v, n) : key'[root[h]] <= key'[y]
      <3> SUFFICES ASSUME n # root[h], NEW y \in Below(u, n) PROVE key'[root[h]] <= key'[y]
        BY <1>6
      <3>1. y \in Nodes /\ y # n /\ u[y] = n
        BY <1>0, ShapeFacts DEF Below
      <3>2. y \in content[h]
        BY <1>0, <1>2, <1>3, <3>1, ShapeFacts
      <3> QED BY <1>3, <3>1, <3>2
    <2>2. what \in {"update", "demote"} <=> n \in content'[h]
      BY <1>0 DEF TypeOK
    <2>3. Below(v, n) = (Below(u, n) \cup {}) \cup ({None} \cap Nodes)
      BY <1>6, NoneAssumption
    <2>4. Below(u, n) \cap {} = {} /\ None \notin Below(u, n) \cup {}
      BY NoneAssumption DEF Below
    <2>5. /\ heap' \in live' /\ node' \in Nodes /\ root'[heap'] \in Nodes
          /\ call' # "none" /\ pc' = "pair"
          /\ call' \in {"drop", "demote"} <=> node' = root'[heap']
          /\ call' \in {"update", "demote"} <=> node' \in content'[heap']
      BY <1>1, <1>2, <1>3, <2>2
    <2>6. call' \in {"remove", "update"} =>
            \A y \in Below(v, node') : key'[root'[heap']] <= key'[y]
      BY <1>1, <2>1
    <2> QED BY <1>1, <2>3, <2>4, <2>5, <2>6 DEF Busy
  <1> QED BY <1>7, <1>8, <1>9, <1>10, <1>11 DEF Forestry

(* The key of a node is lowered, and its parent still does not follow it.  *)
LEMMA ForestryRekey ==
  ASSUME NEW u, NEW C, NEW A, Forestry(u, C, A), NEW h \in Heaps, NEW n \in Nodes,
         NEW k \in Keys, Rekeying(h, n, k), k <= key[n],
         UNCHANGED <<live, root, cnt, links, Locals>>,
         u[n] \in Nodes => key'[u[n]] <= key'[n]
  PROVE  Forestry(u, {}, {})'
  <1>0. /\ pc = "idle" /\ TypeOK /\ Shape(u) /\ Apart /\ Ordered(u)
        /\ call = "none" /\ heap = None /\ node = None /\ twin = None
    BY BusyIdle DEF Rekeying, Forestry
  <1>1. TypeOK'
    BY <1>0 DEF TypeOK, Rekeying, NoneOut, Locals
  <1>2. \A g \in Heaps : Group(g)' = Group(g) /\ Tops(g)' = Tops(g)
    BY <1>0 DEF Group, Tops, Rekeying, Locals
  <1>3. live' = live /\ cnt' = cnt /\ root' = root /\ key' = [key EXCEPT ![n] = k] /\ node' = None
    BY <1>0 DEF Rekeying, Locals
  <1>4. Shape(u)'
    BY <1>0, <1>2, <1>3 DEF Shape, Rooted, TypeOK
  <1>5. Apart'
    BY <1>0, <1>2, <1>3 DEF Apart
  <1>6. Ordered(u)'
    <2> SUFFICES ASSUME NEW x \in Nodes, u[x] \in Nodes PROVE key'[u[x]] <= key'[x]
      BY DEF Ordered
    <2>1. key[u[x]] <= key[x] /\ u[x] # x
      BY <1>0, NoneAssumption, ShapeFacts DEF Ordered
    <2>2. CASE x = n
      BY <2>2
    <2>3. CASE u[x] = n /\ x # n
      <3>1. k \in Int /\ key[n] \in Int /\ key[x] \in Int
        BY <1>0, KeysAssumption DEF TypeOK
      <3>2. key'[x] = key[x] /\ key'[u[x]] = k
        BY <1>0, <1>3, <2>3 DEF TypeOK
      <3> QED BY <2>1, <2>3, <3>1, <3>2
    <2>4. CASE u[x] # n /\ x # n
      <3>1. key'[x] = key[x] /\ key'[u[x]] = key[u[x]]
        BY <1>0, <1>3, <2>4 DEF TypeOK
      <3> QED BY <2>1, <3>1
    <2> QED BY <2>2, <2>3, <2>4
  <1>7. Busy(u, {}, {})'
    BY <1>0 DEF Busy, Rekeying, Locals
  <1> QED BY <1>1, <1>4, <1>5, <1>6, <1>7 DEF Forestry

(* A step of a pass moves children from what is left to what is built, and *)
(* may put one below another.                                              *)
LEMMA ForestryPass ==
  ASSUME NEW u, NEW C, NEW A, Forestry(u, C, A), pc # "idle",
         UNCHANGED <<live, root, cnt, key, content, out, call, heap, node>>,
         pc' \in {"pair", "fold"}, twin' \in Nodes \cup {None}, pc' = "fold" => twin' = None,
         NEW a, NEW b, NEW v,
         \/ v = u
         \/ a \in Below(u, node) /\ b \in Below(u, node) /\ a # b /\ v = Linking(u, a, b),
         NEW D, NEW B, Below(v, node) = (D \cup B) \cup ({twin'} \cap Nodes),
         D \cap B = {}, twin' \notin D \cup B
  PROVE  Forestry(v, D, B)'
  <1>0. TypeOK /\ Shape(u) /\ Apart /\ Ordered(u) /\ Busy(u, C, A)
    BY DEF Forestry
  <1>1. /\ heap \in live /\ heap \in Heaps /\ node \in Nodes /\ call # "none"
        /\ u \in [Nodes -> Nodes \cup {None}]
    BY <1>0 DEF Busy, TypeOK, Shape
  <1>2. /\ live' = live /\ root' = root /\ cnt' = cnt /\ key' = key /\ content' = content
        /\ out' = out /\ call' = call /\ heap' = heap /\ node' = node
    OBVIOUS
  <1>3. \A g \in Heaps : Group(g)' = Group(g) /\ Tops(g)' = Tops(g)
    BY <1>2 DEF Group, Tops
  <1> DEFINE w == Winner(key, a, b)
             l == Loser(key, a, b)
  <1>4. \/ v = u
        \/ /\ w # l /\ key[w] <= key[l] /\ w \in Below(u, node) /\ l \in Below(u, node)
           /\ v = [u EXCEPT ![l] = w]
    <2> SUFFICES ASSUME a \in Below(u, node), b \in Below(u, node), a # b, v = Linking(u, a, b)
                 PROVE  /\ w # l /\ key[w] <= key[l] /\ w \in Below(u, node) /\ l \in Below(u, node)
                        /\ v = [u EXCEPT ![l] = w]
      OBVIOUS
    <2>1. a \in Nodes /\ b \in Nodes
      BY DEF Below
    <2>2. {w, l} = {a, b} /\ w # l /\ key[w] <= key[l]
      BY <1>0, <2>1, JoinChoice
    <2> QED BY <2>2 DEF Linking
  <1> HIDE DEF w, l
  <1>5. \A x \in Nodes :
          \/ v[x] = u[x]
          \/ u[x] = node /\ v[x] = w /\ x = l /\ w \in Nodes /\ l \in Nodes /\ u[w] = node /\ key[w] <= key[l]
    BY <1>1, <1>4 DEF Below
  <1>6. TypeOK'
    BY <1>0, <1>2, NoneAssumption DEF TypeOK
  <1>7. Shape(v)'
    <2>1. v \in [Nodes -> Nodes \cup {None}] /\ Rooted(v)
      <3>1. CASE v = u
        BY <1>0, <3>1 DEF Shape
      <3>2. CASE v # u
        <4>1. w \in Nodes /\ l \in Nodes /\ w # l /\ u[w] = u[l] /\ v = [u EXCEPT ![l] = w]
          BY <1>4, <3>2 DEF Below
        <4>2. Rooted(u)
          BY <1>0 DEF Shape
        <4>3. Rooted([u EXCEPT ![l] = w])
          BY <1>1, <4>1, <4>2, RootedLink
        <4> QED BY <1>1, <4>1, <4>3
      <3> QED BY <3>1, <3>2
    <2>2. ASSUME NEW g \in Heaps PROVE Tops(g)' = {x \in Group(g)' : v[x] = None}
      <3>1. Tops(g) = {x \in Group(g) : u[x] = None}
        BY <1>0 DEF Shape
      <3>2. \A x \in Group(g) : x \in Nodes
        BY <1>0, ShapeFacts
      <3>3. \A x \in Group(g) : v[x] = None <=> u[x] = None
        BY <1>1, <1>5, <3>2, NoneAssumption
      <3> QED BY <1>3, <3>1, <3>3
    <2>3. ASSUME NEW x \in Nodes, v[x] \in Nodes
          PROVE  \E g \in live' : x \in Group(g)' /\ v[x] \in Group(g)'
      <3>1. CASE v[x] = u[x]
        <4>1. PICK g \in live : x \in Group(g) /\ u[x] \in Group(g)
          BY <1>0, <2>3, <3>1 DEF Shape
        <4>2. g \in Heaps
          BY <1>0 DEF TypeOK
        <4> QED BY <1>2, <1>3, <3>1, <4>1, <4>2
      <3>2. CASE v[x] # u[x]
        <4>1. u[x] = node /\ v[x] = w /\ u[w] = node /\ w \in Nodes
          BY <1>5, <3>2
        <4>2. node \in Group(heap)
          BY <1>1 DEF Group
        <4>3. x \in Group(heap) /\ w \in Group(heap)
          BY <1>0, <1>1, <4>1, <4>2, ShapeFacts
        <4> QED BY <1>1, <1>2, <1>3, <4>1, <4>3
      <3> QED BY <3>1, <3>2
    <2> QED BY <2>1, <2>2, <2>3 DEF Shape, Rooted
  <1>8. Apart'
    BY <1>0, <1>2, <1>3 DEF Apart
  <1>9. Ordered(v)'
    BY <1>0, <1>2, <1>5 DEF Ordered
  <1>10. Below(v, node) \subseteq Below(u, node)
    <2>1. ~ (w = node /\ w \in Nodes /\ u[w] = node)
      BY <1>0, ShapeFacts
    <2> QED BY <1>5, <2>1 DEF Below
  <1>11. Busy(v, D, B)'
    BY <1>0, <1>2, <1>10 DEF Busy
  <1> QED BY <1>6, <1>7, <1>8, <1>9, <1>11 DEF Forestry

(* The merge ends: the node has left its heap, or it has been joined with  *)
(* the rest of it, and the forest has changed within that heap.            *)
LEMMA ForestryEnds ==
  ASSUME NEW u, NEW C, NEW A, Forestry(u, C, A), pc # "idle",
         Return, UNCHANGED <<live, key, content, out>>,
         NEW t \in Nodes \cup {None}, root' = [root EXCEPT ![heap] = t],
         cnt' = IF call \in {"drop", "remove"} THEN [cnt EXCEPT ![heap] = @ - 1] ELSE cnt,
         NEW v \in [Nodes -> Nodes \cup {None}], Rooted(v),
         \A x \in Nodes : \/ v[x] = u[x]
                          \/ x \in Group(heap) /\ v[x] \in content[heap] \cup {None},
         {t} \cap Nodes = {x \in content[heap] : v[x] = None},
         node \notin content[heap] => v[node] = None /\ Below(v, node) = {},
         \A x \in Nodes : v[x] \in Nodes /\ (v[x] # u[x] \/ v[x] = node) => key[v[x]] <= key[x]
  PROVE  Forestry(v, {}, {})'
  <1>0. TypeOK /\ Shape(u) /\ Apart /\ Ordered(u) /\ Busy(u, C, A)
    BY DEF Forestry
  <1>1. /\ heap \in live /\ heap \in Heaps /\ node \in Nodes
        /\ u \in [Nodes -> Nodes \cup {None}]
        /\ call \in {"drop", "remove", "update", "demote"}
        /\ node \notin content[heap] <=> call \in {"drop", "remove"}
    BY <1>0 DEF Busy, TypeOK, Shape
  <1>2. /\ live' = live /\ key' = key /\ content' = content /\ out' = out
        /\ call' = "none" /\ heap' = None /\ node' = None /\ twin' = None /\ pc' = "idle"
    BY DEF Return
  <1>3. \A g \in Heaps : Group(g)' = content[g] /\ Tops(g)' = {root'[g]} \cap Nodes
    BY <1>2, NoneAssumption DEF Group, Tops
  <1>4. /\ \A g \in Heaps \ {heap} : Group(g) = content[g] /\ Tops(g) = {root[g]} \cap Nodes
        /\ Group(heap) = content[heap] \cup {node}
    BY <1>1 DEF Group, Tops
  <1>5. Cardinality(Group(heap)) = cnt[heap] /\ cnt[heap] \in Nat /\ cnt[heap] <= Nr
    BY <1>0, <1>1, NrAssumption DEF Apart, TypeOK
  <1>6. Cardinality(content[heap]) = cnt'[heap] /\ cnt'[heap] \in 0 .. Nr
    <2>1. CASE call \in {"drop", "remove"}
      <3>1. node \notin content[heap] /\ IsFiniteSet(content[heap]) /\ Cardinality(content[heap]) \in Nat
        BY <1>0, <1>1, <2>1, FiniteNodes DEF TypeOK
      <3>2. Cardinality(Group(heap)) = Cardinality(content[heap]) + 1
        BY <1>4, <3>1, FS_AddElement
      <3>3. cnt'[heap] = cnt[heap] - 1
        BY <1>0, <1>1, <2>1 DEF TypeOK
      <3> QED BY <1>5, <3>1, <3>2, <3>3, NrAssumption
    <2>2. CASE call \notin {"drop", "remove"}
      <3>1. Group(heap) = content[heap] /\ cnt' = cnt
        BY <1>1, <1>4, <2>2
      <3> QED BY <1>5, <3>1, NrAssumption
    <2> QED BY <2>1, <2>2
  <1>7. \A g \in Heaps \ {heap} : cnt'[g] = cnt[g] /\ root'[g] = root[g]
    BY <1>0 DEF TypeOK
  <1>8. cnt' \in [Heaps -> 0 .. Nr]
    <2>1. cnt' = [cnt EXCEPT ![heap] = cnt'[heap]]
      BY <1>0, <1>1 DEF TypeOK
    <2>2. cnt \in [Heaps -> 0 .. Nr]
      BY <1>0 DEF TypeOK
    <2> QED BY <1>6, <2>1, <2>2
  <1>9. TypeOK'
    BY <1>0, <1>2, <1>8 DEF TypeOK
  <1>10. Shape(v)'
    <2>1. ASSUME NEW g \in Heaps PROVE Tops(g)' = {x \in Group(g)' : v[x] = None}
      <3>1. CASE g = heap
        <4>1. root'[g] = t
          BY <1>0, <3>1 DEF TypeOK
        <4> QED BY <1>3, <3>1, <4>1
      <3>2. CASE g # heap
        <4>1. Tops(g) = {x \in Group(g) : u[x] = None}
          BY <1>0 DEF Shape
        <4>2. \A x \in Group(g) : x \in Nodes /\ x \notin Group(heap)
          BY <1>0, <1>1, <3>2, ShapeFacts DEF Apart
        <4>3. \A x \in Group(g) : v[x] = u[x]
          BY <4>2
        <4> QED BY <1>3, <1>4, <1>7, <3>2, <4>1, <4>3
      <3> QED BY <3>1, <3>2
    <2>2. ASSUME NEW x \in Nodes, v[x] \in Nodes
          PROVE  \E g \in live' : x \in Group(g)' /\ v[x] \in Group(g)'
      <3>0. node \notin content[heap] => x # node /\ v[x] # node
        BY <2>2, NoneAssumption DEF Below
      <3>1. CASE v[x] = u[x]
        <4>1. PICK g \in live : x \in Group(g) /\ u[x] \in Group(g)
          BY <1>0, <2>2, <3>1 DEF Shape
        <4>2. g \in Heaps
          BY <1>0 DEF TypeOK
        <4>3. x \in content[g] /\ u[x] \in content[g]
          BY <1>4, <3>0, <3>1, <4>1, <4>2
        <4> QED BY <1>2, <1>3, <3>1, <4>2, <4>3
      <3>2. CASE v[x] # u[x]
        <4>1. x \in content[heap] /\ v[x] \in content[heap]
          BY <1>4, <2>2, <3>0, <3>2, NoneAssumption
        <4> QED BY <1>1, <1>2, <1>3, <4>1
      <3> QED BY <3>1, <3>2
    <2> QED BY <2>1, <2>2 DEF Shape, Rooted
  <1>11. Apart'
    <2>1. \A g \in Heaps : cnt'[g] = Cardinality(Group(g)')
      BY <1>0, <1>3, <1>4, <1>6, <1>7 DEF Apart
    <2>2. \A g \in Heaps : Group(g)' \subseteq Group(g)
      BY <1>3, <1>4
    <2>3. \A g \in Heaps \ live' : Group(g)' = {} /\ root'[g] = None
      BY <1>0, <1>1, <1>2, <1>7, <2>2 DEF Apart
    <2> QED BY <1>0, <2>1, <2>2, <2>3 DEF Apart
  <1>12. Ordered(v)'
    <2> SUFFICES ASSUME NEW x \in Nodes, v[x] \in Nodes PROVE key[v[x]] <= key[x]
      BY <1>2 DEF Ordered
    <2>1. CASE v[x] # u[x] \/ v[x] = node
      BY <2>1
    <2>2. CASE v[x] = u[x] /\ v[x] # node
      BY <1>0, <2>2 DEF Ordered
    <2> QED BY <2>1, <2>2
  <1>13. Busy(v, {}, {})'
    BY <1>2 DEF Busy
  <1> QED BY <1>9, <1>10, <1>11, <1>12, <1>13 DEF Forestry

(* What is known when the pass ends: the children of the node have made at *)
(* most one, top.                                                          *)
LEMMA PassEnded ==
  ASSUME NEW u, NEW A, Forestry(u, {}, A), pc = "fold",
         NEW top \in Nodes \cup {None}, A = {top} \cap Nodes
  PROVE  /\ heap \in Heaps /\ heap \in live /\ node \in Nodes /\ root[heap] \in Nodes
         /\ u \in [Nodes -> Nodes \cup {None}] /\ Rooted(u)
         /\ node \in Group(heap) /\ root[heap] \in Group(heap)
         /\ Group(heap) = content[heap] \cup {node} /\ Group(heap) \in SUBSET Nodes
         /\ u[node] = None /\ u[root[heap]] = None
         /\ \A x \in Group(heap) : u[x] = None => x \in {node, root[heap]}
         /\ \A x \in Nodes : u[x] = node <=> x = top
         /\ top \in Nodes => /\ top \in content[heap] /\ top # node /\ top # root[heap]
                             /\ call \in {"remove", "update"} => key[root[heap]] <= key[top]
         /\ \A x \in Nodes : u[x] \in Nodes /\ u[x] # node => key[u[x]] <= key[x]
         /\ TypeOK
  <1>0. TypeOK /\ Shape(u) /\ Apart /\ Ordered(u) /\ Busy(u, {}, A)
    BY DEF Forestry
  <1>1. /\ heap \in Heaps /\ heap \in live /\ node \in Nodes /\ root[heap] \in Nodes
        /\ u \in [Nodes -> Nodes \cup {None}] /\ Rooted(u) /\ twin = None
    BY <1>0 DEF Busy, TypeOK, Shape
  <1>2. Group(heap) = content[heap] \cup {node} /\ Tops(heap) = {root[heap], node}
    BY <1>1 DEF Group, Tops
  <1>3. Tops(heap) = {x \in Group(heap) : u[x] = None} /\ Group(heap) \in SUBSET Nodes
    BY <1>0, <1>1, ShapeFacts DEF Shape
  <1>4. \A x \in Nodes : u[x] = node <=> x = top
    <2>1. Below(u, node) = {top} \cap Nodes
      BY <1>0, <1>1, NoneAssumption DEF Busy
    <2> QED BY <2>1, NoneAssumption DEF Below
  <1>5. top \in Nodes => /\ top \in content[heap] /\ top # node /\ top # root[heap]
                         /\ call \in {"remove", "update"} => key[root[heap]] <= key[top]
    <2> SUFFICES ASSUME top \in Nodes
                 PROVE  /\ top \in content[heap] /\ top # node /\ top # root[heap]
                        /\ call \in {"remove", "update"} => key[root[heap]] <= key[top]
      OBVIOUS
    <2>1. u[top] = node /\ top \in Below(u, node)
      BY <1>4 DEF Below
    <2>2. top # node /\ top # root[heap]
      BY <1>1, <1>2, <1>3, <2>1, NoneAssumption
    <2>3. top \in Group(heap)
      BY <1>0, <1>1, <1>2, <2>1, ShapeFacts
    <2> QED BY <1>0, <1>2, <2>1, <2>2, <2>3 DEF Busy
  <1>6. \A x \in Nodes : u[x] \in Nodes /\ u[x] # node => key[u[x]] <= key[x]
    BY <1>0 DEF Ordered
  <1> QED BY <1>0, <1>1, <1>2, <1>3, <1>4, <1>5, <1>6

(* The forest once what has been built has gone below t, or is a root. *)
Settled(u, top, t) == IF top = None THEN u ELSE [u EXCEPT ![top] = t]

LEMMA SettledFacts ==
  ASSUME NEW u, NEW A, Forestry(u, {}, A), pc = "fold",
         NEW top \in Nodes \cup {None}, A = {top} \cap Nodes,
         NEW t, t = None \/ (t = root[heap] /\ call \in {"remove", "update"})
  PROVE  /\ Settled(u, top, t) \in [Nodes -> Nodes \cup {None}]
         /\ Rooted(Settled(u, top, t))
         /\ \A x \in Nodes : Settled(u, top, t)[x] = IF x = top THEN t ELSE u[x]
         /\ Below(Settled(u, top, t), node) = {}
         /\ call \in {"remove", "update"} => node # root[heap]
         /\ call \in {"drop", "demote"} => node = root[heap]
         /\ call \in {"remove", "drop"} => node \notin content[heap]
         /\ call \in {"update", "demote"} => node \in content[heap]
  <1> DEFINE v == Settled(u, top, t)
  <1>1. /\ node \in Nodes /\ root[heap] \in Nodes
        /\ u \in [Nodes -> Nodes \cup {None}] /\ Rooted(u)
        /\ u[root[heap]] = None /\ u[node] = None
        /\ \A x \in Nodes : u[x] = node <=> x = top
        /\ top \in Nodes => top # root[heap]
    BY PassEnded
  <1>2. Busy(u, {}, A)
    BY DEF Forestry
  <1>3. /\ call \in {"remove", "update"} => node # root[heap]
        /\ call \in {"drop", "demote"} => node = root[heap]
        /\ call \in {"remove", "drop"} => node \notin content[heap]
        /\ call \in {"update", "demote"} => node \in content[heap]
    BY <1>2 DEF Busy
  <1>4. v \in [Nodes -> Nodes \cup {None}] /\ \A x \in Nodes : v[x] = IF x = top THEN t ELSE u[x]
    BY <1>1, NoneAssumption DEF Settled
  <1>5. Rooted(v)
    <2>1. CASE top = None
      BY <1>1, <2>1 DEF Settled
    <2>2. CASE top # None /\ t = None
      <3>1. \A x \in Nodes : v[x] = u[x] \/ v[x] \notin Nodes
        BY <1>4, <2>2, NoneAssumption
      <3> HIDE DEF v
      <3> QED BY <1>1, <3>1, RootedLess
    <2>3. CASE top # None /\ t # None
      <3>1. top \in Nodes /\ t \in Nodes /\ t # top /\ u[t] = None /\ v = [u EXCEPT ![top] = t]
        BY <1>1, <2>3 DEF Settled
      <3>2. Rooted([u EXCEPT ![top] = t])
        BY <1>1, <3>1, RootedLink
      <3> QED BY <3>1, <3>2
    <2> QED BY <2>1, <2>2, <2>3
  <1>6. Below(v, node) = {}
    <2>1. t # node
      BY <1>1, <1>3, NoneAssumption
    <2> HIDE DEF v
    <2> QED BY <1>1, <1>4, <2>1 DEF Below
  <1> QED BY <1>3, <1>4, <1>5, <1>6

LEMMA ForestryDrop ==
  ASSUME NEW u, NEW A, Forestry(u, {}, A), pc = "fold",
         NEW top \in Nodes \cup {None}, A = {top} \cap Nodes,
         NEW memory, DropTo(memory, top),
         NEW v, v = Settled(u, top, None)
  PROVE  Forestry(v, {}, {})'
  <1>1. call = "drop" /\ root' = [root EXCEPT ![heap] = top] /\ cnt' = [cnt EXCEPT ![heap] = @ - 1]
        /\ Return /\ UNCHANGED <<live, key, content, out>> /\ pc # "idle"
    BY DEF DropTo
  <1>2. /\ v \in [Nodes -> Nodes \cup {None}] /\ Rooted(v)
        /\ \A x \in Nodes : v[x] = IF x = top THEN None ELSE u[x]
        /\ Below(v, node) = {} /\ node = root[heap] /\ node \notin content[heap]
    BY <1>1, SettledFacts
  <1>3. /\ node \in Nodes /\ u[node] = None
        /\ Group(heap) = content[heap] \cup {node} /\ Group(heap) \in SUBSET Nodes
        /\ \A x \in Group(heap) : u[x] = None => x \in {node, root[heap]}
        /\ top \in Nodes => top \in content[heap]
    BY PassEnded
  <1>4. \A x \in Nodes : v[x] = u[x] \/ (x \in Group(heap) /\ v[x] \in content[heap] \cup {None})
    BY <1>2, <1>3
  <1>5. {top} \cap Nodes = {x \in content[heap] : v[x] = None}
    BY <1>2, <1>3
  <1>6. v[node] = None
    BY <1>2, <1>3
  <1>7. \A x \in Nodes : v[x] \in Nodes /\ (v[x] # u[x] \/ v[x] = node) => key[v[x]] <= key[x]
    BY <1>2, NoneAssumption DEF Below
  <1> QED BY <1>1, <1>2, <1>4, <1>5, <1>6, <1>7, ForestryEnds, ZenonT(30)

LEMMA ForestryRemove ==
  ASSUME NEW u, NEW A, Forestry(u, {}, A), pc = "fold",
         NEW top \in Nodes \cup {None}, A = {top} \cap Nodes,
         NEW memory, RemoveTo(memory),
         NEW v, v = Settled(u, top, root[heap])
  PROVE  Forestry(v, {}, {})'
  <1>1. /\ call = "remove" /\ root' = root /\ cnt' = [cnt EXCEPT ![heap] = @ - 1]
        /\ Return /\ UNCHANGED <<live, key, content, out>> /\ pc # "idle"
    BY DEF RemoveTo
  <1>0. PICK t : t = root[heap]
    OBVIOUS
  <1>2. /\ v \in [Nodes -> Nodes \cup {None}] /\ Rooted(v)
        /\ \A x \in Nodes : v[x] = IF x = top THEN t ELSE u[x]
        /\ Below(v, node) = {} /\ node # t /\ node \notin content[heap]
    BY <1>0, <1>1, SettledFacts
  <1>3. /\ node \in Nodes /\ t \in Nodes /\ u[node] = None /\ u[t] = None
        /\ Group(heap) = content[heap] \cup {node} /\ Group(heap) \in SUBSET Nodes
        /\ t \in Group(heap)
        /\ \A x \in Group(heap) : u[x] = None => x \in {node, t}
        /\ top \in Nodes => top \in content[heap] /\ top # t /\ top # node /\ key[t] <= key[top]
        /\ TypeOK
    BY <1>0, <1>1, PassEnded
  <1>4. \A x \in Nodes : v[x] = u[x] \/ (x \in Group(heap) /\ v[x] \in content[heap] \cup {None})
    BY <1>2, <1>3
  <1>5. {t} \cap Nodes = {x \in content[heap] : v[x] = None}
    BY <1>2, <1>3, NoneAssumption
  <1>6. v[node] = None
    BY <1>2, <1>3, NoneAssumption
  <1>7. \A x \in Nodes : v[x] \in Nodes /\ (v[x] # u[x] \/ v[x] = node) => key[v[x]] <= key[x]
    BY <1>2, <1>3, NoneAssumption DEF Below
  <1>8. root' = [root EXCEPT ![heap] = t] /\ t \in Nodes \cup {None}
    BY <1>0, <1>1, <1>3 DEF TypeOK
  <1>9. cnt' = IF call \in {"drop", "remove"} THEN [cnt EXCEPT ![heap] = @ - 1] ELSE cnt
    BY <1>1
  <1>10. node \notin content[heap] => v[node] = None /\ Below(v, node) = {}
    BY <1>2, <1>6
  <1>11. UNCHANGED <<live, key, content, out>>
    BY <1>1
  <1>12. pc # "idle" /\ Return
    BY <1>1
  <1>13. v \in [Nodes -> Nodes \cup {None}] /\ Rooted(v)
    BY <1>2
  <1> QED BY <1>4, <1>5, <1>7, <1>8, <1>9, <1>10, <1>11, <1>12, <1>13, ForestryEnds

LEMMA ForestryJoin ==
  ASSUME NEW u, NEW A, Forestry(u, {}, A), pc = "fold",
         NEW top \in Nodes \cup {None}, A = {top} \cap Nodes,
         NEW what, NEW other, NEW t, NEW memory, JoinTo(what, memory, other),
         \/ what = "update" /\ other = root[heap] /\ t = root[heap]
         \/ what = "demote" /\ other = top /\ t = None /\ top # None,
         NEW v, v = Linking(Settled(u, top, t), other, node)
  PROVE  Forestry(v, {}, {})'
  <1> DEFINE w == Winner(key, other, node)
             l == Loser(key, other, node)
             s == Settled(u, top, t)
  <1>1. /\ call = what /\ root' = [root EXCEPT ![heap] = w] /\ cnt' = cnt
        /\ Return /\ UNCHANGED <<live, key, content, out>> /\ pc # "idle"
    BY DEF JoinTo
  <1>2. t = None \/ (t = root[heap] /\ call \in {"remove", "update"})
    BY <1>1
  <1>3. /\ s \in [Nodes -> Nodes \cup {None}] /\ Rooted(s)
        /\ \A x \in Nodes : s[x] = IF x = top THEN t ELSE u[x]
        /\ Below(s, node) = {} /\ node \in content[heap]
        /\ call = "update" => node # root[heap]
        /\ call = "demote" => node = root[heap]
    BY <1>1, <1>2, SettledFacts
  <1>4. /\ node \in Nodes /\ root[heap] \in Nodes /\ u[node] = None /\ u[root[heap]] = None
        /\ Group(heap) = content[heap] \cup {node} /\ Group(heap) \in SUBSET Nodes
        /\ root[heap] \in Group(heap)
        /\ \A x \in Group(heap) : u[x] = None => x \in {node, root[heap]}
        /\ top \in Nodes => /\ top \in content[heap] /\ top # root[heap] /\ top # node
                            /\ call \in {"remove", "update"} => key[root[heap]] <= key[top]
        /\ TypeOK
    BY PassEnded
  <1>5. other \in Nodes /\ other # node /\ other \in content[heap] /\ s[other] = None
    BY <1>1, <1>3, <1>4
  <1>6. s[node] = None
    BY <1>3, <1>4, NoneAssumption
  <1>7. {w, l} = {other, node} /\ w # l /\ key[w] <= key[l]
    BY <1>4, <1>5, JoinChoice
  <1>8. v = [s EXCEPT ![l] = w]
    BY DEF Linking
  <1>9. \A x \in content[heap] : s[x] = None => x \in {other, node}
    BY <1>1, <1>3, <1>4, NoneAssumption
  <1> HIDE DEF w, l, s
  <1>10. v \in [Nodes -> Nodes \cup {None}] /\ Rooted(v)
         /\ \A x \in Nodes : v[x] = IF x = l THEN w ELSE s[x]
    <2>1. w \in Nodes /\ l \in Nodes /\ w # l /\ s[w] = None
      BY <1>4, <1>5, <1>6, <1>7
    <2>2. Rooted([s EXCEPT ![l] = w])
      BY <1>3, <2>1, RootedLink
    <2> QED BY <1>3, <1>8, <2>1, <2>2
  <1>11. \A x \in Nodes : v[x] = u[x] \/ (x \in Group(heap) /\ v[x] \in content[heap] \cup {None})
    <2> SUFFICES ASSUME NEW x \in Nodes, v[x] # u[x]
                 PROVE  x \in Group(heap) /\ v[x] \in content[heap] \cup {None}
      OBVIOUS
    <2>1. CASE x = l
      BY <1>3, <1>4, <1>5, <1>7, <1>10, <2>1
    <2>2. CASE x # l
      <3>1. x = top /\ v[x] = t
        BY <1>3, <1>10, <2>2
      <3>2. t = None \/ (t = root[heap] /\ root[heap] # node)
        BY <1>1, <1>3
      <3> QED BY <1>4, <3>1, <3>2
    <2> QED BY <2>1, <2>2
  <1>12. {w} \cap Nodes = {x \in content[heap] : v[x] = None}
    <2>1. w \in Nodes /\ w \in content[heap] /\ l \in Nodes
      BY <1>3, <1>4, <1>5, <1>7
    <2>2. \A x \in content[heap] : v[x] = None <=> x = w
      BY <1>4, <1>5, <1>6, <1>7, <1>9, <1>10, <2>1, NoneAssumption
    <2> QED BY <2>1, <2>2
  <1>13. \A x \in Nodes : v[x] \in Nodes /\ (v[x] # u[x] \/ v[x] = node) => key[v[x]] <= key[x]
    <2> SUFFICES ASSUME NEW x \in Nodes, v[x] \in Nodes, v[x] # u[x] \/ v[x] = node
                 PROVE  key[v[x]] <= key[x]
      OBVIOUS
    <2>1. CASE x = l
      BY <1>7, <1>10, <2>1
    <2>2. CASE x # l
      <3>1. v[x] = s[x] /\ s[x] # node
        BY <1>3, <1>10, <2>2 DEF Below
      <3>2. x = top /\ v[x] = t
        BY <1>3, <3>1
      <3> QED BY <1>1, <1>4, <3>2, NoneAssumption
    <2> QED BY <2>1, <2>2
  <1>14. w \in Nodes \cup {None}
    BY <1>4, <1>5, <1>7
  <1>15. cnt' = IF call \in {"drop", "remove"} THEN [cnt EXCEPT ![heap] = @ - 1] ELSE cnt
    BY <1>1
  <1> QED BY <1>1, <1>3, <1>10, <1>11, <1>12, <1>13, <1>14, <1>15, ForestryEnds, ZenonT(30)

LEMMA ForestryAlone ==
  ASSUME NEW u, NEW A, Forestry(u, {}, A), pc = "fold", A = {},
         NEW memory, DemoteAlone(memory)
  PROVE  Forestry(u, {}, {})'
  <1>1. /\ call = "demote" /\ root' = root /\ cnt' = cnt
        /\ Return /\ UNCHANGED <<live, key, content, out>> /\ pc # "idle"
    BY DEF DemoteAlone
  <1> DEFINE t == root[heap]
             s == Settled(u, None, None)
  <1>2. None \in Nodes \cup {None} /\ A = {None} \cap Nodes
    BY NoneAssumption
  <1> HIDE DEF s
  <1>3. /\ s \in [Nodes -> Nodes \cup {None}] /\ Rooted(s) /\ s = u
        /\ Below(s, node) = {} /\ node = t /\ node \in content[heap]
    <2>1. s = u
      BY DEF s, Settled
    <2>2. /\ Settled(u, None, None) \in [Nodes -> Nodes \cup {None}]
          /\ Rooted(Settled(u, None, None)) /\ Below(Settled(u, None, None), node) = {}
          /\ node = root[heap] /\ node \in content[heap]
      BY <1>1, <1>2, SettledFacts
    <2> QED BY <2>1, <2>2 DEF s
  <1>4. /\ t \in Nodes /\ u[t] = None
        /\ Group(heap) = content[heap] \cup {node} /\ Group(heap) \in SUBSET Nodes
        /\ \A x \in Group(heap) : u[x] = None => x \in {node, t}
        /\ TypeOK
    BY <1>2, PassEnded
  <1>5. {t} \cap Nodes = {x \in content[heap] : u[x] = None}
    BY <1>3, <1>4, NoneAssumption
  <1>6. \A x \in Nodes : u[x] # node
    BY <1>3 DEF Below
  <1>7. root' = [root EXCEPT ![heap] = t] /\ t \in Nodes \cup {None}
    BY <1>1, <1>4 DEF TypeOK
  <1>8. cnt' = IF call \in {"drop", "remove"} THEN [cnt EXCEPT ![heap] = @ - 1] ELSE cnt
    BY <1>1
  <1>9. u \in [Nodes -> Nodes \cup {None}] /\ Rooted(u)
    BY <1>3
  <1>10. \A x \in Nodes : u[x] \in Nodes /\ (u[x] # u[x] \/ u[x] = node) => key[u[x]] <= key[x]
    BY <1>6
  <1> HIDE DEF t
  <1> QED BY <1>1, <1>3, <1>5, <1>7, <1>8, <1>9, <1>10, ForestryEnds

-----------------------------------------------------------------------------
(* What the forest tells of trees and counts. *)
LEMMA TwoApart ==
  ASSUME NEW x, NEW y, x \subseteq Nodes, y \subseteq Nodes, x \cap y = {}
  PROVE  Cardinality(x \cup y) = Cardinality(x) + Cardinality(y)
  <1>1. IsFiniteSet(x) /\ IsFiniteSet(y) /\ Cardinality(x) \in Nat /\ Cardinality(y) \in Nat
    BY FiniteNodes
  <1>2. Cardinality(x \cup y) = Cardinality(x) + Cardinality(y) - Cardinality(x \cap y)
    BY <1>1, FS_Union, Zenon
  <1>3. Cardinality(x \cap y) = 0
    BY FS_EmptySet
  <1> QED BY <1>1, <1>2, <1>3

(* Between calls the nodes of a heap are those of the tree of its root. *)
LEMMA IdleTrees ==
  ASSUME NEW u, NEW C, NEW A, Forestry(u, C, A), pc = "idle", NEW h \in Heaps
  PROVE  /\ content[h] = Sub(u, {root[h]} \cap Nodes)
         /\ content[h] \in SUBSET Nodes
         /\ \A p \in content[h] : Below(u, p) = {n \in content[h] : u[n] = p}
  <1>0. TypeOK /\ Shape(u) /\ Apart
    BY DEF Forestry
  <1>1. /\ Group(h) = content[h] /\ content[h] \in SUBSET Nodes
        /\ root[h] = None <=> content[h] = {}
        /\ root[h] # None => root[h] \in content[h]
        /\ \A n \in content[h] : n # root[h] => u[n] \in content[h]
    BY <1>0, IdleFacts DEF TypeOK
  <1>2. \A x \in Nodes : u[x] \in content[h] => x \in content[h]
    BY <1>0, <1>1, ShapeFacts
  <1>3. Sub(u, {root[h]} \cap Nodes) \subseteq content[h]
    <2>1. {root[h]} \cap Nodes \subseteq content[h]
      BY <1>1, NoneAssumption
    <2> QED BY <1>1, <1>2, <2>1, SubLeast
  <1>4. content[h] \subseteq Sub(u, {root[h]} \cap Nodes)
    <2>1. \A n \in content[h] : n \in {root[h]} \cap Nodes \/ u[n] \in content[h]
      BY <1>1
    <2>2. Rooted(u)
      BY <1>0 DEF Shape
    <2>3. {root[h]} \cap Nodes \in SUBSET Nodes
      OBVIOUS
    <2> QED BY <1>1, <2>1, <2>2, <2>3, SubCovers
  <1> QED BY <1>1, <1>2, <1>3, <1>4 DEF Below

(* The counts of heaps are right between calls. *)
LEMMA ForestCounts ==
  ASSUME NEW u, NEW C, NEW A, Forestry(u, C, A)
  PROVE  TypeOK /\ CountsAgree
  <1>1. TypeOK /\ Apart
    BY DEF Forestry
  <1>2. ASSUME pc = "idle", NEW h \in live
        PROVE  cnt[h] = Cardinality(content[h]) /\ (cnt[h] = 0 <=> root[h] = None)
    <2>1. h \in Heaps
      BY <1>1 DEF TypeOK
    <2>2. Group(h) = content[h] /\ (root[h] = None <=> content[h] = {})
      BY <1>2, <2>1, IdleFacts
    <2>3. IsFiniteSet(content[h])
      BY <1>1, <2>1, FiniteNodes DEF TypeOK
    <2> QED BY <1>1, <2>1, <2>2, <2>3, FS_EmptySet DEF Apart
  <1> QED BY <1>1, <1>2 DEF CountsAgree

(* During a call they are those of the trees of what is left, of what      *)
(* waits, of what is built, and the rest.                                  *)
LEMMA ForestAccounted ==
  ASSUME NEW u, NEW C, NEW A, Forestry(u, C, A), pc # "idle"
  PROVE  Accounted(Sub(u, C), Sub(u, {twin} \cap Nodes), Sub(u, A), Sub(u, {root[heap]}))
  <1> DEFINE K == Below(u, node)
             W == {twin} \cap Nodes
             rest == Sub(u, {root[heap]})
             below == IF call \in {"remove", "update"} THEN rest ELSE {}
             own == IF call \in {"update", "demote"} THEN {node} ELSE {}
             all == ((Sub(u, C) \cup Sub(u, W)) \cup Sub(u, A)) \cup below
  <1>0. TypeOK /\ Shape(u) /\ Apart /\ Busy(u, C, A)
    BY DEF Forestry
  <1>1. /\ heap \in Heaps /\ node \in Nodes /\ root[heap] \in Nodes /\ Rooted(u)
        /\ u \in [Nodes -> Nodes \cup {None}]
        /\ call \in {"drop", "remove", "update", "demote"}
        /\ call \in {"drop", "demote"} <=> node = root[heap]
        /\ call \in {"update", "demote"} <=> node \in content[heap]
        /\ K = (C \cup A) \cup W /\ C \cap A = {} /\ twin \notin C \cup A
    BY <1>0 DEF Busy, TypeOK, Shape
  <1>2. K \in SUBSET Nodes /\ C \in SUBSET Nodes /\ A \in SUBSET Nodes /\ W \in SUBSET Nodes
        /\ \A x \in K : u[x] = node
    BY <1>1 DEF Below
  <1>3. /\ Group(heap) = content[heap] \cup {node} /\ Group(heap) \in SUBSET Nodes
        /\ root[heap] \in Group(heap)
        /\ \A n \in Group(heap) : u[n] = None <=> n \in {root[heap], node}
        /\ \A n \in Nodes : u[n] \in Nodes => (n \in Group(heap) <=> u[n] \in Group(heap))
    <2>1. Group(heap) = content[heap] \cup {node} /\ Tops(heap) = {root[heap], node}
      BY <1>1 DEF Group, Tops
    <2>2. /\ Group(heap) \in SUBSET Nodes
          /\ \A n \in Group(heap) : n \in Tops(heap) <=> u[n] = None
          /\ \A n \in Nodes : u[n] \in Nodes => (n \in Group(heap) <=> u[n] \in Group(heap))
      BY <1>0, <1>1, ShapeFacts
    <2>3. root[heap] \in Group(heap)
      BY <1>0, <1>1, <2>1 DEF Shape
    <2> QED BY <2>1, <2>2, <2>3
  <1>4. u[node] = None /\ u[root[heap]] = None
    BY <1>3
  <1> HIDE DEF K, W
  <1>5. ASSUME NEW R \in SUBSET K, NEW S \in SUBSET K, R \cap S = {}
        PROVE  Sub(u, R) \cap Sub(u, S) = {}
    <2>1. \A r \in R \cup S : u[r] = node
      BY <1>2
    <2>2. R \in SUBSET Nodes /\ S \in SUBSET Nodes
      BY <1>2
    <2> QED BY <1>1, <1>5, <2>1, <2>2, SubDisjoint
  <1>6. ASSUME NEW R \in SUBSET K
        PROVE  /\ Sub(u, R) \subseteq Group(heap) \ {node}
               /\ node # root[heap] => Sub(u, R) \cap rest = {}
    <2>1. R \in SUBSET Nodes /\ \A r \in R : u[r] = node
      BY <1>2
    <2>2. node \notin Sub(u, R)
      BY <1>1, <2>1, SubApart
    <2>3. Sub(u, R) \subseteq Group(heap)
      <3>1. R \subseteq Group(heap)
        BY <1>1, <1>3, <2>1
      <3> QED BY <1>3, <3>1, SubLeast
    <2>4. ASSUME node # root[heap] PROVE Sub(u, R) \cap rest = {}
      <3>1. {node} \in SUBSET Nodes /\ {root[heap]} \in SUBSET Nodes
        BY <1>1
      <3>2. R \subseteq Sub(u, {node})
        BY <2>1, <3>1, SubFacts
      <3>3. Sub(u, R) \subseteq Sub(u, {node})
        BY <2>1, <3>1, <3>2, SubGrows
      <3>4. \A x \in {node} \cup {root[heap]} : u[x] = None
        BY <1>4
      <3>5. {node} \cap {root[heap]} = {}
        BY <2>4
      <3>6. Sub(u, {node}) \cap Sub(u, {root[heap]}) = {}
        BY <1>1, <3>1, <3>4, <3>5, SubDisjoint
      <3> QED BY <3>3, <3>6
    <2> QED BY <2>2, <2>3, <2>4
  <1>7. C \in SUBSET K /\ A \in SUBSET K /\ W \in SUBSET K /\ C \cap W = {} /\ W \cap A = {}
    BY <1>1 DEF W
  <1>8. rest \subseteq Group(heap) /\ (node # root[heap] => node \notin rest)
    <2>1. {root[heap]} \in SUBSET Nodes /\ {node} \in SUBSET Nodes
      BY <1>1
    <2>2. rest \subseteq Group(heap)
      BY <1>3, <2>1, SubLeast
    <2>3. ASSUME node # root[heap], node \in rest PROVE FALSE
      BY <1>4, <2>1, <2>3, SubFacts, NoneAssumption
    <2> QED BY <2>2, <2>3
  <1>9. below \subseteq Group(heap) \ {node} /\ (\A R \in SUBSET K : Sub(u, R) \cap below = {})
    BY <1>1, <1>6, <1>8
  <1>10. all \subseteq Group(heap) \ {node}
    BY <1>6, <1>7, <1>9
  <1>11. Group(heap) \ {node} \subseteq all
    <2> DEFINE T == Group(heap) \ (all \cup {node})
    <2>1. ASSUME NEW n \in T PROVE u[n] \in T
      <3>1. n \in Nodes /\ n # node
        BY <1>3
      <3>2. u[n] # None
        <4>1. CASE call \in {"remove", "update"}
          <5>1. root[heap] \in rest
            BY <1>1, SubFacts, {root[heap]} \in SUBSET Nodes
          <5> QED BY <1>3, <4>1, <5>1
        <4>2. CASE call \notin {"remove", "update"}
          BY <1>1, <1>3, <3>1, <4>2
        <4> QED BY <4>1, <4>2
      <3>3. u[n] \in Group(heap)
        BY <1>1, <1>3, <3>1, <3>2
      <3>4. u[n] # node
        <4>1. u[n] = node => n \in K
          BY <3>1 DEF K, Below
        <4>2. K \subseteq all
          BY <1>1, <1>2, SubFacts
        <4> QED BY <4>1, <4>2
      <3>5. u[n] \notin all
        BY <1>1, <1>2, <3>1, SubFacts, {root[heap]} \in SUBSET Nodes
      <3> QED BY <3>3, <3>4, <3>5
    <2>2. T \in SUBSET Nodes
      BY <1>3
    <2> HIDE DEF T
    <2>3. T = {}
      BY <1>1, <2>1, <2>2 DEF Rooted
    <2> QED BY <2>3 DEF T
  <1> HIDE DEF all
  <1>12. all \cup own = content[heap]
    BY <1>1, <1>3, <1>10, <1>11
  <1>13. Cardinality(content[heap])
           = (((Cardinality(Sub(u, C)) + Cardinality(Sub(u, W))) + Cardinality(Sub(u, A)))
               + Cardinality(below)) + Cardinality(own)
    <2>1. /\ Sub(u, C) \in SUBSET Nodes /\ Sub(u, W) \in SUBSET Nodes /\ Sub(u, A) \in SUBSET Nodes
          /\ below \in SUBSET Nodes /\ own \in SUBSET Nodes
      BY <1>1, <1>3, <1>6, <1>7, <1>9
    <2>2. Sub(u, C) \cap Sub(u, W) = {} /\ Sub(u, C) \cap Sub(u, A) = {}
          /\ Sub(u, W) \cap Sub(u, A) = {}
      BY <1>1, <1>5, <1>7
    <2>3. (Sub(u, C) \cup Sub(u, W)) \cap Sub(u, A) = {}
      BY <2>2
    <2>4. ((Sub(u, C) \cup Sub(u, W)) \cup Sub(u, A)) \cap below = {}
      BY <1>7, <1>9
    <2>5. (((Sub(u, C) \cup Sub(u, W)) \cup Sub(u, A)) \cup below) \cap own = {}
      BY <1>10 DEF all
    <2>6. (((Sub(u, C) \cup Sub(u, W)) \cup Sub(u, A)) \cup below) \cup own = content[heap]
      BY <1>12 DEF all
    <2> HIDE DEF below, own
    <2>7. Sub(u, C) \cap Sub(u, W) = {}
      BY <2>2
    <2>8. Cardinality((((Sub(u, C) \cup Sub(u, W)) \cup Sub(u, A)) \cup below) \cup own)
            = (((Cardinality(Sub(u, C)) + Cardinality(Sub(u, W))) + Cardinality(Sub(u, A)))
                + Cardinality(below)) + Cardinality(own)
      <3>1. PICK a : a = Sub(u, C)
        OBVIOUS
      <3>2. PICK b : b = Sub(u, W)
        OBVIOUS
      <3>3. PICK c : c = Sub(u, A)
        OBVIOUS
      <3>4. PICK d : d = below
        OBVIOUS
      <3>5. PICK e : e = own
        OBVIOUS
      <3>6. a \subseteq Nodes /\ b \subseteq Nodes /\ c \subseteq Nodes /\ d \subseteq Nodes
            /\ e \subseteq Nodes
        BY <2>1, <3>1, <3>2, <3>3, <3>4, <3>5
      <3>7. a \cap b = {} /\ (a \cup b) \cap c = {} /\ ((a \cup b) \cup c) \cap d = {}
            /\ (((a \cup b) \cup c) \cup d) \cap e = {}
        BY <2>3, <2>4, <2>5, <2>7, <3>1, <3>2, <3>3, <3>4, <3>5
      <3>8. Cardinality((((a \cup b) \cup c) \cup d) \cup e)
              = (((Cardinality(a) + Cardinality(b)) + Cardinality(c)) + Cardinality(d)) + Cardinality(e)
        <4>1. Cardinality(a \cup b) = Cardinality(a) + Cardinality(b)
          BY <3>6, <3>7, TwoApart
        <4>2. Cardinality((a \cup b) \cup c) = Cardinality(a \cup b) + Cardinality(c)
          <5>1. a \cup b \subseteq Nodes
            BY <3>6
          <5> QED BY <3>6, <3>7, <5>1, TwoApart
        <4>3. Cardinality(((a \cup b) \cup c) \cup d) = Cardinality((a \cup b) \cup c) + Cardinality(d)
          <5>1. (a \cup b) \cup c \subseteq Nodes
            BY <3>6
          <5> QED BY <3>6, <3>7, <5>1, TwoApart
        <4>4. Cardinality((((a \cup b) \cup c) \cup d) \cup e)
                = Cardinality(((a \cup b) \cup c) \cup d) + Cardinality(e)
          <5>1. ((a \cup b) \cup c) \cup d \subseteq Nodes
            BY <3>6
          <5> QED BY <3>6, <3>7, <5>1, TwoApart
        <4> QED BY <4>1, <4>2, <4>3, <4>4
      <3> QED BY <3>1, <3>2, <3>3, <3>4, <3>5, <3>8
    <2> QED BY <2>6, <2>8
  <1>14. (((Sub(u, C) \cup Sub(u, W)) \cup Sub(u, A)) \cup below) \cup own = content[heap]
    BY <1>12 DEF all
  <1> QED BY <1>13, <1>14 DEF Accounted, W

(* A pass that goes on has fewer nodes to look at. *)
LEMMA ForestAdvances ==
  ASSUME NEW u, Rooted(u), NEW p, NEW C \in SUBSET Nodes, \A x \in C : u[x] = p,
         NEW c \in C, NEW a \in Nodes, NEW b \in Nodes, u[a] = p, u[b] = p,
         a \notin C \ {c}, b \notin C \ {c},
         NEW v, v = u \/ v = Linking(u, a, b)
  PROVE  Cardinality(Sub(v, C \ {c})) < Cardinality(Sub(u, C))
  <1> DEFINE D == C \ {c}
             S == Sub(u, D)
  <1>1. D \in SUBSET Nodes /\ C \in SUBSET Nodes /\ {c} \in SUBSET Nodes
    OBVIOUS
  <1>2. ASSUME NEW x \in Nodes, u[x] = p, x \notin D PROVE x \notin S
    <2>1. p \notin S
      BY <1>1, SubApart
    <2> QED BY <1>1, <1>2, <2>1, SubFacts
  <1>3. Sub(v, D) \subseteq S
    <2>1. \A x \in Nodes : v[x] \in S => x \in S
      <3> SUFFICES ASSUME NEW x \in Nodes, v[x] \in S PROVE x \in S
        OBVIOUS
      <3>1. a \notin S /\ b \notin S
        BY <1>2
      <3>2. v[x] = u[x]
        <4> SUFFICES ASSUME v = Linking(u, a, b) PROVE v[x] = u[x]
          OBVIOUS
        <4>1. Winner(key, a, b) \in {a, b}
          BY DEF Winner
        <4> QED BY <3>1, <4>1 DEF Linking
      <3> HIDE DEF S
      <3> QED BY <1>1, <3>2, SubFacts DEF S
    <2>2. S \in SUBSET Nodes /\ D \subseteq S
      BY <1>1, SubFacts
    <2> HIDE DEF D, S
    <2> QED BY <2>1, <2>2, SubLeast
  <1>4. S \subseteq Sub(u, C) /\ c \in Sub(u, C) /\ c \notin S /\ Sub(u, C) \in SUBSET Nodes
    <2>1. D \subseteq Sub(u, C)
      BY <1>1, SubFacts
    <2>2. S \subseteq Sub(u, C)
      BY <1>1, <2>1, SubGrows
    <2>3. c \notin S
      BY <1>2
    <2> QED BY <1>1, <2>2, <2>3, SubFacts
  <1>5. Sub(v, D) \in SUBSET Sub(u, C) /\ Sub(v, D) # Sub(u, C)
    BY <1>3, <1>4
  <1>6. IsFiniteSet(Sub(u, C)) /\ Cardinality(Sub(u, C)) \in Nat
    BY <1>4, FiniteNodes
  <1>7. Cardinality(Sub(v, D)) \in Nat
    BY <1>4, <1>5, FiniteNodes
  <1> HIDE DEF D, S
  <1>8. Cardinality(Sub(v, D)) <= Cardinality(Sub(u, C))
        /\ Cardinality(Sub(v, D)) # Cardinality(Sub(u, C))
    BY <1>5, <1>6, FS_Subset
  <1>9. Cardinality(Sub(v, D)) < Cardinality(Sub(u, C))
    BY <1>6, <1>7, <1>8
  <1> QED BY <1>9 DEF D

-----------------------------------------------------------------------------
(* The nodes that heaps and calls hold. *)
Placed == UNION {Group(h) : h \in Heaps}

(* The parent of each node. *)
Parents == [Nodes -> Nodes \cup {None}]

(* The node b goes below a. *)
Under(u, a, b) == [u EXCEPT ![b] = a]

LEMMA ForestryTyped ==
  ASSUME NEW u, NEW C, NEW A, Forestry(u, C, A)
  PROVE  u \in Parents /\ C \in SUBSET Nodes /\ A \in SUBSET Nodes
  BY DEF Forestry, Shape, Busy, Below, Parents

LEMMA ForestryTypedNext ==
  ASSUME NEW u, NEW C, NEW A, Forestry(u, C, A)'
  PROVE  u \in Parents /\ C \in SUBSET Nodes /\ A \in SUBSET Nodes
  BY DEF Forestry, Shape, Busy, Below, Parents

(* There is a set of nodes grown step by step. *)
LEMMA NodesGrow ==
  ASSUME NEW base \in SUBSET Nodes, NEW step \in [Nodes -> SUBSET Nodes]
  PROVE  \E f : Grown(Nodes, step, base, Cardinality(Nodes), f)
  <1>1. PICK k \in Nat : k = Cardinality(Nodes)
    BY FiniteNodes
  <1>2. \E f : Grown(Nodes, step, base, k, f)
    BY <1>1, Grows
  <1> QED BY <1>1, <1>2

-----------------------------------------------------------------------------
(* What calls do to the forest, and to the nodes that heaps hold.          *)
LEMMA PlacedFacts ==
  ASSUME NEW u, NEW C, NEW A, Forestry(u, C, A)
  PROVE  /\ u \in Parents
         /\ Placed \in SUBSET Nodes
         /\ \A x \in Nodes : u[x] \in Nodes => x \in Placed /\ u[x] \in Placed
         /\ \A x \in Nodes \ Placed : u[x] = None /\ Below(u, x) = {}
         /\ \A h \in Heaps : Group(h) \in SUBSET Placed
  <1>1. Shape(u) /\ TypeOK /\ Apart
    BY DEF Forestry
  <1>2. /\ \A h \in Heaps : Group(h) \in SUBSET Nodes
        /\ \A h \in Heaps : \A n \in Nodes : u[n] \in Nodes =>
              (n \in Group(h) <=> u[n] \in Group(h))
        /\ \A n \in Nodes : (\A h \in Heaps : n \notin Group(h)) =>
              u[n] = None /\ Below(u, n) = {}
    BY <1>1, ShapeFacts
  <1>3. \A x \in Nodes : u[x] \in Nodes => \E h \in Heaps : x \in Group(h) /\ u[x] \in Group(h)
    BY <1>1 DEF Shape, TypeOK
  <1>4. u \in Parents
    BY ForestryTyped
  <1> QED BY <1>2, <1>3, <1>4 DEF Placed

LEMMA PlacedClosed ==
  ASSUME NEW u, NEW C, NEW A
  PROVE  Forestry(u, C, A) => /\ Placed \in SUBSET Nodes
                             /\ \A p \in Placed : Below(u, p) \subseteq Placed
  BY PlacedFacts DEF Below

LEMMA PlacedNext ==
  ASSUME NEW u, NEW C, NEW A
  PROVE  Forestry(u, C, A)' => (/\ Placed \in SUBSET Nodes
                               /\ \A p \in Placed : Below(u, p) \subseteq Placed)'
  BY PlacedClosed, PTL

LEMMA PlacedIdle ==
  ASSUME node = None
  PROVE  Placed = UNION {content[h] : h \in Heaps}
  BY NoneAssumption DEF Placed, Group

LEMMA PlacedIdleNext ==
  ASSUME node' = None
  PROVE  Placed' = UNION {content'[h] : h \in Heaps}
  BY NoneAssumption DEF Placed, Group

LEMMA PlacedKept ==
  ASSUME UNCHANGED <<content, heap, node>>
  PROVE  Placed' = Placed
  BY DEF Placed, Group

LEMMA PlacedRoot ==
  ASSUME NEW u, NEW C, NEW A, Forestry(u, C, A), NEW h \in Heaps, root[h] # None
  PROVE  root[h] \in Placed /\ u[root[h]] = None
  <1>1. Shape(u) /\ TypeOK
    BY DEF Forestry
  <1>2. root[h] \in Tops(h)
    BY <1>1 DEF Tops, TypeOK
  <1>3. root[h] \in Group(h) /\ u[root[h]] = None
    BY <1>1, <1>2 DEF Shape
  <1> QED BY <1>3 DEF Placed

LEMMA PlacedTrees ==
  ASSUME NEW u, NEW C, NEW A, Forestry(u, C, A), NEW R, R \subseteq Placed,
         pc = "idle" \/ \A x \in R : u[x] = node
  PROVE  R \in SUBSET Nodes /\ Sub(u, R) \subseteq Placed \ {node}
  <1>1. Placed \in SUBSET Nodes /\ \A x \in Nodes : u[x] \in Nodes => x \in Placed
    BY PlacedFacts
  <1>2. R \in SUBSET Nodes
    BY <1>1
  <1>3. Sub(u, R) \subseteq Placed
    <2>1. PICK T : T = Placed
      OBVIOUS
    <2>2. T \in SUBSET Nodes /\ R \subseteq T /\ \A x \in Nodes : u[x] \in T => x \in T
      BY <1>1, <2>1
    <2>3. Sub(u, R) \subseteq T
      BY <2>2, SubLeast
    <2> QED BY <2>1, <2>3
  <1>4. node \notin Sub(u, R)
    <2>1. CASE pc = "idle"
      <3>1. node = None
        BY <2>1, BusyIdle
      <3> QED BY <1>1, <1>3, <3>1, NoneAssumption
    <2>2. CASE \A x \in R : u[x] = node
      <3>1. PICK n : n = node
        OBVIOUS
      <3>2. Rooted(u)
        BY DEF Forestry, Shape
      <3>3. n \notin Sub(u, R)
        BY <1>2, <2>2, <3>1, <3>2, SubApart
      <3> QED BY <3>1, <3>3
    <2> QED BY <2>1, <2>2
  <1> QED BY <1>2, <1>3, <1>4

LEMMA SetupEffect ==
  ASSUME NEW u, NEW C, NEW A, Forestry(u, C, A), NEW h \in Heaps, NEW memory, SetupTo(h, memory)
  PROVE  /\ pc = "idle" /\ pc' = "idle" /\ node = None /\ node' = None
         /\ Placed' = Placed \ content[h]
         /\ content[h] \in SUBSET Nodes
         /\ \E v : /\ Forestry(v, {}, {})'
                   /\ \A p \in Placed' : Below(v, p) = Below(u, p) /\ v[p] = u[p]
  <1>1. pc = "idle" /\ content' = [content EXCEPT ![h] = {}] /\ UNCHANGED <<pc, node, heap>>
    BY DEF SetupTo, Locals
  <1>2. node = None /\ heap = None
    BY <1>1, BusyIdle
  <1>3. Placed = UNION {content[g] : g \in Heaps}
    BY <1>2, PlacedIdle
  <1>4. Placed' = UNION {content'[g] : g \in Heaps}
    BY <1>1, <1>2, PlacedIdleNext
  <1>5. TypeOK /\ Apart /\ \A g \in Heaps : Group(g) = content[g]
    BY <1>2, IdleGroups DEF Forestry
  <1>6. \A g \in Heaps : g # h => content[g] \cap content[h] = {}
    BY <1>5 DEF Apart
  <1>7. Placed' = Placed \ content[h]
    BY <1>1, <1>3, <1>4, <1>5, <1>6 DEF TypeOK
  <1>8. PICK S : S = content[h]
    OBVIOUS
  <1>9. PICK v : v = [n \in Nodes |-> IF n \in content[h] THEN None ELSE u[n]]
    <2>1. \E v : v = [n \in Nodes |-> IF n \in S THEN None ELSE u[n]]
      OBVIOUS
    <2> QED BY <1>8, <2>1
  <1>10. Forestry(v, {}, {})'
    BY <1>9, ForestrySetup
  <1>11. \A p \in Placed' : Below(v, p) = Below(u, p) /\ v[p] = u[p]
    <2>1. \A n \in Nodes : u[n] \in Nodes => (n \in S <=> u[n] \in S)
      BY <1>5, <1>8, ShapeFacts DEF Forestry
    <2>2. \A p \in Placed' : p \in Nodes \ S
      BY <1>7, <1>8, PlacedFacts
    <2>3. \A n \in Nodes : v[n] = IF n \in S THEN None ELSE u[n]
      BY <1>8, <1>9
    <2> QED BY <2>1, <2>2, <2>3, NoneAssumption DEF Below
  <1> QED BY <1>1, <1>2, <1>5, <1>7, <1>10, <1>11 DEF TypeOK

LEMMA InsertEffect ==
  ASSUME NEW u, NEW C, NEW A, Forestry(u, C, A), NEW h \in Heaps, NEW n \in Nodes,
         NEW alone, NEW joined, InsertTo(h, n, alone, joined)
  PROVE  /\ pc = "idle" /\ pc' = "idle" /\ node = None /\ node' = None
         /\ Placed' = Placed \cup {n} /\ n \notin Placed
         /\ u[n] = None /\ Below(u, n) = {}
         /\ root[h] # None => root[h] \in Placed /\ u[root[h]] = None
         /\ root[h] = None => links' = alone
         /\ root[h] # None => links' = joined
         /\ \E v : /\ Forestry(v, {}, {})'
                   /\ v = IF root[h] = None THEN u ELSE Linking(u, root[h], n)
  <1>1. /\ pc = "idle" /\ content' = [content EXCEPT ![h] = @ \cup {n}]
        /\ UNCHANGED <<pc, node, heap>>
        /\ \A g \in Heaps : n \notin content[g]
        /\ root[h] = None => links' = alone
        /\ root[h] # None => links' = joined
    BY DEF InsertTo, Locals
  <1>2. node = None /\ heap = None
    BY <1>1, BusyIdle
  <1>3. Placed = UNION {content[g] : g \in Heaps}
    BY <1>2, PlacedIdle
  <1>4. Placed' = UNION {content'[g] : g \in Heaps}
    BY <1>1, <1>2, PlacedIdleNext
  <1>5. TypeOK
    BY DEF Forestry
  <1>6. Placed' = Placed \cup {n} /\ n \notin Placed
    BY <1>1, <1>3, <1>4, <1>5 DEF TypeOK
  <1>7. u[n] = None /\ Below(u, n) = {}
    BY <1>6, PlacedFacts
  <1>8. root[h] # None => root[h] \in Placed /\ u[root[h]] = None
    BY PlacedRoot
  <1>9. PICK v : v = IF root[h] = None THEN u ELSE Linking(u, root[h], n)
    OBVIOUS
  <1>10. Forestry(v, {}, {})'
    BY <1>9, ForestryInsert
  <1> QED BY <1>1, <1>2, <1>6, <1>7, <1>8, <1>9, <1>10

LEMMA MergeEffect ==
  ASSUME NEW u, NEW C, NEW A, Forestry(u, C, A), NEW r \in Heaps, NEW s \in Heaps,
         NEW joined, MergeTo(r, s, joined)
  PROVE  /\ pc = "idle" /\ pc' = "idle" /\ node = None /\ node' = None
         /\ Placed' = Placed
         /\ root[r] # None => root[r] \in Placed /\ u[root[r]] = None
         /\ root[s] # None => root[s] \in Placed /\ u[root[s]] = None
         /\ root[r] # None \/ root[s] # None => root[r] # root[s]
         /\ links' = IF root[r] # None /\ root[s] # None THEN joined ELSE links
         /\ \E v : /\ Forestry(v, {}, {})'
                   /\ v = IF root[r] # None /\ root[s] # None THEN Linking(u, root[r], root[s]) ELSE u
  <1>1. /\ pc = "idle" /\ content' = [content EXCEPT ![r] = @ \cup content[s], ![s] = {}]
        /\ UNCHANGED <<pc, node, heap>>
        /\ links' = IF root[r] # None /\ root[s] # None THEN joined ELSE links
        /\ r # s
    BY DEF MergeTo, Locals
  <1>2. node = None /\ heap = None
    BY <1>1, BusyIdle
  <1>3. Placed = UNION {content[g] : g \in Heaps}
    BY <1>2, PlacedIdle
  <1>4. Placed' = UNION {content'[g] : g \in Heaps}
    BY <1>1, <1>2, PlacedIdleNext
  <1>5. TypeOK
    BY DEF Forestry
  <1>6. Placed' = Placed
    <2>1. \A g \in Heaps : content'[g] = IF g = s THEN {}
                                         ELSE IF g = r THEN content[r] \cup content[s]
                                         ELSE content[g]
      BY <1>1, <1>5 DEF TypeOK
    <2> HIDE <1>1
    <2>2. Placed' \subseteq Placed
      BY <1>3, <1>4, <2>1
    <2>3. Placed \subseteq Placed'
      <3> SUFFICES ASSUME NEW g \in Heaps, NEW x \in content[g]
                   PROVE  \E f \in Heaps : x \in content'[f]
        BY <1>3, <1>4
      <3>1. r # s
        BY <1>1
      <3>2. CASE g = s
        <4>1. x \in content'[r]
          BY <2>1, <3>1, <3>2
        <4> QED BY <4>1
      <3>3. CASE g # s
        <4>1. x \in content'[g]
          BY <2>1, <3>3
        <4> QED BY <4>1
      <3> QED BY <3>2, <3>3
    <2> QED BY <2>2, <2>3
  <1>7. /\ root[r] # None => root[r] \in Placed /\ u[root[r]] = None
        /\ root[s] # None => root[s] \in Placed /\ u[root[s]] = None
    BY PlacedRoot
  <1>8. root[r] # None \/ root[s] # None => root[r] # root[s]
    <2>1. /\ \A g \in Heaps : root[g] # None => root[g] \in content[g]
          /\ \A g \in Heaps : Group(g) = content[g]
      BY <1>1, IdleFacts
    <2>2. content[r] \cap content[s] = {}
      BY <1>1, <2>1 DEF Forestry, Apart
    <2> QED BY <2>1, <2>2
  <1>9. PICK v : v = IF root[r] # None /\ root[s] # None THEN Linking(u, root[r], root[s]) ELSE u
    OBVIOUS
  <1>10. Forestry(v, {}, {})'
    BY <1>9, ForestryMerge
  <1> QED BY <1>1, <1>2, <1>6, <1>7, <1>8, <1>9, <1>10

LEMMA EnterEffect ==
  ASSUME NEW u, NEW C, NEW A, Forestry(u, C, A), pc = "idle",
         NEW h \in Heaps, h \in live, NEW n \in content[h],
         NEW what \in {"drop", "remove", "update", "demote"},
         what \in {"drop", "demote"} <=> n = root[h],
         NEW memory, NEW first, NEW built, Enter(what, h, n, memory, first, built),
         content' = IF what \in {"drop", "remove"} THEN [content EXCEPT ![h] = @ \ {n}] ELSE content,
         key' \in [Nodes -> Keys], \A x \in Nodes \ {n} : key'[x] = key[x],
         out' \in [Heaps -> Nodes \cup {None}]
  PROVE  /\ Placed' = Placed /\ n \in Placed /\ node = None
         /\ \E v : Forestry(v, Below(u, n), {})' /\ v = Under(u, None, n)
  <1>1. pc' = "pair" /\ heap' = h /\ node' = n
    BY DEF Enter
  <1>2. TypeOK /\ Apart
    BY DEF Forestry
  <1>3. node = None /\ heap = None
    BY BusyIdle
  <1>4. Placed = UNION {content[g] : g \in Heaps}
    BY <1>3, PlacedIdle
  <1>5. n \in Placed
    BY <1>4
  <1>6. n \in Nodes
    BY <1>2 DEF TypeOK
  <1>7. Placed' = UNION {content'[g] \cup (IF g = h THEN {n} ELSE {}) : g \in Heaps}
    BY <1>1, <1>6 DEF Placed, Group
  <1>8. \A g \in Heaps : content'[g] \cup (IF g = h THEN {n} ELSE {}) = content[g]
    BY <1>2 DEF TypeOK
  <1>9. Placed' = Placed
    BY <1>4, <1>7, <1>8
  <1>10. PICK v : v = [u EXCEPT ![n] = None]
    OBVIOUS
  <1>11. Forestry(v, Below(u, n), {})'
    BY <1>10, ForestryEnter
  <1>12. v = Under(u, None, n)
    BY <1>10 DEF Under
  <1> QED BY <1>3, <1>5, <1>9, <1>11, <1>12

(* What is known when the second pass ends, the children of the node having *)
(* made at most one, top; and what follows.                                 *)
LEMMA EndFacts ==
  ASSUME NEW u, NEW A, Forestry(u, {}, A), pc = "fold",
         NEW top \in Nodes \cup {None}, A = {top} \cap Nodes
  PROVE  /\ u \in Parents
         /\ node \in Placed /\ u[node] = None
         /\ root[heap] \in Placed /\ u[root[heap]] = None
         /\ node \in Nodes /\ root[heap] \in Nodes
         /\ Below(u, node) = {top} \cap Nodes
         /\ top # None => top \in Placed /\ u[top] = node /\ top # node /\ top # root[heap]
         /\ call \in {"remove", "update"} => node # root[heap]
         /\ call \in {"drop", "demote"} => node = root[heap]
  <1>1. /\ heap \in Heaps /\ node \in Nodes /\ root[heap] \in Nodes
        /\ node \in Group(heap) /\ root[heap] \in Group(heap)
        /\ u[node] = None /\ u[root[heap]] = None
        /\ \A x \in Nodes : u[x] = node <=> x = top
        /\ top \in Nodes => top # node /\ top # root[heap]
    BY PassEnded
  <1>2. /\ call \in {"remove", "update"} => node # root[heap]
        /\ call \in {"drop", "demote"} => node = root[heap]
    BY DEF Forestry, Busy
  <1>3. Below(u, node) = {top} \cap Nodes
    BY <1>1 DEF Below
  <1>4. top # None => top \in Nodes /\ u[top] = node
    BY <1>1
  <1>5. u \in Parents /\ (\A x \in Nodes : u[x] \in Nodes => x \in Placed)
    BY PlacedFacts
  <1>6. node \in Placed /\ root[heap] \in Placed
    BY <1>1 DEF Placed
  <1> QED BY <1>1, <1>2, <1>3, <1>4, <1>5, <1>6

LEMMA PlacedEnds ==
  ASSUME NEW u, NEW C, NEW A, Forestry(u, C, A), pc # "idle", Return, content' = content
  PROVE  /\ call \in {"drop", "remove"} => Placed' = Placed \ {node}
         /\ call \in {"update", "demote"} => Placed' = Placed
         /\ pc' = "idle" /\ node' = None
  <1>1. pc' = "idle" /\ node' = None
    BY DEF Return
  <1>2. Placed' = UNION {content[h] : h \in Heaps}
    BY <1>1, PlacedIdleNext
  <1>3. /\ heap \in Heaps /\ node \in Nodes
        /\ call \in {"update", "demote"} => node \in content[heap]
        /\ call \in {"drop", "remove"} => node \notin content[heap]
        /\ TypeOK /\ Apart
    BY DEF Forestry, Busy, TypeOK
  <1>4. Placed = (UNION {content[h] : h \in Heaps}) \cup {node}
    BY <1>3 DEF Placed, Group
  <1>5. call \in {"update", "demote"} => node \in UNION {content[h] : h \in Heaps}
    BY <1>3
  <1>6. ASSUME call \in {"drop", "remove"}, NEW h \in Heaps PROVE node \notin content[h]
    <2>1. CASE h = heap
      BY <1>3, <1>6, <2>1
    <2>2. CASE h # heap
      BY <1>3, <2>2 DEF Apart, Group
    <2> QED BY <2>1, <2>2
  <1>7. call \in {"drop", "remove"} => node \notin UNION {content[h] : h \in Heaps}
    BY <1>6
  <1> QED BY <1>1, <1>2, <1>4, <1>5, <1>7

LEMMA DropEffect ==
  ASSUME NEW u, NEW A, Forestry(u, {}, A), pc = "fold",
         NEW top \in Nodes \cup {None}, A = {top} \cap Nodes, NEW memory, DropTo(memory, top)
  PROVE  /\ pc' = "idle" /\ node' = None /\ links' = memory
         /\ Placed' = Placed \ {node}
         /\ \E v : /\ Forestry(v, {}, {})'
                   /\ v = IF top = None THEN u ELSE Under(u, None, top)
  <1>1. pc' = "idle" /\ node' = None /\ links' = memory /\ Placed' = Placed \ {node}
    <2>1. Return /\ content' = content /\ call = "drop" /\ links' = memory
      BY DEF DropTo
    <2> QED BY <2>1, PlacedEnds
  <1>2. PICK v : v = Settled(u, top, None)
    OBVIOUS
  <1>3. Forestry(v, {}, {})'
    BY <1>2, ForestryDrop
  <1>4. v = IF top = None THEN u ELSE Under(u, None, top)
    BY <1>2 DEF Settled, Under
  <1> QED BY <1>1, <1>3, <1>4

LEMMA RemoveEffect ==
  ASSUME NEW u, NEW A, Forestry(u, {}, A), pc = "fold",
         NEW top \in Nodes \cup {None}, A = {top} \cap Nodes, NEW memory, RemoveTo(memory)
  PROVE  /\ pc' = "idle" /\ node' = None /\ links' = memory /\ node # root[heap]
         /\ Placed' = Placed \ {node}
         /\ \E v : /\ Forestry(v, {}, {})'
                   /\ v = IF top = None THEN u ELSE Under(u, root[heap], top)
  <1>0. call = "remove"
    BY DEF RemoveTo
  <1>1. pc' = "idle" /\ node' = None /\ links' = memory /\ Placed' = Placed \ {node}
    <2>1. Return /\ content' = content /\ call = "remove" /\ links' = memory
      BY DEF RemoveTo
    <2> QED BY <2>1, PlacedEnds
  <1>2. PICK v : v = Settled(u, top, root[heap])
    OBVIOUS
  <1>3. Forestry(v, {}, {})'
    BY <1>2, ForestryRemove
  <1>4. v = IF top = None THEN u ELSE Under(u, root[heap], top)
    BY <1>2 DEF Settled, Under
  <1>5. node # root[heap]
    BY <1>0, EndFacts
  <1> QED BY <1>1, <1>3, <1>4, <1>5

LEMMA JoinEffect ==
  ASSUME NEW u, NEW A, Forestry(u, {}, A), pc = "fold",
         NEW top \in Nodes \cup {None}, A = {top} \cap Nodes,
         NEW what, NEW other, NEW t, NEW memory, JoinTo(what, memory, other),
         \/ what = "update" /\ other = root[heap] /\ t = root[heap]
         \/ what = "demote" /\ other = top /\ t = None /\ top # None
  PROVE  /\ pc' = "idle" /\ node' = None /\ links' = memory
         /\ Placed' = Placed /\ call = what
         /\ \E v : /\ Forestry(v, {}, {})'
                   /\ v = Linking(IF top = None THEN u ELSE Under(u, t, top), other, node)
  <1>1. pc' = "idle" /\ node' = None /\ links' = memory /\ Placed' = Placed /\ call = what
    <2>1. Return /\ content' = content /\ call = what /\ links' = memory
      BY DEF JoinTo
    <2>2. call \in {"update", "demote"}
      BY <2>1
    <2> QED BY <2>1, <2>2, PlacedEnds
  <1>2. PICK v : v = Linking(Settled(u, top, t), other, node)
    OBVIOUS
  <1>3. Forestry(v, {}, {})'
    BY <1>2, ForestryJoin
  <1>4. Settled(u, top, t) = IF top = None THEN u ELSE Under(u, t, top)
    BY DEF Settled, Under
  <1> QED BY <1>1, <1>2, <1>3, <1>4

LEMMA AloneEffect ==
  ASSUME NEW u, NEW A, Forestry(u, {}, A), pc = "fold", A = {}, NEW memory, DemoteAlone(memory)
  PROVE  /\ pc' = "idle" /\ node' = None /\ links' = memory
         /\ Placed' = Placed /\ Forestry(u, {}, {})'
  <1>1. Return /\ content' = content /\ call = "demote" /\ links' = memory
    BY DEF DemoteAlone
  <1> QED BY <1>1, PlacedEnds, ForestryAlone

(* The steps of the passes. *)
Elsewhere == <<live, root, cnt, key, content, out, call, heap, node>>

LEMMA PassFacts ==
  ASSUME NEW u, NEW C, NEW A, Forestry(u, C, A), pc # "idle"
  PROVE  /\ u \in Parents /\ node \in Nodes /\ node \in Placed
         /\ C \in SUBSET Nodes /\ A \in SUBSET Nodes /\ C \cap A = {} /\ twin \notin C \cup A
         /\ twin \in Nodes \cup {None}
         /\ Below(u, node) = (C \cup A) \cup ({twin} \cap Nodes)
         /\ \A x \in Below(u, node) : u[x] = node /\ x # node /\ x \in Placed \ {node}
         /\ pc = "fold" => twin = None
         /\ Rooted(u) /\ TypeOK
  <1>1. /\ node \in Nodes /\ C \cap A = {} /\ twin \notin C \cup A
        /\ Below(u, node) = (C \cup A) \cup ({twin} \cap Nodes)
        /\ pc = "fold" => twin = None
        /\ twin \in Nodes \cup {None} /\ Shape(u) /\ TypeOK /\ Apart /\ heap \in Heaps
    BY DEF Forestry, Busy, TypeOK
  <1>2. u \in Parents /\ (\A x \in Nodes : u[x] \in Nodes => x \in Placed)
    BY PlacedFacts
  <1>3. C \in SUBSET Nodes /\ A \in SUBSET Nodes
    BY ForestryTyped
  <1>4. \A x \in Nodes : u[x] # x
    BY <1>1, ShapeFacts
  <1>5. node \in Group(heap)
    BY <1>1 DEF Group
  <1>6. Rooted(u)
    BY <1>1 DEF Shape
  <1>7. \A x \in Below(u, node) : x \in Nodes /\ u[x] = node
    BY DEF Below
  <1>8. node \in Placed
    BY <1>1, <1>5 DEF Placed
  <1>9. \A x \in Below(u, node) : u[x] = node /\ x # node /\ x \in Placed \ {node}
    BY <1>1, <1>2, <1>4, <1>7
  <1> QED BY <1>1, <1>2, <1>3, <1>6, <1>8, <1>9

(* The node whose children are merged is a root of the forest meanwhile.   *)
LEMMA PassNode ==
  ASSUME NEW u, NEW C, NEW A, Forestry(u, C, A), pc # "idle"
  PROVE  u[node] = None
  <1>1. heap \in Heaps /\ node \in Nodes /\ Shape(u)
    BY DEF Forestry, Busy, TypeOK
  <1>2. node \in Tops(heap)
    BY <1>1 DEF Tops
  <1> QED BY <1>1, <1>2 DEF Shape

LEMMA TwinEffect ==
  ASSUME NEW u, NEW C, NEW A, Forestry(u, C, A), pc = "pair", twin = None, UNCHANGED Elsewhere,
         NEW c \in C, twin' = c, pc' = pc
  PROVE  /\ Placed' = Placed
         /\ Forestry(u, C \ {c}, A)'
         /\ Cardinality(Sub(u, C \ {c})) < Cardinality(Sub(u, C))
  <1>1. /\ C \in SUBSET Nodes /\ A \in SUBSET Nodes /\ C \cap A = {}
        /\ Below(u, node) = (C \cup A) \cup ({twin} \cap Nodes)
        /\ Rooted(u) /\ \A x \in Below(u, node) : u[x] = node
    BY PassFacts
  <1>2. UNCHANGED <<live, root, cnt, key, content, out, call, heap, node>>
    BY DEF Elsewhere
  <1>3. PICK D : D = C \ {c}
    OBVIOUS
  <1>4. Below(u, node) = (D \cup A) \cup ({twin'} \cap Nodes) /\ D \cap A = {} /\ twin' \notin D \cup A
    BY <1>1, <1>3, NoneAssumption
  <1>5. pc' \in {"pair", "fold"} /\ twin' \in Nodes \cup {None} /\ (pc' = "fold" => twin' = None)
    BY <1>1
  <1>6. Forestry(u, D, A)'
    BY <1>2, <1>4, <1>5, ForestryPass
  <1>7. Cardinality(Sub(u, D)) < Cardinality(Sub(u, C))
    <2>1. c \in Nodes /\ u[c] = node /\ c \notin C \ {c} /\ \A x \in C : u[x] = node
      BY <1>1
    <2>2. Cardinality(Sub(u, C \ {c})) < Cardinality(Sub(u, C))
      <3>1. PICK p : p = node
        OBVIOUS
      <3>2. u[c] = p /\ \A x \in C : u[x] = p
        BY <2>1, <3>1
      <3> QED BY <1>1, <2>1, <3>2, ForestAdvances
    <2> QED BY <1>3, <2>2
  <1>8. Placed' = Placed
    BY <1>2, PlacedKept
  <1> QED BY <1>3, <1>6, <1>7, <1>8

(* The node c is joined with a, which waits or is what has been built. *)
LEMMA PassEffect ==
  ASSUME NEW u, NEW C, NEW A, Forestry(u, C, A), pc # "idle", UNCHANGED Elsewhere,
         pc' = pc, twin' = None, NEW c \in C, NEW a,
         \/ pc = "pair" /\ twin # None /\ a = twin
         \/ pc = "fold" /\ A = {a},
         NEW B, B = (A \ {a}) \cup {Winner(key, a, c)}
  PROVE  /\ Placed' = Placed
         /\ a \in Below(u, node) /\ c \in Below(u, node) /\ a # c
         /\ \E v : /\ v = Linking(u, a, c)
                   /\ Forestry(v, C \ {c}, B)'
                   /\ Cardinality(Sub(v, C \ {c})) < Cardinality(Sub(u, C))
  <1>1. /\ C \in SUBSET Nodes /\ A \in SUBSET Nodes /\ C \cap A = {} /\ twin \notin C \cup A
        /\ Below(u, node) = (C \cup A) \cup ({twin} \cap Nodes)
        /\ Rooted(u) /\ TypeOK /\ twin \in Nodes \cup {None} /\ pc \in {"pair", "fold"}
        /\ pc = "fold" => twin = None
        /\ u \in Parents /\ node \in Nodes
        /\ \A x \in Below(u, node) : u[x] = node /\ x # node
    BY PassFacts DEF TypeOK
  <1>2. UNCHANGED <<live, root, cnt, key, content, out, call, heap, node>>
    BY DEF Elsewhere
  <1>3. PICK D : D = C \ {c}
    OBVIOUS
  <1>4. /\ a \in Below(u, node) /\ c \in Below(u, node) /\ a # c /\ a \notin C
        /\ c \notin A /\ a \in Nodes /\ c \in Nodes
    BY <1>1
  <1>5. PICK v : v = Linking(u, a, c)
    OBVIOUS
  <1>6. PICK w : w = Winner(key, a, c)
    OBVIOUS
  <1>7. PICK l : l = Loser(key, a, c)
    OBVIOUS
  <1>8. {w, l} = {a, c} /\ w # l
    BY <1>1, <1>4, <1>6, <1>7, JoinChoice
  <1>9. Below(v, node) = Below(u, node) \ {l}
    <2>1. v = [u EXCEPT ![l] = w]
      BY <1>5, <1>6, <1>7 DEF Linking
    <2>2. w # node /\ l \in Nodes
      BY <1>1, <1>4, <1>8
    <2> QED BY <1>1, <2>1, <2>2 DEF Below, Parents
  <1>10. Below(v, node) = (D \cup B) \cup ({twin'} \cap Nodes) /\ D \cap B = {} /\ twin' \notin D \cup B
    <2>1. B = (A \ {a}) \cup {w}
      BY <1>6
    <2>2. None \notin D \cup B
      BY <1>1, <1>3, <1>4, <1>8, <2>1, NoneAssumption
    <2>3. D \cap B = {}
      BY <1>1, <1>3, <1>4, <1>8, <2>1
    <2>4. D \cup B = Below(u, node) \ {l}
      <3>1. CASE w = a /\ l = c
        BY <1>1, <1>3, <1>4, <2>1, <3>1, NoneAssumption
      <3>2. CASE w = c /\ l = a
        BY <1>1, <1>3, <1>4, <2>1, <3>2, NoneAssumption
      <3> QED BY <1>8, <3>1, <3>2
    <2> QED BY <1>9, <2>2, <2>3, <2>4, NoneAssumption
  <1>11. Forestry(v, D, B)'
    <2>1. pc' \in {"pair", "fold"} /\ twin' \in Nodes \cup {None} /\ (pc' = "fold" => twin' = None)
      BY <1>1
    <2>2. a \in Below(u, node) /\ c \in Below(u, node) /\ a # c /\ v = Linking(u, a, c)
      BY <1>4, <1>5
    <2> QED BY <1>2, <1>10, <2>1, <2>2, ForestryPass
  <1>12. Cardinality(Sub(v, C \ {c})) < Cardinality(Sub(u, C))
    <2>1. PICK p : p = node
      OBVIOUS
    <2>2. /\ u[a] = p /\ u[c] = p /\ a \notin C \ {c} /\ c \notin C \ {c}
          /\ \A x \in C : u[x] = p
      BY <1>1, <1>4, <2>1
    <2> QED BY <1>1, <1>4, <1>5, <2>2, ForestAdvances
  <1>13. Placed' = Placed
    BY <1>2, PlacedKept
  <1> QED BY <1>3, <1>4, <1>5, <1>11, <1>12, <1>13

(* The second pass starts, on what the first one has built. *)
LEMMA FoldEffect ==
  ASSUME NEW u, NEW A, Forestry(u, {}, A), pc = "pair", UNCHANGED Elsewhere,
         pc' = "fold", twin' = None, NEW D, NEW B, D \cap B = {}, D \cup B = A \cup ({twin} \cap Nodes)
  PROVE  Placed' = Placed /\ Forestry(u, D, B)'
  <1>1. A \in SUBSET Nodes /\ Below(u, node) = A \cup ({twin} \cap Nodes)
    BY PassFacts
  <1>2. UNCHANGED <<live, root, cnt, key, content, out, call, heap, node>>
    BY DEF Elsewhere
  <1>3. Below(u, node) = (D \cup B) \cup ({twin'} \cap Nodes) /\ twin' \notin D \cup B
    BY <1>1, NoneAssumption
  <1>4. pc' \in {"pair", "fold"} /\ twin' \in Nodes \cup {None} /\ (pc' = "fold" => twin' = None)
    OBVIOUS
  <1>5. Forestry(u, D, B)'
    BY <1>2, <1>3, <1>4, ForestryPass
  <1> QED BY <1>2, <1>5, PlacedKept

LEMMA ForestrySame ==
  ASSUME UNCHANGED vars, NEW u, NEW C, NEW A, Forestry(u, C, A)
  PROVE  Forestry(u, C, A)'
  BY DEF Forestry, Shape, Apart, Ordered, Busy, TypeOK, Group, Tops, vars, Locals

-----------------------------------------------------------------------------
(* What a step shows of each heap is one of a bounded priority queue.      *)
QueueSteps == \A h \in Heaps : [Queue(h)!Next]_(Queue(h)!vars)

LEMMA QueueCardinality == \A h, S : Queue(h)!Cardinality(S) = Cardinality(S)
  BY DEF Queue!Cardinality, Cardinality

LEMMA QueueStutters ==
  ASSUME UNCHANGED <<key, content, out>>
  PROVE  QueueSteps
  <1>1. ASSUME NEW h \in Heaps PROVE UNCHANGED Queue(h)!vars
    BY DEF Queue!vars
  <1> QED BY <1>1 DEF QueueSteps

LEMMA QueueLoads ==
  ASSUME NEW h \in Heaps, key' = key, out'[h] = None, content'[h] \in SUBSET Nodes,
         Cardinality(content'[h]) <= Nr
  PROVE  [Queue(h)!Next]_(Queue(h)!vars)
  <1>1. Queue(h)!Cardinality(content'[h]) <= Nr
    BY QueueCardinality
  <1>2. Queue(h)!Load
    BY <1>1 DEF Queue!Load
  <1> QED BY <1>2 DEF Queue!Next

LEMMA QueueFits ==
  ASSUME NEW u, NEW C, NEW A, Forestry(u, C, A), pc = "idle"
  PROVE  /\ TypeOK
         /\ \A h \in Heaps : /\ content[h] \in SUBSET Nodes /\ IsFiniteSet(content[h])
                             /\ Cardinality(content[h]) = cnt[h] /\ cnt[h] \in 0 .. Nr
  <1>1. TypeOK /\ Apart
    BY DEF Forestry
  <1>2. \A h \in Heaps : Group(h) = content[h]
    BY IdleFacts
  <1> QED BY <1>1, <1>2, FiniteNodes DEF TypeOK, Apart

LEMMA QueueKeeps ==
  ASSUME NEW u, NEW C, NEW A, Forestry(u, C, A), pc = "idle", key' = key, out' = NoneOut,
         \A h \in Heaps : content'[h] \subseteq content[h]
  PROVE  QueueSteps
  <1> SUFFICES ASSUME NEW h \in Heaps PROVE [Queue(h)!Next]_(Queue(h)!vars)
    BY DEF QueueSteps
  <1>1. /\ content[h] \in SUBSET Nodes /\ IsFiniteSet(content[h])
        /\ Cardinality(content[h]) \in 0 .. Nr
    BY QueueFits
  <1>2. content'[h] \subseteq content[h]
    OBVIOUS
  <1>3. IsFiniteSet(content'[h]) /\ Cardinality(content'[h]) <= Cardinality(content[h])
    BY <1>1, <1>2, FS_Subset
  <1>4. Cardinality(content'[h]) <= Nr /\ content'[h] \in SUBSET Nodes
    BY <1>1, <1>3, FS_CardinalityType, NrAssumption
  <1>5. out'[h] = None
    BY DEF NoneOut
  <1> QED BY <1>4, <1>5, QueueLoads

LEMMA QueueSetup ==
  ASSUME NEW u, NEW C, NEW A, Forestry(u, C, A), NEW h \in Heaps, NEW memory, SetupTo(h, memory)
  PROVE  QueueSteps
  <1>1. /\ pc = "idle" /\ key' = key /\ out' = NoneOut
        /\ content' = [content EXCEPT ![h] = {}]
    BY DEF SetupTo
  <1>2. TypeOK
    BY DEF Forestry
  <1>3. \A g \in Heaps : content'[g] \subseteq content[g]
    BY <1>1, <1>2 DEF TypeOK
  <1> QED BY <1>1, <1>3, QueueKeeps

LEMMA QueueRekeys ==
  ASSUME NEW n \in Nodes, NEW k, key' = [key EXCEPT ![n] = k], TypeOK,
         out' = NoneOut, content' = content
  PROVE  QueueSteps
  <1> SUFFICES ASSUME NEW h \in Heaps PROVE Queue(h)!Next
    BY DEF QueueSteps
  <1>1. key' = [key EXCEPT ![n] = key'[n]]
    BY DEF TypeOK
  <1>2. out'[h] = None /\ content'[h] = content[h]
    BY DEF NoneOut
  <1>3. Queue(h)!Rekey
    BY <1>1, <1>2 DEF Queue!Rekey
  <1> QED BY <1>3 DEF Queue!Next

LEMMA QueueInsert ==
  ASSUME NEW u, NEW C, NEW A, Forestry(u, C, A), NEW h \in Heaps, NEW n \in Nodes,
         NEW alone, NEW joined, InsertTo(h, n, alone, joined)
  PROVE  QueueSteps
  <1>1. /\ pc = "idle" /\ key' = key /\ out' = NoneOut /\ cnt[h] < Nr /\ n \notin content[h]
        /\ content' = [content EXCEPT ![h] = @ \cup {n}]
    BY DEF InsertTo
  <1>2. TypeOK
    BY DEF Forestry
  <1> SUFFICES ASSUME NEW g \in Heaps PROVE [Queue(g)!Next]_(Queue(g)!vars)
    BY DEF QueueSteps
  <1>3. /\ content[g] \in SUBSET Nodes /\ IsFiniteSet(content[g])
        /\ Cardinality(content[g]) = cnt[g] /\ cnt[g] \in 0 .. Nr
    BY <1>1, QueueFits
  <1>4. out'[g] = None
    BY <1>1 DEF NoneOut
  <1>5. CASE g = h
    <2>1. content'[g] = content[g] \cup {n}
      BY <1>1, <1>2, <1>5 DEF TypeOK
    <2>2. Cardinality(content[g] \cup {n}) = cnt[g] + 1
      BY <1>1, <1>3, <1>5, FS_AddElement
    <2>3. Cardinality(content'[g]) <= Nr /\ content'[g] \in SUBSET Nodes
      BY <1>1, <1>3, <1>5, <2>1, <2>2, NrAssumption
    <2> QED BY <1>1, <1>4, <2>3, QueueLoads
  <1>6. CASE g # h
    <2>1. content'[g] = content[g]
      BY <1>1, <1>2, <1>6 DEF TypeOK
    <2>2. Cardinality(content'[g]) <= Nr /\ content'[g] \in SUBSET Nodes
      BY <1>3, <2>1, NrAssumption
    <2> QED BY <1>1, <1>4, <2>2, QueueLoads
  <1> QED BY <1>5, <1>6

LEMMA QueueMerge ==
  ASSUME NEW u, NEW C, NEW A, Forestry(u, C, A), NEW r \in Heaps, NEW s \in Heaps,
         NEW joined, MergeTo(r, s, joined)
  PROVE  QueueSteps
  <1>1. /\ pc = "idle" /\ key' = key /\ out' = NoneOut /\ r # s /\ cnt[r] + cnt[s] <= Nr
        /\ content' = [content EXCEPT ![r] = @ \cup content[s], ![s] = {}]
    BY DEF MergeTo
  <1>2. TypeOK
    BY DEF Forestry
  <1> SUFFICES ASSUME NEW g \in Heaps PROVE [Queue(g)!Next]_(Queue(g)!vars)
    BY DEF QueueSteps
  <1>3. \A h \in Heaps : /\ content[h] \in SUBSET Nodes /\ IsFiniteSet(content[h])
                         /\ Cardinality(content[h]) = cnt[h] /\ cnt[h] \in 0 .. Nr
    BY <1>1, QueueFits
  <1>4. out'[g] = None
    BY <1>1 DEF NoneOut
  <1>5. Cardinality({}) = 0
    BY FS_EmptySet
  <1>6. Cardinality(content'[g]) <= Nr /\ content'[g] \in SUBSET Nodes
    <2>1. CASE g = r
      <3>1. content'[g] = content[r] \cup content[s]
        BY <1>1, <1>2, <2>1 DEF TypeOK
      <3>2. Cardinality(content[r] \cup content[s])
              = Cardinality(content[r]) + Cardinality(content[s])
                  - Cardinality(content[r] \cap content[s])
        BY <1>3, FS_Union
      <3>3. Cardinality(content[r] \cap content[s]) \in Nat
        <4>1. IsFiniteSet(content[r] \cap content[s])
          BY <1>3, FS_Subset
        <4> QED BY <4>1, FS_CardinalityType
      <3>4. Cardinality(content'[g]) <= cnt[r] + cnt[s]
        BY <1>3, <3>1, <3>2, <3>3, NrAssumption
      <3>5. IsFiniteSet(content'[g]) /\ content'[g] \in SUBSET Nodes
        BY <1>3, <3>1, FS_Union, ZenonT(30)
      <3>6. Cardinality(content'[g]) \in Nat
        BY <3>5, FS_CardinalityType
      <3>7. cnt[r] \in Nat /\ cnt[s] \in Nat /\ cnt[r] + cnt[s] <= Nr
        BY <1>1, <1>3, NrAssumption
      <3> HIDE <1>3, <1>1
      <3>8. Cardinality(content'[g]) <= Nr
        BY <3>4, <3>6, <3>7, NrAssumption
      <3> QED BY <3>5, <3>8
    <2>2. CASE g = s
      <3>1. content'[g] = {}
        BY <1>1, <1>2, <2>2 DEF TypeOK
      <3> QED BY <1>5, <3>1, NrAssumption
    <2>3. CASE g # r /\ g # s
      <3>1. content'[g] = content[g]
        BY <1>1, <1>2, <2>3 DEF TypeOK
      <3> QED BY <1>3, <3>1, NrAssumption
    <2> QED BY <2>1, <2>2, <2>3
  <1> QED BY <1>1, <1>4, <1>6, QueueLoads

LEMMA QueueExtract ==
  ASSUME NEW u, NEW C, NEW A, Forestry(u, C, A), NEW h \in Heaps, Extracting(h)
  PROVE  QueueSteps
  <1>1. /\ pc = "idle" /\ key' = key /\ root[h] # None
        /\ out' = [NoneOut EXCEPT ![h] = root[h]]
        /\ content' = [content EXCEPT ![h] = @ \ {root[h]}]
    BY DEF Extracting
  <1>2. TypeOK
    BY DEF Forestry
  <1>3. root[h] \in content[h] /\ \A n \in content[h] : key[root[h]] <= key[n]
    BY <1>1, IdleFacts
  <1> SUFFICES ASSUME NEW g \in Heaps PROVE [Queue(g)!Next]_(Queue(g)!vars)
    BY DEF QueueSteps
  <1>4. CASE g = h
    <2>1. content'[g] = content[g] \ {root[h]} /\ out'[g] = root[h]
      BY <1>1, <1>2, <1>4 DEF TypeOK, NoneOut
    <2>2. root[h] \in Queue(g)!Least(content[g])
      BY <1>3, <1>4 DEF Queue!Least
    <2>3. Queue(g)!Extract
      BY <1>1, <2>1, <2>2 DEF Queue!Extract
    <2> QED BY <2>3 DEF Queue!Next
  <1>5. CASE g # h
    <2>1. content'[g] = content[g] /\ out'[g] = None
      BY <1>1, <1>2, <1>5 DEF TypeOK, NoneOut
    <2>2. Cardinality(content'[g]) <= Nr /\ content'[g] \in SUBSET Nodes
      BY <1>1, <2>1, QueueFits, NrAssumption
    <2> QED BY <1>1, <2>1, <2>2, QueueLoads
  <1> QED BY <1>4, <1>5

LEMMA QueueRemove ==
  ASSUME NEW u, NEW C, NEW A, Forestry(u, C, A), NEW h \in Heaps, NEW n, Removing(h, n)
  PROVE  QueueSteps
  <1>1. /\ pc = "idle" /\ key' = key /\ out' = NoneOut
        /\ content' = [content EXCEPT ![h] = @ \ {n}]
    BY DEF Removing
  <1>2. TypeOK
    BY DEF Forestry
  <1>3. \A g \in Heaps : content'[g] \subseteq content[g]
    BY <1>1, <1>2 DEF TypeOK
  <1> QED BY <1>1, <1>3, QueueKeeps

LEMMA QueueRekey ==
  ASSUME NEW u, NEW C, NEW A, Forestry(u, C, A), NEW h, NEW n \in Nodes, NEW k, Rekeying(h, n, k)
  PROVE  QueueSteps
  BY QueueRekeys DEF Rekeying, Forestry

LEMMA QueueSetKey ==
  ASSUME NEW u, NEW C, NEW A, Forestry(u, C, A), NEW n \in Nodes, NEW k, SetKey(n, k)
  PROVE  QueueSteps
  BY QueueRekeys DEF SetKey, Forestry

-----------------------------------------------------------------------------
(* hprheap: the children of each node are strung from its first one.       *)
HprNexts(m) == [n \in Nodes |-> m[n].next]

HprMemory == [Nodes -> [first : Nodes \cup {None}, next : Nodes \cup {None}]]

HprStrung(m, u, G) ==
  \A p \in G : Strung(HprNexts(m), m[p].first, Below(u, p), None)

HprLinked(u, C, A) ==
  /\ links \in HprMemory
  /\ call \in {"none", "drop"}
  /\ HprStrung(links, u, Placed \ {node})
  /\ pc = "pair" => /\ Strung(HprNexts(links), cursor, C, None)
                    /\ Strung(HprNexts(links), acc, A, None)
  /\ pc = "fold" => /\ Strung(HprNexts(links), cursor, C, None)
                    /\ A = {acc} \cap Nodes
                    /\ acc \in Nodes \cup {None}
                    /\ acc = None => C = {}

HprHolds(u, C, A) == Forestry(u, C, A) /\ HprLinked(u, C, A)

HprInv ==
  \E u \in Parents, C, A \in SUBSET Nodes : HprHolds(u, C, A)

LEMMA HprInvNext ==
  ASSUME NEW v, NEW D, NEW B, Forestry(v, D, B)', HprLinked(v, D, B)'
  PROVE  HprInv'
  BY ForestryTypedNext DEF HprInv, HprHolds

(* Attaching a node to another one makes it its first child. *)
LEMMA HprAttached ==
  ASSUME NEW m \in HprMemory, NEW u \in Parents, NEW G \in SUBSET Nodes,
         HprStrung(m, u, G), NEW a \in Nodes, NEW b \in Nodes, a # b, a \in G, u[b] \notin G,
         NEW v, v = Under(u, a, b), NEW after, after = Hpr!Attach(m, b, a)
  PROVE  /\ after \in HprMemory
         /\ HprStrung(after, v, G)
         /\ \A x \in Nodes \ {b} : after[x].next = m[x].next
  <1>1. /\ after \in HprMemory
        /\ \A x \in Nodes \ {b} : after[x].next = m[x].next
        /\ \A x \in Nodes \ {a} : after[x].first = m[x].first
        /\ after[b].next = m[a].first /\ after[a].first = b
    BY DEF HprMemory, Hpr!Attach
  <1>2. ASSUME NEW p \in G PROVE Strung(HprNexts(after), after[p].first, Below(v, p), None)
    <2>1. Strung(HprNexts(m), m[p].first, Below(u, p), None)
      BY DEF HprStrung
    <2>2. b \notin Below(u, p) /\ Below(u, p) \in SUBSET Nodes
      BY DEF Below
    <2>3. \A x \in Below(u, p) : HprNexts(after)[x] = HprNexts(m)[x]
      BY <1>1, <2>2 DEF HprNexts
    <2>4. CASE p = a
      <3>1. Below(v, a) = Below(u, a) \cup {b}
        BY DEF Below, Parents, Under
      <3>2. HprNexts(after)[b] = m[a].first
        BY <1>1 DEF HprNexts
      <3>3. None \notin Below(u, a) /\ b # None
        BY NoneAssumption DEF Below
      <3>4. Strung(HprNexts(after), b, Below(u, a) \cup {b}, None)
        <4>1. PICK next : next = HprNexts(m)
          OBVIOUS
        <4>2. PICK late : late = HprNexts(after)
          OBVIOUS
        <4>3. PICK c : c = m[a].first
          OBVIOUS
        <4>4. PICK S : S = Below(u, a)
          OBVIOUS
        <4>5. Strung(next, c, S, None) /\ None \notin S /\ b \notin S /\ b # None
              /\ late[b] = c /\ \A x \in S : late[x] = next[x]
          BY <2>1, <2>2, <2>3, <2>4, <3>2, <3>3, <4>1, <4>2, <4>3, <4>4
        <4>6. Strung(late, b, S \cup {b}, None)
          BY <4>5, StrungPush
        <4> QED BY <4>2, <4>4, <4>6
      <3> QED BY <1>1, <2>4, <3>1, <3>4
    <2>5. CASE p # a
      <3>1. Below(v, p) = Below(u, p)
        BY <2>5 DEF Below, Parents, Under
      <3>2. after[p].first = m[p].first
        BY <1>1, <2>5
      <3> QED BY <2>1, <2>3, <3>1, <3>2, StrungKept
    <2> QED BY <2>4, <2>5
  <1> QED BY <1>1, <1>2 DEF HprStrung

LEMMA HprJoined ==
  ASSUME TypeOK, NEW m \in HprMemory, NEW u \in Parents, NEW G \in SUBSET Nodes,
         HprStrung(m, u, G), NEW a \in Nodes, NEW b \in Nodes, a # b, a \in G, b \in G,
         u[a] \notin G, u[b] \notin G,
         NEW v, v = Linking(u, a, b), NEW after, after = Hpr!Join(m, a, b)
  PROVE  /\ after \in HprMemory
         /\ HprStrung(after, v, G)
         /\ \A x \in Nodes \ {Loser(key, a, b)} : after[x].next = m[x].next
  <1>1. /\ {Winner(key, a, b), Loser(key, a, b)} = {a, b}
        /\ Winner(key, a, b) # Loser(key, a, b)
    BY JoinChoice
  <1>2. after = Hpr!Attach(m, Loser(key, a, b), Winner(key, a, b))
    BY DEF Hpr!Join, Hpr!Winner, Winner, Loser
  <1>3. PICK w : w = Winner(key, a, b)
    OBVIOUS
  <1>4. PICK l : l = Loser(key, a, b)
    OBVIOUS
  <1>5. w \in Nodes /\ l \in Nodes /\ w # l /\ w \in G /\ u[l] \notin G
    BY <1>1, <1>3, <1>4
  <1>6. v = Under(u, w, l) /\ after = Hpr!Attach(m, l, w)
    BY <1>2, <1>3, <1>4 DEF Linking, Under
  <1> QED BY <1>4, <1>5, <1>6, HprAttached

LEMMA HprIdleNext ==
  ASSUME NEW v, Forestry(v, {}, {})', pc' = "idle", node' = None, links' \in HprMemory,
         HprStrung(links', v, Placed')
  PROVE  HprInv'
  <1>0. call' = "none"
    BY DEF Forestry, Busy
  <1>1. HprLinked(v, {}, {})'
    BY <1>0 DEF HprLinked, HprStrung
  <1> QED BY <1>1, HprInvNext

(* The links of the nodes of G are as they were. *)
LEMMA HprStrungKept ==
  ASSUME NEW m, NEW after, NEW u, NEW v, NEW G, HprStrung(m, u, G),
         NEW H, H \subseteq G, H \subseteq Nodes,
         \A p \in H : Below(v, p) \subseteq H,
         \A p \in H : Below(v, p) = Below(u, p),
         \A x \in H : after[x] = m[x]
  PROVE  HprStrung(after, v, H)
  <1> SUFFICES ASSUME NEW p \in H
               PROVE  Strung(HprNexts(after), after[p].first, Below(v, p), None)
    BY DEF HprStrung
  <1>1. Strung(HprNexts(m), m[p].first, Below(u, p), None)
    BY DEF HprStrung
  <1>2. Below(v, p) = Below(u, p) /\ after[p].first = m[p].first
    OBVIOUS
  <1>3. \A x \in Below(u, p) : HprNexts(after)[x] = HprNexts(m)[x]
    BY <1>2 DEF HprNexts
  <1> QED BY <1>1, <1>2, <1>3, StrungKept

LEMMA HprInit ==
  ASSUME Hpr!Init
  PROVE  HprInv
  <1>1. Down /\ links = [n \in Nodes |-> Hpr!Blank]
    BY DEF Hpr!Init, Hpr!Down, Down
  <1>2. PICK u : u = [n \in Nodes |-> None]
    OBVIOUS
  <1>3. Forestry(u, {}, {})
    BY <1>1, <1>2, ForestryDown
  <1>4. Placed = {} /\ pc = "idle"
    BY <1>1, PlacedIdle DEF Down
  <1>5. HprLinked(u, {}, {})
    BY <1>1, <1>4 DEF Down, HprLinked, HprStrung, HprMemory, Hpr!Blank
  <1> QED BY <1>3, <1>5, ForestryTyped DEF HprInv, HprHolds

LEMMA HprSetup ==
  ASSUME NEW u, NEW C, NEW A, HprHolds(u, C, A), NEW h \in Heaps, Hpr!Setup(h)
  PROVE  HprInv'
  <1>1. Forestry(u, C, A) /\ links \in HprMemory /\ HprStrung(links, u, Placed \ {node})
    BY DEF HprHolds, HprLinked
  <1>2. PICK memory : memory = [n \in Nodes |-> IF n \in content[h] THEN Hpr!Blank ELSE links[n]]
    OBVIOUS
  <1>3. SetupTo(h, memory)
    BY <1>2 DEF Hpr!Setup, Hpr!SetupTo, SetupTo, Hpr!NoneOut, NoneOut, Hpr!Locals, Locals
  <1>4. links' = memory
    BY <1>3 DEF SetupTo
  <1>5. /\ pc' = "idle" /\ node = None /\ node' = None
        /\ Placed' = Placed \ content[h]
    BY <1>1, <1>3, SetupEffect
  <1>6. PICK v : Forestry(v, {}, {})' /\ \A p \in Placed' : Below(v, p) = Below(u, p)
    BY <1>1, <1>3, SetupEffect
  <1>7. memory \in HprMemory
    BY <1>1, <1>2 DEF HprMemory, Hpr!Blank
  <1>8. HprStrung(memory, v, Placed')
    <2>1. PICK m : m = links
      OBVIOUS
    <2>2. PICK G : G = Placed \ {node}
      OBVIOUS
    <2>3. PICK H : H = Placed'
      OBVIOUS
    <2>4. Placed \in SUBSET Nodes
      BY <1>1, PlacedFacts
    <2>5. H \subseteq G /\ H \subseteq Nodes /\ \A x \in H : x \notin content[h]
      BY <1>5, <2>2, <2>3, <2>4, NoneAssumption
    <2>6. \A p \in H : Below(v, p) \subseteq H
      BY <1>6, <2>3, PlacedNext
    <2>7. \A p \in H : Below(v, p) = Below(u, p)
      BY <1>6, <2>3
    <2>8. \A x \in H : memory[x] = m[x]
      BY <1>2, <2>1, <2>5
    <2>9. HprStrung(m, u, G)
      BY <1>1, <2>1, <2>2
    <2> QED BY <2>3, <2>5, <2>6, <2>7, <2>8, <2>9, HprStrungKept
  <1> QED BY <1>4, <1>5, <1>6, <1>7, <1>8, HprIdleNext

LEMMA HprSetKey ==
  ASSUME NEW u, NEW C, NEW A, HprHolds(u, C, A), NEW n \in Nodes, NEW k \in Keys, Hpr!SetKey(n, k)
  PROVE  HprInv'
  <1>1. Forestry(u, C, A) /\ links \in HprMemory /\ HprStrung(links, u, Placed \ {node})
    BY DEF HprHolds, HprLinked
  <1>2. SetKey(n, k)
    BY DEF Hpr!SetKey, SetKey, Hpr!NoneOut, NoneOut, Hpr!Locals, Locals
  <1>3. pc = "idle" /\ UNCHANGED <<links, pc, content, heap, node>>
    BY <1>2 DEF SetKey, Locals
  <1>4. node = None /\ Placed' = Placed
    BY <1>1, <1>3, BusyIdle, PlacedKept
  <1>5. Forestry(u, {}, {})'
    BY <1>1, <1>2, ForestrySetKey
  <1>6. Placed \ {node} = Placed
    BY <1>1, <1>4, PlacedFacts, NoneAssumption
  <1> QED BY <1>1, <1>3, <1>4, <1>5, <1>6, HprIdleNext

LEMMA HprInsert ==
  ASSUME NEW u, NEW C, NEW A, HprHolds(u, C, A), NEW h \in Heaps, NEW n \in Nodes, Hpr!Insert(h, n)
  PROVE  HprInv'
  <1>1. Forestry(u, C, A) /\ links \in HprMemory /\ HprStrung(links, u, Placed \ {node})
    BY DEF HprHolds, HprLinked
  <1>2. PICK fresh : fresh = [links EXCEPT ![n].first = None]
    OBVIOUS
  <1>3. PICK r : r = root[h]
    OBVIOUS
  <1>4. PICK joined : joined = Hpr!Join(fresh, r, n)
    OBVIOUS
  <1>5. InsertTo(h, n, fresh, joined)
    BY <1>2, <1>3, <1>4 DEF Hpr!Insert, Hpr!InsertTo, InsertTo, Hpr!NoneOut, NoneOut, Hpr!Locals, Locals,
                            Hpr!Winner, Winner
  <1>6. /\ pc' = "idle" /\ node = None /\ node' = None
        /\ Placed' = Placed \cup {n} /\ n \notin Placed
        /\ u[n] = None /\ Below(u, n) = {}
        /\ r # None => r \in Placed /\ u[r] = None
        /\ r = None => links' = fresh
        /\ r # None => links' = joined
    BY <1>1, <1>3, <1>5, InsertEffect
  <1>7. PICK v : Forestry(v, {}, {})' /\ v = IF r = None THEN u ELSE Linking(u, r, n)
    BY <1>1, <1>3, <1>5, InsertEffect
  <1>8. PICK G : G = Placed'
    OBVIOUS
  <1>9. PICK m : m = links
    OBVIOUS
  <1>10. /\ u \in Parents /\ Placed \in SUBSET Nodes /\ G \in SUBSET Nodes /\ G = Placed \cup {n}
         /\ \A x \in Nodes : u[x] \in Nodes => x \in Placed
    BY <1>1, <1>6, <1>8, PlacedFacts
  <1>11. fresh \in HprMemory /\ HprStrung(fresh, u, G)
    <2>1. fresh \in HprMemory /\ fresh[n].first = None
      BY <1>1, <1>2 DEF HprMemory
    <2>2. ASSUME NEW p \in Placed PROVE Strung(HprNexts(fresh), fresh[p].first, Below(u, p), None)
      <3>1. Strung(HprNexts(m), m[p].first, Below(u, p), None)
        BY <1>1, <1>6, <1>9, <1>10, NoneAssumption DEF HprStrung
      <3>2. fresh[p] = m[p]
        BY <1>1, <1>2, <1>6, <1>9, <1>10 DEF HprMemory
      <3>3. \A x \in Below(u, p) : HprNexts(fresh)[x] = HprNexts(m)[x]
        BY <1>1, <1>2, <1>9 DEF HprNexts, HprMemory, Below
      <3> QED BY <3>1, <3>2, <3>3, StrungKept
    <2>3. Strung(HprNexts(fresh), fresh[n].first, Below(u, n), None)
      BY <1>6, <2>1, StrungNothing
    <2> QED BY <1>10, <2>1, <2>2, <2>3 DEF HprStrung
  <1>12. CASE r = None
    <2>1. v = u /\ links' = fresh
      BY <1>6, <1>7, <1>12
    <2> QED BY <1>6, <1>7, <1>8, <1>11, <2>1, HprIdleNext
  <1>13. CASE r # None
    <2>1. v = Linking(u, r, n) /\ links' = joined
      BY <1>6, <1>7, <1>13
    <2>2. r \in G /\ n \in G /\ r \in Nodes /\ r # n /\ u[r] \notin G /\ u[n] \notin G
      BY <1>6, <1>10, <1>13, NoneAssumption
    <2>3. joined \in HprMemory /\ HprStrung(joined, v, G)
      BY <1>1, <1>4, <1>10, <1>11, <2>1, <2>2, HprJoined DEF Forestry
    <2> QED BY <1>6, <1>7, <1>8, <2>1, <2>3, HprIdleNext
  <1> QED BY <1>12, <1>13

LEMMA HprMerge ==
  ASSUME NEW u, NEW C, NEW A, HprHolds(u, C, A), NEW r \in Heaps, NEW s \in Heaps, Hpr!Merge(r, s)
  PROVE  HprInv'
  <1>1. Forestry(u, C, A) /\ links \in HprMemory /\ HprStrung(links, u, Placed \ {node})
    BY DEF HprHolds, HprLinked
  <1>2. PICK m : m = links
    OBVIOUS
  <1>3. PICK a : a = root[r]
    OBVIOUS
  <1>4. PICK b : b = root[s]
    OBVIOUS
  <1>5. PICK joined : joined = Hpr!Join(m, a, b)
    OBVIOUS
  <1>6. MergeTo(r, s, joined)
    BY <1>2, <1>3, <1>4, <1>5 DEF Hpr!Merge, Hpr!MergeTo, MergeTo, Hpr!NoneOut, NoneOut, Hpr!Locals, Locals,
                            Hpr!Winner, Winner, Hpr!CountAfterMerge, CountAfterMerge
  <1>7. /\ pc' = "idle" /\ node = None /\ node' = None
        /\ Placed' = Placed
        /\ a # None => a \in Placed /\ u[a] = None
        /\ b # None => b \in Placed /\ u[b] = None
        /\ a # None /\ b # None => a # b
        /\ links' = IF a # None /\ b # None THEN joined ELSE m
    BY <1>1, <1>2, <1>3, <1>4, <1>6, MergeEffect
  <1>8. PICK v : Forestry(v, {}, {})' /\ v = IF a # None /\ b # None THEN Linking(u, a, b) ELSE u
    BY <1>1, <1>3, <1>4, <1>6, MergeEffect
  <1>9. PICK G : G = Placed'
    OBVIOUS
  <1>10. u \in Parents /\ G \in SUBSET Nodes /\ G = Placed
    BY <1>1, <1>7, <1>9, PlacedFacts
  <1>11. HprStrung(m, u, G) /\ m \in HprMemory
    <2>1. Placed \ {node} = G
      BY <1>7, <1>10, NoneAssumption
    <2> QED BY <1>1, <1>2, <2>1
  <1>12. CASE ~ (a # None /\ b # None)
    <2>1. v = u /\ links' = m
      BY <1>7, <1>8, <1>12
    <2> QED BY <1>7, <1>8, <1>9, <1>11, <2>1, HprIdleNext
  <1>13. CASE a # None /\ b # None
    <2>1. v = Linking(u, a, b) /\ links' = joined
      BY <1>7, <1>8, <1>13
    <2>2. a \in G /\ b \in G /\ a \in Nodes /\ b \in Nodes /\ a # b /\ u[a] \notin G /\ u[b] \notin G
      BY <1>7, <1>10, <1>13, NoneAssumption
    <2>3. joined \in HprMemory /\ HprStrung(joined, v, G)
      BY <1>1, <1>5, <1>10, <1>11, <2>1, <2>2, HprJoined DEF Forestry
    <2> QED BY <1>7, <1>8, <1>9, <2>1, <2>3, HprIdleNext
  <1> QED BY <1>12, <1>13

LEMMA HprExtract ==
  ASSUME NEW u, NEW C, NEW A, HprHolds(u, C, A), NEW h \in Heaps, Hpr!Extract(h)
  PROVE  HprInv'
  <1>1. Forestry(u, C, A) /\ links \in HprMemory /\ HprStrung(links, u, Placed \ {node}) /\ TypeOK
    BY DEF HprHolds, HprLinked, Forestry
  <1>2. PICK m : m = links
    OBVIOUS
  <1>3. PICK n : n = root[h]
    OBVIOUS
  <1>4. /\ pc = "idle" /\ h \in live /\ n # None /\ key' = key
        /\ out' = [NoneOut EXCEPT ![h] = n]
        /\ content' = [content EXCEPT ![h] = @ \ {n}]
        /\ Enter("drop", h, n, m, m[n].first, None)
    BY <1>2, <1>3 DEF Hpr!Extract, Hpr!Extracting, Hpr!Enter, Enter, Hpr!NoneOut, NoneOut
  <1>5. n \in content[h] /\ n \in Nodes /\ u[n] = None
    BY <1>1, <1>3, <1>4, IdleFacts DEF TypeOK
  <1>6. /\ key' \in [Nodes -> Keys] /\ \A x \in Nodes \ {n} : key'[x] = key[x]
        /\ out' \in [Heaps -> Nodes \cup {None}]
    BY <1>1, <1>4, <1>5 DEF TypeOK, NoneOut
  <1>7. PICK first : first = m[n].first
    OBVIOUS
  <1>8. "drop" \in {"drop", "demote"} <=> n = root[h]
    BY <1>3
  <1>9. /\ content' = IF "drop" \in {"drop", "remove"} THEN [content EXCEPT ![h] = @ \ {n}] ELSE content
        /\ "drop" \in {"drop", "remove", "update", "demote"}
    BY <1>4
  <1>10. Enter("drop", h, n, m, first, None)
    BY <1>4, <1>7
  <1>11. Placed' = Placed /\ n \in Placed /\ node = None
    BY <1>1, <1>4, <1>5, <1>6, <1>8, <1>9, <1>10, EnterEffect
  <1>12. PICK v : Forestry(v, Below(u, n), {})' /\ v = Under(u, None, n)
    BY <1>1, <1>4, <1>5, <1>6, <1>8, <1>9, <1>10, EnterEffect
  <1>13. v = u
    BY <1>1, <1>5, <1>12, PlacedFacts DEF Under, Parents
  <1>14. /\ pc' = "pair" /\ node' = n /\ call' = "drop" /\ cursor' = m[n].first /\ acc' = None /\ links' = m
    BY <1>4 DEF Enter
  <1>15. HprStrung(m, u, Placed)
    BY <1>1, <1>2, <1>11, PlacedFacts, NoneAssumption DEF HprStrung
  <1>16. Strung(HprNexts(m), m[n].first, Below(u, n), None)
    BY <1>11, <1>15 DEF HprStrung
  <1>17. HprLinked(u, Below(u, n), {})'
    <2>1. HprStrung(m, u, Placed \ {n})
      BY <1>15 DEF HprStrung
    <2>2. Strung(HprNexts(m), None, {}, None)
      BY StrungNothing
    <2> QED BY <1>1, <1>2, <1>11, <1>14, <1>16, <2>1, <2>2 DEF HprLinked, HprStrung, HprNexts
  <1> QED BY <1>12, <1>13, <1>17, HprInvNext

(* The passes: the nodes that are left are fewer. *)
HprPassed(u, C) ==
  \E v, D, B : /\ Forestry(v, D, B)' /\ HprLinked(v, D, B)'
               /\ pc' = pc => Cardinality(Sub(v, D)) < Cardinality(Sub(u, C))

LEMMA HprPair ==
  ASSUME NEW u, NEW C, NEW A, HprHolds(u, C, A), Hpr!Pair
  PROVE  HprPassed(u, C)
  <1>1. /\ Forestry(u, C, A) /\ links \in HprMemory
        /\ HprStrung(links, u, Placed \ {node})
        /\ pc = "pair" /\ cursor # None /\ call \in {"none", "drop"}
        /\ Strung(HprNexts(links), cursor, C, None)
        /\ Strung(HprNexts(links), acc, A, None)
    BY DEF HprHolds, HprLinked, Hpr!Pair
  <1>2. PICK m : m = links
    OBVIOUS
  <1>3. PICK c : c = cursor
    OBVIOUS
  <1>4. PICK t : t = twin
    OBVIOUS
  <1>5. PICK n : n = node
    OBVIOUS
  <1>6. PICK built : built = acc
    OBVIOUS
  <1>7. /\ u \in Parents /\ n \in Nodes /\ Placed \in SUBSET Nodes
        /\ C \in SUBSET Nodes /\ A \in SUBSET Nodes /\ C \cap A = {} /\ t \notin C \cup A
        /\ t \in Nodes \cup {None} /\ None \notin C /\ None \notin A
        /\ \A x \in (C \cup A) \cup ({t} \cap Nodes) : u[x] = n /\ x # n /\ x \in Placed \ {node}
    BY <1>1, <1>4, <1>5, PassFacts, PlacedFacts, NoneAssumption
  <1>8. c \in C /\ Strung(HprNexts(m), m[c].next, C \ {c}, None)
    <2>1. c \in C /\ Strung(HprNexts(m), HprNexts(m)[c], C \ {c}, None)
      <3>1. PICK next : next = HprNexts(m)
        OBVIOUS
      <3>2. Strung(next, c, C, None)
        BY <1>1, <1>2, <1>3, <3>1
      <3>3. c \in C /\ Strung(next, next[c], C \ {c}, None)
        BY <1>1, <1>3, <1>7, <3>2, StrungNext
      <3> QED BY <3>1, <3>3
    <2> QED BY <1>7, <2>1 DEF HprNexts
  <1>9. /\ cursor' = m[c].next /\ pc' = pc /\ UNCHANGED Elsewhere
        /\ t = None => twin' = c /\ links' = m /\ acc' = built
        /\ t # None => /\ acc' = Winner(key, t, c) /\ twin' = None
                       /\ links' = [Hpr!Join(m, t, c) EXCEPT ![Winner(key, t, c)].next = built]
    BY <1>1, <1>2, <1>3, <1>4, <1>6 DEF Hpr!Pair, Elsewhere, Hpr!Winner, Winner
  <1>10. node' = node /\ pc' = "pair" /\ call' \in {"none", "drop"}
    BY <1>1, <1>9 DEF Elsewhere
  <1>11. CASE t = None
    <2>1. /\ Placed' = Placed /\ Forestry(u, C \ {c}, A)'
          /\ Cardinality(Sub(u, C \ {c})) < Cardinality(Sub(u, C))
      BY <1>1, <1>4, <1>8, <1>9, <1>11, TwinEffect
    <2>2. HprLinked(u, C \ {c}, A)'
      BY <1>1, <1>2, <1>6, <1>8, <1>9, <1>10, <1>11, <2>1 DEF HprLinked, HprStrung, HprNexts
    <2> QED BY <2>1, <2>2 DEF HprPassed
  <1>12. CASE t # None
    <2>1. PICK w : w = Winner(key, t, c)
      OBVIOUS
    <2>2. PICK B : B = (A \ {t}) \cup {w}
      OBVIOUS
    <2>3. pc = "pair" /\ twin # None /\ t = twin /\ twin' = None
      BY <1>1, <1>4, <1>9, <1>12
    <2>4. Placed' = Placed /\ t # c /\ t \in Nodes /\ c \in Nodes
      BY <1>1, <1>7, <1>8, <1>12
        , <1>9, PlacedKept DEF Elsewhere
    <2>5. PICK v : /\ v = Linking(u, t, c)
                   /\ Forestry(v, C \ {c}, B)'
                   /\ Cardinality(Sub(v, C \ {c})) < Cardinality(Sub(u, C))
      <3>1. B = (A \ {t}) \cup {Winner(key, t, c)}
        BY <2>1, <2>2
      <3> QED BY <1>1, <1>8, <1>9, <2>3, <3>1, PassEffect
    <2>6. PICK l : l = Loser(key, t, c)
      OBVIOUS
    <2>7. {w, l} = {t, c} /\ w # l
      BY <1>1, <2>1, <2>4, <2>6, JoinChoice DEF Forestry
    <2>8. B = A \cup {w} /\ w \notin A /\ w \in Nodes /\ w # None
      BY <1>7, <1>8, <2>2, <2>4, <2>7, NoneAssumption
    <2>9. PICK joined : joined = Hpr!Join(m, t, c)
      OBVIOUS
    <2>10. PICK G : G = Placed \ {node}
      OBVIOUS
    <2>11. G \in SUBSET Nodes /\ t \in G /\ c \in G /\ u[t] \notin G /\ u[c] \notin G
      BY <1>5, <1>7, <1>8, <1>12, <2>10
    <2>12. /\ joined \in HprMemory /\ HprStrung(joined, v, G)
           /\ \A x \in Nodes \ {l} : joined[x].next = m[x].next
      <3>1. HprStrung(m, u, G) /\ m \in HprMemory /\ TypeOK
        BY <1>1, <1>2, <2>10 DEF Forestry
      <3> QED BY <1>7, <2>4, <2>5, <2>6, <2>9, <2>11, <3>1, HprJoined
    <2>13. PICK after : after = [joined EXCEPT ![w].next = built]
      OBVIOUS
    <2>14. /\ after \in HprMemory /\ after[w].next = built
           /\ \A x \in Nodes : after[x].first = joined[x].first
           /\ \A x \in Nodes \ {w} : after[x].next = joined[x].next
      <3>1. built \in Nodes \cup {None}
        BY <1>1, <1>6, <1>7 DEF Strung
      <3> QED BY <2>8, <2>12, <2>13, <3>1 DEF HprMemory
    <2>15. HprStrung(after, v, G)
      <3> SUFFICES ASSUME NEW p \in G
                   PROVE  Strung(HprNexts(after), after[p].first, Below(v, p), None)
        BY DEF HprStrung
      <3>1. Strung(HprNexts(joined), joined[p].first, Below(v, p), None)
        BY <2>12 DEF HprStrung
      <3>2. w \notin Below(v, p)
        <4>1. v[w] = n
          BY <1>7, <1>8, <2>1, <2>4, <2>5, <2>6, <2>7, <2>8, <1>12 DEF Linking, Parents
        <4>2. p # n
          BY <1>5, <2>10
        <4> QED BY <4>1, <4>2 DEF Below
      <3>3. \A x \in Below(v, p) : HprNexts(after)[x] = HprNexts(joined)[x]
        BY <2>14, <3>2 DEF HprNexts, Below
      <3>4. after[p].first = joined[p].first
        BY <2>11, <2>14
      <3> QED BY <3>1, <3>3, <3>4, StrungKept
    <2>16. Strung(HprNexts(after), w, B, None)
      <3>1. PICK next : next = HprNexts(m)
        OBVIOUS
      <3>2. PICK late : late = HprNexts(after)
        OBVIOUS
      <3>3. Strung(next, built, A, None)
        BY <1>1, <1>2, <1>6, <3>1
      <3>4. late[w] = built /\ \A x \in A : late[x] = next[x]
        <4>1. late[w] = built
          BY <2>8, <2>14, <3>2 DEF HprNexts
        <4>2. \A x \in A : x \in Nodes /\ x # w /\ x # l
          BY <1>7, <1>8, <2>7, <2>8
        <4>3. \A x \in A : after[x].next = m[x].next
          BY <2>12, <2>14, <4>2
        <4> QED BY <3>1, <3>2, <4>1, <4>2, <4>3 DEF HprNexts
      <3>5. Strung(late, w, A \cup {w}, None)
        BY <1>7, <2>8, <3>3, <3>4, StrungPush
      <3> QED BY <2>8, <3>2, <3>5
    <2>17. Strung(HprNexts(after), m[c].next, C \ {c}, None)
      <3>1. \A x \in C \ {c} : HprNexts(after)[x] = HprNexts(m)[x]
        BY <1>7, <1>8, <2>7, <2>8, <2>12, <2>14 DEF HprNexts
      <3> QED BY <1>8, <3>1, StrungKept
    <2>18. links' = after /\ acc' = w
      BY <1>9, <1>12, <2>1, <2>9, <2>13
    <2>19. HprLinked(v, C \ {c}, B)'
      BY <1>9, <1>10, <2>4, <2>10, <2>14, <2>15, <2>16, <2>17, <2>18 DEF HprLinked, HprStrung, HprNexts
    <2> QED BY <2>5, <2>19 DEF HprPassed
  <1> QED BY <1>11, <1>12

LEMMA HprPairEnds ==
  ASSUME NEW u, NEW C, NEW A, HprHolds(u, C, A), Hpr!PairEnds
  PROVE  HprPassed(u, C)
  <1>1. /\ Forestry(u, C, A) /\ links \in HprMemory
        /\ HprStrung(links, u, Placed \ {node})
        /\ pc = "pair" /\ cursor = None /\ call \in {"none", "drop"}
        /\ Strung(HprNexts(links), None, C, None)
        /\ Strung(HprNexts(links), acc, A, None)
    BY DEF HprHolds, HprLinked, Hpr!PairEnds
  <1>2. PICK m : m = links
    OBVIOUS
  <1>3. PICK t : t = twin
    OBVIOUS
  <1>4. PICK built : built = acc
    OBVIOUS
  <1>5. C = {}
    BY <1>1, StrungEmpty
  <1>6. /\ A \in SUBSET Nodes /\ t \notin A /\ t \in Nodes \cup {None} /\ None \notin A
        /\ node \in Nodes /\ \A x \in A \cup ({t} \cap Nodes) : u[x] = node
    BY <1>1, <1>3, PassFacts, NoneAssumption
  <1>7. PICK after : after = IF t = None THEN m ELSE [m EXCEPT ![t].next = built]
    OBVIOUS
  <1>8. PICK first : first = IF t = None THEN built ELSE t
    OBVIOUS
  <1>9. /\ acc' = first /\ links' = after /\ twin' = None /\ pc' = "fold"
        /\ cursor' = IF first = None THEN None ELSE after[first].next
        /\ UNCHANGED Elsewhere
    <2>1. acc' = first /\ links' = after
      BY <1>2, <1>3, <1>4, <1>7, <1>8 DEF Hpr!PairEnds
    <2>2. /\ twin' = None /\ pc' = "fold" /\ UNCHANGED Elsewhere
          /\ cursor' = IF acc' = None THEN None ELSE links'[acc'].next
      BY DEF Hpr!PairEnds, Elsewhere
    <2> QED BY <2>1, <2>2
  <1>10. PICK G : G = Placed \ {node}
    OBVIOUS
  <1>11. PICK T : T = A \cup ({t} \cap Nodes)
    OBVIOUS
  <1>12. built \in Nodes \cup {None}
    BY <1>1, <1>4, <1>6 DEF Strung
  <1>13. /\ after \in HprMemory
         /\ \A x \in Nodes : after[x].first = m[x].first
         /\ \A x \in Nodes \ {t} : after[x].next = m[x].next
         /\ t # None => after[t].next = built
    BY <1>1, <1>2, <1>6, <1>7, <1>12 DEF HprMemory
  <1>14. HprStrung(after, u, G)
    <2> SUFFICES ASSUME NEW p \in G
                 PROVE  Strung(HprNexts(after), after[p].first, Below(u, p), None)
      BY DEF HprStrung
    <2>1. Strung(HprNexts(m), m[p].first, Below(u, p), None)
      BY <1>1, <1>2, <1>10 DEF HprStrung
    <2>2. \A x \in Below(u, p) : x \in Nodes \ {t}
      BY <1>6, <1>10 DEF Below
    <2>3. \A x \in Below(u, p) : HprNexts(after)[x] = HprNexts(m)[x]
      BY <1>13, <2>2 DEF HprNexts
    <2>4. p \in Nodes
      BY <1>1, <1>10, PlacedFacts
    <2> QED BY <1>13, <2>1, <2>3, <2>4, StrungKept
  <1>15. PICK late : late = HprNexts(after)
    OBVIOUS
  <1>16. Strung(late, first, T, None)
    <2>1. PICK next : next = HprNexts(m)
      OBVIOUS
    <2>2. Strung(next, built, A, None)
      BY <1>1, <1>2, <1>4, <2>1
    <2>3. CASE t = None
      BY <1>7, <1>8, <1>11, <1>15, <2>1, <2>2, <2>3, NoneAssumption
    <2>4. CASE t # None
      <3>1. late[t] = built
        BY <1>6, <1>13, <1>15, <2>4 DEF HprNexts
      <3>2. \A x \in A : x \in Nodes \ {t}
        BY <1>6
      <3>3. \A x \in A : late[x] = next[x]
        BY <1>13, <1>15, <2>1, <3>2 DEF HprNexts
      <3>4. Strung(late, t, A \cup {t}, None)
        BY <1>6, <2>2, <2>4, <3>1, <3>3, StrungPush
      <3>5. T = A \cup {t} /\ first = t
        BY <1>6, <1>8, <1>11, <2>4
      <3> QED BY <3>4, <3>5
    <2> QED BY <2>3, <2>4
  <1>17. PICK B : B = {first} \cap Nodes
    OBVIOUS
  <1>18. PICK D : D = T \ B
    OBVIOUS
  <1>19. T \in SUBSET Nodes /\ None \notin T /\ first \in T \cup {None}
    BY <1>6, <1>11, <1>16, NoneAssumption DEF Strung
  <1>20. Placed' = Placed /\ Forestry(u, D, B)'
    <2>1. D \cap B = {} /\ D \cup B = A \cup ({twin} \cap Nodes)
      BY <1>3, <1>11, <1>17, <1>18, <1>19, NoneAssumption
    <2>2. Forestry(u, {}, A) /\ pc = "pair" /\ pc' = "fold" /\ twin' = None /\ UNCHANGED Elsewhere
      BY <1>1, <1>5, <1>9
    <2> QED BY <2>1, <2>2, FoldEffect
  <1>21. PICK c : c = IF first = None THEN None ELSE after[first].next
    OBVIOUS
  <1>22. Strung(late, c, D, None) /\ (first = None => D = {})
    <2>1. CASE first = None
      <3>1. T = {}
        BY <1>16, <2>1, StrungEmpty
      <3>2. D = {} /\ c = None
        BY <1>18, <1>21, <2>1, <3>1
      <3> QED BY <3>2, StrungNothing
    <2>2. CASE first # None
      <3>1. Strung(late, late[first], T \ {first}, None)
        BY <1>16, <1>19, <2>2, StrungNext
      <3>2. late[first] = c /\ T \ {first} = D
        BY <1>15, <1>17, <1>18, <1>19, <1>21, <2>2 DEF HprNexts
      <3> QED BY <2>2, <3>1, <3>2
    <2> QED BY <2>1, <2>2
  <1>23. HprLinked(u, D, B)'
    <2>1. /\ node' = node /\ first \in Nodes \cup {None} /\ cursor' = c
          /\ call' \in {"none", "drop"}
      BY <1>1, <1>9, <1>19, <1>21 DEF Elsewhere
    <2> QED BY <1>9, <1>10, <1>13, <1>14, <1>15, <1>17, <1>20, <1>22, <2>1
         DEF HprLinked, HprStrung, HprNexts
  <1> QED BY <1>1, <1>9, <1>20, <1>23 DEF HprPassed

LEMMA HprFold ==
  ASSUME NEW u, NEW C, NEW A, HprHolds(u, C, A), Hpr!Fold
  PROVE  HprPassed(u, C)
  <1>1. /\ Forestry(u, C, A) /\ links \in HprMemory
        /\ HprStrung(links, u, Placed \ {node})
        /\ pc = "fold" /\ cursor # None /\ call \in {"none", "drop"}
        /\ Strung(HprNexts(links), cursor, C, None)
        /\ A = {acc} \cap Nodes
        /\ acc \in Nodes \cup {None}
        /\ acc = None => C = {}
    BY DEF HprHolds, HprLinked, Hpr!Fold
  <1>2. PICK m : m = links
    OBVIOUS
  <1>3. PICK c : c = cursor
    OBVIOUS
  <1>4. PICK t : t = acc
    OBVIOUS
  <1>5. PICK n : n = node
    OBVIOUS
  <1>6. /\ u \in Parents /\ n \in Nodes /\ Placed \in SUBSET Nodes
        /\ C \in SUBSET Nodes /\ A \in SUBSET Nodes /\ C \cap A = {} /\ None \notin C
        /\ \A x \in C \cup A : u[x] = n /\ x # n /\ x \in Placed \ {node}
    BY <1>1, <1>5, PassFacts, PlacedFacts, NoneAssumption
  <1>7. c \in C /\ Strung(HprNexts(m), m[c].next, C \ {c}, None)
    <2>1. c \in C /\ Strung(HprNexts(m), HprNexts(m)[c], C \ {c}, None)
      <3>1. PICK next : next = HprNexts(m)
        OBVIOUS
      <3>2. Strung(next, c, C, None)
        BY <1>1, <1>2, <1>3, <3>1
      <3>3. c \in C /\ Strung(next, next[c], C \ {c}, None)
        BY <1>1, <1>3, <1>6, <3>2, StrungNext
      <3> QED BY <3>1, <3>3
    <2> QED BY <1>6, <2>1 DEF HprNexts
  <1>8. t \in Nodes /\ A = {t} /\ t # c /\ c \in Nodes
    BY <1>1, <1>4, <1>6, <1>7
  <1>9. PICK w : w = Winner(key, t, c)
    OBVIOUS
  <1>10. PICK after : after = Hpr!Join(m, t, c)
    OBVIOUS
  <1>11. /\ cursor' = m[c].next /\ pc' = pc /\ twin' = twin /\ UNCHANGED Elsewhere
         /\ acc' = w /\ links' = after
    BY <1>2, <1>3, <1>4, <1>9, <1>10 DEF Hpr!Fold, Elsewhere, Hpr!Winner, Winner
  <1>12. pc' = "fold" /\ twin' = None /\ node' = node /\ call' \in {"none", "drop"}
    BY <1>1, <1>11, PassFacts DEF Elsewhere
  <1>13. PICK B : B = {w}
    OBVIOUS
  <1>14. /\ Placed' = Placed
         /\ \E v : /\ v = Linking(u, t, c)
                   /\ Forestry(v, C \ {c}, B)'
                   /\ Cardinality(Sub(v, C \ {c})) < Cardinality(Sub(u, C))
    <2>1. B = (A \ {t}) \cup {Winner(key, t, c)}
      BY <1>8, <1>9, <1>13
    <2>2. pc # "idle" /\ pc' = pc
      BY <1>1, <1>11
    <2> QED BY <1>1, <1>7, <1>8, <1>11, <1>12, <2>1, <2>2, PassEffect
  <1>15. PICK v : /\ v = Linking(u, t, c)
                  /\ Forestry(v, C \ {c}, B)'
                  /\ Cardinality(Sub(v, C \ {c})) < Cardinality(Sub(u, C))
    BY <1>14
  <1>16. PICK l : l = Loser(key, t, c)
    OBVIOUS
  <1>17. {w, l} = {t, c} /\ w # l
    BY <1>1, <1>8, <1>9, <1>16, JoinChoice DEF Forestry
  <1>18. PICK G : G = Placed \ {node}
    OBVIOUS
  <1>19. G \in SUBSET Nodes /\ t \in G /\ c \in G /\ u[t] \notin G /\ u[c] \notin G
    BY <1>5, <1>6, <1>7, <1>8, <1>18
  <1>20. /\ after \in HprMemory /\ HprStrung(after, v, G)
         /\ \A x \in Nodes \ {l} : after[x].next = m[x].next
    <2>1. HprStrung(m, u, G) /\ m \in HprMemory /\ TypeOK
      BY <1>1, <1>2, <1>18 DEF Forestry
    <2> QED BY <1>6, <1>8, <1>10, <1>15, <1>16, <1>19, <2>1, HprJoined
  <1>21. Strung(HprNexts(after), m[c].next, C \ {c}, None)
    <2>1. \A x \in C \ {c} : x \in Nodes \ {l}
      BY <1>6, <1>8, <1>17
    <2>2. \A x \in C \ {c} : HprNexts(after)[x] = HprNexts(m)[x]
      BY <1>20, <2>1 DEF HprNexts
    <2> QED BY <1>7, <2>2, StrungKept
  <1>22. HprLinked(v, C \ {c}, B)'
    <2>1. B = {w} \cap Nodes /\ w \in Nodes /\ w # None
      BY <1>8, <1>13, <1>17, NoneAssumption
    <2> QED BY <1>11, <1>12, <1>14, <1>18, <1>20, <1>21, <2>1 DEF HprLinked, HprStrung, HprNexts
  <1> QED BY <1>15, <1>22 DEF HprPassed

LEMMA HprDropped ==
  ASSUME NEW u, NEW C, NEW A, HprHolds(u, C, A), Hpr!Dropped
  PROVE  HprInv'
  <1>1. /\ Forestry(u, C, A) /\ links \in HprMemory
        /\ HprStrung(links, u, Placed \ {node})
        /\ pc = "fold" /\ cursor = None
        /\ Strung(HprNexts(links), None, C, None)
        /\ A = {acc} \cap Nodes
        /\ acc \in Nodes \cup {None}
    BY DEF HprHolds, HprLinked, Hpr!Dropped
  <1>2. PICK m : m = links
    OBVIOUS
  <1>3. PICK top : top = acc
    OBVIOUS
  <1>4. PICK n : n = node
    OBVIOUS
  <1>5. PICK memory : memory = [m EXCEPT ![n] = Hpr!Blank]
    OBVIOUS
  <1>6. C = {}
    BY <1>1, StrungEmpty
  <1>7. Forestry(u, {}, A) /\ top \in Nodes \cup {None} /\ A = {top} \cap Nodes /\ pc = "fold"
    BY <1>1, <1>3, <1>6
  <1>8. DropTo(memory, top)
    BY <1>2, <1>3, <1>4, <1>5 DEF Hpr!Dropped, Hpr!DropTo, DropTo, Hpr!Return, Return
  <1>9. pc' = "idle" /\ node' = None /\ links' = memory /\ Placed' = Placed \ {node}
    BY <1>7, <1>8, DropEffect
  <1>10. PICK v : Forestry(v, {}, {})' /\ v = IF top = None THEN u ELSE Under(u, None, top)
    BY <1>7, <1>8, DropEffect
  <1>11. /\ u \in Parents /\ n \in Nodes /\ u[n] = None
         /\ top # None => u[top] = n /\ top \in Nodes
    BY <1>4, <1>7, EndFacts
  <1>12. PICK H : H = Placed'
    OBVIOUS
  <1>13. H \subseteq Nodes /\ n \notin H /\ H = Placed \ {node}
    BY <1>1, <1>4, <1>9, <1>12, PlacedFacts
  <1>14. \A p \in H : Below(v, p) = Below(u, p)
    BY <1>10, <1>11, <1>13, NoneAssumption DEF Below, Under, Parents
  <1>15. \A p \in H : Below(v, p) \subseteq H
    BY <1>10, <1>12, PlacedNext
  <1>16. memory \in HprMemory /\ \A x \in H : memory[x] = m[x]
    BY <1>1, <1>2, <1>5, <1>11, <1>13 DEF HprMemory, Hpr!Blank
  <1>17. HprStrung(m, u, H)
    BY <1>1, <1>2, <1>13
  <1>18. HprStrung(memory, v, H)
    BY <1>13, <1>14, <1>15, <1>16, <1>17, HprStrungKept
  <1> QED BY <1>9, <1>10, <1>12, <1>16, <1>18, HprIdleNext

(* What the definitions of the trees compute. *)
LEMMA HprSame ==
  /\ \A S : Hpr!Cardinality(S) = Cardinality(S)
  /\ \A a, b, c, d : Hpr!Accounted(a, b, c, d) = Accounted(a, b, c, d)
  <1>1. \A S : Hpr!Cardinality(S) = Cardinality(S)
    BY DEF Hpr!Cardinality, Cardinality
  <1>2. \A a, b, c, d : Hpr!Accounted(a, b, c, d) = Accounted(a, b, c, d)
    BY <1>1, Zenon DEF Hpr!Accounted, Accounted
  <1> QED BY <1>1, <1>2

LEMMA HprChainReached ==
  ASSUME NEW c
  PROVE  Hpr!Chain(c) = Reached(Nodes, [p \in Nodes |-> {p, links[p].next} \cap Nodes], {c} \cap Nodes)
  <1> DEFINE base == {c} \cap Nodes
             step == [p \in Nodes |-> {p, links[p].next} \cap Nodes]
             k == Hpr!Cardinality(Nodes)
             U(T) == UNION {{p, links[p].next} \cap Nodes : p \in T}
             F(f) == [i \in 0 .. k |-> IF i = 0 THEN base ELSE U(f[i - 1])]
             g == CHOOSE f : f = F(f)
  <1>1. base \in SUBSET Nodes /\ step \in [Nodes -> SUBSET Nodes] /\ \A p \in Nodes : p \in step[p]
    OBVIOUS
  <1>2. k \in Nat /\ k = Cardinality(Nodes)
    BY FiniteNodes, HprSame
  <1>3. \A T \in SUBSET Nodes : Stepped(step, T) = U(T)
    BY DEF Stepped
  <1>4. Hpr!Chain(c) = g[k]
    BY Zenon DEF Hpr!Chain
  <1> HIDE DEF base, step, k, U
  <1>5. PICK f : Grown(Nodes, step, base, k, f)
    BY <1>1, <1>2, NodesGrow
  <1>6. f = F(f)
    <2>1. /\ f \in [0 .. k -> SUBSET Nodes] /\ f[0] = base
          /\ \A i \in 1 .. k : f[i] = Stepped(step, f[i - 1])
      BY <1>5 DEF Grown
    <2>2. \A i \in 0 .. k : f[i] = IF i = 0 THEN base ELSE U(f[i - 1])
      BY <1>2, <1>3, <2>1
    <2> QED BY <2>1, <2>2
  <1>7. g = F(g)
    <2> HIDE DEF F
    <2> QED BY <1>6
  <1>8. g[0] = base /\ \A i \in 1 .. k : g[i - 1] \in SUBSET Nodes => g[i] = Stepped(step, g[i - 1])
    <2> HIDE DEF g
    <2>1. \A i \in 0 .. k : g[i] = F(g)[i]
      BY <1>7
    <2> HIDE <1>7
    <2>2. \A i \in 0 .. k : g[i] = IF i = 0 THEN base ELSE U(g[i - 1])
      BY <2>1
    <2> QED BY <1>2, <1>3, <2>2
  <1>9. g[k] = Reached(Nodes, step, base)
    <2> HIDE DEF g
    <2> QED BY <1>1, <1>2, <1>8, GrownReaches, NodesAssumption
  <1> QED BY <1>4, <1>9 DEF step, base

LEMMA HprTreeReached ==
  ASSUME NEW n
  PROVE  Hpr!Tree(n) = Reached(Nodes, [p \in Nodes |-> {p} \cup Hpr!Children(p)], {n} \cap Nodes)
  <1> DEFINE base == {n} \cap Nodes
             step == [p \in Nodes |-> {p} \cup Hpr!Children(p)]
             k == Hpr!Cardinality(Nodes)
             U(T) == UNION {{p} \cup Hpr!Children(p) : p \in T}
             F(f) == [i \in 0 .. k |-> IF i = 0 THEN base ELSE U(f[i - 1])]
             g == CHOOSE f : f = F(f)
  <1>1. base \in SUBSET Nodes /\ step \in [Nodes -> SUBSET Nodes] /\ \A p \in Nodes : p \in step[p]
    <2>1. \A p : Hpr!Children(p) \in SUBSET Nodes
      BY HprChainReached DEF Hpr!Children, Reached
    <2> QED BY <2>1
  <1>2. k \in Nat /\ k = Cardinality(Nodes)
    BY FiniteNodes, HprSame
  <1>3. \A T \in SUBSET Nodes : Stepped(step, T) = U(T)
    BY DEF Stepped
  <1>4. Hpr!Tree(n) = g[k]
    BY Zenon DEF Hpr!Tree
  <1> HIDE DEF base, step, k, U
  <1>5. PICK f : Grown(Nodes, step, base, k, f)
    BY <1>1, <1>2, NodesGrow
  <1>6. f = F(f)
    <2>1. /\ f \in [0 .. k -> SUBSET Nodes] /\ f[0] = base
          /\ \A i \in 1 .. k : f[i] = Stepped(step, f[i - 1])
      BY <1>5 DEF Grown
    <2>2. \A i \in 0 .. k : f[i] = IF i = 0 THEN base ELSE U(f[i - 1])
      BY <1>2, <1>3, <2>1
    <2> QED BY <2>1, <2>2
  <1>7. g = F(g)
    <2> HIDE DEF F
    <2> QED BY <1>6
  <1>8. g[0] = base /\ \A i \in 1 .. k : g[i - 1] \in SUBSET Nodes => g[i] = Stepped(step, g[i - 1])
    <2> HIDE DEF g
    <2>1. \A i \in 0 .. k : g[i] = F(g)[i]
      BY <1>7
    <2> HIDE <1>7
    <2>2. \A i \in 0 .. k : g[i] = IF i = 0 THEN base ELSE U(g[i - 1])
      BY <2>1
    <2> QED BY <1>2, <1>3, <2>2
  <1>9. g[k] = Reached(Nodes, step, base)
    <2> HIDE DEF g
    <2> QED BY <1>1, <1>2, <1>8, GrownReaches, NodesAssumption
  <1> QED BY <1>4, <1>9 DEF step, base

LEMMA HprChildren ==
  ASSUME NEW u, NEW C, NEW A, HprHolds(u, C, A)
  PROVE  /\ \A c, S : S \in SUBSET Nodes /\ Strung(HprNexts(links), c, S, None) => Hpr!Chain(c) = S
         /\ \A p \in Placed \ {node} : Hpr!Children(p) = Below(u, p)
  <1>1. ASSUME NEW c, NEW S, S \in SUBSET Nodes, Strung(HprNexts(links), c, S, None)
        PROVE  Hpr!Chain(c) = S
    <2>1. PICK step : step = [p \in Nodes |-> {p, links[p].next} \cap Nodes]
      OBVIOUS
    <2>2. PICK next : next = HprNexts(links)
      OBVIOUS
    <2>3. \A x \in S : step[x] = {x} \cup ({next[x]} \cap Nodes)
      BY <1>1, <2>1, <2>2 DEF HprNexts
    <2>4. Reached(Nodes, step, {c} \cap Nodes) = S
      BY <1>1, <2>2, <2>3, StrungReached, NoneAssumption
    <2>5. Hpr!Chain(c) = Reached(Nodes, step, {c} \cap Nodes)
      BY <2>1, HprChainReached
    <2> QED BY <2>4, <2>5
  <1>2. ASSUME NEW p \in Placed \ {node} PROVE Hpr!Children(p) = Below(u, p)
    <2>1. Strung(HprNexts(links), links[p].first, Below(u, p), None)
      BY DEF HprHolds, HprLinked, HprStrung
    <2>2. Below(u, p) \in SUBSET Nodes
      BY DEF Below
    <2> QED BY <1>1, <2>1, <2>2 DEF Hpr!Children
  <1> QED BY <1>1, <1>2

LEMMA HprTrees ==
  ASSUME NEW u, NEW C, NEW A, HprHolds(u, C, A), NEW n, {n} \cap Nodes \subseteq Placed,
         pc = "idle" \/ \A x \in {n} \cap Nodes : u[x] = node
  PROVE  Hpr!Tree(n) = Sub(u, {n} \cap Nodes)
  <1>1. Forestry(u, C, A)
    BY DEF HprHolds
  <1>2. PICK R : R = {n} \cap Nodes
    OBVIOUS
  <1>3. R \in SUBSET Nodes /\ Sub(u, R) \subseteq Placed \ {node}
    BY <1>1, <1>2, PlacedTrees
  <1>4. PICK step : step = [p \in Nodes |-> {p} \cup Hpr!Children(p)]
    OBVIOUS
  <1>5. \A p \in Sub(u, R) : step[p] = {p} \cup Below(u, p)
    <2>1. Placed \in SUBSET Nodes
      BY <1>1, PlacedFacts
    <2> QED BY <1>3, <1>4, <2>1, HprChildren
  <1>6. Reached(Nodes, step, R) = Sub(u, R)
    BY <1>3, <1>5, SubReached
  <1>7. Hpr!Tree(n) = Reached(Nodes, step, R)
    BY <1>2, <1>4, HprTreeReached
  <1> QED BY <1>2, <1>6, <1>7

(* The chain of siblings whose first is c has the trees of S. *)
LEMMA HprForests ==
  ASSUME NEW u, NEW C, NEW A, HprHolds(u, C, A), NEW c, NEW S, S \subseteq Below(u, node),
         Strung(HprNexts(links), c, S, None), pc # "idle"
  PROVE  Hpr!Trees(Hpr!Chain(c)) = Sub(u, S)
  <1>1. Forestry(u, C, A)
    BY DEF HprHolds
  <1>2. S \in SUBSET Nodes /\ \A x \in S : u[x] = node /\ x \in Placed
    BY <1>1, PassFacts DEF Below
  <1>3. Hpr!Chain(c) = S
    BY <1>2, HprChildren
  <1>4. \A n \in S : Hpr!Tree(n) = Sub(u, {n})
    <2> SUFFICES ASSUME NEW n \in S PROVE Hpr!Tree(n) = Sub(u, {n})
      OBVIOUS
    <2>1. {n} \cap Nodes = {n} /\ {n} \cap Nodes \subseteq Placed
          /\ \A x \in {n} \cap Nodes : u[x] = node
      BY <1>2
    <2>2. Hpr!Tree(n) = Sub(u, {n} \cap Nodes)
      BY <2>1, HprTrees
    <2> QED BY <2>1, <2>2
  <1>5. Sub(u, S) = UNION {Sub(u, {n}) : n \in S}
    BY <1>2, SubUnion
  <1> QED BY <1>3, <1>4, <1>5 DEF Hpr!Trees

LEMMA HprLeft ==
  ASSUME NEW u, NEW C, NEW A, HprHolds(u, C, A), pc # "idle"
  PROVE  Hpr!Left = Sub(u, C)
  <1>1. Strung(HprNexts(links), cursor, C, None)
    BY DEF HprHolds, HprLinked, Forestry, TypeOK
  <1>2. C \subseteq Below(u, node)
    BY PassFacts DEF HprHolds
  <1>3. PICK c : c = cursor
    OBVIOUS
  <1>4. Hpr!Trees(Hpr!Chain(c)) = Sub(u, C)
    BY <1>1, <1>2, <1>3, HprForests
  <1> QED BY <1>3, <1>4 DEF Hpr!Left

LEMMA HprNothingLost ==
  ASSUME NEW u, NEW C, NEW A, HprHolds(u, C, A)
  PROVE  Hpr!NothingLost
  <1> SUFFICES ASSUME pc # "idle"
               PROVE  Accounted(Hpr!Left, Hpr!Tree(twin),
                                IF pc = "pair" THEN Hpr!Trees(Hpr!Chain(acc)) ELSE Hpr!Tree(acc), {})
    BY HprSame DEF Hpr!NothingLost
  <1>1. Forestry(u, C, A)
    BY DEF HprHolds
  <1>2. /\ call \in {"none", "drop"}
        /\ pc \in {"pair", "fold"}
        /\ pc = "pair" => Strung(HprNexts(links), acc, A, None)
        /\ pc = "fold" => A = {acc} \cap Nodes
    BY DEF HprHolds, HprLinked, Forestry, TypeOK
  <1>3. /\ Below(u, node) = (C \cup A) \cup ({twin} \cap Nodes)
        /\ \A x \in Below(u, node) : u[x] = node /\ x \in Placed
    BY <1>1, PassFacts
  <1>4. Hpr!Left = Sub(u, C)
    BY HprLeft
  <1>5. Hpr!Tree(twin) = Sub(u, {twin} \cap Nodes)
    <2>1. PICK t : t = twin
      OBVIOUS
    <2>2. {t} \cap Nodes \subseteq Placed /\ \A x \in {t} \cap Nodes : u[x] = node
      BY <1>3, <2>1
    <2>3. Hpr!Tree(t) = Sub(u, {t} \cap Nodes)
      BY <2>2, HprTrees
    <2> QED BY <2>1, <2>3
  <1>6. PICK t : t = acc
    OBVIOUS
  <1>7. (IF pc = "pair" THEN Hpr!Trees(Hpr!Chain(acc)) ELSE Hpr!Tree(acc)) = Sub(u, A)
    <2>1. CASE pc = "pair"
      <3>1. Strung(HprNexts(links), t, A, None) /\ A \subseteq Below(u, node)
        BY <1>2, <1>3, <1>6, <2>1
      <3>2. Hpr!Trees(Hpr!Chain(t)) = Sub(u, A)
        BY <3>1, HprForests
      <3> QED BY <1>6, <2>1, <3>2
    <2>2. CASE pc = "fold"
      <3>1. /\ {t} \cap Nodes = A
            /\ {t} \cap Nodes \subseteq Placed /\ \A x \in {t} \cap Nodes : u[x] = node
        BY <1>2, <1>3, <1>6, <2>2
      <3>2. Hpr!Tree(t) = Sub(u, {t} \cap Nodes)
        BY <3>1, HprTrees
      <3> QED BY <1>6, <2>2, <3>1, <3>2
    <2> QED BY <1>2, <2>1, <2>2
  <1>8. Accounted(Sub(u, C), Sub(u, {twin} \cap Nodes), Sub(u, A), Sub(u, {root[heap]}))
    BY <1>1, ForestAccounted
  <1>9. Accounted(Sub(u, C), Sub(u, {twin} \cap Nodes), Sub(u, A), {})
    BY <1>2, <1>8 DEF Accounted
  <1> QED BY <1>4, <1>5, <1>7, <1>9

LEMMA HprHeapOrder ==
  ASSUME NEW u, NEW C, NEW A, HprHolds(u, C, A)
  PROVE  Hpr!HeapOrder
  <1> SUFFICES ASSUME pc = "idle", NEW h \in live, NEW p \in content[h], NEW n \in Hpr!Children(p)
               PROVE  key[p] <= key[n]
    BY DEF Hpr!HeapOrder
  <1>1. Forestry(u, C, A) /\ TypeOK /\ Ordered(u)
    BY DEF HprHolds, Forestry
  <1>2. h \in Heaps /\ node = None /\ p \in Nodes
    BY <1>1, BusyIdle DEF TypeOK
  <1>3. p \in Placed \ {node}
    BY <1>2, PlacedIdle, NoneAssumption
  <1>4. n \in Below(u, p)
    BY <1>3, HprChildren
  <1> QED BY <1>1, <1>2, <1>4, NoneAssumption DEF Ordered, Below

LEMMA HprTreesSound ==
  ASSUME NEW u, NEW C, NEW A, HprHolds(u, C, A)
  PROVE  Hpr!TreesSound
  <1> SUFFICES ASSUME pc = "idle", NEW h \in live
               PROVE  /\ Hpr!Tree(root[h]) = content[h]
                      /\ \A n \in content[h] :
                           Cardinality({m \in content[h] : links[m].first = n})
                             + Cardinality({m \in content[h] \ {root[h]} : links[m].next = n})
                           = IF n = root[h] THEN 0 ELSE 1
    BY HprSame DEF Hpr!TreesSound
  <1>1. Forestry(u, C, A) /\ TypeOK /\ links \in HprMemory
        /\ HprStrung(links, u, Placed \ {node})
    BY DEF HprHolds, Forestry, HprLinked
  <1>2. h \in Heaps /\ node = None
    BY <1>1, BusyIdle DEF TypeOK
  <1>3. PICK r : r = root[h]
    OBVIOUS
  <1>4. PICK S : S = content[h]
    OBVIOUS
  <1>5. S = Sub(u, {r} \cap Nodes) /\ S \in SUBSET Nodes
    BY <1>1, <1>2, <1>3, <1>4, IdleTrees
  <1>6. \A n \in S : n \in Placed \ {node}
    BY <1>2, <1>4, <1>5, PlacedIdle, NoneAssumption
  <1>7. /\ r # None => r \in S /\ u[r] = None
        /\ \A n \in S : n # r => u[n] \in S
        /\ \A n \in Nodes : u[n] \in S => n \in S
    <2>1. /\ r # None => r \in S /\ u[r] = None
          /\ \A n \in S : n # r => u[n] \in S
          /\ Group(h) = S
      BY <1>1, <1>2, <1>3, <1>4, IdleFacts
    <2>2. \A n \in Nodes : u[n] \in Nodes => (n \in S <=> u[n] \in S)
      BY <1>1, <1>2, <2>1, ShapeFacts DEF Forestry
    <2> QED BY <1>5, <2>1, <2>2
  <1>8. Hpr!Tree(r) = S
    <2>1. {r} \cap Nodes \subseteq Placed
      BY <1>6, <1>7, NoneAssumption
    <2> QED BY <1>5, <2>1, HprTrees
  <1>9. PICK m : m = links
    OBVIOUS
  <1>10. PICK next : next = HprNexts(m)
    OBVIOUS
  <1>11. /\ \A p \in S : Strung(next, m[p].first, Below(u, p), None)
         /\ \A p \in Nodes : next[p] = m[p].next
         /\ \A p \in S : Below(u, p) = {n \in S : u[n] = p}
    BY <1>1, <1>5, <1>6, <1>7, <1>9, <1>10 DEF HprStrung, HprNexts, Below
  <1>12. ASSUME NEW n \in S
         PROVE  Cardinality({x \in S : m[x].first = n})
                  + Cardinality({x \in S \ {r} : m[x].next = n})
                = IF n = r THEN 0 ELSE 1
    <2> DEFINE F == {x \in S : m[x].first = n}
               N == {x \in S \ {r} : m[x].next = n}
    <2> SUFFICES Cardinality(F) + Cardinality(N) = IF n = r THEN 0 ELSE 1
      OBVIOUS
    <2>1. \A x \in S : m[x].first = n => u[n] = x
      <3> SUFFICES ASSUME NEW x \in S, m[x].first = n PROVE u[n] = x
        OBVIOUS
      <3>1. Strung(next, n, Below(u, x), None)
        BY <1>11
      <3>2. n \in Below(u, x) \cup {None}
        BY <3>1 DEF Strung
      <3> QED BY <1>5, <3>2, NoneAssumption DEF Below
    <2>2. \A x \in S \ {r} : m[x].next = n =>
             /\ u[x] \in S /\ u[n] = u[x] /\ m[u[x]].first # n
      <3> SUFFICES ASSUME NEW x \in S \ {r}, m[x].next = n
                   PROVE  u[x] \in S /\ u[n] = u[x] /\ m[u[x]].first # n
        OBVIOUS
      <3>1. u[x] \in S /\ x \in Below(u, u[x])
        BY <1>7, <1>11
      <3>2. Strung(next, m[u[x]].first, Below(u, u[x]), None) /\ next[x] = n
        BY <1>5, <1>11, <3>1
      <3>3. n \in Below(u, u[x]) \cup {None} /\ n # m[u[x]].first
        BY <3>1, <3>2 DEF Strung
      <3> QED BY <1>5, <3>1, <3>3, NoneAssumption DEF Below
    <2>3. CASE n = r
      <3>1. u[n] = None /\ None \notin S
        BY <1>5, <1>7, <2>3, NoneAssumption
      <3>2. F = {} /\ N = {}
        BY <2>1, <2>2, <3>1
      <3>3. Cardinality({}) = 0
        BY FS_EmptySet
      <3> HIDE DEF F, N
      <3> QED BY <2>3, <3>2, <3>3
    <2>4. CASE n # r /\ m[u[n]].first = n
      <3>1. u[n] \in S
        BY <1>7, <2>4
      <3>2. F = {u[n]}
        BY <2>1, <2>4, <3>1
      <3>3. N = {}
        BY <2>2, <2>4
      <3>4. Cardinality({u[n]}) = 1 /\ Cardinality({}) = 0
        BY FS_EmptySet, FS_Singleton
      <3> HIDE DEF F, N
      <3> QED BY <2>4, <3>2, <3>3, <3>4
    <2>5. CASE n # r /\ m[u[n]].first # n
      <3>1. u[n] \in S /\ n \in Below(u, u[n])
        BY <1>7, <1>11, <2>5
      <3>2. F = {}
        BY <2>1, <2>5
      <3>3. PICK B : B = Below(u, u[n])
        OBVIOUS
      <3>4. PICK c : c = m[u[n]].first
        OBVIOUS
      <3>5. Strung(next, c, B, None) /\ None \notin B /\ n \in B /\ n # c /\ B \in SUBSET S
        BY <1>5, <1>11, <2>5, <3>1, <3>3, <3>4, NoneAssumption
      <3>6. PICK y \in B \ {n} : next[y] = n
        BY <3>5, StrungPrevious
      <3>7. y \in S \ {r} /\ m[y].next = n
        <4>1. y \in S /\ u[y] = u[n]
          BY <3>3, <3>5 DEF Below
        <4>2. y # r
          BY <1>5, <1>7, <3>1, <4>1, NoneAssumption
        <4> QED BY <1>5, <1>11, <3>6, <4>1, <4>2
      <3>8. \A x \in S \ {r} : m[x].next = n => x = y
        <4> SUFFICES ASSUME NEW x \in S \ {r}, m[x].next = n PROVE x = y
          OBVIOUS
        <4>1. x \in B /\ next[x] = n
          BY <1>5, <1>11, <2>2, <3>3 DEF Below
        <4> QED BY <1>5, <3>5, <3>6, <4>1, NoneAssumption DEF Strung
      <3>9. N = {y}
        BY <3>7, <3>8
      <3>10. Cardinality({y}) = 1 /\ Cardinality({}) = 0
        BY FS_EmptySet, FS_Singleton
      <3> HIDE DEF F, N
      <3> QED BY <2>5, <3>2, <3>9, <3>10
    <2> QED BY <2>3, <2>4, <2>5
  <1> QED BY <1>3, <1>4, <1>8, <1>9, <1>12, ZenonT(30)

LEMMA HprStays ==
  ASSUME UNCHANGED vars, HprInv
  PROVE  HprInv'
  <1>1. PICK u \in Parents, C \in SUBSET Nodes, A \in SUBSET Nodes : HprHolds(u, C, A)
    BY DEF HprInv
  <1>2. UNCHANGED <<links, call, pc, cursor, acc, node>> /\ Placed' = Placed
    BY PlacedKept DEF vars, Locals
  <1>3. HprLinked(u, C, A)'
    BY <1>1, <1>2 DEF HprHolds, HprLinked, HprStrung
  <1>4. Forestry(u, C, A)'
    BY <1>1, ForestrySame DEF HprHolds
  <1> QED BY <1>3, <1>4, HprInvNext

LEMMA HprStep ==
  ASSUME HprInv, Hpr!Next
  PROVE  HprInv'
  <1>1. PICK u \in Parents, C \in SUBSET Nodes, A \in SUBSET Nodes : HprHolds(u, C, A)
    BY DEF HprInv
  <1>2. HprPassed(u, C) => HprInv'
    BY HprInvNext DEF HprPassed
  <1>3. CASE Hpr!Pair \/ Hpr!PairEnds \/ Hpr!Fold
    BY <1>1, <1>2, <1>3, HprPair, HprPairEnds, HprFold
  <1>4. CASE Hpr!Dropped
    BY <1>1, <1>4, HprDropped
  <1>5. CASE \E h \in Heaps : \/ Hpr!Setup(h) \/ Hpr!Extract(h)
                              \/ \E g \in Heaps : Hpr!Merge(h, g)
                              \/ \E n \in Nodes : Hpr!Insert(h, n)
    BY <1>1, <1>5, HprSetup, HprExtract, HprMerge, HprInsert
  <1>6. CASE \E n \in Nodes, k \in Keys : Hpr!SetKey(n, k)
    BY <1>1, <1>6, HprSetKey
  <1> QED BY <1>3, <1>4, <1>5, <1>6 DEF Hpr!Next

LEMMA HprLeftNext ==
  ASSUME NEW u, NEW C, NEW A
  PROVE  (HprHolds(u, C, A) /\ pc # "idle" => Hpr!Left = Sub(u, C))'
  <1>1. HprHolds(u, C, A) /\ pc # "idle" => Hpr!Left = Sub(u, C)
    BY HprLeft
  <1> QED BY <1>1, PTL

LEMMA HprAdvances ==
  ASSUME HprInv, Hpr!Next, pc # "idle", pc' = pc
  PROVE  Cardinality(Hpr!Left') < Cardinality(Hpr!Left)
  <1>1. PICK u \in Parents, C \in SUBSET Nodes, A \in SUBSET Nodes : HprHolds(u, C, A)
    BY DEF HprInv
  <1>2. HprPassed(u, C)
    <2>1. Hpr!Pair \/ Hpr!PairEnds \/ Hpr!Fold
      BY DEF Hpr!Next, Hpr!Setup, Hpr!Extract, Hpr!Merge, Hpr!Insert, Hpr!SetKey, Hpr!Dropped,
             Hpr!SetupTo, Hpr!Extracting, Hpr!MergeTo, Hpr!InsertTo, Hpr!DropTo, Hpr!Return
    <2> QED BY <1>1, <2>1, HprPair, HprPairEnds, HprFold
  <1>3. PICK v, D, B : /\ Forestry(v, D, B)' /\ HprLinked(v, D, B)'
                       /\ Cardinality(Sub(v, D)) < Cardinality(Sub(u, C))
    BY <1>2 DEF HprPassed
  <1>4. Hpr!Left = Sub(u, C)
    BY <1>1, HprLeft
  <1>5. HprHolds(v, D, B)'
    BY <1>3 DEF HprHolds
  <1>6. Hpr!Left' = Sub(v, D)
    BY <1>5, HprLeftNext
  <1> QED BY <1>3, <1>4, <1>6

LEMMA HprQueue ==
  ASSUME NEW u, NEW C, NEW A, Forestry(u, C, A), Hpr!Next
  PROVE  QueueSteps
  <1>1. ASSUME NEW h \in Heaps, Hpr!Setup(h) PROVE QueueSteps
    <2>1. \E memory : SetupTo(h, memory)
      BY <1>1, Zenon DEF Hpr!Setup, Hpr!SetupTo, SetupTo, Hpr!NoneOut, NoneOut, Hpr!Locals, Locals
    <2> QED BY <2>1, QueueSetup
  <1>2. ASSUME NEW h \in Heaps, Hpr!Extract(h) PROVE QueueSteps
    <2>1. Extracting(h)
      BY <1>2 DEF Hpr!Extract, Hpr!Extracting, Extracting, Hpr!NoneOut, NoneOut
    <2> QED BY <2>1, QueueExtract
  <1>3. ASSUME NEW r \in Heaps, NEW s \in Heaps, Hpr!Merge(r, s) PROVE QueueSteps
    <2>1. \E joined : MergeTo(r, s, joined)
      BY <1>3, Zenon DEF Hpr!Merge, Hpr!MergeTo, MergeTo, Hpr!NoneOut, NoneOut, Hpr!Locals, Locals,
                         Hpr!CountAfterMerge, CountAfterMerge, Hpr!Winner, Winner
    <2> QED BY <2>1, QueueMerge
  <1>4. ASSUME NEW h \in Heaps, NEW n \in Nodes, Hpr!Insert(h, n) PROVE QueueSteps
    <2>1. \E alone, joined : InsertTo(h, n, alone, joined)
      BY <1>4, Zenon DEF Hpr!Insert, Hpr!InsertTo, InsertTo, Hpr!NoneOut, NoneOut, Hpr!Locals, Locals,
                         Hpr!Winner, Winner
    <2> QED BY <2>1, QueueInsert
  <1>5. ASSUME NEW n \in Nodes, NEW k, Hpr!SetKey(n, k) PROVE QueueSteps
    <2>1. SetKey(n, k)
      BY <1>5 DEF Hpr!SetKey, SetKey, Hpr!NoneOut, NoneOut, Hpr!Locals, Locals
    <2> QED BY <2>1, QueueSetKey
  <1>6. ASSUME Hpr!Pair \/ Hpr!PairEnds \/ Hpr!Fold \/ Hpr!Dropped PROVE QueueSteps
    <2>1. UNCHANGED <<key, content, out>>
      BY <1>6 DEF Hpr!Pair, Hpr!PairEnds, Hpr!Fold, Hpr!Dropped, Hpr!DropTo
    <2> QED BY <2>1, QueueStutters
  <1> QED BY <1>1, <1>2, <1>3, <1>4, <1>5, <1>6 DEF Hpr!Next

-----------------------------------------------------------------------------
(* pprheap: the children of each node are strung from its first one, and   *)
(* each points back to what points to it; roots have no parent.            *)
LEMMA PlugFacts == Plug \notin Nodes /\ Plug # None
  BY PprAssumption DEF Ppr!PlugAssumption

PprNexts(m) == [n \in Nodes |-> m[n].next]

PprMemory == [Nodes -> [parent : Nodes \cup {None}, first : Nodes \cup {None, Plug},
                        next : Nodes \cup {None, Plug}]]

PprStrung(m, u, G) ==
  \A p \in G : /\ Strung(PprNexts(m), m[p].first, Below(u, p), Plug)
               /\ \A x \in Below(u, p) :
                    /\ m[p].first = x => m[x].parent = p
                    /\ \A y \in Below(u, p) : m[y].next = x => m[x].parent = y
               /\ u[p] = None => m[p].parent = None

PprLinked(u, C, A) ==
  /\ links \in PprMemory
  /\ PprStrung(links, u, Placed \ {node})
  /\ pc = "pair" => /\ Strung(PprNexts(links), cursor, C, Plug)
                    /\ Strung(PprNexts(links), acc, A, Plug)
  /\ pc = "fold" => /\ Strung(PprNexts(links), cursor, C, Plug)
                    /\ A = {acc} \cap Nodes
                    /\ acc \in Nodes \cup {Plug}
                    /\ acc = Plug => C = {}
  /\ pc # "idle" => /\ call = "demote" => links[node].parent = None
                    /\ Below(u, node) = {} => links[node].first = Plug

PprHolds(u, C, A) == Forestry(u, C, A) /\ PprLinked(u, C, A)

PprInv ==
  \E u \in Parents, C, A \in SUBSET Nodes : PprHolds(u, C, A)

LEMMA PprInvNext ==
  ASSUME NEW v, NEW D, NEW B, Forestry(v, D, B)', PprLinked(v, D, B)'
  PROVE  PprInv'
  BY ForestryTypedNext DEF PprInv, PprHolds

LEMMA PprIdleNext ==
  ASSUME NEW v, Forestry(v, {}, {})', pc' = "idle", node' = None, links' \in PprMemory,
         PprStrung(links', v, Placed')
  PROVE  PprInv'
  <1>1. PprLinked(v, {}, {})'
    BY DEF PprLinked, PprStrung
  <1> QED BY <1>1, PprInvNext

(* What is read of the nodes of H and of their children is as it was. *)
LEMMA PprStrungKept ==
  ASSUME NEW m, NEW after, NEW u, NEW v, NEW G, PprStrung(m, u, G), NEW H, H \subseteq G,
         \A p \in H : Below(v, p) = Below(u, p),
         \A p \in H : after[p].first = m[p].first,
         \A p \in H : v[p] = None => after[p].parent = None,
         \A p \in H : \A x \in Below(u, p) : after[x].next = m[x].next,
         \A p \in H : \A x \in Below(u, p) : after[x].parent = m[x].parent
  PROVE  PprStrung(after, v, H)
  <1> SUFFICES ASSUME NEW p \in H
               PROVE  /\ Strung(PprNexts(after), after[p].first, Below(v, p), Plug)
                      /\ \A x \in Below(v, p) :
                           /\ after[p].first = x => after[x].parent = p
                           /\ \A y \in Below(v, p) : after[y].next = x => after[x].parent = y
                      /\ v[p] = None => after[p].parent = None
    BY DEF PprStrung
  <1>1. /\ Strung(PprNexts(m), m[p].first, Below(u, p), Plug)
        /\ \A x \in Below(u, p) :
             /\ m[p].first = x => m[x].parent = p
             /\ \A y \in Below(u, p) : m[y].next = x => m[x].parent = y
    BY DEF PprStrung
  <1>2. Below(v, p) = Below(u, p) /\ after[p].first = m[p].first
    OBVIOUS
  <1>3. \A x \in Below(u, p) : PprNexts(after)[x] = PprNexts(m)[x]
    BY DEF PprNexts, Below
  <1>4. Strung(PprNexts(after), after[p].first, Below(v, p), Plug)
    BY <1>1, <1>2, <1>3, StrungKept
  <1> QED BY <1>1, <1>2, <1>4

(* Attaching a node to another one makes it its first child. *)
LEMMA PprAttached ==
  ASSUME NEW m \in PprMemory, NEW u \in Parents, NEW G \in SUBSET Nodes,
         PprStrung(m, u, G), NEW a \in Nodes, NEW b \in Nodes, a # b, a \in G, u[b] \notin G, u[a] # a,
         NEW v, v = Under(u, a, b), NEW after, after = Ppr!Attach(m, b, a)
  PROVE  /\ after \in PprMemory
         /\ PprStrung(after, v, G)
         /\ \A x \in Nodes \ {b} : after[x].next = m[x].next
         /\ \A x \in Nodes \ {a} : after[x].first = m[x].first
         /\ \A x \in Nodes : x # b /\ u[x] # a => after[x].parent = m[x].parent
  <1>1. PICK f : f = m[a].first
    OBVIOUS
  <1>2. /\ Strung(PprNexts(m), f, Below(u, a), Plug)
        /\ \A x \in Below(u, a) :
             /\ f = x => m[x].parent = a
             /\ \A y \in Below(u, a) : m[y].next = x => m[x].parent = y
    BY <1>1 DEF PprStrung
  <1>3. f \in Below(u, a) \cup {Plug} /\ f # a /\ f # b /\ (f \in Nodes \/ f = Plug)
    BY <1>2, PlugFacts DEF Strung, Below
  <1>4. /\ after \in PprMemory
        /\ \A x \in Nodes \ {b} : after[x].next = m[x].next
        /\ \A x \in Nodes \ {a} : after[x].first = m[x].first
        /\ \A x \in Nodes \ {b, f} : after[x].parent = m[x].parent
        /\ after[b].next = f /\ after[b].parent = a /\ after[a].first = b
        /\ f # Plug => after[f].parent = b
    <2>1. PICK n : n = [m EXCEPT ![b].next = f, ![b].parent = a, ![a].first = b]
      OBVIOUS
    <2>2. after = IF f = Plug THEN n ELSE [n EXCEPT ![f].parent = b]
      BY <1>1, <2>1 DEF Ppr!Attach, Ppr!SetParent
    <2>3. /\ n \in PprMemory
          /\ \A x \in Nodes \ {b} : n[x].next = m[x].next
          /\ \A x \in Nodes \ {a} : n[x].first = m[x].first
          /\ \A x \in Nodes \ {b} : n[x].parent = m[x].parent
          /\ n[b].next = f /\ n[b].parent = a /\ n[a].first = b
      BY <1>3, <2>1 DEF PprMemory
    <2>4. CASE f = Plug
      BY <2>2, <2>3, <2>4
    <2>5. CASE f # Plug
      <3>1. after = [n EXCEPT ![f].parent = b] /\ f \in Nodes
        BY <1>3, <2>2, <2>5
      <3>2. /\ after \in PprMemory
            /\ \A x \in Nodes : after[x].next = n[x].next /\ after[x].first = n[x].first
            /\ \A x \in Nodes \ {f} : after[x].parent = n[x].parent
            /\ after[f].parent = b
        BY <2>3, <3>1 DEF PprMemory
      <3> QED BY <1>3, <2>3, <3>1, <3>2
    <2> QED BY <2>4, <2>5
  <1>5. /\ Below(v, a) = Below(u, a) \cup {b} /\ b \notin Below(u, a)
        /\ \A p \in G \ {a} : Below(v, p) = Below(u, p) /\ b \notin Below(u, p)
        /\ \A p \in G : Below(u, p) \in SUBSET Nodes
        /\ \A x \in Nodes \ {b} : v[x] = u[x]
        /\ v[b] = a
    BY DEF Below, Parents, Under
  <1>6. ASSUME NEW p \in G
        PROVE  /\ Strung(PprNexts(after), after[p].first, Below(v, p), Plug)
               /\ \A x \in Below(v, p) :
                    /\ after[p].first = x => after[x].parent = p
                    /\ \A y \in Below(v, p) : after[y].next = x => after[x].parent = y
               /\ v[p] = None => after[p].parent = None
    <2>1. Strung(PprNexts(m), m[p].first, Below(u, p), Plug)
      BY DEF PprStrung
    <2>2. \A x \in Below(u, p) : PprNexts(after)[x] = PprNexts(m)[x]
      BY <1>4, <1>5 DEF PprNexts
    <2>3. v[p] = None => after[p].parent = None
      <3>1. v[p] = None => p # b /\ u[p] = None
        BY <1>5, NoneAssumption
      <3>2. u[p] = None => p # f /\ m[p].parent = None
        <4>1. p \in Nodes /\ (p = f => u[p] = a)
          BY <1>3, PlugFacts DEF Below
        <4>2. u[p] = None => m[p].parent = None
          BY DEF PprStrung
        <4> QED BY <4>1, <4>2, NoneAssumption
      <3> QED BY <1>4, <3>1, <3>2
    <2>4. CASE p = a
      <3>1. Strung(PprNexts(after), b, Below(u, a) \cup {b}, Plug)
        <4>1. PICK next : next = PprNexts(m)
          OBVIOUS
        <4>2. PICK late : late = PprNexts(after)
          OBVIOUS
        <4>3. PICK S : S = Below(u, a)
          OBVIOUS
        <4>4. Strung(next, f, S, Plug) /\ Plug \notin S /\ b \notin S /\ b # Plug
              /\ late[b] = f /\ \A x \in S : late[x] = next[x]
          BY <1>2, <1>4, <1>5, <2>2, <2>4, <4>1, <4>2, <4>3, PlugFacts DEF PprNexts
        <4>5. Strung(late, b, S \cup {b}, Plug)
          BY <4>4, StrungPush
        <4> QED BY <4>2, <4>3, <4>5
      <3>2. ASSUME NEW x \in Below(u, a) \cup {b}
            PROVE  /\ b = x => after[x].parent = a
                   /\ \A y \in Below(u, a) \cup {b} : after[y].next = x => after[x].parent = y
        <4>1. b = x => after[x].parent = a
          BY <1>4
        <4>2. after[b].next = x => after[x].parent = b
          BY <1>3, <1>4, <1>5, PlugFacts, x \in Nodes
        <4>3. ASSUME NEW y \in Below(u, a), after[y].next = x PROVE after[x].parent = y
          <5>1. m[y].next = x /\ y \in Nodes
            BY <1>4, <1>5, <4>3
          <5>2. PprNexts(m)[y] = x
            BY <5>1 DEF PprNexts
          <5>3. x \in Below(u, a) /\ x # f
            BY <1>2, <1>5, <4>3, <5>2, PlugFacts DEF Strung
          <5> QED BY <1>2, <1>4, <1>5, <4>3, <5>1, <5>3
        <4> QED BY <4>1, <4>2, <4>3
      <3>3. after[a].first = b /\ Below(v, a) = Below(u, a) \cup {b}
        BY <1>4, <1>5
      <3>4. \A x \in Below(v, a) :
               /\ after[a].first = x => after[x].parent = a
               /\ \A y \in Below(v, a) : after[y].next = x => after[x].parent = y
        BY <3>2, <3>3
      <3>5. Strung(PprNexts(after), after[a].first, Below(v, a), Plug)
        BY <3>1, <3>3
      <3> QED BY <2>3, <2>4, <3>4, <3>5
    <2>5. CASE p # a
      <3>1. Below(v, p) = Below(u, p) /\ after[p].first = m[p].first
        BY <1>4, <1>5, <2>5
      <3>2. Strung(PprNexts(after), after[p].first, Below(v, p), Plug)
        BY <2>1, <2>2, <3>1, StrungKept
      <3>3. \A x \in Below(u, p) : x \in Nodes \ {b, f}
        BY <1>3, <1>5, <2>5, PlugFacts DEF Below
      <3>4. \A x \in Below(u, p) : after[x].parent = m[x].parent /\ after[x].next = m[x].next
        BY <1>4, <3>3
      <3>5. \A x \in Below(u, p) :
              /\ m[p].first = x => m[x].parent = p
              /\ \A y \in Below(u, p) : m[y].next = x => m[x].parent = y
        BY DEF PprStrung
      <3> QED BY <2>3, <3>1, <3>2, <3>4, <3>5
    <2> QED BY <2>4, <2>5
  <1>7. \A x \in Nodes : x # b /\ u[x] # a => after[x].parent = m[x].parent
    BY <1>3, <1>4, PlugFacts DEF Below
  <1> QED BY <1>4, <1>6, <1>7 DEF PprStrung

LEMMA PprJoined ==
  ASSUME TypeOK, NEW m \in PprMemory, NEW u \in Parents, NEW G \in SUBSET Nodes,
         PprStrung(m, u, G), NEW a \in Nodes, NEW b \in Nodes, a # b, a \in G, b \in G,
         u[a] \notin G, u[b] \notin G,
         NEW v, v = Linking(u, a, b), NEW after, after = Ppr!Join(m, a, b),
         NEW w, w = Winner(key, a, b), NEW l, l = Loser(key, a, b)
  PROVE  /\ after \in PprMemory
         /\ PprStrung(after, v, G)
         /\ \A x \in Nodes \ {l} : after[x].next = m[x].next
         /\ \A x \in Nodes \ {w} : after[x].first = m[x].first
         /\ \A x \in Nodes : x # l /\ u[x] # w => after[x].parent = m[x].parent
  <1>1. {w, l} = {a, b} /\ w # l
    BY JoinChoice
  <1>2. after = Ppr!Attach(m, l, w)
    BY DEF Ppr!Join, Ppr!Winner, Winner, Loser
  <1>3. w \in Nodes /\ l \in Nodes /\ w \in G /\ u[l] \notin G /\ u[w] # w
    BY <1>1
  <1>4. v = Under(u, w, l)
    BY DEF Linking, Under
  <1> QED BY <1>1, <1>2, <1>3, <1>4, PprAttached

(* Detaching a node that a single pointer leads to. *)
LEMMA PprDetached ==
  ASSUME NEW m \in PprMemory, NEW u \in Parents, NEW G \in SUBSET Nodes,
         PprStrung(m, u, G), NEW n \in G, u[n] \in G, \A x \in Nodes : u[x] # x,
         NEW q, q = m[n].parent, (m[q].first = n) # (m[q].next = n),
         NEW v, v = Under(u, None, n), NEW after, after = Ppr!Detach(m, n)
  PROVE  /\ after \in PprMemory
         /\ PprStrung(after, v, G \ {n})
         /\ Strung(PprNexts(after), after[n].first, Below(u, n), Plug)
  <1>1. PICK p : p = u[n]
    OBVIOUS
  <1>2. PICK S : S = Below(u, p)
    OBVIOUS
  <1>3. PICK next : next = PprNexts(m)
    OBVIOUS
  <1>4. PICK c : c = m[p].first
    OBVIOUS
  <1>5. PICK s : s = m[n].next
    OBVIOUS
  <1>6. /\ p \in G /\ p \in Nodes /\ n \in Nodes /\ n \in S /\ S \in SUBSET Nodes /\ p # n /\ p \notin S
        /\ Strung(next, c, S, Plug) /\ Plug \notin S
        /\ \A x \in S : /\ c = x => m[x].parent = p
                        /\ \A y \in S : m[y].next = x => m[x].parent = y
        /\ \A x \in Nodes : next[x] = m[x].next
    <2>1. p \in G /\ p \in Nodes /\ n \in Nodes /\ n \in S /\ S \in SUBSET Nodes /\ p # n /\ p \notin S
          /\ Plug \notin S
      BY <1>1, <1>2, PlugFacts DEF Below
    <2>2. /\ Strung(PprNexts(m), m[p].first, Below(u, p), Plug)
          /\ \A x \in Below(u, p) :
               /\ m[p].first = x => m[x].parent = p
               /\ \A y \in Below(u, p) : m[y].next = x => m[x].parent = y
      BY <2>1 DEF PprStrung
    <2>3. \A x \in Nodes : next[x] = m[x].next
      BY <1>3 DEF PprNexts
    <2> QED BY <1>2, <1>3, <1>4, <2>1, <2>2, <2>3
  <1>7. /\ s \in S \cup {Plug} /\ s # c /\ s # p /\ s # n
        /\ \A y \in S \ {n} : m[y].next = s => s = Plug
        /\ s \in Nodes \/ s = Plug
    <2>1. next[n] = s
      BY <1>5, <1>6
    <2>2. s \in S \cup {Plug} /\ s # c
      BY <1>6, <2>1 DEF Strung
    <2>3. \A y \in S \ {n} : m[y].next = s => s = Plug
      <3> SUFFICES ASSUME NEW y \in S \ {n}, m[y].next = s, s # Plug PROVE FALSE
        OBVIOUS
      <3>1. next[y] = s
        BY <1>6
      <3> QED BY <1>6, <2>1, <3>1 DEF Strung
    <2>4. s # p
      BY <1>6, <2>2, PlugFacts
    <2>5. ASSUME s = n PROVE FALSE
      <3>1. CASE n = c
        BY <2>2, <2>5, <3>1
      <3>2. CASE n # c
        <4>1. PICK y \in S \ {n} : next[y] = n
          BY <1>6, <3>2, StrungPrevious
        <4> QED BY <1>6, <2>1, <2>5, <4>1, PlugFacts DEF Strung
      <3> QED BY <3>1, <3>2
    <2> QED BY <1>6, <2>2, <2>3, <2>4, <2>5
  <1>8. /\ \A r \in G \ {n, p} : Below(v, r) = Below(u, r) /\ Below(u, r) \cap S = {}
        /\ Below(v, p) = S \ {n}
        /\ \A x \in Nodes \ {n} : v[x] = u[x]
        /\ Below(u, n) \cap S = {} /\ Below(u, n) \in SUBSET Nodes
        /\ \A r \in G \ {n} : u[r] = None => r \notin S
    BY <1>1, <1>2, <1>6, NoneAssumption DEF Below, Under, Parents
  <1>9. Strung(next, m[n].first, Below(u, n), Plug)
    BY <1>3 DEF PprStrung
  (* The conclusion, from what is known of the two ways to detach. *)
  <1>10. ASSUME after \in PprMemory,
                NEW z, z \in S \ {n} \/ z = p,
                \A x \in Nodes \ S : after[x].next = m[x].next,
                \A x \in Nodes \ {p} : after[x].first = m[x].first,
                \A x \in Nodes \ {s} : after[x].parent = m[x].parent,
                Strung(PprNexts(after), after[p].first, S \ {n}, Plug),
                \A x \in S \ {n} : /\ after[p].first = x => after[x].parent = p
                                   /\ \A y \in S \ {n} : after[y].next = x => after[x].parent = y
         PROVE  /\ PprStrung(after, v, G \ {n})
                /\ Strung(PprNexts(after), after[n].first, Below(u, n), Plug)
    <2>1. ASSUME NEW r \in G \ {n}
          PROVE  /\ Strung(PprNexts(after), after[r].first, Below(v, r), Plug)
                 /\ \A x \in Below(v, r) :
                      /\ after[r].first = x => after[x].parent = r
                      /\ \A y \in Below(v, r) : after[y].next = x => after[x].parent = y
                 /\ v[r] = None => after[r].parent = None
      <3>1. v[r] = None => after[r].parent = None
        <4>1. v[r] = None => u[r] = None /\ r \notin S /\ r \in Nodes
          BY <1>8
        <4>2. u[r] = None => m[r].parent = None
          BY DEF PprStrung
        <4>3. r \notin S => r # s
          BY <1>7, PlugFacts
        <4> QED BY <1>10, <4>1, <4>2, <4>3
      <3>2. CASE r = p
        <4>1. Below(v, r) = S \ {n}
          BY <1>8, <3>2
        <4>2. /\ Strung(PprNexts(after), after[r].first, S \ {n}, Plug)
              /\ \A x \in S \ {n} :
                   /\ after[r].first = x => after[x].parent = r
                   /\ \A y \in S \ {n} : after[y].next = x => after[x].parent = y
          BY <1>10, <3>2
        <4> QED BY <3>1, <4>1, <4>2
      <3>3. CASE r # p
        <4>1. Below(v, r) = Below(u, r) /\ \A x \in Below(u, r) : x \in Nodes \ S /\ x # s
          BY <1>7, <1>8, <3>3, PlugFacts DEF Below
        <4>2. \A x \in Below(u, r) : after[x].next = m[x].next /\ after[x].parent = m[x].parent
          BY <1>10, <4>1
        <4>3. after[r].first = m[r].first
          BY <1>10, <3>3
        <4>4. /\ Strung(next, m[r].first, Below(u, r), Plug)
              /\ \A x \in Below(u, r) :
                   /\ m[r].first = x => m[x].parent = r
                   /\ \A y \in Below(u, r) : m[y].next = x => m[x].parent = y
          BY <1>3 DEF PprStrung
        <4>5. \A x \in Below(u, r) : PprNexts(after)[x] = next[x]
          BY <1>6, <4>1, <4>2 DEF PprNexts
        <4>6. Strung(PprNexts(after), m[r].first, Below(u, r), Plug)
          BY <4>4, <4>5, StrungKept
        <4> QED BY <3>1, <4>1, <4>2, <4>3, <4>4, <4>6
      <3> QED BY <3>2, <3>3
    <2>2. Strung(PprNexts(after), after[n].first, Below(u, n), Plug)
      <3>1. after[n].first = m[n].first
        BY <1>6, <1>10
      <3>2. \A x \in Below(u, n) : PprNexts(after)[x] = next[x]
        BY <1>6, <1>8, <1>10 DEF PprNexts
      <3> QED BY <1>9, <3>1, <3>2, StrungKept
    <2> QED BY <2>1, <2>2 DEF PprStrung
  <1>11. PICK d : d = IF m[q].next = n THEN [m EXCEPT ![q].next = s] ELSE [m EXCEPT ![q].first = s]
    OBVIOUS
  <1>12. after = IF s = Plug THEN d ELSE [d EXCEPT ![s].parent = q]
    BY <1>5, <1>11 DEF Ppr!Detach, Ppr!SetParent
  <1>13. CASE c = n
    <2>1. q = p /\ m[q].first = n /\ m[q].next # n
      BY <1>4, <1>6, <1>13
    <2>2. d = [m EXCEPT ![p].first = s]
      BY <1>11, <2>1
    <2>3. /\ d \in PprMemory /\ d[p].first = s
          /\ \A x \in Nodes : d[x].next = m[x].next /\ d[x].parent = m[x].parent
          /\ \A x \in Nodes \ {p} : d[x].first = m[x].first
      BY <1>6, <1>7, <2>2 DEF PprMemory
    <2>4. /\ after \in PprMemory /\ after[p].first = s
          /\ \A x \in Nodes : after[x].next = m[x].next
          /\ \A x \in Nodes \ {s} : after[x].parent = m[x].parent
          /\ \A x \in Nodes \ {p} : after[x].first = m[x].first
          /\ s # Plug => after[s].parent = p
      <3>1. CASE s = Plug
        BY <1>12, <2>3, <3>1
      <3>2. CASE s # Plug
        <4>1. after = [d EXCEPT ![s].parent = p] /\ s \in Nodes
          BY <1>7, <1>12, <2>1, <3>2
        <4> QED BY <1>6, <1>7, <2>3, <4>1 DEF PprMemory
      <3> QED BY <3>1, <3>2
    <2>5. Strung(PprNexts(after), s, S \ {n}, Plug)
      <3>1. Strung(next, next[c], S \ {c}, Plug)
        BY <1>6, <1>13, PlugFacts, StrungNext
      <3>2. Strung(next, s, S \ {n}, Plug)
        BY <1>5, <1>6, <1>13, <3>1
      <3>3. \A x \in S \ {n} : PprNexts(after)[x] = next[x]
        BY <1>6, <2>4 DEF PprNexts
      <3> QED BY <3>2, <3>3, StrungKept
    <2>6. ASSUME NEW x \in S \ {n}
          PROVE  /\ s = x => after[x].parent = p
                 /\ \A y \in S \ {n} : after[y].next = x => after[x].parent = y
      <3>1. s = x => after[x].parent = p
        BY <1>6, <2>4
      <3>2. ASSUME NEW y \in S \ {n}, after[y].next = x PROVE after[x].parent = y
        <4>1. m[y].next = x
          BY <1>6, <2>4, <3>2
        <4>2. x # s
          BY <1>6, <1>7, <4>1
        <4> QED BY <1>6, <2>4, <4>1, <4>2
      <3> QED BY <3>1, <3>2
    <2> QED BY <1>10, <2>4, <2>5, <2>6
  <1>14. CASE c # n
    <2>1. PICK y \in S \ {n} : next[y] = n
      BY <1>6, <1>14, StrungPrevious
    <2>2. y \in Nodes /\ m[y].next = n /\ q = y
      BY <1>6, <2>1
    <2>3. d = [m EXCEPT ![y].next = s]
      BY <1>11, <2>2
    <2>4. /\ d \in PprMemory /\ d[y].next = s
          /\ \A x \in Nodes : d[x].first = m[x].first /\ d[x].parent = m[x].parent
          /\ \A x \in Nodes \ {y} : d[x].next = m[x].next
      BY <1>7, <2>2, <2>3 DEF PprMemory
    <2>5. /\ after \in PprMemory /\ after[y].next = s
          /\ \A x \in Nodes : after[x].first = m[x].first
          /\ \A x \in Nodes \ {s} : after[x].parent = m[x].parent
          /\ \A x \in Nodes \ {y} : after[x].next = m[x].next
          /\ s # Plug => after[s].parent = y
      <3>1. CASE s = Plug
        BY <1>12, <2>4, <3>1
      <3>2. CASE s # Plug
        <4>1. after = [d EXCEPT ![s].parent = y] /\ s \in Nodes
          BY <1>7, <1>12, <2>2, <3>2
        <4> QED BY <2>2, <2>4, <4>1 DEF PprMemory
      <3> QED BY <3>1, <3>2
    <2>6. Strung(PprNexts(after), c, S \ {n}, Plug)
      <3>1. PICK late : late = PprNexts(after)
        OBVIOUS
      <3>2. late[y] = next[n]
        BY <1>5, <1>6, <2>2, <2>5, <3>1 DEF PprNexts
      <3>3. \A x \in S \ {y, n} : late[x] = next[x]
        BY <1>6, <2>5, <3>1 DEF PprNexts
      <3>4. Strung(late, c, S \ {n}, Plug)
        BY <1>6, <2>1, <3>2, <3>3, StrungRemove
      <3> QED BY <3>1, <3>4
    <2>7. after[p].first = c
      BY <1>4, <1>6, <2>5
    <2>8. ASSUME NEW x \in S \ {n}
          PROVE  /\ c = x => after[x].parent = p
                 /\ \A z \in S \ {n} : after[z].next = x => after[x].parent = z
      <3>1. c = x => after[x].parent = p
        BY <1>6, <1>7, <2>5
      <3>2. ASSUME NEW z \in S \ {n}, after[z].next = x PROVE after[x].parent = z
        <4>1. CASE z = y
          BY <1>6, <2>5, <3>2, <4>1, PlugFacts
        <4>2. CASE z # y
          <5>1. m[z].next = x
            BY <1>6, <2>5, <3>2, <4>2
          <5>2. x # s
            BY <1>6, <1>7, <5>1
          <5> QED BY <1>6, <2>5, <5>1, <5>2
        <4> QED BY <4>1, <4>2
      <3> QED BY <3>1, <3>2
    <2>9. \A x \in Nodes \ S : after[x].next = m[x].next
      BY <2>1, <2>5
    <2> QED BY <1>10, <2>5, <2>6, <2>7, <2>8, <2>9
  <1> QED BY <1>13, <1>14

LEMMA PprInit ==
  ASSUME Ppr!Init
  PROVE  PprInv
  <1>1. Down /\ links = [n \in Nodes |-> Ppr!Blank]
    BY DEF Ppr!Init, Ppr!Down, Down
  <1>2. PICK u : u = [n \in Nodes |-> None]
    OBVIOUS
  <1>3. Forestry(u, {}, {})
    BY <1>1, <1>2, ForestryDown
  <1>4. Placed = {} /\ pc = "idle"
    BY <1>1, PlacedIdle DEF Down
  <1>5. PprLinked(u, {}, {})
    BY <1>1, <1>4 DEF PprLinked, PprStrung, PprMemory, Ppr!Blank
  <1> QED BY <1>3, <1>5, ForestryTyped DEF PprInv, PprHolds

(* What is known between calls. *)
LEMMA PprIdle ==
  ASSUME NEW u, NEW C, NEW A, PprHolds(u, C, A), pc = "idle"
  PROVE  /\ Forestry(u, C, A) /\ links \in PprMemory /\ PprStrung(links, u, Placed)
         /\ node = None /\ Placed \in SUBSET Nodes /\ u \in Parents /\ TypeOK
  <1>1. Forestry(u, C, A) /\ links \in PprMemory /\ PprStrung(links, u, Placed \ {node}) /\ TypeOK
    BY DEF PprHolds, PprLinked, Forestry
  <1>2. node = None /\ Placed \in SUBSET Nodes /\ u \in Parents
    BY <1>1, BusyIdle, PlacedFacts
  <1>3. Placed \ {node} = Placed
    BY <1>2, NoneAssumption
  <1> QED BY <1>1, <1>2, <1>3

LEMMA PprSetup ==
  ASSUME NEW u, NEW C, NEW A, PprHolds(u, C, A), NEW h \in Heaps, Ppr!Setup(h)
  PROVE  PprInv'
  <1>1. PICK memory : memory = [n \in Nodes |-> IF n \in content[h] THEN Ppr!Blank ELSE links[n]]
    OBVIOUS
  <1>2. SetupTo(h, memory)
    BY <1>1 DEF Ppr!Setup, Ppr!SetupTo, SetupTo, Ppr!NoneOut, NoneOut, Ppr!Locals, Locals
  <1>3. links' = memory /\ pc = "idle"
    BY <1>2 DEF SetupTo
  <1>4. /\ Forestry(u, C, A) /\ links \in PprMemory /\ PprStrung(links, u, Placed)
        /\ node = None /\ Placed \in SUBSET Nodes
    BY <1>3, PprIdle
  <1>5. pc' = "idle" /\ node' = None /\ Placed' = Placed \ content[h]
    BY <1>2, <1>4, SetupEffect
  <1>6. PICK v : Forestry(v, {}, {})' /\ \A p \in Placed' : Below(v, p) = Below(u, p) /\ v[p] = u[p]
    BY <1>2, <1>4, SetupEffect
  <1>7. memory \in PprMemory
    BY <1>1, <1>4 DEF PprMemory, Ppr!Blank
  <1>8. PICK m : m = links
    OBVIOUS
  <1>9. PICK G : G = Placed
    OBVIOUS
  <1>10. PICK H : H = Placed'
    OBVIOUS
  <1>11. H \subseteq G /\ H \subseteq Nodes /\ \A x \in H : x \notin content[h]
    BY <1>4, <1>5, <1>9, <1>10
  <1>12. \A p \in H : Below(v, p) = Below(u, p) /\ v[p] = u[p] /\ Below(v, p) \subseteq H
    BY <1>6, <1>10, PlacedNext
  <1>13. \A x \in H : memory[x] = m[x]
    BY <1>1, <1>8, <1>11
  <1>14. PprStrung(m, u, G)
    BY <1>4, <1>8, <1>9
  <1>15. PprStrung(memory, v, H)
    <2>1. \A p \in H : v[p] = None => memory[p].parent = None
      BY <1>11, <1>12, <1>13, <1>14 DEF PprStrung
    <2>2. \A p \in H : \A x \in Below(u, p) : memory[x] = m[x]
      BY <1>12, <1>13
    <2> QED BY <1>11, <1>12, <1>13, <1>14, <2>1, <2>2, PprStrungKept
  <1> QED BY <1>3, <1>5, <1>6, <1>7, <1>10, <1>15, PprIdleNext

LEMMA PprSetKey ==
  ASSUME NEW u, NEW C, NEW A, PprHolds(u, C, A), NEW n \in Nodes, NEW k \in Keys, Ppr!SetKey(n, k)
  PROVE  PprInv'
  <1>1. SetKey(n, k)
    BY DEF Ppr!SetKey, SetKey, Ppr!NoneOut, NoneOut, Ppr!Locals, Locals
  <1>2. pc = "idle" /\ UNCHANGED <<links, pc, content, heap, node>>
    BY <1>1 DEF SetKey, Locals
  <1>3. /\ Forestry(u, C, A) /\ links \in PprMemory /\ PprStrung(links, u, Placed) /\ node = None
    BY <1>2, PprIdle
  <1>4. Placed' = Placed
    BY <1>2, PlacedKept
  <1>5. Forestry(u, {}, {})'
    BY <1>1, <1>3, ForestrySetKey
  <1> QED BY <1>2, <1>3, <1>4, <1>5, PprIdleNext

LEMMA PprInsert ==
  ASSUME NEW u, NEW C, NEW A, PprHolds(u, C, A), NEW h \in Heaps, NEW n \in Nodes, Ppr!Insert(h, n)
  PROVE  PprInv'
  <1>1. PICK fresh : fresh = [links EXCEPT ![n] = [parent |-> None, first |-> Plug, next |-> Plug]]
    OBVIOUS
  <1>2. PICK r : r = root[h]
    OBVIOUS
  <1>3. PICK joined : joined = Ppr!Join(fresh, r, n)
    OBVIOUS
  <1>4. InsertTo(h, n, fresh, joined)
    BY <1>1, <1>2, <1>3 DEF Ppr!Insert, Ppr!InsertTo, InsertTo, Ppr!NoneOut, NoneOut, Ppr!Locals, Locals,
                            Ppr!Winner, Winner
  <1>5. /\ Forestry(u, C, A) /\ links \in PprMemory /\ PprStrung(links, u, Placed)
        /\ Placed \in SUBSET Nodes /\ u \in Parents /\ TypeOK
    <2>1. pc = "idle"
      BY <1>4 DEF InsertTo
    <2> QED BY <2>1, PprIdle
  <1>6. /\ pc' = "idle" /\ node = None /\ node' = None
        /\ Placed' = Placed \cup {n} /\ n \notin Placed
        /\ u[n] = None /\ Below(u, n) = {}
        /\ r # None => r \in Placed /\ u[r] = None
        /\ r = None => links' = fresh
        /\ r # None => links' = joined
    BY <1>2, <1>4, <1>5, InsertEffect
  <1>7. PICK v : Forestry(v, {}, {})' /\ v = IF r = None THEN u ELSE Linking(u, r, n)
    BY <1>2, <1>4, <1>5, InsertEffect
  <1>8. PICK G : G = Placed'
    OBVIOUS
  <1>9. PICK m : m = links
    OBVIOUS
  <1>10. G \in SUBSET Nodes /\ G = Placed \cup {n}
    BY <1>5, <1>6, <1>8
  <1>11. fresh \in PprMemory /\ PprStrung(fresh, u, G)
    <2>1. /\ fresh \in PprMemory /\ fresh[n].first = Plug /\ fresh[n].parent = None
          /\ \A x \in Nodes \ {n} : fresh[x] = m[x]
      BY <1>1, <1>5, <1>9 DEF PprMemory
    <2>2. PICK H : H = Placed
      OBVIOUS
    <2>3. PprStrung(fresh, u, H)
      <3>1. PprStrung(m, u, H) /\ H \subseteq Nodes /\ n \notin H
        BY <1>5, <1>6, <1>9, <2>2
      <3>2. \A p \in H : fresh[p] = m[p]
        BY <2>1, <3>1
      <3>3. \A p \in H : \A x \in Below(u, p) : fresh[x] = m[x]
        BY <1>6, <2>1, <3>1, NoneAssumption DEF Below
      <3>4. \A p \in H : u[p] = None => fresh[p].parent = None
        BY <3>1, <3>2 DEF PprStrung
      <3> QED BY <3>1, <3>2, <3>3, <3>4, PprStrungKept
    <2>4. Strung(PprNexts(fresh), fresh[n].first, Below(u, n), Plug)
      BY <1>6, <2>1, StrungNothing
    <2> QED BY <1>6, <1>10, <2>1, <2>2, <2>3, <2>4 DEF PprStrung
  <1>12. CASE r = None
    <2>1. v = u /\ links' = fresh
      BY <1>6, <1>7, <1>12
    <2> QED BY <1>6, <1>7, <1>8, <1>11, <2>1, PprIdleNext
  <1>13. CASE r # None
    <2>1. v = Linking(u, r, n) /\ links' = joined
      BY <1>6, <1>7, <1>13
    <2>2. r \in G /\ n \in G /\ r \in Nodes /\ r # n /\ u[r] \notin G /\ u[n] \notin G
      BY <1>5, <1>6, <1>10, <1>13, NoneAssumption
    <2>3. joined \in PprMemory /\ PprStrung(joined, v, G)
      <3>1. PICK w : w = Winner(key, r, n)
        OBVIOUS
      <3>2. PICK l : l = Loser(key, r, n)
        OBVIOUS
      <3> QED BY <1>3, <1>5, <1>10, <1>11, <2>1, <2>2, <3>1, <3>2, PprJoined
    <2> QED BY <1>6, <1>7, <1>8, <2>1, <2>3, PprIdleNext
  <1> QED BY <1>12, <1>13

LEMMA PprMerge ==
  ASSUME NEW u, NEW C, NEW A, PprHolds(u, C, A), NEW r \in Heaps, NEW s \in Heaps, Ppr!Merge(r, s)
  PROVE  PprInv'
  <1>1. PICK m : m = links
    OBVIOUS
  <1>2. PICK a : a = root[r]
    OBVIOUS
  <1>3. PICK b : b = root[s]
    OBVIOUS
  <1>4. PICK joined : joined = Ppr!Join(m, a, b)
    OBVIOUS
  <1>5. MergeTo(r, s, joined)
    BY <1>1, <1>2, <1>3, <1>4 DEF Ppr!Merge, Ppr!MergeTo, MergeTo, Ppr!NoneOut, NoneOut, Ppr!Locals, Locals,
                            Ppr!Winner, Winner, Ppr!CountAfterMerge, CountAfterMerge
  <1>6. /\ Forestry(u, C, A) /\ links \in PprMemory /\ PprStrung(links, u, Placed)
        /\ Placed \in SUBSET Nodes /\ u \in Parents /\ TypeOK
    <2>1. pc = "idle"
      BY <1>5 DEF MergeTo
    <2> QED BY <2>1, PprIdle
  <1>7. /\ pc' = "idle" /\ node = None /\ node' = None
        /\ Placed' = Placed
        /\ a # None => a \in Placed /\ u[a] = None
        /\ b # None => b \in Placed /\ u[b] = None
        /\ a # None /\ b # None => a # b
        /\ links' = IF a # None /\ b # None THEN joined ELSE m
    BY <1>1, <1>2, <1>3, <1>5, <1>6, MergeEffect
  <1>8. PICK v : Forestry(v, {}, {})' /\ v = IF a # None /\ b # None THEN Linking(u, a, b) ELSE u
    BY <1>2, <1>3, <1>5, <1>6, MergeEffect
  <1>9. PICK G : G = Placed'
    OBVIOUS
  <1>10. G \in SUBSET Nodes /\ G = Placed /\ m \in PprMemory /\ PprStrung(m, u, G)
    BY <1>1, <1>6, <1>7, <1>9
  <1>11. CASE ~ (a # None /\ b # None)
    <2>1. v = u /\ links' = m
      BY <1>7, <1>8, <1>11
    <2> QED BY <1>7, <1>8, <1>9, <1>10, <2>1, PprIdleNext
  <1>12. CASE a # None /\ b # None
    <2>1. v = Linking(u, a, b) /\ links' = joined
      BY <1>7, <1>8, <1>12
    <2>2. a \in G /\ b \in G /\ a \in Nodes /\ b \in Nodes /\ a # b /\ u[a] \notin G /\ u[b] \notin G
      BY <1>7, <1>10, <1>12, NoneAssumption
    <2>3. joined \in PprMemory /\ PprStrung(joined, v, G)
      <3>1. PICK w : w = Winner(key, a, b)
        OBVIOUS
      <3>2. PICK l : l = Loser(key, a, b)
        OBVIOUS
      <3> QED BY <1>4, <1>6, <1>10, <2>1, <2>2, <3>1, <3>2, PprJoined
    <2> QED BY <1>7, <1>8, <1>9, <2>1, <2>3, PprIdleNext
  <1> QED BY <1>11, <1>12
(* The merge of the children of n is entered, n having left its siblings.  *)
LEMMA PprEntered ==
  ASSUME NEW u \in Parents, NEW n \in Nodes, u[n] # n, NEW v, v = Under(u, None, n),
         Forestry(v, Below(u, n), {})', Placed' = Placed,
         NEW h, NEW what, NEW m, Ppr!Begin(what, h, n, m), m \in PprMemory,
         NEW G, G = Placed \ {n}, PprStrung(m, v, G),
         Strung(PprNexts(m), m[n].first, Below(u, n), Plug),
         what = "demote" => m[n].parent = None
  PROVE  PprInv'
  <1>1. /\ pc' = "pair" /\ node' = n /\ call' = what /\ cursor' = m[n].first
        /\ acc' = Plug /\ links' = m
    BY DEF Ppr!Begin, Ppr!Enter
  <1>2. Below(v, n) = Below(u, n)
    BY NoneAssumption DEF Below, Under, Parents
  <1>3. Below(u, n) = {} => m[n].first = Plug
    BY DEF Strung
  <1>4. PICK S : S = Below(u, n)
    OBVIOUS
  <1>5. PprLinked(v, S, {})'
    <2>1. Strung(PprNexts(m), Plug, {}, Plug)
      BY StrungNothing
    <2>2. Strung(PprNexts(m), m[n].first, S, Plug)
      BY <1>4
    <2>3. (Placed \ {node})' = G
      BY <1>1
    <2>4. Below(v, n) = {} => m[n].first = Plug
      BY <1>2, <1>3
    <2> QED BY <1>1, <2>1, <2>2, <2>3, <2>4 DEF PprLinked, PprStrung, PprNexts
  <1>6. Forestry(v, S, {})'
    BY <1>4
  <1> QED BY <1>5, <1>6, PprInvNext

(* The root of a heap is entered as it is. *)
LEMMA PprRootEntered ==
  ASSUME NEW u, NEW C, NEW A, PprHolds(u, C, A), pc = "idle", NEW h \in Heaps, h \in live,
         NEW n \in content[h], n = root[h], NEW what \in {"drop", "demote"},
         Ppr!Begin(what, h, n, links),
         content' = IF what = "drop" THEN [content EXCEPT ![h] = @ \ {n}] ELSE content,
         key' \in [Nodes -> Keys], \A x \in Nodes \ {n} : key'[x] = key[x],
         out' \in [Heaps -> Nodes \cup {None}]
  PROVE  PprInv'
  <1>1. /\ Forestry(u, C, A) /\ links \in PprMemory /\ PprStrung(links, u, Placed)
        /\ node = None /\ Placed \in SUBSET Nodes /\ u \in Parents /\ TypeOK
    BY PprIdle
  <1>2. n \in Nodes /\ u[n] = None
    BY <1>1, IdleFacts DEF TypeOK
  <1>3. PICK m : m = links
    OBVIOUS
  <1>4. PICK first : first = m[n].first
    OBVIOUS
  <1>5. Enter(what, h, n, m, first, Plug)
    BY <1>3, <1>4 DEF Ppr!Begin, Ppr!Enter, Enter
  <1>6. /\ what \in {"drop", "remove", "update", "demote"}
        /\ what \in {"drop", "demote"} <=> n = root[h]
        /\ content' = IF what \in {"drop", "remove"} THEN [content EXCEPT ![h] = @ \ {n}] ELSE content
    OBVIOUS
  <1>7. Placed' = Placed /\ n \in Placed
    BY <1>1, <1>5, <1>6, EnterEffect, ZenonT(30)
  <1>8. PICK v : Forestry(v, Below(u, n), {})' /\ v = Under(u, None, n)
    BY <1>1, <1>5, <1>6, EnterEffect, ZenonT(30)
  <1>9. v = u
    BY <1>1, <1>2, <1>8 DEF Under, Parents
  <1>10. PICK G : G = Placed \ {n}
    OBVIOUS
  <1>11. PprStrung(m, v, G)
    BY <1>1, <1>3, <1>9, <1>10 DEF PprStrung
  <1>12. Strung(PprNexts(m), m[n].first, Below(u, n), Plug) /\ m[n].parent = None
    BY <1>1, <1>2, <1>3, <1>7 DEF PprStrung
  <1>13. Ppr!Begin(what, h, n, m) /\ m \in PprMemory /\ u[n] # n
    BY <1>1, <1>2, <1>3, NoneAssumption
  <1> QED BY <1>1, <1>2, <1>7, <1>8, <1>10, <1>11, <1>12, <1>13, PprEntered

(* Another node is detached first. *)
LEMMA PprDetachedEntered ==
  ASSUME AssertIntern = TRUE,
         NEW u, NEW C, NEW A, PprHolds(u, C, A), pc = "idle", NEW h \in Heaps, h \in live,
         NEW n \in content[h], n # root[h], NEW what \in {"remove", "update"},
         Ppr!BeginDetached(what, h, n),
         content' = IF what = "remove" THEN [content EXCEPT ![h] = @ \ {n}] ELSE content,
         key' \in [Nodes -> Keys], \A x \in Nodes \ {n} : key'[x] = key[x],
         out' \in [Heaps -> Nodes \cup {None}]
  PROVE  PprInv'
  <1>1. /\ Forestry(u, C, A) /\ links \in PprMemory /\ PprStrung(links, u, Placed)
        /\ node = None /\ Placed \in SUBSET Nodes /\ u \in Parents /\ TypeOK
    BY PprIdle
  <1>2. n \in Nodes /\ u[n] \in content[h] /\ u[n] \in Placed /\ \A x \in Nodes : u[x] # x
    <2>1. n \in Nodes /\ u[n] \in content[h] /\ u[n] \in Nodes
      BY <1>1, IdleFacts DEF TypeOK
    <2>2. u[n] \in Placed
      BY <1>1, <2>1, PlacedFacts
    <2>3. \A x \in Nodes : u[x] # x
      BY <1>1, ShapeFacts DEF Forestry
    <2> QED BY <2>1, <2>2, <2>3
  <1>3. PICK m : m = links
    OBVIOUS
  <1>4. PICK q : q = m[n].parent
    OBVIOUS
  <1>5. PICK after : after = Ppr!Detach(m, n)
    OBVIOUS
  <1>6. (m[q].first = n) # (m[q].next = n) /\ Ppr!Begin(what, h, n, after)
    BY <1>3, <1>4, <1>5 DEF Ppr!BeginDetached, Ppr!MayDetach
  <1>7. PICK first : first = after[n].first
    OBVIOUS
  <1>8. Enter(what, h, n, after, first, Plug)
    BY <1>6, <1>7 DEF Ppr!Begin, Ppr!Enter, Enter
  <1>9. /\ what \in {"drop", "remove", "update", "demote"}
        /\ what \in {"drop", "demote"} <=> n = root[h]
        /\ content' = IF what \in {"drop", "remove"} THEN [content EXCEPT ![h] = @ \ {n}] ELSE content
    OBVIOUS
  <1>10. Placed' = Placed /\ n \in Placed
    BY <1>1, <1>8, <1>9, EnterEffect
  <1>11. PICK v : Forestry(v, Below(u, n), {})' /\ v = Under(u, None, n)
    BY <1>1, <1>8, <1>9, EnterEffect
  <1>12. PICK G : G = Placed
    OBVIOUS
  <1>13. PICK H : H = G \ {n}
    OBVIOUS
  <1>14. /\ after \in PprMemory /\ PprStrung(after, v, G \ {n})
         /\ Strung(PprNexts(after), after[n].first, Below(u, n), Plug)
    BY <1>1, <1>2, <1>3, <1>4, <1>5, <1>6, <1>10, <1>11, <1>12, PprDetached
  <1>15. PprStrung(after, v, H) /\ H = Placed \ {n}
    BY <1>12, <1>13, <1>14
  <1> QED BY <1>1, <1>2, <1>6, <1>10, <1>11, <1>14, <1>15, PprEntered
(* Between calls a root has no parent; another node points back to its     *)
(* parent or to one of its siblings, which its parent precedes.            *)
LEMMA PprParent ==
  ASSUME NEW u, NEW C, NEW A, PprHolds(u, C, A), pc = "idle", NEW h \in Heaps,
         NEW n \in content[h]
  PROVE  /\ n \in Nodes /\ (n = root[h] => links[n].parent = None)
         /\ n # root[h] => /\ links[n].parent \in Nodes \ {n} /\ u[n] \in Nodes \ {n}
                           /\ key[u[n]] <= key[links[n].parent]
  <1>1. /\ Forestry(u, C, A) /\ links \in PprMemory /\ PprStrung(links, u, Placed)
        /\ node = None /\ Placed \in SUBSET Nodes /\ u \in Parents /\ TypeOK
    BY PprIdle
  <1>2. n \in Nodes /\ n \in Placed
    BY <1>1, PlacedIdle DEF TypeOK
  <1>3. n = root[h] => u[n] = None
    BY <1>1, <1>2, IdleFacts, NoneAssumption
  <1>4. n = root[h] => links[n].parent = None
    BY <1>1, <1>2, <1>3 DEF PprStrung
  <1>5. ASSUME n # root[h]
        PROVE  /\ links[n].parent \in Nodes \ {n} /\ u[n] \in Nodes \ {n}
               /\ key[u[n]] <= key[links[n].parent]
    <2>1. PICK p : p = u[n]
      OBVIOUS
    <2>2. p \in Nodes /\ p \in Placed
      <3>1. p \in content[h]
        BY <1>1, <1>5, <2>1, IdleFacts
      <3> QED BY <1>1, <3>1, PlacedIdle DEF TypeOK
    <2>3. p # n
      BY <1>1, <1>2, <2>1, ShapeFacts DEF Forestry
    <2>4. PICK B : B = Below(u, p)
      OBVIOUS
    <2>5. PICK m : m = links
      OBVIOUS
    <2>6. PICK next : next = PprNexts(m)
      OBVIOUS
    <2>7. PICK c : c = m[p].first
      OBVIOUS
    <2>8. /\ Strung(next, c, B, Plug) /\ Plug \notin B /\ n \in B
          /\ \A x \in B : /\ c = x => m[x].parent = p
                          /\ \A y \in B : m[y].next = x => m[x].parent = y
          /\ \A x \in B : next[x] = m[x].next
          /\ \A x \in B : x \in Nodes /\ u[x] = p
      <3>1. /\ Strung(PprNexts(m), m[p].first, Below(u, p), Plug)
            /\ \A x \in Below(u, p) :
                 /\ m[p].first = x => m[x].parent = p
                 /\ \A y \in Below(u, p) : m[y].next = x => m[x].parent = y
        BY <1>1, <2>2, <2>5 DEF PprStrung
      <3>2. n \in B /\ Plug \notin B /\ \A x \in B : x \in Nodes /\ u[x] = p
        BY <1>2, <2>1, <2>4, PlugFacts DEF Below
      <3>3. \A x \in B : next[x] = m[x].next
        BY <2>6, <3>2 DEF PprNexts
      <3> QED BY <2>4, <2>6, <2>7, <3>1, <3>2, <3>3
    <2>9. key[p] \in Int
      BY <1>1, <2>2, KeysAssumption DEF TypeOK
    <2>10. CASE c = n
      <3>1. m[n].parent = p
        BY <2>8, <2>10
      <3> QED BY <2>1, <2>2, <2>3, <2>5, <2>9, <3>1
    <2>11. CASE c # n
      <3>1. PICK y \in B \ {n} : next[y] = n
        BY <2>8, <2>11, StrungPrevious
      <3>2. m[n].parent = y /\ u[y] = p /\ y \in Nodes \ {n}
        BY <2>8, <3>1
      <3>3. key[p] <= key[y]
        BY <1>1, <2>2, <3>2, NoneAssumption DEF Forestry, Ordered
      <3> QED BY <2>1, <2>2, <2>3, <2>5, <3>2, <3>3
    <2> QED BY <2>10, <2>11
  <1> QED BY <1>2, <1>4, <1>5

LEMMA PprExtract ==
  ASSUME NEW u, NEW C, NEW A, PprHolds(u, C, A), NEW h \in Heaps, Ppr!Extract(h)
  PROVE  PprInv'
  <1>1. PICK n : n = root[h]
    OBVIOUS
  <1>2. /\ pc = "idle" /\ h \in live /\ n # None /\ key' = key
        /\ out' = [NoneOut EXCEPT ![h] = n]
        /\ content' = [content EXCEPT ![h] = @ \ {n}]
        /\ Ppr!Begin("drop", h, n, links)
    BY <1>1 DEF Ppr!Extract, Ppr!Extracting, Ppr!NoneOut, NoneOut
  <1>3. Forestry(u, C, A) /\ TypeOK
    BY DEF PprHolds, Forestry
  <1>4. n \in content[h] /\ n \in Nodes
    BY <1>1, <1>2, <1>3, IdleFacts DEF TypeOK
  <1>5. /\ key' \in [Nodes -> Keys] /\ \A x \in Nodes \ {n} : key'[x] = key[x]
        /\ out' \in [Heaps -> Nodes \cup {None}]
    BY <1>2, <1>3, <1>4 DEF TypeOK, NoneOut
  <1> QED BY <1>1, <1>2, <1>4, <1>5, PprRootEntered

LEMMA PprRemove ==
  ASSUME AssertIntern = TRUE,
         NEW u, NEW C, NEW A, PprHolds(u, C, A), NEW h \in Heaps, NEW n \in Nodes, Ppr!Remove(h, n)
  PROVE  PprInv'
  <1>1. /\ pc = "idle" /\ h \in live /\ n \in content[h] /\ key' = key
        /\ out' = NoneOut
        /\ content' = [content EXCEPT ![h] = @ \ {n}]
        /\ links[n].parent = None => Ppr!Begin("drop", h, n, links)
        /\ links[n].parent # None => Ppr!BeginDetached("remove", h, n)
    BY DEF Ppr!Remove, Ppr!Removing, Ppr!NoneOut, NoneOut
  <1>2. TypeOK
    BY DEF PprHolds, Forestry
  <1>3. /\ key' \in [Nodes -> Keys] /\ \A x \in Nodes \ {n} : key'[x] = key[x]
        /\ out' \in [Heaps -> Nodes \cup {None}]
    BY <1>1, <1>2 DEF TypeOK, NoneOut
  <1>4. links[n].parent = None <=> n = root[h]
    BY <1>1, PprParent, NoneAssumption
  <1>5. CASE n = root[h]
    BY <1>1, <1>3, <1>4, <1>5, PprRootEntered
  <1>6. CASE n # root[h]
    BY <1>1, <1>3, <1>4, <1>6, PprDetachedEntered
  <1> QED BY <1>5, <1>6

LEMMA PprPromote ==
  ASSUME AssertIntern = TRUE,
         NEW u, NEW C, NEW A, PprHolds(u, C, A), NEW h \in Heaps, NEW n \in Nodes, NEW k \in Keys,
         Ppr!Promote(h, n, k)
  PROVE  PprInv'
  <1>1. /\ pc = "idle" /\ h \in live /\ n \in content[h] /\ k <= key[n]
        /\ key' = [key EXCEPT ![n] = k]
        /\ out' = NoneOut /\ content' = content
        /\ Ppr!StaysBelow(h, n) => UNCHANGED <<live, root, cnt, links, Locals>>
        /\ ~ Ppr!StaysBelow(h, n) => Ppr!BeginDetached("update", h, n)
    BY DEF Ppr!Promote, Ppr!Rekeying, Ppr!NoneOut, NoneOut, Ppr!Locals, Locals
  <1>2. /\ Forestry(u, C, A) /\ links \in PprMemory /\ PprStrung(links, u, Placed)
        /\ node = None /\ TypeOK
    BY <1>1, PprIdle
  <1>3. /\ n = root[h] => links[n].parent = None /\ u[n] = None
        /\ n # root[h] => /\ links[n].parent \in Nodes \ {n} /\ u[n] \in Nodes \ {n}
                          /\ key[u[n]] <= key[links[n].parent]
    BY <1>1, <1>2, PprParent, IdleFacts, NoneAssumption
  <1>4. /\ key' \in [Nodes -> Keys] /\ \A x \in Nodes \ {n} : key'[x] = key[x]
        /\ out' \in [Heaps -> Nodes \cup {None}] /\ key'[n] = k
    BY <1>1, <1>2 DEF TypeOK, NoneOut
  <1>5. CASE Ppr!StaysBelow(h, n)
    <2>1. UNCHANGED <<live, root, cnt, links, Locals>> /\ Rekeying(h, n, k)
      BY <1>1, <1>5 DEF Rekeying
    <2>2. ASSUME u[n] \in Nodes PROVE key'[u[n]] <= key'[n]
      <3>1. PICK q : q = links[n].parent
        OBVIOUS
      <3>2. q \in Nodes \ {n} /\ u[n] \in Nodes \ {n} /\ key[u[n]] <= key[q]
        BY <1>3, <2>2, <3>1, NoneAssumption
      <3>3. key'[q] <= key'[n]
        BY <1>5, <3>1, <3>2, NoneAssumption DEF Ppr!StaysBelow
      <3>4. key'[q] = key[q] /\ key'[u[n]] = key[u[n]]
        BY <1>4, <3>2
      <3>5. key[q] \in Int /\ key[u[n]] \in Int /\ key'[n] \in Int
        BY <1>2, <1>4, <3>2, KeysAssumption DEF TypeOK
      <3> QED BY <3>2, <3>3, <3>4, <3>5
    <2>3. Forestry(u, {}, {})'
      BY <1>1, <1>2, <2>1, <2>2, ForestryRekey
    <2>4. /\ pc' = "idle" /\ node' = None /\ links' = links
          /\ UNCHANGED <<content, heap, node>>
      BY <1>1, <1>2, <2>1 DEF Locals
    <2>5. Placed' = Placed
      BY <2>4, PlacedKept
    <2> QED BY <1>2, <2>3, <2>4, <2>5, PprIdleNext
  <1>6. CASE ~ Ppr!StaysBelow(h, n)
    <2>1. n # root[h] /\ content' = IF "update" = "remove" THEN [content EXCEPT ![h] = @ \ {n}] ELSE content
      BY <1>1, <1>3, <1>6 DEF Ppr!StaysBelow
    <2> QED BY <1>1, <1>4, <1>6, <2>1, PprDetachedEntered
  <1> QED BY <1>5, <1>6

LEMMA PprDemote ==
  ASSUME AssertIntern = TRUE,
         NEW u, NEW C, NEW A, PprHolds(u, C, A), NEW h \in Heaps, NEW n \in Nodes, NEW k \in Keys,
         Ppr!Demote(h, n, k)
  PROVE  PprInv'
  <1>1. /\ pc = "idle" /\ h \in live /\ n \in content[h]
        /\ key' = [key EXCEPT ![n] = k]
        /\ out' = NoneOut /\ content' = content
        /\ links[n].parent = None => Ppr!Begin("demote", h, n, links)
        /\ links[n].parent # None => Ppr!BeginDetached("update", h, n)
    BY DEF Ppr!Demote, Ppr!Rekeying, Ppr!NoneOut, NoneOut
  <1>2. TypeOK
    BY DEF PprHolds, Forestry
  <1>3. /\ key' \in [Nodes -> Keys] /\ \A x \in Nodes \ {n} : key'[x] = key[x]
        /\ out' \in [Heaps -> Nodes \cup {None}]
    BY <1>1, <1>2 DEF TypeOK, NoneOut
  <1>4. links[n].parent = None <=> n = root[h]
    BY <1>1, PprParent, NoneAssumption
  <1>5. /\ content' = IF "demote" = "drop" THEN [content EXCEPT ![h] = @ \ {n}] ELSE content
        /\ content' = IF "update" = "remove" THEN [content EXCEPT ![h] = @ \ {n}] ELSE content
    BY <1>1
  <1>6. CASE n = root[h]
    BY <1>1, <1>3, <1>4, <1>5, <1>6, PprRootEntered
  <1>7. CASE n # root[h]
    BY <1>1, <1>3, <1>4, <1>5, <1>7, PprDetachedEntered
  <1> QED BY <1>6, <1>7

(* The node w is linked to b. *)
Chained(m, w, b) == [m EXCEPT ![w].next = b]

(* What is known once two children of the node are joined. *)
PprTwo(m, v, w, l, after) ==
  /\ w # l /\ w \in Nodes /\ v[w] = node
  /\ after \in PprMemory
  /\ PprStrung(after, v, Placed \ {node})
  /\ \A x \in Nodes \ {w, l} : after[x].next = m[x].next
  /\ after[node].parent = m[node].parent
  /\ Below(v, node) # {}

LEMMA PprTwoJoined ==
  ASSUME NEW u, NEW C, NEW A, PprHolds(u, C, A), pc # "idle",
         NEW a \in Below(u, node), NEW c \in Below(u, node), a # c,
         NEW after, after = Ppr!Join(links, a, c)
  PROVE  /\ PprTwo(links, Linking(u, a, c), Winner(key, a, c), Loser(key, a, c), after)
         /\ \A x \in Nodes \ {Loser(key, a, c)} : after[x].next = links[x].next
         /\ {Winner(key, a, c), Loser(key, a, c)} = {a, c}
  <1>1. PICK m : m = links
    OBVIOUS
  <1>2. PICK v : v = Linking(u, a, c)
    OBVIOUS
  <1>3. PICK w : w = Winner(key, a, c)
    OBVIOUS
  <1>4. PICK l : l = Loser(key, a, c)
    OBVIOUS
  <1>5. PICK G : G = Placed \ {node}
    OBVIOUS
  <1>6. Forestry(u, C, A) /\ m \in PprMemory /\ PprStrung(m, u, G) /\ TypeOK
    BY <1>1, <1>5 DEF PprHolds, PprLinked, Forestry
  <1>7. PICK n : n = node
    OBVIOUS
  <1>8. /\ u \in Parents /\ n \in Nodes /\ u[n] = None /\ G \in SUBSET Nodes /\ n \notin G
        /\ a \in Nodes /\ u[a] = n /\ a \in G /\ a # n
        /\ c \in Nodes /\ u[c] = n /\ c \in G /\ c # n
    <2>1. \A x \in Below(u, node) : u[x] = node /\ x # node /\ x \in Placed \ {node}
      BY <1>6, PassFacts
    <2> QED BY <1>6, <1>7, <1>5, <2>1, PassFacts, PassNode, PlacedFacts
  <1>9. {w, l} = {a, c} /\ w # l
    BY <1>6, <1>8, <1>3, <1>4, JoinChoice
  <1>10. /\ after \in PprMemory /\ PprStrung(after, v, G)
         /\ \A x \in Nodes \ {l} : after[x].next = m[x].next
         /\ \A x \in Nodes \ {w} : after[x].first = m[x].first
         /\ \A x \in Nodes : x # l /\ u[x] # w => after[x].parent = m[x].parent
    BY <1>6, <1>8, <1>1, <1>2, <1>3, <1>4, PprJoined
  <1>11. v[w] = n /\ w \in Nodes
    BY <1>8, <1>9, <1>2, <1>3, <1>4 DEF Linking, Parents
  <1>12. after[node].parent = m[node].parent
    BY <1>7, <1>8, <1>9, <1>10, <1>11, NoneAssumption
  <1>13. Below(v, node) # {}
    BY <1>7, <1>11 DEF Below
  <1>14. PprTwo(m, v, w, l, after)
    BY <1>7, <1>9, <1>10, <1>11, <1>12, <1>13, <1>5 DEF PprTwo
  <1> QED BY <1>9, <1>10, <1>14, <1>1, <1>2, <1>3, <1>4

LEMMA PprTwoChained ==
  ASSUME NEW m, NEW v, NEW w, NEW l, NEW joined, PprTwo(m, v, w, l, joined), node \in Nodes,
         Placed \in SUBSET Nodes, NEW built \in Nodes \cup {None, Plug},
         NEW after, after = Chained(joined, w, built)
  PROVE  PprTwo(m, v, w, l, after) /\ after[w].next = built
  <1>1. PICK G : G = Placed \ {node}
    OBVIOUS
  <1>2. /\ w \in Nodes /\ v[w] = node /\ G \subseteq Nodes /\ node \notin G
        /\ joined \in PprMemory
        /\ PprStrung(joined, v, G)
        /\ \A x \in Nodes \ {w, l} : joined[x].next = m[x].next
        /\ joined[node].parent = m[node].parent
    BY <1>1 DEF PprTwo
  <1>3. /\ after \in PprMemory
        /\ \A x \in Nodes : after[x].first = joined[x].first
        /\ \A x \in Nodes : after[x].parent = joined[x].parent
        /\ \A x \in Nodes \ {w} : after[x].next = joined[x].next
        /\ after[w].next = built
    BY <1>2 DEF PprMemory, Chained
  <1>4. PprStrung(after, v, G)
    <2>1. \A p \in G : after[p].first = joined[p].first
      BY <1>2, <1>3
    <2>2. \A p \in G : v[p] = None => after[p].parent = None
      BY <1>2, <1>3 DEF PprStrung
    <2>3. \A p \in G : \A x \in Below(v, p) : x \in Nodes /\ x # w
      BY <1>2 DEF Below
    <2>4. \A p \in G : \A x \in Below(v, p) : after[x].next = joined[x].next
      BY <1>3, <2>3
    <2>5. \A p \in G : \A x \in Below(v, p) : after[x].parent = joined[x].parent
      BY <1>3, <2>3
    <2> QED BY <1>2, <2>1, <2>2, <2>4, <2>5, PprStrungKept
  <1>5. after[node].parent = m[node].parent
    BY <1>2, <1>3
  <1>6. \A x \in Nodes \ {w, l} : after[x].next = m[x].next
    BY <1>2, <1>3
  <1> QED BY <1>1, <1>3, <1>4, <1>5, <1>6 DEF PprTwo

(* The nodes that are left are fewer. *)
PprPassed(u, C) ==
  \E v, D, B : /\ Forestry(v, D, B)' /\ PprLinked(v, D, B)'
               /\ pc' = pc => Cardinality(Sub(v, D)) < Cardinality(Sub(u, C))

(* The chain of nodes left is followed. *)
LEMMA PprFollows ==
  ASSUME NEW C, NEW m, Strung(PprNexts(m), cursor, C, Plug), cursor # Plug, C \in SUBSET Nodes,
         NEW c, c = cursor
  PROVE  c \in C /\ Strung(PprNexts(m), m[c].next, C \ {c}, Plug)
  <1>1. PICK next : next = PprNexts(m)
    OBVIOUS
  <1>2. Strung(next, c, C, Plug) /\ c # Plug /\ Plug \notin C
    BY <1>1, PlugFacts
  <1>3. c \in C /\ Strung(next, next[c], C \ {c}, Plug)
    BY <1>2, StrungNext
  <1> QED BY <1>1, <1>3 DEF PprNexts

LEMMA PprPair ==
  ASSUME NEW u, NEW C, NEW A, PprHolds(u, C, A), Ppr!Pair
  PROVE  PprPassed(u, C)
  <1>1. /\ Forestry(u, C, A) /\ links \in PprMemory
        /\ PprStrung(links, u, Placed \ {node})
        /\ pc = "pair" /\ cursor # Plug
        /\ Strung(PprNexts(links), cursor, C, Plug)
        /\ Strung(PprNexts(links), acc, A, Plug)
        /\ call = "demote" => links[node].parent = None
        /\ Below(u, node) = {} => links[node].first = Plug
    BY DEF PprHolds, PprLinked, Ppr!Pair
  <1>2. PICK m : m = links
    OBVIOUS
  <1>3. PICK c : c = cursor
    OBVIOUS
  <1>4. PICK t : t = twin
    OBVIOUS
  <1>5. PICK n : n = node
    OBVIOUS
  <1>6. PICK built : built = acc
    OBVIOUS
  <1>7. /\ u \in Parents /\ n \in Nodes /\ Placed \in SUBSET Nodes
        /\ C \in SUBSET Nodes /\ A \in SUBSET Nodes /\ C \cap A = {} /\ t \notin C \cup A
        /\ t \in Nodes \cup {None} /\ Plug \notin C /\ Plug \notin A
        /\ \A x \in (C \cup A) \cup ({t} \cap Nodes) : u[x] = n /\ x # n /\ x \in Below(u, node)
    BY <1>1, <1>4, <1>5, PassFacts, PlacedFacts, PlugFacts
  <1>8. c \in C /\ Strung(PprNexts(m), m[c].next, C \ {c}, Plug)
    BY <1>1, <1>2, <1>3, <1>7, PprFollows
  <1>9. /\ cursor' = m[c].next /\ pc' = pc /\ UNCHANGED Elsewhere
        /\ t = None => twin' = c /\ links' = m /\ acc' = built
        /\ t # None => /\ acc' = Winner(key, t, c) /\ twin' = None
                       /\ links' = [Ppr!Join(m, t, c) EXCEPT ![Winner(key, t, c)].next = built]
    BY <1>1, <1>2, <1>3, <1>4, <1>6 DEF Ppr!Pair, Ppr!Follower, Elsewhere, Ppr!Winner, Winner
  <1>10. node' = node /\ pc' = "pair" /\ call' = call
    BY <1>1, <1>9 DEF Elsewhere
  <1>11. CASE t = None
    <2>1. /\ Placed' = Placed /\ Forestry(u, C \ {c}, A)'
          /\ Cardinality(Sub(u, C \ {c})) < Cardinality(Sub(u, C))
      BY <1>1, <1>4, <1>8, <1>9, <1>11, TwinEffect
    <2>2. PprLinked(u, C \ {c}, A)'
      BY <1>1, <1>2, <1>6, <1>8, <1>9, <1>10, <1>11, <2>1 DEF PprLinked, PprStrung, PprNexts
    <2> QED BY <2>1, <2>2 DEF PprPassed
  <1>12. CASE t # None
    <2>1. PICK w : w = Winner(key, t, c)
      OBVIOUS
    <2>2. PICK l : l = Loser(key, t, c)
      OBVIOUS
    <2>3. PICK B : B = (A \ {t}) \cup {w}
      OBVIOUS
    <2>4. /\ t \in Below(u, node) /\ c \in Below(u, node) /\ t # c /\ t \in Nodes /\ c \in Nodes
          /\ pc = "pair" /\ twin # None /\ t = twin /\ twin' = None /\ pc # "idle"
      BY <1>1, <1>4, <1>7, <1>8, <1>9, <1>12
    <2>5. Placed' = Placed
      BY <1>9, PlacedKept DEF Elsewhere
    <2>6. PICK v : /\ v = Linking(u, t, c)
                   /\ Forestry(v, C \ {c}, B)'
                   /\ Cardinality(Sub(v, C \ {c})) < Cardinality(Sub(u, C))
      <3>1. B = (A \ {t}) \cup {Winner(key, t, c)}
        BY <2>1, <2>3
      <3> QED BY <1>1, <1>8, <1>9, <2>4, <3>1, PassEffect
    <2>7. built \in Nodes \cup {None, Plug}
      BY <1>1, <1>6, <1>7 DEF Strung
    <2>8. PICK joined : joined = Ppr!Join(m, t, c)
      OBVIOUS
    <2>9. PICK after : after = Chained(joined, w, built)
      OBVIOUS
    <2>10. PICK G : G = Placed \ {node}
      OBVIOUS
    <2>11. /\ {w, l} = {t, c} /\ w # l
           /\ after \in PprMemory
           /\ PprStrung(after, v, G)
           /\ \A x \in Nodes \ {w, l} : after[x].next = m[x].next
           /\ after[w].next = built
           /\ after[node].parent = m[node].parent
           /\ Below(v, node) # {}
      <3>1. /\ PprTwo(links, Linking(u, t, c), Winner(key, t, c), Loser(key, t, c), joined)
            /\ {Winner(key, t, c), Loser(key, t, c)} = {t, c}
        BY <1>2, <2>4, <2>8, PprTwoJoined
      <3>2. PprTwo(m, v, w, l, joined) /\ {w, l} = {t, c}
        BY <1>2, <2>1, <2>2, <2>6, <3>1
      <3>3. PprTwo(m, v, w, l, after) /\ after[w].next = built
        BY <1>5, <1>7, <2>7, <2>9, <3>2, PprTwoChained
      <3> QED BY <2>10, <3>2, <3>3 DEF PprTwo
    <2>12. B = A \cup {w} /\ w \notin A /\ w \in Nodes /\ w # Plug
      BY <1>7, <1>8, <2>3, <2>4, <2>11, PlugFacts
    <2>13. Strung(PprNexts(after), w, B, Plug)
      <3>1. PICK next : next = PprNexts(m)
        OBVIOUS
      <3>2. PICK late : late = PprNexts(after)
        OBVIOUS
      <3>3. Strung(next, built, A, Plug)
        BY <1>1, <1>2, <1>6, <3>1
      <3>4. late[w] = built /\ \A x \in A : late[x] = next[x]
        <4>1. late[w] = built
          BY <2>11, <2>12, <3>2 DEF PprNexts
        <4>2. \A x \in A : x \in Nodes \ {w, l}
          BY <1>7, <1>8, <2>11, <2>12
        <4>3. \A x \in A : after[x].next = m[x].next
          BY <2>11, <4>2
        <4> QED BY <3>1, <3>2, <4>1, <4>2, <4>3 DEF PprNexts
      <3>5. Strung(late, w, A \cup {w}, Plug)
        BY <1>7, <2>12, <3>3, <3>4, StrungPush
      <3> QED BY <2>12, <3>2, <3>5
    <2>14. Strung(PprNexts(after), m[c].next, C \ {c}, Plug)
      <3>1. \A x \in C \ {c} : x \in Nodes \ {w, l}
        BY <1>7, <2>11
      <3>2. \A x \in C \ {c} : PprNexts(after)[x] = PprNexts(m)[x]
        BY <2>11, <3>1 DEF PprNexts
      <3> QED BY <1>8, <3>2, StrungKept
    <2>15. links' = after /\ acc' = w
      BY <1>9, <1>12, <2>1, <2>8, <2>9 DEF Chained
    <2>16. call = "demote" => after[node].parent = None
      BY <1>1, <1>2, <2>11
    <2>17. PprLinked(v, C \ {c}, B)'
      BY <1>9, <1>10, <2>5, <2>10, <2>11, <2>13, <2>14, <2>15, <2>16 DEF PprLinked, PprStrung, PprNexts
    <2> QED BY <2>6, <2>17 DEF PprPassed
  <1> QED BY <1>11, <1>12
LEMMA PprPairEnds ==
  ASSUME NEW u, NEW C, NEW A, PprHolds(u, C, A), Ppr!PairEnds
  PROVE  PprPassed(u, C)
  <1>1. /\ Forestry(u, C, A) /\ links \in PprMemory
        /\ PprStrung(links, u, Placed \ {node})
        /\ pc = "pair" /\ cursor = Plug
        /\ Strung(PprNexts(links), Plug, C, Plug)
        /\ Strung(PprNexts(links), acc, A, Plug)
        /\ call = "demote" => links[node].parent = None
        /\ Below(u, node) = {} => links[node].first = Plug
    BY DEF PprHolds, PprLinked, Ppr!PairEnds
  <1>2. PICK m : m = links
    OBVIOUS
  <1>3. PICK t : t = twin
    OBVIOUS
  <1>4. PICK built : built = acc
    OBVIOUS
  <1>5. C = {}
    BY <1>1, StrungEmpty
  <1>6. /\ A \in SUBSET Nodes /\ t \notin A /\ t \in Nodes \cup {None} /\ Plug \notin A
        /\ node \in Nodes /\ \A x \in A \cup ({t} \cap Nodes) : u[x] = node /\ x # node
    BY <1>1, <1>3, PassFacts, PlugFacts
  <1>7. PICK after : after = IF t = None THEN m ELSE Chained(m, t, built)
    OBVIOUS
  <1>8. PICK first : first = IF t = None THEN built ELSE t
    OBVIOUS
  <1>9. /\ acc' = first /\ links' = after /\ twin' = None /\ pc' = "fold"
        /\ cursor' = IF first = Plug THEN Plug ELSE after[first].next
        /\ UNCHANGED Elsewhere
    <2>1. acc' = first /\ links' = after
      BY <1>2, <1>3, <1>4, <1>7, <1>8 DEF Ppr!PairEnds, Chained
    <2>2. /\ twin' = None /\ pc' = "fold" /\ UNCHANGED Elsewhere
          /\ cursor' = IF acc' = Plug THEN Plug ELSE links'[acc'].next
      BY DEF Ppr!PairEnds, Elsewhere
    <2> QED BY <2>1, <2>2
  <1>10. PICK G : G = Placed \ {node}
    OBVIOUS
  <1>11. PICK T : T = A \cup ({t} \cap Nodes)
    OBVIOUS
  <1>12. built \in Nodes \cup {Plug}
    BY <1>1, <1>4, <1>6 DEF Strung
  <1>13. /\ after \in PprMemory
         /\ \A x \in Nodes : after[x].first = m[x].first /\ after[x].parent = m[x].parent
         /\ \A x \in Nodes \ {t} : after[x].next = m[x].next
         /\ t # None => after[t].next = built
    BY <1>1, <1>2, <1>6, <1>7, <1>12 DEF PprMemory, Chained
  <1>14. PprStrung(after, u, G)
    <2>1. PprStrung(m, u, G) /\ G \subseteq Nodes /\ node \notin G
      BY <1>1, <1>2, <1>10, PlacedFacts
    <2>2. \A p \in G : after[p].first = m[p].first /\ after[p].parent = m[p].parent
      BY <1>13, <2>1
    <2>3. \A p \in G : u[p] = None => after[p].parent = None
      BY <2>1, <2>2 DEF PprStrung
    <2>4. \A p \in G : \A x \in Below(u, p) : x \in Nodes \ {t}
      BY <1>6, <2>1 DEF Below
    <2>5. \A p \in G : \A x \in Below(u, p) : after[x].next = m[x].next
      BY <1>13, <2>4
    <2>6. \A p \in G : \A x \in Below(u, p) : after[x].parent = m[x].parent
      BY <1>13, <2>4
    <2> QED BY <2>1, <2>2, <2>3, <2>5, <2>6, PprStrungKept
  <1>15. PICK late : late = PprNexts(after)
    OBVIOUS
  <1>16. Strung(late, first, T, Plug)
    <2>1. PICK next : next = PprNexts(m)
      OBVIOUS
    <2>2. Strung(next, built, A, Plug)
      BY <1>1, <1>2, <1>4, <2>1
    <2>3. CASE t = None
      BY <1>7, <1>8, <1>11, <1>15, <2>1, <2>2, <2>3, NoneAssumption
    <2>4. CASE t # None
      <3>1. late[t] = built
        BY <1>6, <1>13, <1>15, <2>4 DEF PprNexts
      <3>2. \A x \in A : x \in Nodes \ {t}
        BY <1>6
      <3>3. \A x \in A : late[x] = next[x]
        BY <1>13, <1>15, <2>1, <3>2 DEF PprNexts
      <3>4. Strung(late, t, A \cup {t}, Plug)
        BY <1>6, <2>2, <2>4, <3>1, <3>3, StrungPush, PlugFacts
      <3>5. T = A \cup {t} /\ first = t
        BY <1>6, <1>8, <1>11, <2>4
      <3> QED BY <3>4, <3>5
    <2> QED BY <2>3, <2>4
  <1>17. PICK B : B = {first} \cap Nodes
    OBVIOUS
  <1>18. PICK D : D = T \ B
    OBVIOUS
  <1>19. T \in SUBSET Nodes /\ Plug \notin T /\ first \in T \cup {Plug}
    BY <1>6, <1>11, <1>16, PlugFacts DEF Strung
  <1>20. Placed' = Placed /\ Forestry(u, D, B)'
    <2>1. D \cap B = {} /\ D \cup B = A \cup ({twin} \cap Nodes)
      BY <1>3, <1>11, <1>17, <1>18, <1>19, PlugFacts
    <2>2. Forestry(u, {}, A) /\ pc = "pair" /\ pc' = "fold" /\ twin' = None /\ UNCHANGED Elsewhere
      BY <1>1, <1>5, <1>9
    <2> QED BY <2>1, <2>2, FoldEffect
  <1>21. PICK c : c = IF first = Plug THEN Plug ELSE after[first].next
    OBVIOUS
  <1>22. Strung(late, c, D, Plug) /\ (first = Plug => D = {})
    <2>1. CASE first = Plug
      <3>1. T = {}
        BY <1>16, <2>1, StrungEmpty
      <3>2. D = {} /\ c = Plug
        BY <1>18, <1>21, <2>1, <3>1
      <3> QED BY <3>2, StrungNothing
    <2>2. CASE first # Plug
      <3>1. Strung(late, late[first], T \ {first}, Plug)
        BY <1>16, <1>19, <2>2, StrungNext
      <3>2. late[first] = c /\ T \ {first} = D
        BY <1>15, <1>17, <1>18, <1>19, <1>21, <2>2 DEF PprNexts
      <3> QED BY <2>2, <3>1, <3>2
    <2> QED BY <2>1, <2>2
  <1>23. PprLinked(u, D, B)'
    <2>1. /\ node' = node /\ first \in Nodes \cup {Plug} /\ cursor' = c /\ call' = call
          /\ after[node].parent = m[node].parent /\ after[node].first = m[node].first
      BY <1>6, <1>9, <1>13, <1>19, <1>21 DEF Elsewhere
    <2>2. /\ call = "demote" => after[node].parent = None
          /\ Below(u, node) = {} => after[node].first = Plug
      BY <1>1, <1>2, <2>1
    <2> QED BY <1>9, <1>10, <1>13, <1>14, <1>15, <1>17, <1>20, <1>22, <2>1, <2>2
         DEF PprLinked, PprStrung, PprNexts
  <1> QED BY <1>1, <1>9, <1>20, <1>23 DEF PprPassed

LEMMA PprFold ==
  ASSUME NEW u, NEW C, NEW A, PprHolds(u, C, A), Ppr!Fold
  PROVE  PprPassed(u, C)
  <1>1. /\ Forestry(u, C, A) /\ links \in PprMemory
        /\ PprStrung(links, u, Placed \ {node})
        /\ pc = "fold" /\ cursor # Plug
        /\ Strung(PprNexts(links), cursor, C, Plug)
        /\ A = {acc} \cap Nodes
        /\ acc \in Nodes \cup {Plug}
        /\ acc = Plug => C = {}
        /\ call = "demote" => links[node].parent = None
    BY DEF PprHolds, PprLinked, Ppr!Fold
  <1>2. PICK m : m = links
    OBVIOUS
  <1>3. PICK c : c = cursor
    OBVIOUS
  <1>4. PICK t : t = acc
    OBVIOUS
  <1>6. /\ u \in Parents /\ C \in SUBSET Nodes /\ A \in SUBSET Nodes /\ C \cap A = {} /\ Plug \notin C
        /\ \A x \in C \cup A : x \in Below(u, node)
    BY <1>1, PassFacts, PlugFacts
  <1>7. c \in C /\ Strung(PprNexts(m), m[c].next, C \ {c}, Plug)
    BY <1>1, <1>2, <1>3, <1>6, PprFollows
  <1>8. t \in Nodes /\ A = {t} /\ t # c /\ c \in Nodes
    BY <1>1, <1>4, <1>6, <1>7
  <1>9. PICK w : w = Winner(key, t, c)
    OBVIOUS
  <1>10. PICK after : after = Ppr!Join(m, t, c)
    OBVIOUS
  <1>11. /\ cursor' = m[c].next /\ pc' = pc /\ twin' = twin /\ UNCHANGED Elsewhere
         /\ acc' = w /\ links' = after
    BY <1>2, <1>3, <1>4, <1>9, <1>10 DEF Ppr!Fold, Ppr!Follower, Elsewhere, Ppr!Winner, Winner
  <1>12. pc' = "fold" /\ twin' = None /\ node' = node /\ call' = call
    BY <1>1, <1>11, PassFacts DEF Elsewhere
  <1>13. PICK B : B = {w}
    OBVIOUS
  <1>14. /\ Placed' = Placed
         /\ \E v : /\ v = Linking(u, t, c)
                   /\ Forestry(v, C \ {c}, B)'
                   /\ Cardinality(Sub(v, C \ {c})) < Cardinality(Sub(u, C))
    <2>1. B = (A \ {t}) \cup {Winner(key, t, c)}
      BY <1>8, <1>9, <1>13
    <2>2. pc # "idle" /\ pc' = pc
      BY <1>1, <1>11
    <2> QED BY <1>1, <1>7, <1>8, <1>11, <1>12, <2>1, <2>2, PassEffect
  <1>15. PICK v : /\ v = Linking(u, t, c)
                  /\ Forestry(v, C \ {c}, B)'
                  /\ Cardinality(Sub(v, C \ {c})) < Cardinality(Sub(u, C))
    BY <1>14
  <1>16. PICK l : l = Loser(key, t, c)
    OBVIOUS
  <1>17. PICK G : G = Placed \ {node}
    OBVIOUS
  <1>18. t \in Below(u, node) /\ c \in Below(u, node) /\ t # c /\ pc # "idle"
    BY <1>1, <1>6, <1>7, <1>8
  <1>21. /\ {w, l} = {t, c} /\ w # l
         /\ after \in PprMemory
         /\ PprStrung(after, v, G)
         /\ \A x \in Nodes \ {l} : after[x].next = m[x].next
         /\ after[node].parent = m[node].parent
         /\ Below(v, node) # {}
    <2>1. /\ PprTwo(links, Linking(u, t, c), Winner(key, t, c), Loser(key, t, c), after)
          /\ \A x \in Nodes \ {Loser(key, t, c)} : after[x].next = links[x].next
          /\ {Winner(key, t, c), Loser(key, t, c)} = {t, c}
      BY <1>2, <1>10, <1>18, PprTwoJoined
    <2>2. PprTwo(m, v, w, l, after)
      BY <1>2, <1>9, <1>15, <1>16, <2>1
    <2> QED BY <1>2, <1>9, <1>16, <1>17, <2>1, <2>2 DEF PprTwo
  <1>22. Strung(PprNexts(after), m[c].next, C \ {c}, Plug)
    <2>1. \A x \in C \ {c} : x \in Nodes \ {l}
      BY <1>6, <1>8, <1>21
    <2>2. \A x \in C \ {c} : PprNexts(after)[x] = PprNexts(m)[x]
      BY <1>21, <2>1 DEF PprNexts
    <2> QED BY <1>7, <2>2, StrungKept
  <1>23. PprLinked(v, C \ {c}, B)'
    <2>1. B = {w} \cap Nodes /\ w \in Nodes /\ w # Plug
      BY <1>8, <1>13, <1>21, PlugFacts
    <2>2. call = "demote" => after[node].parent = None
      BY <1>1, <1>2, <1>21
    <2> QED BY <1>11, <1>12, <1>14, <1>17, <1>21, <1>22, <2>1, <2>2 DEF PprLinked, PprStrung, PprNexts
  <1> QED BY <1>15, <1>23 DEF PprPassed
(* The second pass ends, on a single tree or on none. *)
LEMMA PprEnd ==
  ASSUME NEW u, NEW C, NEW A, PprHolds(u, C, A), Ppr!MergeDone,
         NEW top, top = IF acc = Plug THEN None ELSE acc
  PROVE  /\ Forestry(u, {}, A) /\ pc = "fold" /\ top \in Nodes \cup {None} /\ A = {top} \cap Nodes
         /\ top = None <=> acc = Plug
         /\ links \in PprMemory /\ PprStrung(links, u, Placed \ {node})
         /\ Placed \in SUBSET Nodes
         /\ call = "demote" => links[node].parent = None
         /\ top = None => links[node].first = Plug
         /\ u \in Parents
         /\ node \in Placed /\ u[node] = None
         /\ root[heap] \in Placed /\ u[root[heap]] = None
         /\ Below(u, node) = {top} \cap Nodes
         /\ top # None => top \in Placed /\ u[top] = node /\ top # node /\ top # root[heap]
         /\ call \in {"remove", "update"} => node # root[heap]
  <1>1. /\ Forestry(u, C, A) /\ links \in PprMemory
        /\ PprStrung(links, u, Placed \ {node})
        /\ pc = "fold" /\ cursor = Plug
        /\ Strung(PprNexts(links), Plug, C, Plug)
        /\ A = {acc} \cap Nodes
        /\ acc \in Nodes \cup {Plug}
        /\ call = "demote" => links[node].parent = None
        /\ Below(u, node) = {} => links[node].first = Plug
    BY DEF PprHolds, PprLinked, Ppr!MergeDone
  <1>2. C = {}
    BY <1>1, StrungEmpty
  <1>3. top \in Nodes \cup {None} /\ A = {top} \cap Nodes /\ (top = None <=> acc = Plug)
    BY <1>1, PlugFacts, NoneAssumption
  <1>4. Forestry(u, {}, A) /\ Placed \in SUBSET Nodes
    BY <1>1, <1>2, PlacedFacts
  <1>5. /\ u \in Parents
        /\ node \in Placed /\ u[node] = None
        /\ root[heap] \in Placed /\ u[root[heap]] = None
        /\ Below(u, node) = {top} \cap Nodes
        /\ top # None => top \in Placed /\ u[top] = node /\ top # node /\ top # root[heap]
        /\ call \in {"remove", "update"} => node # root[heap]
    BY <1>1, <1>3, <1>4, EndFacts
  <1>6. top = None => links[node].first = Plug
    BY <1>1, <1>5, NoneAssumption
  <1> QED BY <1>1, <1>3, <1>4, <1>5, <1>6

(* What has been built no longer has a parent. *)
LEMMA PprAsRoot ==
  ASSUME NEW u, NEW C, NEW A, PprHolds(u, C, A), Ppr!MergeDone,
         NEW top, top = IF acc = Plug THEN None ELSE acc,
         NEW after, after = Ppr!AsRoot,
         NEW v, v = IF top = None THEN u ELSE Under(u, None, top)
  PROVE  /\ after \in PprMemory /\ PprStrung(after, v, Placed \ {node})
         /\ after[node].parent = links[node].parent
         /\ v \in Parents /\ v[node] = None /\ Below(v, node) = {}
  <1>1. PICK m : m = links
    OBVIOUS
  <1>2. PICK n : n = node
    OBVIOUS
  <1>3. PICK G : G = Placed \ {node}
    OBVIOUS
  <1>4. /\ top \in Nodes \cup {None} /\ m \in PprMemory /\ PprStrung(m, u, G)
        /\ u \in Parents /\ n \in Nodes /\ u[n] = None /\ G \subseteq Nodes \ {n}
        /\ Below(u, n) = {top} \cap Nodes
        /\ top # None => top \in Nodes /\ u[top] = n /\ top # n
    BY <1>1, <1>2, <1>3, PprEnd
  <1>5. /\ after \in PprMemory
        /\ \A x \in Nodes : after[x].first = m[x].first
        /\ \A x \in Nodes \ {top} : after[x].next = m[x].next /\ after[x].parent = m[x].parent
        /\ top # None => after[top].parent = None
    <2>1. CASE top = None
      <3>1. after = m
        BY <1>1, <2>1, PprEnd DEF Ppr!AsRoot
      <3> QED BY <1>4, <2>1, <3>1
    <2>2. CASE top # None
      <3>1. after = [m EXCEPT ![top].next = Plug, ![top].parent = None]
        BY <1>1, <2>2, PprEnd DEF Ppr!AsRoot
      <3> QED BY <1>4, <2>2, <3>1 DEF PprMemory
    <2> QED BY <2>1, <2>2
  <1>6. /\ v \in Parents /\ v[n] = None
        /\ \A x \in Nodes \ {top} : v[x] = u[x]
        /\ top # None => v[top] = None
    BY <1>4, NoneAssumption DEF Parents, Under
  <1>7. Below(v, n) = {}
    BY <1>4, <1>6, NoneAssumption DEF Below
  <1>8. PprStrung(after, v, G)
    <2>1. \A p \in G : Below(v, p) = Below(u, p)
      BY <1>4, <1>6, NoneAssumption DEF Below
    <2>2. \A p \in G : after[p].first = m[p].first
      BY <1>4, <1>5
    <2>3. \A p \in G : v[p] = None => after[p].parent = None
      <3> SUFFICES ASSUME NEW p \in G, v[p] = None PROVE after[p].parent = None
        OBVIOUS
      <3>1. CASE p = top
        BY <1>4, <1>5, <3>1, NoneAssumption
      <3>2. CASE p # top
        <4>1. u[p] = None /\ after[p].parent = m[p].parent
          BY <1>4, <1>5, <1>6, <3>2
        <4> QED BY <1>4, <4>1 DEF PprStrung
      <3> QED BY <3>1, <3>2
    <2>4. \A p \in G : \A x \in Below(u, p) : x \in Nodes \ {top}
      BY <1>4 DEF Below
    <2>5. \A p \in G : \A x \in Below(u, p) : after[x].next = m[x].next
      BY <1>5, <2>4
    <2>6. \A p \in G : \A x \in Below(u, p) : after[x].parent = m[x].parent
      BY <1>5, <2>4
    <2> QED BY <1>4, <2>1, <2>2, <2>3, <2>5, <2>6, PprStrungKept
  <1>9. after[n].parent = m[n].parent
    BY <1>4, <1>5, NoneAssumption
  <1> QED BY <1>1, <1>2, <1>3, <1>5, <1>6, <1>7, <1>8, <1>9

(* What has been built is now below the root. *)
LEMMA PprBelowRoot ==
  ASSUME NEW u, NEW C, NEW A, PprHolds(u, C, A), Ppr!MergeDone, call \in {"remove", "update"},
         NEW top, top = IF acc = Plug THEN None ELSE acc,
         NEW after, after = Ppr!BelowRoot,
         NEW v, v = IF top = None THEN u ELSE Under(u, root[heap], top)
  PROVE  /\ after \in PprMemory /\ PprStrung(after, v, Placed \ {node})
         /\ v \in Parents /\ v[node] = None /\ v[root[heap]] = None /\ Below(v, node) = {}
  <1>1. PICK m : m = links
    OBVIOUS
  <1>2. PICK n : n = node
    OBVIOUS
  <1>3. PICK G : G = Placed \ {node}
    OBVIOUS
  <1>4. PICK r : r = root[heap]
    OBVIOUS
  <1>5. /\ top \in Nodes \cup {None} /\ m \in PprMemory /\ PprStrung(m, u, G)
        /\ u \in Parents /\ n \in Nodes /\ u[n] = None /\ G \in SUBSET Nodes /\ n \notin G
        /\ r \in Nodes /\ u[r] = None /\ r \in G
        /\ Below(u, n) = {top} \cap Nodes
        /\ top # None => top \in Nodes /\ u[top] = n /\ top # n /\ top # r
    BY <1>1, <1>2, <1>3, <1>4, PprEnd
  <1>6. after = IF top = None THEN m ELSE Ppr!Attach(m, top, r)
    BY <1>1, <1>4, PprEnd DEF Ppr!BelowRoot
  <1>7. CASE top = None
    <2>1. v = u /\ after = m
      BY <1>6, <1>7
    <2>2. Below(u, n) = {}
      BY <1>5, <1>7, NoneAssumption
    <2> QED BY <1>2, <1>3, <1>4, <1>5, <2>1, <2>2
  <1>8. CASE top # None
    <2>1. v = Under(u, r, top) /\ after = Ppr!Attach(m, top, r)
      BY <1>4, <1>6, <1>8
    <2>2. r # top /\ u[top] \notin G /\ u[r] # r /\ top \in Nodes
      BY <1>5, <1>8, NoneAssumption
    <2>3. after \in PprMemory /\ PprStrung(after, v, G)
      BY <1>5, <2>1, <2>2, PprAttached
    <2>4. v \in Parents /\ v[n] = None /\ v[r] = None /\ \A x \in Nodes : v[x] = IF x = top THEN r ELSE u[x]
      BY <1>5, <1>8, <2>1 DEF Parents, Under
    <2>5. Below(v, n) = {}
      BY <1>5, <1>8, <2>4, NoneAssumption DEF Below
    <2> QED BY <1>2, <1>3, <1>4, <2>3, <2>4, <2>5
  <1> QED BY <1>7, <1>8

(* The node is put back as a tree of its own, or left out. *)
LEMMA PprAlone ==
  ASSUME NEW m \in PprMemory, NEW v \in Parents, NEW P \in SUBSET Nodes, NEW n \in P,
         PprStrung(m, v, P \ {n}), v[n] = None, Below(v, n) = {},
         NEW after, \A x \in Nodes \ {n} : after[x] = m[x]
  PROVE  /\ PprStrung(after, v, P \ {n})
         /\ after[n].first = Plug /\ after[n].parent = None => PprStrung(after, v, P)
  <1>1. PICK G : G = P \ {n}
    OBVIOUS
  <1>2. G \subseteq Nodes /\ n \notin G /\ None \notin G
    BY <1>1, NoneAssumption
  <1>3. PprStrung(after, v, G)
    <2>1. PprStrung(m, v, G)
      BY <1>1
    <2>2. \A p \in G : after[p] = m[p]
      BY <1>2
    <2>3. \A p \in G : v[p] = None => after[p].parent = None
      BY <2>1, <2>2 DEF PprStrung
    <2>4. \A p \in G : \A x \in Below(v, p) : after[x] = m[x]
      BY <1>2 DEF Below
    <2> QED BY <2>1, <2>2, <2>3, <2>4, PprStrungKept
  <1>4. ASSUME after[n].first = Plug, after[n].parent = None PROVE PprStrung(after, v, P)
    <2>1. Strung(PprNexts(after), after[n].first, Below(v, n), Plug)
      BY <1>4, StrungNothing
    <2> QED BY <1>1, <1>3, <1>4, <2>1 DEF PprStrung
  <1> QED BY <1>1, <1>3, <1>4
LEMMA PprDropped ==
  ASSUME NEW u, NEW C, NEW A, PprHolds(u, C, A), Ppr!MergeDone,
         Ppr!DropTo([Ppr!AsRoot EXCEPT ![node] = Ppr!Blank], Ppr!Merged)
  PROVE  PprInv'
  <1>1. PICK top : top = IF acc = Plug THEN None ELSE acc
    OBVIOUS
  <1>2. PICK before : before = Ppr!AsRoot
    OBVIOUS
  <1>3. PICK n : n = node
    OBVIOUS
  <1>4. PICK memory : memory = [before EXCEPT ![n] = Ppr!Blank]
    OBVIOUS
  <1>5. DropTo(memory, top)
    BY <1>1, <1>2, <1>3, <1>4 DEF Ppr!DropTo, DropTo, Ppr!Return, Return, Ppr!Merged
  <1>6. /\ Forestry(u, {}, A) /\ pc = "fold" /\ top \in Nodes \cup {None} /\ A = {top} \cap Nodes
        /\ Placed \in SUBSET Nodes /\ n \in Placed
    BY <1>1, <1>3, PprEnd
  <1>7. pc' = "idle" /\ node' = None /\ links' = memory /\ Placed' = Placed \ {node}
    BY <1>5, <1>6, DropEffect
  <1>8. PICK v : Forestry(v, {}, {})' /\ v = IF top = None THEN u ELSE Under(u, None, top)
    BY <1>5, <1>6, DropEffect
  <1>9. PICK P : P = Placed
    OBVIOUS
  <1>10. /\ before \in PprMemory /\ PprStrung(before, v, P \ {n})
         /\ v \in Parents /\ v[n] = None /\ Below(v, n) = {}
    BY <1>1, <1>2, <1>3, <1>8, <1>9, PprAsRoot
  <1>11. memory \in PprMemory /\ \A x \in Nodes \ {n} : memory[x] = before[x]
    BY <1>4, <1>6, <1>10 DEF PprMemory, Ppr!Blank
  <1>12. PprStrung(memory, v, P \ {n})
    BY <1>6, <1>9, <1>10, <1>11, PprAlone
  <1> QED BY <1>3, <1>7, <1>8, <1>9, <1>11, <1>12, PprIdleNext

LEMMA PprRemoved ==
  ASSUME NEW u, NEW C, NEW A, PprHolds(u, C, A), Ppr!MergeDone,
         Ppr!RemoveTo([Ppr!BelowRoot EXCEPT ![node] = Ppr!Blank])
  PROVE  PprInv'
  <1>1. PICK top : top = IF acc = Plug THEN None ELSE acc
    OBVIOUS
  <1>2. PICK before : before = Ppr!BelowRoot
    OBVIOUS
  <1>3. PICK n : n = node
    OBVIOUS
  <1>4. PICK memory : memory = [before EXCEPT ![n] = Ppr!Blank]
    OBVIOUS
  <1>5. RemoveTo(memory) /\ call \in {"remove", "update"}
    BY <1>2, <1>3, <1>4 DEF Ppr!RemoveTo, RemoveTo, Ppr!Return, Return
  <1>6. /\ Forestry(u, {}, A) /\ pc = "fold" /\ top \in Nodes \cup {None} /\ A = {top} \cap Nodes
        /\ Placed \in SUBSET Nodes /\ n \in Placed
    BY <1>1, <1>3, PprEnd
  <1>7. pc' = "idle" /\ node' = None /\ links' = memory /\ Placed' = Placed \ {node}
    BY <1>5, <1>6, RemoveEffect
  <1>8. PICK v : Forestry(v, {}, {})' /\ v = IF top = None THEN u ELSE Under(u, root[heap], top)
    BY <1>5, <1>6, RemoveEffect
  <1>9. PICK P : P = Placed
    OBVIOUS
  <1>10. /\ before \in PprMemory /\ PprStrung(before, v, P \ {n})
         /\ v \in Parents /\ v[n] = None /\ Below(v, n) = {}
    BY <1>1, <1>2, <1>3, <1>5, <1>8, <1>9, PprBelowRoot
  <1>11. memory \in PprMemory /\ \A x \in Nodes \ {n} : memory[x] = before[x]
    BY <1>4, <1>6, <1>10 DEF PprMemory, Ppr!Blank
  <1>12. PprStrung(memory, v, P \ {n})
    BY <1>6, <1>9, <1>10, <1>11, PprAlone
  <1> QED BY <1>3, <1>7, <1>8, <1>9, <1>11, <1>12, PprIdleNext

LEMMA PprUpdated ==
  ASSUME NEW u, NEW C, NEW A, PprHolds(u, C, A), Ppr!MergeDone,
         Ppr!JoinTo("update",
                    Ppr!Join([Ppr!BelowRoot EXCEPT ![node].parent = None, ![node].first = Plug],
                             root[heap], node),
                    root[heap])
  PROVE  PprInv'
  <1>1. PICK top : top = IF acc = Plug THEN None ELSE acc
    OBVIOUS
  <1>2. PICK before : before = Ppr!BelowRoot
    OBVIOUS
  <1>3. PICK n : n = node
    OBVIOUS
  <1>4. PICK r : r = root[heap]
    OBVIOUS
  <1>5. PICK back : back = [before EXCEPT ![n].parent = None, ![n].first = Plug]
    OBVIOUS
  <1>6. PICK memory : memory = Ppr!Join(back, r, n)
    OBVIOUS
  <1>7. JoinTo("update", memory, r) /\ call = "update"
    BY <1>2, <1>3, <1>4, <1>5, <1>6 DEF Ppr!JoinTo, JoinTo, Ppr!Return, Return, Ppr!Winner, Winner
  <1>8. /\ Forestry(u, {}, A) /\ pc = "fold" /\ top \in Nodes \cup {None} /\ A = {top} \cap Nodes
        /\ Placed \in SUBSET Nodes /\ n \in Placed /\ r \in Placed /\ n # r /\ TypeOK
    BY <1>1, <1>3, <1>4, <1>7, PprEnd DEF Forestry
  <1>9. pc' = "idle" /\ node' = None /\ links' = memory /\ Placed' = Placed
    BY <1>4, <1>7, <1>8, JoinEffect
  <1>10. PICK v : v = IF top = None THEN u ELSE Under(u, root[heap], top)
    OBVIOUS
  <1>11. PICK t : Forestry(t, {}, {})' /\ t = Linking(v, r, n)
    <2>1. \E t : Forestry(t, {}, {})' /\ t = Linking(IF top = None THEN u ELSE Under(u, r, top), r, node)
      BY <1>4, <1>7, <1>8, JoinEffect, SMTT(30)
    <2> QED BY <1>3, <1>4, <1>10, <2>1
  <1>12. PICK P : P = Placed
    OBVIOUS
  <1>13. /\ before \in PprMemory /\ PprStrung(before, v, P \ {n})
         /\ v \in Parents /\ v[n] = None /\ v[r] = None /\ Below(v, n) = {}
    BY <1>1, <1>2, <1>3, <1>4, <1>7, <1>10, <1>12, PprBelowRoot
  <1>14. /\ back \in PprMemory /\ \A x \in Nodes \ {n} : back[x] = before[x]
         /\ back[n].first = Plug /\ back[n].parent = None
    BY <1>5, <1>8, <1>13 DEF PprMemory
  <1>15. PprStrung(back, v, P)
    BY <1>8, <1>12, <1>13, <1>14, PprAlone
  <1>16. memory \in PprMemory /\ PprStrung(memory, t, P)
    <2>1. PICK w : w = Winner(key, r, n)
      OBVIOUS
    <2>2. PICK l : l = Loser(key, r, n)
      OBVIOUS
    <2>3. /\ P \in SUBSET Nodes /\ r \in Nodes /\ n \in Nodes /\ r # n /\ r \in P /\ n \in P
          /\ v[r] \notin P /\ v[n] \notin P
      BY <1>8, <1>12, <1>13, NoneAssumption
    <2> QED BY <1>6, <1>8, <1>11, <1>13, <1>14, <1>15, <2>1, <2>2, <2>3, PprJoined
  <1> QED BY <1>9, <1>11, <1>12, <1>16, PprIdleNext

LEMMA PprDemoted ==
  ASSUME NEW u, NEW C, NEW A, PprHolds(u, C, A), Ppr!MergeDone, acc # Plug,
         Ppr!JoinTo("demote", Ppr!Join([Ppr!AsRoot EXCEPT ![node].first = Plug], acc, node), acc)
  PROVE  PprInv'
  <1>1. PICK top : top = IF acc = Plug THEN None ELSE acc
    OBVIOUS
  <1>2. PICK before : before = Ppr!AsRoot
    OBVIOUS
  <1>3. PICK n : n = node
    OBVIOUS
  <1>4. PICK back : back = [before EXCEPT ![n].first = Plug]
    OBVIOUS
  <1>5. PICK memory : memory = Ppr!Join(back, top, n)
    OBVIOUS
  <1>6. JoinTo("demote", memory, top) /\ call = "demote" /\ top = acc
    BY <1>1, <1>2, <1>3, <1>4, <1>5 DEF Ppr!JoinTo, JoinTo, Ppr!Return, Return, Ppr!Winner, Winner
  <1>7. /\ Forestry(u, {}, A) /\ pc = "fold" /\ top \in Nodes \cup {None} /\ A = {top} \cap Nodes
        /\ Placed \in SUBSET Nodes /\ n \in Placed /\ top # None /\ top \in Placed /\ n # top /\ TypeOK
        /\ links[n].parent = None
        /\ Below(u, node) = {top} \cap Nodes
    BY <1>1, <1>3, <1>6, PprEnd DEF Forestry
  <1>8. pc' = "idle" /\ node' = None /\ links' = memory /\ Placed' = Placed
    <2>1. "demote" = "demote" /\ top = top /\ None = None
      OBVIOUS
    <2> QED BY <1>6, <1>7, <2>1, JoinEffect
  <1>9. PICK v : v = IF top = None THEN u ELSE Under(u, None, top)
    OBVIOUS
  <1>10. PICK t : Forestry(t, {}, {})' /\ t = Linking(v, top, n)
    <2>1. \E t : Forestry(t, {}, {})' /\ t = Linking(IF top = None THEN u ELSE Under(u, None, top), top, node)
      BY <1>6, <1>7, JoinEffect
    <2> QED BY <1>3, <1>9, <2>1
  <1>11. PICK P : P = Placed
    OBVIOUS
  <1>12. /\ before \in PprMemory /\ PprStrung(before, v, P \ {n})
         /\ before[n].parent = None
         /\ v \in Parents /\ v[n] = None /\ Below(v, n) = {}
    BY <1>1, <1>2, <1>3, <1>7, <1>9, <1>11, PprAsRoot
  <1>13. v[top] = None
    BY <1>7, <1>9, PprEnd DEF Under, Parents, Forestry, Shape
  <1>14. /\ back \in PprMemory /\ \A x \in Nodes \ {n} : back[x] = before[x]
         /\ back[n].first = Plug /\ back[n].parent = None
    BY <1>4, <1>7, <1>12 DEF PprMemory
  <1>15. PprStrung(back, v, P)
    BY <1>7, <1>11, <1>12, <1>14, PprAlone
  <1>16. memory \in PprMemory /\ PprStrung(memory, t, P)
    <2>1. PICK w : w = Winner(key, top, n)
      OBVIOUS
    <2>2. PICK l : l = Loser(key, top, n)
      OBVIOUS
    <2>3. /\ P \in SUBSET Nodes /\ top \in Nodes /\ n \in Nodes /\ top # n /\ top \in P /\ n \in P
          /\ v[top] \notin P /\ v[n] \notin P
      BY <1>7, <1>11, <1>12, <1>13, NoneAssumption
    <2> QED BY <1>5, <1>7, <1>10, <1>12, <1>14, <1>15, <2>1, <2>2, <2>3, PprJoined
  <1> QED BY <1>8, <1>10, <1>11, <1>16, PprIdleNext

LEMMA PprLeftAlone ==
  ASSUME NEW u, NEW C, NEW A, PprHolds(u, C, A), Ppr!MergeDone, acc = Plug, Ppr!DemoteAlone(links)
  PROVE  PprInv'
  <1>1. PICK top : top = IF acc = Plug THEN None ELSE acc
    OBVIOUS
  <1>2. PICK m : m = links
    OBVIOUS
  <1>3. DemoteAlone(m) /\ call = "demote"
    BY <1>2 DEF Ppr!DemoteAlone, DemoteAlone, Ppr!Return, Return
  <1>4. PICK n : n = node
    OBVIOUS
  <1>5. PICK P : P = Placed
    OBVIOUS
  <1>6. /\ Forestry(u, {}, A) /\ pc = "fold" /\ A = {}
        /\ P \in SUBSET Nodes /\ n \in P /\ u \in Parents /\ u[n] = None /\ Below(u, n) = {}
        /\ m \in PprMemory /\ PprStrung(m, u, P \ {n}) /\ m[n].first = Plug /\ m[n].parent = None
    <2>1. top = None
      BY <1>1
    <2>2. {None} \cap Nodes = {}
      BY NoneAssumption
    <2> QED BY <1>1, <1>2, <1>3, <1>4, <1>5, <2>1, <2>2, PprEnd
  <1>7. pc' = "idle" /\ node' = None /\ links' = m /\ Placed' = Placed /\ Forestry(u, {}, {})'
    BY <1>3, <1>6, AloneEffect
  <1>8. PprStrung(m, u, P)
    BY <1>6, PprAlone
  <1> QED BY <1>5, <1>6, <1>7, <1>8, PprIdleNext

LEMMA PprMergeDone ==
  ASSUME NEW u, NEW C, NEW A, PprHolds(u, C, A), Ppr!MergeDone
  PROVE  PprInv'
  BY PprDropped, PprRemoved, PprUpdated, PprDemoted, PprLeftAlone DEF Ppr!MergeDone
(* What the definitions of the trees compute. *)
LEMMA PprSame ==
  /\ \A S : Ppr!Cardinality(S) = Cardinality(S)
  /\ \A a, b, c, d : Ppr!Accounted(a, b, c, d) = Accounted(a, b, c, d)
  <1>1. \A S : Ppr!Cardinality(S) = Cardinality(S)
    BY DEF Ppr!Cardinality, Cardinality
  <1>2. \A a, b, c, d : Ppr!Accounted(a, b, c, d) = Accounted(a, b, c, d)
    BY <1>1, Zenon DEF Ppr!Accounted, Accounted
  <1> QED BY <1>1, <1>2

LEMMA PprChildrenReached ==
  ASSUME NEW c
  PROVE  Ppr!Children(c) = Reached(Nodes, [p \in Nodes |-> {p, links[p].next} \cap Nodes], {links[c].first} \cap Nodes)
  <1> DEFINE base == {links[c].first} \cap Nodes
             step == [p \in Nodes |-> {p, links[p].next} \cap Nodes]
             k == Ppr!Cardinality(Nodes)
             U(T) == UNION {{p, links[p].next} \cap Nodes : p \in T}
             F(f) == [i \in 0 .. k |-> IF i = 0 THEN base ELSE U(f[i - 1])]
             g == CHOOSE f : f = F(f)
  <1>1. base \in SUBSET Nodes /\ step \in [Nodes -> SUBSET Nodes] /\ \A p \in Nodes : p \in step[p]
    OBVIOUS
  <1>2. k \in Nat /\ k = Cardinality(Nodes)
    BY FiniteNodes, PprSame
  <1>3. \A T \in SUBSET Nodes : Stepped(step, T) = U(T)
    BY DEF Stepped
  <1>4. Ppr!Children(c) = g[k]
    BY Zenon DEF Ppr!Children
  <1> HIDE DEF base, step, k, U
  <1>5. PICK f : Grown(Nodes, step, base, k, f)
    BY <1>1, <1>2, NodesGrow
  <1>6. f = F(f)
    <2>1. /\ f \in [0 .. k -> SUBSET Nodes] /\ f[0] = base
          /\ \A i \in 1 .. k : f[i] = Stepped(step, f[i - 1])
      BY <1>5 DEF Grown
    <2>2. \A i \in 0 .. k : f[i] = IF i = 0 THEN base ELSE U(f[i - 1])
      BY <1>2, <1>3, <2>1
    <2> QED BY <2>1, <2>2
  <1>7. g = F(g)
    <2> HIDE DEF F
    <2> QED BY <1>6
  <1>8. g[0] = base /\ \A i \in 1 .. k : g[i - 1] \in SUBSET Nodes => g[i] = Stepped(step, g[i - 1])
    <2> HIDE DEF g
    <2>1. \A i \in 0 .. k : g[i] = F(g)[i]
      BY <1>7
    <2> HIDE <1>7
    <2>2. \A i \in 0 .. k : g[i] = IF i = 0 THEN base ELSE U(g[i - 1])
      BY <2>1
    <2> QED BY <1>2, <1>3, <2>2
  <1>9. g[k] = Reached(Nodes, step, base)
    <2> HIDE DEF g
    <2> QED BY <1>1, <1>2, <1>8, GrownReaches, NodesAssumption
  <1> QED BY <1>4, <1>9 DEF step, base

LEMMA PprForestReached ==
  ASSUME NEW c
  PROVE  Ppr!Forest(c) = Reached(Nodes, [p \in Nodes |-> {p, links[p].first, links[p].next} \cap Nodes], {c} \cap Nodes)
  <1> DEFINE base == {c} \cap Nodes
             step == [p \in Nodes |-> {p, links[p].first, links[p].next} \cap Nodes]
             k == Ppr!Cardinality(Nodes)
             U(T) == UNION {{p, links[p].first, links[p].next} \cap Nodes : p \in T}
             F(f) == [i \in 0 .. k |-> IF i = 0 THEN base ELSE U(f[i - 1])]
             g == CHOOSE f : f = F(f)
  <1>1. base \in SUBSET Nodes /\ step \in [Nodes -> SUBSET Nodes] /\ \A p \in Nodes : p \in step[p]
    OBVIOUS
  <1>2. k \in Nat /\ k = Cardinality(Nodes)
    BY FiniteNodes, PprSame
  <1>3. \A T \in SUBSET Nodes : Stepped(step, T) = U(T)
    BY DEF Stepped
  <1>4. Ppr!Forest(c) = g[k]
    BY Zenon DEF Ppr!Forest
  <1> HIDE DEF base, step, k, U
  <1>5. PICK f : Grown(Nodes, step, base, k, f)
    BY <1>1, <1>2, NodesGrow
  <1>6. f = F(f)
    <2>1. /\ f \in [0 .. k -> SUBSET Nodes] /\ f[0] = base
          /\ \A i \in 1 .. k : f[i] = Stepped(step, f[i - 1])
      BY <1>5 DEF Grown
    <2>2. \A i \in 0 .. k : f[i] = IF i = 0 THEN base ELSE U(f[i - 1])
      BY <1>2, <1>3, <2>1
    <2> QED BY <2>1, <2>2
  <1>7. g = F(g)
    <2> HIDE DEF F
    <2> QED BY <1>6
  <1>8. g[0] = base /\ \A i \in 1 .. k : g[i - 1] \in SUBSET Nodes => g[i] = Stepped(step, g[i - 1])
    <2> HIDE DEF g
    <2>1. \A i \in 0 .. k : g[i] = F(g)[i]
      BY <1>7
    <2> HIDE <1>7
    <2>2. \A i \in 0 .. k : g[i] = IF i = 0 THEN base ELSE U(g[i - 1])
      BY <2>1
    <2> QED BY <1>2, <1>3, <2>2
  <1>9. g[k] = Reached(Nodes, step, base)
    <2> HIDE DEF g
    <2> QED BY <1>1, <1>2, <1>8, GrownReaches, NodesAssumption
  <1> QED BY <1>4, <1>9 DEF step, base

(* The chain of siblings whose first is c, and all that is below them, are *)
(* the trees of S.                                                         *)
LEMMA PprForests ==
  ASSUME NEW u, NEW C, NEW A, PprHolds(u, C, A), NEW c, NEW S \in SUBSET Nodes,
         Strung(PprNexts(links), c, S, Plug), Sub(u, S) \subseteq Placed \ {node}
  PROVE  Ppr!Forest(c) = Sub(u, S)
  <1>1. PICK m : m = links
    OBVIOUS
  <1>2. PICK next : next = PprNexts(m)
    OBVIOUS
  <1>3. PICK step : step = [p \in Nodes |-> {p, links[p].first, links[p].next} \cap Nodes]
    OBVIOUS
  <1>4. PICK X : X = Sub(u, S)
    OBVIOUS
  <1>5. /\ X \in SUBSET Nodes /\ S \subseteq X
        /\ \A x \in Nodes : u[x] \in X => x \in X
        /\ \A x \in X : x \in S \/ u[x] \in X
    BY <1>4, SubFacts
  <1>6. /\ Strung(next, c, S, Plug)
        /\ \A p \in X : Strung(next, m[p].first, Below(u, p), Plug)
        /\ \A p \in Nodes : next[p] = m[p].next /\ step[p] = {p, m[p].first, m[p].next} \cap Nodes
    <2>1. PprStrung(m, u, Placed \ {node})
      BY <1>1 DEF PprHolds, PprLinked
    <2>2. \A p \in Nodes : next[p] = m[p].next /\ step[p] = {p, m[p].first, m[p].next} \cap Nodes
      BY <1>1, <1>2, <1>3 DEF PprNexts
    <2> QED BY <1>1, <1>2, <1>4, <2>1, <2>2 DEF PprStrung
  <1>7. ASSUME NEW p \in X PROVE step[p] \subseteq X
    <2>1. m[p].first \in Nodes => m[p].first \in X
      <3>1. m[p].first \in Below(u, p) \cup {Plug}
        BY <1>6 DEF Strung
      <3> QED BY <1>5, <3>1, PlugFacts DEF Below
    <2>2. next[p] \in Nodes => next[p] \in X
      <3>1. CASE p \in S
        <4>1. next[p] \in S \cup {Plug}
          BY <1>6, <3>1 DEF Strung
        <4> QED BY <1>5, <4>1, PlugFacts
      <3>2. CASE p \notin S
        <4>1. u[p] \in X /\ p \in Below(u, u[p])
          BY <1>5, <3>2 DEF Below
        <4>2. next[p] \in Below(u, u[p]) \cup {Plug}
          BY <1>6, <4>1 DEF Strung
        <4> QED BY <1>5, <4>1, <4>2, PlugFacts DEF Below
      <3> QED BY <3>1, <3>2
    <2>3. next[p] = m[p].next /\ step[p] = {p, m[p].first, m[p].next} \cap Nodes
      BY <1>5, <1>6
    <2> QED BY <2>1, <2>2, <2>3
  <1>8. {c} \cap Nodes \subseteq X
    <2>1. c \in S \cup {Plug}
      BY <1>6 DEF Strung
    <2> QED BY <1>5, <2>1, PlugFacts
  (* A set that is closed under steps has a chain when it has its first. *)
  <1>9. ASSUME NEW T \in SUBSET Nodes, \A p \in T : step[p] \subseteq T,
               NEW d, NEW R \in SUBSET Nodes, Strung(next, d, R, Plug), {d} \cap Nodes \subseteq T
        PROVE  R \subseteq T
    <2> DEFINE W == T \cap R
    <2>1. d \in R \cup {Plug} /\ \A x \in R : next[x] \in R \cup {Plug}
      BY <1>9 DEF Strung
    <2>2. W \in SUBSET R /\ d \in W \cup {Plug}
      BY <1>9, <2>1
    <2>3. \A x \in W : next[x] \in W \cup {Plug}
      <3> SUFFICES ASSUME NEW x \in W PROVE next[x] \in W \cup {Plug}
        OBVIOUS
      <3>1. next[x] \in R \cup {Plug}
        BY <2>1
      <3>2. next[x] \in Nodes => next[x] \in T
        BY <1>6, <1>9
      <3> QED BY <3>1, <3>2
    <2> HIDE DEF W
    <2>4. W = R
      BY <1>9, <2>2, <2>3 DEF Strung
    <2> QED BY <2>4 DEF W
  <1>10. ASSUME NEW T \in SUBSET Nodes, {c} \cap Nodes \subseteq T, \A p \in T : step[p] \subseteq T
         PROVE  X \subseteq T
    <2> DEFINE Y == T \cap X
    <2>1. S \subseteq Y
      BY <1>5, <1>6, <1>9, <1>10
    <2>2. ASSUME NEW x \in Nodes, u[x] \in Y PROVE x \in Y
      <3>1. PICK q : q = u[x]
        OBVIOUS
      <3>2. q \in T /\ q \in X /\ x \in X
        BY <1>5, <2>2, <3>1
      <3>3. PICK R : R = Below(u, q)
        OBVIOUS
      <3>4. PICK d : d = m[q].first
        OBVIOUS
      <3>5. R \in SUBSET Nodes /\ Strung(next, d, R, Plug) /\ x \in R
        BY <1>6, <3>1, <3>2, <3>3, <3>4 DEF Below
      <3>6. {d} \cap Nodes \subseteq T
        BY <1>5, <1>6, <1>10, <3>2, <3>4
      <3>7. R \subseteq T
        BY <1>9, <1>10, <3>5, <3>6
      <3> QED BY <3>2, <3>5, <3>7
    <2>3. Y \in SUBSET Nodes
      BY <1>5
    <2> HIDE DEF Y
    <2>4. Sub(u, S) \subseteq Y
      BY <2>1, <2>2, <2>3, SubLeast
    <2> QED BY <1>4, <2>4 DEF Y
  <1>11. Reached(Nodes, step, {c} \cap Nodes) = X
    <2>1. Reached(Nodes, step, {c} \cap Nodes) \subseteq X
      BY <1>5, <1>7, <1>8 DEF Reached
    <2>2. X \subseteq Reached(Nodes, step, {c} \cap Nodes)
      BY <1>5, <1>10 DEF Reached
    <2> QED BY <2>1, <2>2
  <1>12. Ppr!Forest(c) = Reached(Nodes, step, {c} \cap Nodes)
    BY <1>3, PprForestReached
  <1> QED BY <1>4, <1>11, <1>12

LEMMA PprTrees ==
  ASSUME NEW u, NEW C, NEW A, PprHolds(u, C, A), NEW n,
         Sub(u, {n} \cap Nodes) \subseteq Placed \ {node}
  PROVE  Ppr!Tree(n) = Sub(u, {n} \cap Nodes)
  <1>1. CASE n \notin Nodes
    <2>1. {n} \cap Nodes = {} /\ Ppr!Tree(n) = {}
      BY <1>1 DEF Ppr!Tree
    <2>2. Sub(u, {}) \subseteq {}
      <3>1. {} \in SUBSET Nodes /\ {} \subseteq {} /\ \A x \in Nodes : u[x] \in {} => x \in {}
        OBVIOUS
      <3> QED BY <3>1, SubLeast
    <2> QED BY <2>1, <2>2
  <1>2. CASE n \in Nodes
    <2>1. PICK R : R = {n}
      OBVIOUS
    <2>2. R \in SUBSET Nodes /\ R = {n} \cap Nodes
      BY <1>2, <2>1
    <2>3. PICK X : X = Sub(u, R)
      OBVIOUS
    <2>4. /\ X \in SUBSET Nodes /\ n \in X
          /\ \A x \in Nodes : u[x] \in X => x \in X
          /\ \A x \in X : x = n \/ u[x] \in X
      BY <2>1, <2>2, <2>3, SubFacts
    <2>5. PICK B : B = Below(u, n)
      OBVIOUS
    <2>6. B \in SUBSET Nodes /\ B \subseteq X
      BY <2>4, <2>5 DEF Below
    <2>7. Sub(u, B) \subseteq X
      BY <2>2, <2>3, <2>6, SubGrows
    <2>8. X \subseteq {n} \cup Sub(u, B)
      <3> DEFINE T == {n} \cup Sub(u, B)
      <3>1. /\ Sub(u, B) \in SUBSET Nodes /\ B \subseteq Sub(u, B)
            /\ \A x \in Nodes : u[x] \in Sub(u, B) => x \in Sub(u, B)
        BY <2>6, SubFacts
      <3>2. T \in SUBSET Nodes /\ R \subseteq T /\ \A x \in Nodes : u[x] \in T => x \in T
        BY <1>2, <2>1, <2>5, <3>1 DEF Below
      <3> HIDE DEF T
      <3>3. Sub(u, R) \subseteq T
        BY <3>2, SubLeast
      <3> QED BY <2>3, <3>3 DEF T
    <2>9. PICK c : c = links[n].first
      OBVIOUS
    <2>10. Strung(PprNexts(links), c, B, Plug)
      BY <2>2, <2>3, <2>4, <2>5, <2>9 DEF PprHolds, PprLinked, PprStrung
    <2>11. Sub(u, B) \subseteq Placed \ {node}
      BY <2>2, <2>3, <2>7
    <2>12. Ppr!Forest(c) = Sub(u, B)
      BY <2>6, <2>10, <2>11, PprForests
    <2>13. Ppr!Tree(n) = {n} \cup Ppr!Forest(c)
      BY <1>2, <2>9 DEF Ppr!Tree
    <2> QED BY <2>2, <2>3, <2>4, <2>7, <2>8, <2>12, <2>13
  <1> QED BY <1>1, <1>2

LEMMA PprChildren ==
  ASSUME NEW u, NEW C, NEW A, PprHolds(u, C, A), NEW p \in Placed \ {node}
  PROVE  Ppr!Children(p) = Below(u, p)
  <1>1. Strung(PprNexts(links), links[p].first, Below(u, p), Plug)
    BY DEF PprHolds, PprLinked, PprStrung
  <1>2. PICK S : S = Below(u, p)
    OBVIOUS
  <1>3. S \in SUBSET Nodes
    BY <1>2 DEF Below
  <1>4. PICK step : step = [x \in Nodes |-> {x, links[x].next} \cap Nodes]
    OBVIOUS
  <1>5. PICK next : next = PprNexts(links)
    OBVIOUS
  <1>6. PICK c : c = links[p].first
    OBVIOUS
  <1>7. \A x \in S : step[x] = {x} \cup ({next[x]} \cap Nodes)
    BY <1>3, <1>4, <1>5 DEF PprNexts
  <1>8. Reached(Nodes, step, {c} \cap Nodes) = S
    BY <1>1, <1>2, <1>3, <1>5, <1>6, <1>7, StrungReached, PlugFacts
  <1>9. Ppr!Children(p) = Reached(Nodes, step, {c} \cap Nodes)
    BY <1>4, <1>6, PprChildrenReached
  <1> QED BY <1>2, <1>8, <1>9

LEMMA PprLeft ==
  ASSUME NEW u, NEW C, NEW A, PprHolds(u, C, A), pc # "idle"
  PROVE  Ppr!Left = Sub(u, C)
  <1>1. Forestry(u, C, A) /\ pc \in {"pair", "fold"}
    BY DEF PprHolds, Forestry, TypeOK
  <1>2. PICK c : c = cursor
    OBVIOUS
  <1>3. Strung(PprNexts(links), c, C, Plug)
    BY <1>1, <1>2 DEF PprHolds, PprLinked
  <1>4. C \in SUBSET Nodes /\ C \subseteq Placed /\ \A x \in C : u[x] = node
    BY <1>1, PassFacts
  <1>5. Sub(u, C) \subseteq Placed \ {node}
    BY <1>1, <1>4, PlacedTrees
  <1>6. Ppr!Forest(c) = Sub(u, C)
    BY <1>3, <1>4, <1>5, PprForests
  <1> QED BY <1>2, <1>6 DEF Ppr!Left

LEMMA PprNothingLost ==
  ASSUME NEW u, NEW C, NEW A, PprHolds(u, C, A)
  PROVE  Ppr!NothingLost
  <1> SUFFICES ASSUME pc # "idle"
               PROVE  Accounted(Ppr!Left, Ppr!Tree(twin),
                                IF pc = "pair" THEN Ppr!Forest(acc) ELSE Ppr!Tree(acc),
                                Ppr!Tree(root[heap]))
    BY PprSame DEF Ppr!NothingLost
  <1>1. /\ Forestry(u, C, A) /\ pc \in {"pair", "fold"}
        /\ pc = "pair" => Strung(PprNexts(links), acc, A, Plug)
        /\ pc = "fold" => A = {acc} \cap Nodes
    BY DEF PprHolds, PprLinked, Forestry, TypeOK
  <1>2. /\ Below(u, node) = (C \cup A) \cup ({twin} \cap Nodes) /\ A \in SUBSET Nodes
        /\ \A x \in Below(u, node) : u[x] = node /\ x \in Placed
    BY <1>1, PassFacts
  <1>3. Ppr!Left = Sub(u, C)
    BY PprLeft
  <1>4. PICK t : t = twin
    OBVIOUS
  <1>5. Ppr!Tree(t) = Sub(u, {t} \cap Nodes)
    <2>1. {t} \cap Nodes \subseteq Placed /\ \A x \in {t} \cap Nodes : u[x] = node
      BY <1>2, <1>4
    <2>2. Sub(u, {t} \cap Nodes) \subseteq Placed \ {node}
      BY <1>1, <2>1, PlacedTrees
    <2> QED BY <2>2, PprTrees
  <1>6. PICK a : a = acc
    OBVIOUS
  <1>7. Sub(u, A) \subseteq Placed \ {node}
    BY <1>1, <1>2, PlacedTrees
  <1>8. (IF pc = "pair" THEN Ppr!Forest(a) ELSE Ppr!Tree(a)) = Sub(u, A)
    <2>1. CASE pc = "pair"
      <3>1. Ppr!Forest(a) = Sub(u, A)
        BY <1>1, <1>2, <1>6, <1>7, <2>1, PprForests
      <3> QED BY <2>1, <3>1
    <2>2. CASE pc = "fold"
      <3>1. A = {a} \cap Nodes
        BY <1>1, <1>6, <2>2
      <3>2. Ppr!Tree(a) = Sub(u, {a} \cap Nodes)
        BY <1>7, <3>1, PprTrees
      <3> QED BY <2>2, <3>1, <3>2
    <2> QED BY <1>1, <2>1, <2>2
  <1>9. Accounted(Sub(u, C), Sub(u, {twin} \cap Nodes), Sub(u, A), Sub(u, {root[heap]}))
    BY <1>1, ForestAccounted
  <1>10. CASE call \in {"remove", "update"}
    <2>1. PICK r : r = root[heap]
      OBVIOUS
    <2>2. PICK n : n = node
      OBVIOUS
    <2>3. r \in Nodes /\ r # n /\ heap \in Heaps
      BY <1>1, <1>10, <2>1, <2>2 DEF Forestry, Busy, TypeOK
    <2>4. r \in Placed /\ u[n] = None
      BY <1>1, <2>1, <2>2, <2>3, PlacedRoot, PassNode, NoneAssumption
    <2>5. PICK R : R = {r}
      OBVIOUS
    <2>6. R \in SUBSET Nodes /\ R = {r} \cap Nodes /\ R \subseteq Placed /\ n \notin R
      BY <2>3, <2>4, <2>5
    <2>7. Sub(u, R) \subseteq Placed
      <3>1. PICK T : T = Placed
        OBVIOUS
      <3>2. T \in SUBSET Nodes /\ R \subseteq T /\ \A x \in Nodes : u[x] \in T => x \in T
        BY <1>1, <2>6, <3>1, PlacedFacts
      <3>3. Sub(u, R) \subseteq T
        BY <3>2, SubLeast
      <3> QED BY <3>1, <3>3
    <2>8. n \notin Sub(u, R)
      <3>1. Sub(u, R) \in SUBSET Nodes /\ \A x \in Sub(u, R) : x \in R \/ u[x] \in Sub(u, R)
        BY <2>6, SubFacts
      <3> QED BY <2>4, <2>6, <3>1, NoneAssumption
    <2>9. Ppr!Tree(r) = Sub(u, R)
      BY <2>2, <2>6, <2>7, <2>8, PprTrees
    <2> QED BY <1>3, <1>4, <1>5, <1>6, <1>8, <1>9, <2>1, <2>5, <2>9
  <1>11. CASE call \notin {"remove", "update"}
    <2>1. \A a1, b1, c1, d1, e1 : Accounted(a1, b1, c1, d1) => Accounted(a1, b1, c1, e1)
      BY <1>11 DEF Accounted
    <2>2. PICK X : X = Sub(u, {root[heap]})
      OBVIOUS
    <2>3. PICK Y : Y = Ppr!Tree(root[heap])
      OBVIOUS
    <2>4. Accounted(Sub(u, C), Sub(u, {twin} \cap Nodes), Sub(u, A), Y)
      BY <1>9, <2>1, <2>2
    <2> QED BY <1>3, <1>4, <1>5, <1>6, <1>8, <2>3, <2>4
  <1> QED BY <1>10, <1>11

LEMMA PprHeapOrder ==
  ASSUME NEW u, NEW C, NEW A, PprHolds(u, C, A)
  PROVE  Ppr!HeapOrder
  <1> SUFFICES ASSUME pc = "idle", NEW h \in live, NEW p \in content[h], NEW n \in Ppr!Children(p)
               PROVE  key[p] <= key[n]
    BY DEF Ppr!HeapOrder
  <1>1. Forestry(u, C, A) /\ TypeOK /\ Ordered(u)
    BY DEF PprHolds, Forestry
  <1>2. h \in Heaps /\ node = None /\ p \in Nodes
    BY <1>1, BusyIdle DEF TypeOK
  <1>3. p \in Placed \ {node}
    BY <1>2, PlacedIdle, NoneAssumption
  <1>4. n \in Below(u, p)
    BY <1>3, PprChildren
  <1> QED BY <1>1, <1>2, <1>4, NoneAssumption DEF Ordered, Below

LEMMA PprTreesSound ==
  ASSUME NEW u, NEW C, NEW A, PprHolds(u, C, A)
  PROVE  Ppr!TreesSound
  <1> SUFFICES ASSUME pc = "idle", NEW h \in live
               PROVE  /\ Ppr!Tree(root[h]) = content[h]
                      /\ root[h] # None => links[root[h]].parent = None
                      /\ \A n \in content[h] \ {root[h]} :
                           \E f \in {"first", "next"} :
                             Ppr!PointersTo(n, root[h]) = {<<links[n].parent, f>>}
    BY DEF Ppr!TreesSound
  <1>1. /\ Forestry(u, C, A) /\ links \in PprMemory /\ PprStrung(links, u, Placed)
        /\ node = None /\ Placed \in SUBSET Nodes /\ u \in Parents /\ TypeOK
    BY PprIdle
  <1>2. h \in Heaps
    BY <1>1 DEF TypeOK
  <1>3. PICK r : r = root[h]
    OBVIOUS
  <1>4. PICK S : S = content[h]
    OBVIOUS
  <1>5. S = Sub(u, {r} \cap Nodes) /\ S \in SUBSET Nodes
    BY <1>1, <1>2, <1>3, <1>4, IdleTrees
  <1>6. S \subseteq Placed \ {node} /\ S \subseteq Placed
    BY <1>1, <1>2, <1>4, <1>5, PlacedIdle, NoneAssumption
  <1>7. /\ r # None => r \in S /\ u[r] = None
        /\ \A n \in S : n # r => u[n] \in S
        /\ \A n \in Nodes : u[n] \in S => n \in S
    <2>1. /\ r # None => r \in S /\ u[r] = None
          /\ \A n \in S : n # r => u[n] \in S
          /\ Group(h) = S
      BY <1>1, <1>2, <1>3, <1>4, IdleFacts
    <2>2. \A n \in Nodes : u[n] \in Nodes => (n \in S <=> u[n] \in S)
      BY <1>1, <1>2, <2>1, ShapeFacts DEF Forestry
    <2> QED BY <1>5, <2>1, <2>2
  <1>8. Ppr!Tree(r) = S
    BY <1>5, <1>6, PprTrees
  <1>9. PICK m : m = links
    OBVIOUS
  <1>10. PICK next : next = PprNexts(m)
    OBVIOUS
  <1>11. /\ \A p \in S : Strung(next, m[p].first, Below(u, p), Plug)
         /\ \A p \in S : \A x \in Below(u, p) :
              /\ m[p].first = x => m[x].parent = p
              /\ \A y \in Below(u, p) : m[y].next = x => m[x].parent = y
         /\ \A p \in Nodes : next[p] = m[p].next
         /\ \A p \in S : \A x : x \in Below(u, p) <=> x \in S /\ u[x] = p
         /\ \A p \in S : u[p] = None => m[p].parent = None
    <2>1. \A p \in S : \A x : x \in Below(u, p) <=> x \in S /\ u[x] = p
      BY <1>5, <1>7 DEF Below
    <2>2. \A p \in Nodes : next[p] = m[p].next
      BY <1>10 DEF PprNexts
    <2> QED BY <1>1, <1>6, <1>9, <1>10, <2>1, <2>2 DEF PprStrung
  <1>12. r # None => m[r].parent = None
    BY <1>7, <1>11
  <1>13. ASSUME NEW n \in S \ {r}
         PROVE  \E f \in {"first", "next"} : Ppr!PointersTo(n, r) = {<<m[n].parent, f>>}
    <2>1. PICK p : p = u[n]
      OBVIOUS
    <2>2. PICK B : B = Below(u, p)
      OBVIOUS
    <2>3. PICK c : c = m[p].first
      OBVIOUS
    <2>4. /\ p \in S /\ n \in B /\ Strung(next, c, B, Plug) /\ Plug \notin B
          /\ \A x : x \in B <=> x \in S /\ u[x] = p
          /\ \A x \in B : /\ c = x => m[x].parent = p
                          /\ \A y \in B : m[y].next = x => m[x].parent = y
      <3>1. p \in S
        BY <1>7, <2>1
      <3>2. \A x : x \in B <=> x \in S /\ u[x] = p
        BY <1>11, <2>2, <3>1
      <3>3. n \in B /\ Plug \notin B
        BY <1>5, <2>1, <3>2, PlugFacts
      <3>4. /\ Strung(next, m[p].first, Below(u, p), Plug)
            /\ \A x \in Below(u, p) :
                 /\ m[p].first = x => m[x].parent = p
                 /\ \A y \in Below(u, p) : m[y].next = x => m[x].parent = y
        BY <1>11, <3>1
      <3> QED BY <2>2, <2>3, <3>1, <3>2, <3>3, <3>4
    <2>5. \A x \in S : m[x].first = n => x = p
      <3> SUFFICES ASSUME NEW x \in S, m[x].first = n PROVE x = p
        OBVIOUS
      <3>1. n \in Below(u, x) \cup {Plug}
        BY <1>11 DEF Strung
      <3> QED BY <1>5, <1>11, <2>1, <3>1, PlugFacts
    <2>6. \A x \in S \ {r} : m[x].next = n => x \in B /\ n # c
      <3> SUFFICES ASSUME NEW x \in S \ {r}, m[x].next = n PROVE x \in B /\ n # c
        OBVIOUS
      <3>1. PICK q : q = u[x]
        OBVIOUS
      <3>2. q \in S /\ x \in Below(u, q) /\ next[x] = n
        BY <1>5, <1>7, <1>11, <3>1
      <3>3. Strung(next, m[q].first, Below(u, q), Plug)
        BY <1>11, <3>2
      <3>4. n \in Below(u, q) \cup {Plug} /\ n # m[q].first
        BY <3>2, <3>3 DEF Strung
      <3>5. u[n] = q
        BY <1>5, <1>11, <3>2, <3>4, PlugFacts
      <3> QED BY <2>1, <2>3, <2>4, <3>1, <3>4, <3>5
    <2> DEFINE Pointers == {pf \in S \X {"first", "next"} : m[pf[1]][pf[2]] = n /\ pf # <<r, "next">>}
    <2>7. Ppr!PointersTo(n, r) = Pointers
      BY <1>8, <1>9 DEF Ppr!PointersTo
    <2>8. CASE c = n
      <3>1. m[n].parent = p
        BY <2>4, <2>8
      <3>2. Pointers \subseteq {<<p, "first">>}
        BY <2>5, <2>6, <2>8
      <3>3. <<p, "first">> \in Pointers
        BY <2>3, <2>4, <2>8
      <3> HIDE DEF Pointers
      <3> QED BY <2>7, <3>1, <3>2, <3>3
    <2>9. CASE c # n
      <3>1. PICK y \in B \ {n} : next[y] = n
        BY <2>4, <2>9, StrungPrevious
      <3>2. y \in S /\ u[y] = p /\ m[y].next = n
        BY <1>5, <1>11, <2>4, <3>1
      <3>3. m[n].parent = y
        BY <2>4, <3>1, <3>2
      <3>4. y # r
        BY <1>5, <1>7, <2>4, <3>2, NoneAssumption
      <3>5. \A x \in S \ {r} : m[x].next = n => x = y
        <4> SUFFICES ASSUME NEW x \in S \ {r}, m[x].next = n PROVE x = y
          OBVIOUS
        <4>1. x \in B /\ next[x] = n
          BY <1>5, <1>11, <2>6
        <4>2. \A a, b \in B : next[a] = next[b] /\ next[a] # Plug => a = b
          BY <2>4 DEF Strung
        <4> QED BY <1>5, <3>1, <4>1, <4>2, PlugFacts
      <3>6. Pointers \subseteq {<<y, "next">>}
        BY <2>3, <2>5, <2>9, <3>5
      <3>7. <<y, "next">> \in Pointers
        BY <3>2, <3>4
      <3> HIDE DEF Pointers
      <3> QED BY <2>7, <3>3, <3>6, <3>7
    <2> QED BY <2>8, <2>9
  <1> QED BY <1>3, <1>4, <1>8, <1>9, <1>12, <1>13

LEMMA PprStays ==
  ASSUME UNCHANGED vars, PprInv
  PROVE  PprInv'
  <1>1. PICK u \in Parents, C \in SUBSET Nodes, A \in SUBSET Nodes : PprHolds(u, C, A)
    BY DEF PprInv
  <1>2. UNCHANGED <<links, call, pc, cursor, acc, node>> /\ Placed' = Placed
    BY PlacedKept DEF vars, Locals
  <1>3. PprLinked(u, C, A)'
    BY <1>1, <1>2 DEF PprHolds, PprLinked, PprStrung
  <1>4. Forestry(u, C, A)'
    BY <1>1, ForestrySame DEF PprHolds
  <1> QED BY <1>3, <1>4, PprInvNext

LEMMA PprStep ==
  ASSUME AssertIntern = TRUE, PprInv, Ppr!Next
  PROVE  PprInv'
  <1>1. PICK u \in Parents, C \in SUBSET Nodes, A \in SUBSET Nodes : PprHolds(u, C, A)
    BY DEF PprInv
  <1>2. PprPassed(u, C) => PprInv'
    BY PprInvNext DEF PprPassed
  <1>3. CASE Ppr!Pair \/ Ppr!PairEnds \/ Ppr!Fold
    BY <1>1, <1>2, <1>3, PprPair, PprPairEnds, PprFold
  <1>4. CASE Ppr!MergeDone
    BY <1>1, <1>4, PprMergeDone
  <1>5. ASSUME NEW h \in Heaps, NEW n \in Nodes,
               \/ Ppr!Insert(h, n) \/ Ppr!Remove(h, n)
               \/ \E k \in Keys : Ppr!Promote(h, n, k) \/ Ppr!Demote(h, n, k)
        PROVE  PprInv'
    BY <1>1, <1>5, PprInsert, PprRemove, PprPromote, PprDemote
  <1>6. ASSUME NEW h \in Heaps,
               \/ Ppr!Setup(h) \/ Ppr!Extract(h)
               \/ \E g \in Heaps : Ppr!Merge(h, g)
        PROVE  PprInv'
    BY <1>1, <1>6, PprSetup, PprExtract, PprMerge
  <1>7. CASE \E n \in Nodes, k \in Keys : Ppr!SetKey(n, k)
    BY <1>1, <1>7, PprSetKey
  <1> QED BY <1>3, <1>4, <1>5, <1>6, <1>7 DEF Ppr!Next, Ppr!Call, Ppr!Run

LEMMA PprLeftNext ==
  ASSUME NEW u, NEW C, NEW A
  PROVE  (PprHolds(u, C, A) /\ pc # "idle" => Ppr!Left = Sub(u, C))'
  <1>1. PprHolds(u, C, A) /\ pc # "idle" => Ppr!Left = Sub(u, C)
    BY PprLeft
  <1> QED BY <1>1, PTL

LEMMA PprAdvances ==
  ASSUME PprInv, Ppr!Next, pc # "idle", pc' = pc
  PROVE  Cardinality(Ppr!Left') < Cardinality(Ppr!Left)
  <1>1. PICK u \in Parents, C \in SUBSET Nodes, A \in SUBSET Nodes : PprHolds(u, C, A)
    BY DEF PprInv
  <1>2. PprPassed(u, C)
    <2>1. ~ Ppr!Call
      <3>1. \A h : ~ Ppr!Setup(h) /\ ~ Ppr!Extract(h) /\ \A g : ~ Ppr!Merge(h, g)
        BY DEF Ppr!Setup, Ppr!Extract, Ppr!Merge, Ppr!SetupTo, Ppr!Extracting, Ppr!MergeTo
      <3>2. \A h, n : ~ Ppr!Insert(h, n) /\ ~ Ppr!Remove(h, n) /\ ~ Ppr!SetKey(h, n)
        BY DEF Ppr!Insert, Ppr!Remove, Ppr!SetKey, Ppr!Removing, Ppr!InsertTo
      <3>3. \A h, n, k : ~ Ppr!Promote(h, n, k) /\ ~ Ppr!Demote(h, n, k)
        BY DEF Ppr!Promote, Ppr!Demote, Ppr!Rekeying
      <3> QED BY <3>1, <3>2, <3>3 DEF Ppr!Call
    <2>2. Ppr!MergeDone => pc' = "idle"
      BY DEF Ppr!MergeDone, Ppr!DropTo, Ppr!RemoveTo, Ppr!JoinTo, Ppr!DemoteAlone, Ppr!Return
    <2>3. Ppr!Pair \/ Ppr!PairEnds \/ Ppr!Fold
      BY <2>1, <2>2 DEF Ppr!Next, Ppr!Run
    <2> QED BY <1>1, <2>3, PprPair, PprPairEnds, PprFold
  <1>3. PICK v, D, B : /\ Forestry(v, D, B)' /\ PprLinked(v, D, B)'
                       /\ Cardinality(Sub(v, D)) < Cardinality(Sub(u, C))
    BY <1>2 DEF PprPassed
  <1>4. Ppr!Left = Sub(u, C)
    BY <1>1, PprLeft
  <1>5. PprHolds(v, D, B)'
    BY <1>3 DEF PprHolds
  <1>6. Ppr!Left' = Sub(v, D)
    BY <1>5, PprLeftNext
  <1> QED BY <1>3, <1>4, <1>6

LEMMA PprQueue ==
  ASSUME NEW u, NEW C, NEW A, Forestry(u, C, A), Ppr!Next
  PROVE  QueueSteps
  <1>1. ASSUME NEW h \in Heaps, Ppr!Setup(h) PROVE QueueSteps
    <2>1. \E memory : SetupTo(h, memory)
      BY <1>1, Zenon DEF Ppr!Setup, Ppr!SetupTo, SetupTo, Ppr!NoneOut, NoneOut, Ppr!Locals, Locals
    <2> QED BY <2>1, QueueSetup
  <1>2. ASSUME NEW h \in Heaps, Ppr!Extract(h) PROVE QueueSteps
    <2>1. Extracting(h)
      BY <1>2 DEF Ppr!Extract, Ppr!Extracting, Extracting, Ppr!NoneOut, NoneOut
    <2> QED BY <2>1, QueueExtract
  <1>3. ASSUME NEW r \in Heaps, NEW s \in Heaps, Ppr!Merge(r, s) PROVE QueueSteps
    <2>1. \E joined : MergeTo(r, s, joined)
      BY <1>3, Zenon DEF Ppr!Merge, Ppr!MergeTo, MergeTo, Ppr!NoneOut, NoneOut, Ppr!Locals, Locals,
                         Ppr!CountAfterMerge, CountAfterMerge, Ppr!Winner, Winner
    <2> QED BY <2>1, QueueMerge
  <1>4. ASSUME NEW h \in Heaps, NEW n \in Nodes, Ppr!Insert(h, n) PROVE QueueSteps
    <2>1. \E alone, joined : InsertTo(h, n, alone, joined)
      BY <1>4, Zenon DEF Ppr!Insert, Ppr!InsertTo, InsertTo, Ppr!NoneOut, NoneOut, Ppr!Locals, Locals,
                         Ppr!Winner, Winner
    <2> QED BY <2>1, QueueInsert
  <1>5. ASSUME NEW n \in Nodes, NEW k, Ppr!SetKey(n, k) PROVE QueueSteps
    <2>1. SetKey(n, k)
      BY <1>5 DEF Ppr!SetKey, SetKey, Ppr!NoneOut, NoneOut, Ppr!Locals, Locals
    <2> QED BY <2>1, QueueSetKey
  <1>6. ASSUME NEW h \in Heaps, NEW n \in Nodes, Ppr!Remove(h, n) PROVE QueueSteps
    <2>1. Removing(h, n)
      BY <1>6 DEF Ppr!Remove, Ppr!Removing, Removing, Ppr!NoneOut, NoneOut
    <2> QED BY <2>1, QueueRemove
  <1>7. ASSUME NEW h \in Heaps, NEW n \in Nodes, NEW k, Ppr!Promote(h, n, k) \/ Ppr!Demote(h, n, k)
        PROVE  QueueSteps
    <2>1. Rekeying(h, n, k)
      BY <1>7 DEF Ppr!Promote, Ppr!Demote, Ppr!Rekeying, Rekeying, Ppr!NoneOut, NoneOut
    <2> QED BY <2>1, QueueRekey
  <1>8. ASSUME Ppr!Pair \/ Ppr!PairEnds \/ Ppr!Fold \/ Ppr!MergeDone PROVE QueueSteps
    <2>1. UNCHANGED <<key, content, out>>
      BY <1>8 DEF Ppr!Pair, Ppr!PairEnds, Ppr!Fold, Ppr!MergeDone, Ppr!DropTo, Ppr!RemoveTo, Ppr!JoinTo, Ppr!DemoteAlone
    <2> QED BY <2>1, QueueStutters
  <1> QED BY <1>1, <1>2, <1>3, <1>4, <1>5, <1>6, <1>7, <1>8 DEF Ppr!Next, Ppr!Call, Ppr!Run

=============================================================================
