----------------------------- MODULE HeapsProofs ----------------------------
(***************************************************************************)
(* Proofs about dprheap, for every set of nodes and keys: how the rings of *)
(* siblings of its nodes follow the forest of PairingProofs; then the      *)
(* theorems about the three pairing heaps.                                 *)
(***************************************************************************)
EXTENDS MCHeaps, PairingProofs

-----------------------------------------------------------------------------
(* dprheap: the children of each node make a ring with the head that the   *)
(* node has for them, and point to it as their parent.                     *)
LEMMA CellFacts ==
  ASSUME "dprheap" \in Kinds
  PROVE  /\ Stack \notin Nodes /\ Stack # None /\ Stack \in Dpr!Cells /\ None \notin Dpr!Cells
         /\ Nodes \subseteq Dpr!Cells
         /\ \A n \in Nodes : /\ Dpr!Kids(n) \in Dpr!Cells /\ Dpr!Kids(n) \notin Nodes
                             /\ Dpr!Kids(n) # None /\ Dpr!Kids(n) # Stack
         /\ \A n, p \in Nodes : Dpr!Kids(n) = Dpr!Kids(p) => n = p
  <1>1. Dpr!CellsAssumption
    BY DprAssumption
  <1>2. /\ Stack \notin Nodes /\ Stack # None
        /\ \A n \in Nodes : Dpr!Kids(n) \notin Nodes /\ Dpr!Kids(n) # None /\ Dpr!Kids(n) # Stack
    BY <1>1 DEF Dpr!CellsAssumption
  <1>3. \A n, p \in Nodes : Dpr!Kids(n) = Dpr!Kids(p) => n = p
    BY DEF Dpr!Kids
  <1>4. /\ Stack \in Dpr!Cells /\ Nodes \subseteq Dpr!Cells
        /\ \A n \in Nodes : Dpr!Kids(n) \in Dpr!Cells
    BY DEF Dpr!Cells
  <1>5. None \notin Dpr!Cells
    BY <1>2, NoneAssumption DEF Dpr!Cells
  <1> QED BY <1>2, <1>3, <1>4, <1>5

Pointers == [Dpr!Cells -> Dpr!Cells \cup {None}]

DprMemory == [next : Pointers, prev : Pointers, parent : Parents]

DprRing(m, h, S) == Ring(m.next, m.prev, h, S)

DprRings(m, u, G) ==
  \A p \in G : /\ DprRing(m, Dpr!Kids(p), Below(u, p))
               /\ \A x \in Below(u, p) : m.parent[x] = p
               /\ u[p] = None => m.parent[p] = None

DprLinked(u, C, A) ==
  /\ "dprheap" \in Kinds
  /\ links \in DprMemory
  /\ DprRings(links, u, Placed \ {node})
  /\ pc = "pair" => /\ Strung(links.next, cursor, C, Dpr!Kids(node))
                    /\ DprRing(links, Stack, A)
                    /\ acc = None
  /\ pc = "fold" => /\ Strung(links.next, cursor, C, Stack)
                    /\ A = {acc} \cap Nodes
                    /\ acc \in Nodes \cup {None}
                    /\ acc = None => C = {}
  /\ pc # "idle" => /\ call = "demote" => links.parent[node] = None
                    /\ Below(u, node) = {} => DprRing(links, Dpr!Kids(node), {})

DprHolds(u, C, A) == Forestry(u, C, A) /\ DprLinked(u, C, A)

DprInv ==
  \E u \in Parents, C, A \in SUBSET Nodes : DprHolds(u, C, A)

LEMMA DprInvNext ==
  ASSUME NEW v, NEW D, NEW B, Forestry(v, D, B)', DprLinked(v, D, B)'
  PROVE  DprInv'
  BY ForestryTypedNext DEF DprInv, DprHolds

LEMMA DprIdleNext ==
  ASSUME NEW v, Forestry(v, {}, {})', pc' = "idle", node' = None, links' \in DprMemory,
         "dprheap" \in Kinds, DprRings(links', v, Placed')
  PROVE  DprInv'
  <1>1. DprLinked(v, {}, {})'
    BY DEF DprLinked, DprRings
  <1> QED BY <1>1, DprInvNext

(* m and l hold the same at a. *)
SameAt(m, l, a) == l.next[a] = m.next[a] /\ l.prev[a] = m.prev[a]

LEMMA DprRingKept ==
  ASSUME NEW m, NEW l, NEW h, NEW S, DprRing(m, h, S), SameAt(m, l, h), \A x \in S : SameAt(m, l, x)
  PROVE  DprRing(l, h, S)
  BY RingKept DEF DprRing, SameAt

(* What is read of the nodes of H and of their children is as it was. *)
LEMMA DprRingsKept ==
  ASSUME NEW m, NEW after, NEW u, NEW v, NEW G, DprRings(m, u, G), NEW H, H \subseteq G,
         \A p \in H : Below(v, p) = Below(u, p),
         \A p \in H : SameAt(m, after, Dpr!Kids(p)),
         \A p \in H : v[p] = None => after.parent[p] = None,
         \A p \in H : \A x \in Below(u, p) : SameAt(m, after, x),
         \A p \in H : \A x \in Below(u, p) : after.parent[x] = m.parent[x]
  PROVE  DprRings(after, v, H)
  <1> SUFFICES ASSUME NEW p \in H
               PROVE  /\ DprRing(after, Dpr!Kids(p), Below(v, p))
                      /\ \A x \in Below(v, p) : after.parent[x] = p
                      /\ v[p] = None => after.parent[p] = None
    BY DEF DprRings
  <1>1. /\ DprRing(m, Dpr!Kids(p), Below(u, p))
        /\ \A x \in Below(u, p) : m.parent[x] = p
    BY DEF DprRings
  <1>2. DprRing(after, Dpr!Kids(p), Below(u, p))
    BY <1>1, DprRingKept
  <1> QED BY <1>1, <1>2

-----------------------------------------------------------------------------
(* What the primitives of dlist do to the cells.                           *)
(* l is m but that b follows a. *)
DprLinkedTo(m, l, a, b) ==
  /\ l.parent = m.parent
  /\ l.next[a] = b /\ l.prev[b] = a
  /\ \A x \in Dpr!Cells \ {a} : l.next[x] = m.next[x]
  /\ \A x \in Dpr!Cells \ {b} : l.prev[x] = m.prev[x]

LEMMA LinkFacts ==
  ASSUME NEW m \in DprMemory, NEW a \in Dpr!Cells, NEW b \in Dpr!Cells, NEW l, l = Dpr!Link(m, a, b)
  PROVE  l \in DprMemory /\ DprLinkedTo(m, l, a, b)
  BY DEF Dpr!Link, DprMemory, Pointers, DprLinkedTo

(* l is m but that n goes between p and q. *)
DprInjected(m, l, p, n, q) ==
  /\ l.parent = m.parent
  /\ l.next[p] = n /\ l.next[n] = q /\ l.prev[q] = n /\ l.prev[n] = p
  /\ \A x \in Dpr!Cells \ {p, n} : l.next[x] = m.next[x]
  /\ \A x \in Dpr!Cells \ {q, n} : l.prev[x] = m.prev[x]

LEMMA InjectFacts ==
  ASSUME NEW m \in DprMemory, NEW p \in Dpr!Cells, NEW n \in Dpr!Cells, NEW q \in Dpr!Cells, p # n, n # q,
         NEW l, l = Dpr!Inject(m, p, n, q)
  PROVE  l \in DprMemory /\ DprInjected(m, l, p, n, q)
  <1>1. PICK k : k = Dpr!Link(m, p, n)
    OBVIOUS
  <1>2. k \in DprMemory /\ DprLinkedTo(m, k, p, n)
    BY <1>1, LinkFacts
  <1>3. l = Dpr!Link(k, n, q)
    BY <1>1 DEF Dpr!Inject
  <1>4. l \in DprMemory /\ DprLinkedTo(k, l, n, q)
    BY <1>2, <1>3, LinkFacts
  <1> QED BY <1>2, <1>4 DEF DprLinkedTo, DprInjected

LEMMA InsertBeforeFacts ==
  ASSUME NEW m \in DprMemory, NEW h \in Dpr!Cells, NEW S \in SUBSET Dpr!Cells, DprRing(m, h, S),
         NEW n \in Dpr!Cells, n \notin S \cup {h}, NEW l, l = Dpr!InsertBefore(m, h, n)
  PROVE  /\ l \in DprMemory /\ l.parent = m.parent
         /\ DprRing(l, h, S \cup {n})
         /\ \A x \in Dpr!Cells \ (S \cup {h, n}) : SameAt(m, l, x)
  <1>1. PICK p : p = m.prev[h]
    OBVIOUS
  <1>2. p \in S \cup {h} /\ m.next[p] = h
    BY <1>1 DEF DprRing, Ring
  <1>3. l = Dpr!Inject(m, p, n, h) /\ p \in Dpr!Cells /\ p # n /\ n # h
    BY <1>1, <1>2 DEF Dpr!InsertBefore
  <1>0. l \in DprMemory /\ DprInjected(m, l, p, n, h)
    BY <1>3, InjectFacts
  <1>4. /\ l \in DprMemory /\ l.parent = m.parent
        /\ l.next[p] = n /\ l.next[n] = h /\ l.prev[h] = n /\ l.prev[n] = p
        /\ \A x \in Dpr!Cells \ {p, n} : l.next[x] = m.next[x]
        /\ \A x \in Dpr!Cells \ {h, n} : l.prev[x] = m.prev[x]
    BY <1>0 DEF DprInjected
  <1>5. Ring(l.next, l.prev, h, S \cup {n})
    <2>1. PICK next, prev, nx, pv : next = m.next /\ prev = m.prev /\ nx = l.next /\ pv = l.prev
      OBVIOUS
    <2>2. /\ Ring(next, prev, h, S) /\ next[p] = h
          /\ nx[p] = n /\ nx[n] = next[p] /\ pv[next[p]] = n /\ pv[n] = p
          /\ \A x \in (S \cup {h}) \ {p} : nx[x] = next[x]
          /\ \A x \in (S \cup {h}) \ {next[p]} : pv[x] = prev[x]
      BY <1>2, <1>4, <2>1 DEF DprRing
    <2>3. Ring(nx, pv, h, S \cup {n})
      BY <1>2, <2>2, RingInsert
    <2> QED BY <2>1, <2>3
  <1>6. \A x \in Dpr!Cells \ (S \cup {h, n}) : SameAt(m, l, x)
    BY <1>2, <1>4 DEF SameAt
  <1> QED BY <1>4, <1>5, <1>6 DEF DprRing

LEMMA AppendAfterFacts ==
  ASSUME NEW m \in DprMemory, NEW h \in Dpr!Cells, NEW S \in SUBSET Dpr!Cells, DprRing(m, h, S),
         NEW n \in Dpr!Cells, n \notin S \cup {h}, NEW l, l = Dpr!AppendAfter(m, h, n)
  PROVE  /\ l \in DprMemory /\ l.parent = m.parent
         /\ DprRing(l, h, S \cup {n})
         /\ \A x \in Dpr!Cells \ (S \cup {h, n}) : SameAt(m, l, x)
  <1>1. PICK q : q = m.next[h]
    OBVIOUS
  <1>2. q \in S \cup {h}
    BY <1>1 DEF DprRing, Ring
  <1>3. l = Dpr!Inject(m, h, n, q) /\ q \in Dpr!Cells /\ q # n /\ n # h
    BY <1>1, <1>2 DEF Dpr!AppendAfter
  <1>0. l \in DprMemory /\ DprInjected(m, l, h, n, q)
    BY <1>3, InjectFacts
  <1>4. /\ l \in DprMemory /\ l.parent = m.parent
        /\ l.next[h] = n /\ l.next[n] = q /\ l.prev[q] = n /\ l.prev[n] = h
        /\ \A x \in Dpr!Cells \ {h, n} : l.next[x] = m.next[x]
        /\ \A x \in Dpr!Cells \ {q, n} : l.prev[x] = m.prev[x]
    BY <1>0 DEF DprInjected
  <1>5. Ring(l.next, l.prev, h, S \cup {n})
    <2>1. PICK next, prev, nx, pv : next = m.next /\ prev = m.prev /\ nx = l.next /\ pv = l.prev
      OBVIOUS
    <2>2. /\ Ring(next, prev, h, S) /\ next[h] = q /\ h \in S \cup {h}
          /\ nx[h] = n /\ nx[n] = next[h] /\ pv[next[h]] = n /\ pv[n] = h
          /\ \A x \in (S \cup {h}) \ {h} : nx[x] = next[x]
          /\ \A x \in (S \cup {h}) \ {next[h]} : pv[x] = prev[x]
      BY <1>1, <1>2, <1>4, <2>1 DEF DprRing
    <2>3. Ring(nx, pv, h, S \cup {n})
      BY <2>2, RingInsert
    <2> QED BY <2>1, <2>3
  <1>6. \A x \in Dpr!Cells \ (S \cup {h, n}) : SameAt(m, l, x)
    BY <1>2, <1>4 DEF SameAt
  <1> QED BY <1>4, <1>5, <1>6 DEF DprRing

LEMMA RemoveNodeFacts ==
  ASSUME NEW m \in DprMemory, NEW h \in Dpr!Cells, NEW S \in SUBSET Dpr!Cells, DprRing(m, h, S),
         NEW n \in S, NEW l, l = Dpr!RemoveNode(m, n)
  PROVE  /\ l \in DprMemory /\ l.parent = m.parent
         /\ DprRing(l, h, S \ {n})
         /\ \A x \in Dpr!Cells \ (S \cup {h}) : SameAt(m, l, x)
  <1>1. PICK p, q : p = m.prev[n] /\ q = m.next[n]
    OBVIOUS
  <1>2. p \in S \cup {h} /\ q \in S \cup {h}
    BY <1>1 DEF DprRing, Ring
  <1>3. l = Dpr!Link(m, p, q) /\ p \in Dpr!Cells /\ q \in Dpr!Cells
    BY <1>1, <1>2 DEF Dpr!RemoveNode, Dpr!Withdraw
  <1>0. l \in DprMemory /\ DprLinkedTo(m, l, p, q)
    BY <1>3, LinkFacts
  <1>4. /\ l \in DprMemory /\ l.parent = m.parent
        /\ l.next[p] = q /\ l.prev[q] = p
        /\ \A x \in Dpr!Cells \ {p} : l.next[x] = m.next[x]
        /\ \A x \in Dpr!Cells \ {q} : l.prev[x] = m.prev[x]
    BY <1>0 DEF DprLinkedTo
  <1>5. Ring(l.next, l.prev, h, S \ {n})
    <2>1. PICK next, prev, nx, pv : next = m.next /\ prev = m.prev /\ nx = l.next /\ pv = l.prev
      OBVIOUS
    <2>2. /\ Ring(next, prev, h, S)
          /\ nx[prev[n]] = next[n] /\ pv[next[n]] = prev[n]
          /\ \A x \in (S \cup {h}) \ {n, prev[n]} : nx[x] = next[x]
          /\ \A x \in (S \cup {h}) \ {n, next[n]} : pv[x] = prev[x]
      BY <1>1, <1>2, <1>4, <2>1 DEF DprRing
    <2>3. Ring(nx, pv, h, S \ {n})
      BY <2>2, RingRemove
    <2> QED BY <2>1, <2>3
  <1>6. \A x \in Dpr!Cells \ (S \cup {h}) : SameAt(m, l, x)
    BY <1>2, <1>4 DEF SameAt
  <1> QED BY <1>4, <1>5, <1>6 DEF DprRing

LEMMA InitialisedFacts ==
  ASSUME NEW m \in DprMemory, NEW h \in Dpr!Cells, NEW l, l = Dpr!Initialised(m, h)
  PROVE  /\ l \in DprMemory /\ l.parent = m.parent
         /\ DprRing(l, h, {})
         /\ \A x \in Dpr!Cells \ {h} : SameAt(m, l, x)
  <1>1. /\ l \in DprMemory /\ l.parent = m.parent
        /\ l.next[h] = h /\ l.prev[h] = h
        /\ \A x \in Dpr!Cells \ {h} : l.next[x] = m.next[x]
        /\ \A x \in Dpr!Cells \ {h} : l.prev[x] = m.prev[x]
    BY DEF Dpr!Initialised, DprMemory, Pointers
  <1> QED BY <1>1, RingAlone DEF DprRing, SameAt

-----------------------------------------------------------------------------
(* What a ring of children is made of is apart from what others are.       *)
LEMMA CellsApart ==
  ASSUME "dprheap" \in Kinds, NEW u \in Parents, NEW a \in Nodes, NEW p \in Nodes, p # a
  PROVE  /\ Below(u, a) \in SUBSET Nodes /\ Below(u, p) \in SUBSET Nodes
         /\ Dpr!Kids(p) # Dpr!Kids(a) /\ Dpr!Kids(p) \notin Below(u, a)
         /\ \A x \in Below(u, p) : x # Dpr!Kids(a) /\ x \notin Below(u, a)
  BY CellFacts DEF Below

(* Attaching a node to another one makes it its last child. *)
LEMMA DprAttached ==
  ASSUME "dprheap" \in Kinds,
         NEW m \in DprMemory, NEW u \in Parents, NEW G \in SUBSET Nodes,
         DprRings(m, u, G), NEW a \in Nodes, NEW b \in Nodes, a # b, a \in G, u[b] \notin G,
         NEW v, v = Under(u, a, b), NEW after, after = Dpr!Attach(m, b, a)
  PROVE  /\ after \in DprMemory
         /\ DprRings(after, v, G)
         /\ \A x \in Dpr!Cells \ (Below(u, a) \cup {Dpr!Kids(a), b}) : SameAt(m, after, x)
         /\ \A x \in Nodes \ {b} : after.parent[x] = m.parent[x]
  <1>1. PICK n : n = [m EXCEPT !.parent[b] = a]
    OBVIOUS
  <1>2. /\ n \in DprMemory /\ n.next = m.next /\ n.prev = m.prev
        /\ n.parent[b] = a /\ \A x \in Nodes \ {b} : n.parent[x] = m.parent[x]
    BY <1>1 DEF DprMemory, Parents
  <1>3. PICK h, S : h = Dpr!Kids(a) /\ S = Below(u, a)
    OBVIOUS
  <1>4. /\ h \in Dpr!Cells /\ h \notin Nodes /\ S \in SUBSET Nodes /\ Nodes \subseteq Dpr!Cells
        /\ b \notin S
    BY <1>3, CellFacts DEF Below
  <1>5. DprRing(n, h, S)
    BY <1>2, <1>3 DEF DprRings, DprRing
  <1>6. after = Dpr!InsertBefore(n, h, b)
    BY <1>1, <1>3 DEF Dpr!Attach
  <1>7. /\ after \in DprMemory /\ after.parent = n.parent
        /\ DprRing(after, h, S \cup {b})
        /\ \A x \in Dpr!Cells \ (S \cup {h, b}) : SameAt(n, after, x)
    <2>1. S \in SUBSET Dpr!Cells /\ b \in Dpr!Cells /\ b \notin S \cup {h}
      BY <1>4
    <2> QED BY <1>2, <1>4, <1>5, <1>6, <2>1, InsertBeforeFacts
  <1>8. \A x \in Dpr!Cells \ (S \cup {h, b}) : SameAt(m, after, x)
    BY <1>2, <1>7 DEF SameAt
  <1>9. /\ Below(v, a) = S \cup {b}
        /\ \A p \in G \ {a} : Below(v, p) = Below(u, p) /\ b \notin Below(u, p)
        /\ \A x \in Nodes \ {b} : v[x] = u[x]
        /\ v[b] = a
    BY <1>3 DEF Below, Parents, Under
  <1>10. ASSUME NEW p \in G
         PROVE  /\ DprRing(after, Dpr!Kids(p), Below(v, p))
                /\ \A x \in Below(v, p) : after.parent[x] = p
                /\ v[p] = None => after.parent[p] = None
    <2>1. v[p] = None => after.parent[p] = None
      <3>1. v[p] = None => p # b /\ u[p] = None
        BY <1>9, NoneAssumption
      <3>2. u[p] = None => m.parent[p] = None
        BY DEF DprRings
      <3> QED BY <1>2, <1>7, <3>1, <3>2
    <2>2. CASE p = a
      <3>1. \A x \in S : m.parent[x] = a /\ x \in Nodes \ {b}
        BY <1>3, <1>4 DEF DprRings
      <3>2. \A x \in S \cup {b} : after.parent[x] = a
        BY <1>2, <1>7, <3>1
      <3> QED BY <1>3, <1>7, <1>9, <2>1, <2>2, <3>2
    <2>3. CASE p # a
      <3>1. /\ DprRing(m, Dpr!Kids(p), Below(u, p))
            /\ \A x \in Below(u, p) : m.parent[x] = p
        BY DEF DprRings
      <3>2. /\ Below(u, p) \in SUBSET Nodes
            /\ Dpr!Kids(p) # h /\ Dpr!Kids(p) \notin S
            /\ \A x \in Below(u, p) : x # h /\ x \notin S
        BY <1>3, <2>3, CellsApart
      <3>3. b \notin Below(u, p) /\ Below(v, p) = Below(u, p) /\ Dpr!Kids(p) # b /\ Dpr!Kids(p) \in Dpr!Cells
        BY <1>9, <2>3, CellFacts
      <3>4. SameAt(m, after, Dpr!Kids(p)) /\ \A x \in Below(u, p) : SameAt(m, after, x)
        BY <1>4, <1>8, <3>2, <3>3
      <3>5. DprRing(after, Dpr!Kids(p), Below(u, p))
        BY <3>1, <3>4, DprRingKept
      <3>6. \A x \in Below(u, p) : after.parent[x] = p
        BY <1>2, <1>7, <3>1, <3>2, <3>3
      <3> QED BY <2>1, <3>3, <3>5, <3>6
    <2> QED BY <2>2, <2>3
  <1>11. DprRings(after, v, G)
    BY <1>10 DEF DprRings
  <1> QED BY <1>2, <1>3, <1>7, <1>8, <1>11

(* What is known once two trees are joined, w being the root. *)
DprOne(m, u, v, G, w, l, after) ==
  /\ w # l /\ w \in Nodes /\ l \in Nodes
  /\ after \in DprMemory
  /\ DprRings(after, v, G)
  /\ \A x \in Dpr!Cells \ (Below(u, w) \cup {Dpr!Kids(w), l}) : SameAt(m, after, x)
  /\ \A x \in Nodes \ {l} : after.parent[x] = m.parent[x]

LEMMA DprJoined ==
  ASSUME "dprheap" \in Kinds, TypeOK, NEW m \in DprMemory, NEW u \in Parents, NEW G \in SUBSET Nodes,
         DprRings(m, u, G), NEW a \in Nodes, NEW b \in Nodes, a # b, a \in G, b \in G,
         u[a] \notin G, u[b] \notin G,
         NEW after, after = Dpr!Join(m, a, b)
  PROVE  /\ DprOne(m, u, Linking(u, a, b), G, Winner(key, a, b), Loser(key, a, b), after)
         /\ {Winner(key, a, b), Loser(key, a, b)} = {a, b}
  <1>1. PICK w, l, v : w = Winner(key, a, b) /\ l = Loser(key, a, b) /\ v = Linking(u, a, b)
    OBVIOUS
  <1>2. {w, l} = {a, b} /\ w # l
    BY <1>1, JoinChoice
  <1>3. after = Dpr!Attach(m, l, w)
    BY <1>1 DEF Dpr!Join, Dpr!Winner, Winner, Loser
  <1>4. w \in Nodes /\ l \in Nodes /\ w \in G /\ u[l] \notin G
    BY <1>2
  <1>5. v = Under(u, w, l)
    BY <1>1 DEF Linking, Under
  <1>6. /\ after \in DprMemory
        /\ DprRings(after, v, G)
        /\ \A x \in Dpr!Cells \ (Below(u, w) \cup {Dpr!Kids(w), l}) : SameAt(m, after, x)
        /\ \A x \in Nodes \ {l} : after.parent[x] = m.parent[x]
    BY <1>2, <1>3, <1>4, <1>5, DprAttached
  <1> QED BY <1>1, <1>2, <1>4, <1>6 DEF DprOne

(* The cells of X and the parents of Y are what changes. *)
DprElse(m, after, X, Y) ==
  /\ \A x \in Dpr!Cells \ X : SameAt(m, after, x)
  /\ \A x \in Nodes \ Y : after.parent[x] = m.parent[x]

(* None of them is read of the nodes of H. *)
DprClear(after, v, H, X, Y) ==
  \A p \in H : /\ Dpr!Kids(p) \notin X
               /\ v[p] = None => p \notin Y \/ after.parent[p] = None
               /\ \A x \in Below(v, p) : x \notin X /\ x \notin Y

LEMMA DprOutside ==
  ASSUME "dprheap" \in Kinds, NEW m, NEW after, NEW v \in Parents, NEW H \in SUBSET Nodes,
         DprRings(m, v, H), NEW X, NEW Y, DprElse(m, after, X, Y), DprClear(after, v, H, X, Y)
  PROVE  DprRings(after, v, H)
  <1>1. /\ \A x \in Dpr!Cells \ X : SameAt(m, after, x)
        /\ \A x \in Nodes \ Y : after.parent[x] = m.parent[x]
    BY DEF DprElse
  <1>2. \A p \in H : Dpr!Kids(p) \in Dpr!Cells \ X
    BY CellFacts DEF DprClear
  <1>3. \A p \in H : \A x \in Below(v, p) : x \in Dpr!Cells \ X /\ x \in Nodes \ Y
    BY CellFacts DEF DprClear, Below
  <1>4. \A p \in H : SameAt(m, after, Dpr!Kids(p))
    BY <1>1, <1>2
  <1>5. \A p \in H : v[p] = None => after.parent[p] = None
    <2> SUFFICES ASSUME NEW p \in H, v[p] = None PROVE after.parent[p] = None
      OBVIOUS
    <2>1. p \notin Y \/ after.parent[p] = None
      BY DEF DprClear
    <2>2. m.parent[p] = None
      BY DEF DprRings
    <2> QED BY <1>1, <2>1, <2>2
  <1>6. H \subseteq H
    OBVIOUS
  <1>7. \A p \in H : \A x \in Below(v, p) : SameAt(m, after, x)
    BY <1>1, <1>3
  <1>8. \A p \in H : \A x \in Below(v, p) : after.parent[x] = m.parent[x]
    BY <1>1, <1>3
  <1> QED BY <1>4, <1>5, <1>6, <1>7, <1>8, DprRingsKept

(* The nodes of S are forgotten. *)
DprForgets(m, l, S) ==
  /\ \A x \in Dpr!Cells : x \notin S /\ (\A n \in S : x # Dpr!Kids(n)) => SameAt(m, l, x)
  /\ \A x \in Nodes \ S : l.parent[x] = m.parent[x]

LEMMA ForgottenFacts ==
  ASSUME "dprheap" \in Kinds, NEW m \in DprMemory, NEW S \in SUBSET Nodes,
         NEW l, l = Dpr!Forgotten(m, S)
  PROVE  l \in DprMemory /\ DprForgets(m, l, S)
  <1>1. PICK cells : cells = S \cup {Dpr!Kids(n) : n \in S}
    OBVIOUS
  <1>2. /\ l.next = [a \in Dpr!Cells |-> IF a \in cells THEN None ELSE m.next[a]]
        /\ l.prev = [a \in Dpr!Cells |-> IF a \in cells THEN None ELSE m.prev[a]]
        /\ l.parent = [n \in Nodes |-> IF n \in S THEN None ELSE m.parent[n]]
        /\ l = [next |-> l.next, prev |-> l.prev, parent |-> l.parent]
    BY <1>1 DEF Dpr!Forgotten
  <1>3. /\ m.next \in [Dpr!Cells -> Dpr!Cells \cup {None}]
        /\ m.prev \in [Dpr!Cells -> Dpr!Cells \cup {None}]
        /\ m.parent \in [Nodes -> Nodes \cup {None}]
    BY DEF DprMemory, Pointers, Parents
  <1>4. l \in DprMemory
    <2>1. l.next \in Pointers /\ l.prev \in Pointers /\ l.parent \in Parents
      BY <1>2, <1>3 DEF Pointers, Parents
    <2> QED BY <1>2, <2>1 DEF DprMemory
  <1>5. \A x \in Dpr!Cells : x \notin cells => SameAt(m, l, x)
    BY <1>2 DEF SameAt
  <1>6. \A x : x \in cells <=> x \in S \/ \E n \in S : x = Dpr!Kids(n)
    BY <1>1
  <1>7. \A x \in Nodes \ S : l.parent[x] = m.parent[x]
    BY <1>2
  <1> QED BY <1>4, <1>5, <1>6, <1>7 DEF DprForgets

(* n is alone in l. *)
DprLones(m, l, n) ==
  /\ l \in DprMemory /\ l.parent[n] = None
  /\ DprRing(l, Dpr!Kids(n), {})
  /\ \A x \in Dpr!Cells \ {Dpr!Kids(n)} : SameAt(m, l, x)
  /\ \A x \in Nodes \ {n} : l.parent[x] = m.parent[x]

LEMMA LoneFacts ==
  ASSUME "dprheap" \in Kinds, NEW m \in DprMemory, NEW n \in Nodes, NEW l, l = Dpr!Lone(m, n)
  PROVE  DprLones(m, l, n)
  <1>1. PICK k : k = [m EXCEPT !.parent[n] = None]
    OBVIOUS
  <1>2. /\ k \in DprMemory /\ k.next = m.next /\ k.prev = m.prev
        /\ k.parent[n] = None /\ \A x \in Nodes \ {n} : k.parent[x] = m.parent[x]
    BY <1>1 DEF DprMemory, Parents
  <1>3. PICK h : h = Dpr!Kids(n)
    OBVIOUS
  <1>4. h \in Dpr!Cells /\ l = Dpr!Initialised(k, h)
    BY <1>1, <1>3, CellFacts DEF Dpr!Lone
  <1>5. /\ l \in DprMemory /\ l.parent = k.parent /\ DprRing(l, h, {})
        /\ \A x \in Dpr!Cells \ {h} : SameAt(k, l, x)
    BY <1>2, <1>4, InitialisedFacts
  <1>6. \A x \in Dpr!Cells \ {h} : SameAt(m, l, x)
    BY <1>2, <1>5 DEF SameAt
  <1> QED BY <1>2, <1>3, <1>5, <1>6 DEF DprLones

-----------------------------------------------------------------------------
LEMMA DprInit ==
  ASSUME Dpr!Init, "dprheap" \in Kinds
  PROVE  DprInv
  <1>1. /\ Down
        /\ links = [next |-> [a \in Dpr!Cells |-> None], prev |-> [a \in Dpr!Cells |-> None],
                    parent |-> [n \in Nodes |-> None]]
    BY DEF Dpr!Init, Dpr!Down, Down
  <1>2. PICK u : u = [n \in Nodes |-> None]
    OBVIOUS
  <1>3. Forestry(u, {}, {})
    BY <1>1, <1>2, ForestryDown
  <1>4. Placed = {} /\ pc = "idle"
    BY <1>1, PlacedIdle DEF Down
  <1>5. links \in DprMemory
    BY <1>1 DEF DprMemory, Pointers, Parents
  <1>6. DprLinked(u, {}, {})
    BY <1>4, <1>5 DEF DprLinked, DprRings
  <1> QED BY <1>3, <1>6, ForestryTyped DEF DprInv, DprHolds

(* What is known between calls. *)
LEMMA DprIdle ==
  ASSUME NEW u, NEW C, NEW A, DprHolds(u, C, A), pc = "idle"
  PROVE  /\ Forestry(u, C, A) /\ links \in DprMemory /\ DprRings(links, u, Placed)
         /\ node = None /\ Placed \in SUBSET Nodes /\ u \in Parents /\ TypeOK
         /\ "dprheap" \in Kinds
  <1>1. /\ Forestry(u, C, A) /\ links \in DprMemory /\ DprRings(links, u, Placed \ {node}) /\ TypeOK
        /\ "dprheap" \in Kinds
    BY DEF DprHolds, DprLinked, Forestry
  <1>2. node = None /\ Placed \in SUBSET Nodes /\ u \in Parents
    BY <1>1, BusyIdle, PlacedFacts
  <1>3. Placed \ {node} = Placed
    BY <1>2, NoneAssumption
  <1> QED BY <1>1, <1>2, <1>3

LEMMA DprSetup ==
  ASSUME NEW u, NEW C, NEW A, DprHolds(u, C, A), NEW h \in Heaps, Dpr!Setup(h)
  PROVE  DprInv'
  <1>1. PICK memory : memory = Dpr!Forgotten(links, content[h])
    OBVIOUS
  <1>2. SetupTo(h, memory)
    BY <1>1 DEF Dpr!Setup, Dpr!SetupTo, SetupTo, Dpr!NoneOut, NoneOut, Dpr!Locals, Locals
  <1>3. links' = memory /\ pc = "idle"
    BY <1>2 DEF SetupTo
  <1>4. /\ Forestry(u, C, A) /\ links \in DprMemory /\ DprRings(links, u, Placed)
        /\ node = None /\ Placed \in SUBSET Nodes /\ "dprheap" \in Kinds
    BY <1>3, DprIdle
  <1>5. pc' = "idle" /\ node' = None /\ Placed' = Placed \ content[h] /\ content[h] \in SUBSET Nodes
    BY <1>2, <1>4, SetupEffect
  <1>6. PICK v : Forestry(v, {}, {})' /\ \A p \in Placed' : Below(v, p) = Below(u, p) /\ v[p] = u[p]
    BY <1>2, <1>4, SetupEffect
  <1>7. PICK m : m = links
    OBVIOUS
  <1>8. PICK S : S = content[h]
    OBVIOUS
  <1>9. PICK G : G = Placed
    OBVIOUS
  <1>10. PICK H : H = Placed'
    OBVIOUS
  <1>11. /\ memory \in DprMemory
         /\ \A x \in Dpr!Cells : x \notin S /\ (\A n \in S : x # Dpr!Kids(n)) => SameAt(m, memory, x)
         /\ \A x \in Nodes \ S : memory.parent[x] = m.parent[x]
    <2>1. memory \in DprMemory /\ DprForgets(m, memory, S)
      BY <1>1, <1>4, <1>5, <1>7, <1>8, ForgottenFacts
    <2> QED BY <2>1 DEF DprForgets
  <1>12. H \subseteq G /\ H \subseteq Nodes /\ \A x \in H : x \notin S
    BY <1>4, <1>5, <1>8, <1>9, <1>10
  <1>13. \A p \in H : Below(v, p) = Below(u, p) /\ v[p] = u[p] /\ Below(v, p) \subseteq H
    BY <1>6, <1>10, PlacedNext
  <1>14. DprRings(m, u, G)
    BY <1>4, <1>7, <1>9
  <1>15. DprRings(memory, v, H)
    <2>1. \A p \in H : SameAt(m, memory, Dpr!Kids(p))
      <3> SUFFICES ASSUME NEW p \in H PROVE SameAt(m, memory, Dpr!Kids(p))
        OBVIOUS
      <3>1. p \in Nodes /\ p \notin S /\ S \subseteq Nodes
        BY <1>5, <1>8, <1>12
      <3>2. Dpr!Kids(p) \in Dpr!Cells /\ Dpr!Kids(p) \notin S /\ \A n \in S : Dpr!Kids(p) # Dpr!Kids(n)
        BY <1>4, <3>1, CellFacts
      <3> QED BY <1>11, <3>2
    <2>2. \A x \in H : SameAt(m, memory, x) /\ memory.parent[x] = m.parent[x]
      <3> SUFFICES ASSUME NEW x \in H PROVE SameAt(m, memory, x) /\ memory.parent[x] = m.parent[x]
        OBVIOUS
      <3>1. x \in Nodes /\ x \notin S /\ S \subseteq Nodes
        BY <1>5, <1>8, <1>12
      <3>2. x \in Dpr!Cells /\ \A n \in S : x # Dpr!Kids(n)
        BY <1>4, <3>1, CellFacts
      <3> QED BY <1>11, <3>1, <3>2
    <2>3. \A p \in H : v[p] = None => memory.parent[p] = None
      BY <1>12, <1>13, <1>14, <2>2 DEF DprRings
    <2>4. \A p \in H : \A x \in Below(u, p) : SameAt(m, memory, x)
      BY <1>13, <2>2
    <2>5. \A p \in H : \A x \in Below(u, p) : memory.parent[x] = m.parent[x]
      BY <1>13, <2>2
    <2>6. \A p \in H : Below(v, p) = Below(u, p)
      BY <1>13
    <2> QED BY <1>12, <1>14, <2>1, <2>3, <2>4, <2>5, <2>6, DprRingsKept
  <1> QED BY <1>3, <1>4, <1>5, <1>6, <1>10, <1>11, <1>15, DprIdleNext

LEMMA DprSetKey ==
  ASSUME NEW u, NEW C, NEW A, DprHolds(u, C, A), NEW n \in Nodes, NEW k \in Keys, Dpr!SetKey(n, k)
  PROVE  DprInv'
  <1>1. SetKey(n, k)
    BY DEF Dpr!SetKey, SetKey, Dpr!NoneOut, NoneOut, Dpr!Locals, Locals
  <1>2. pc = "idle" /\ UNCHANGED <<links, pc, content, heap, node>>
    BY <1>1 DEF SetKey, Locals
  <1>3. /\ Forestry(u, C, A) /\ links \in DprMemory /\ DprRings(links, u, Placed) /\ node = None
        /\ "dprheap" \in Kinds
    BY <1>2, DprIdle
  <1>4. Placed' = Placed
    BY <1>2, PlacedKept
  <1>5. Forestry(u, {}, {})'
    BY <1>1, <1>3, ForestrySetKey
  <1> QED BY <1>2, <1>3, <1>4, <1>5, DprIdleNext

(* A node that is put back, or put in, is a tree of its own. *)
LEMMA DprAdded ==
  ASSUME "dprheap" \in Kinds, NEW m \in DprMemory, NEW v \in Parents, NEW P \in SUBSET Nodes, NEW n \in P,
         DprRings(m, v, P \ {n}), v[n] = None, Below(v, n) = {},
         NEW after, \A x \in Dpr!Cells \ {Dpr!Kids(n)} : SameAt(m, after, x),
         \A x \in Nodes \ {n} : after.parent[x] = m.parent[x],
         DprRing(after, Dpr!Kids(n), {}), after.parent[n] = None
  PROVE  DprRings(after, v, P)
  <1>1. PICK H : H = P \ {n}
    OBVIOUS
  <1>2. PICK X : X = {Dpr!Kids(n)}
    OBVIOUS
  <1>3. PICK Y : Y = {n}
    OBVIOUS
  <1>4. DprRings(after, v, H)
    <2>1. DprRings(m, v, H) /\ H \in SUBSET Nodes
      BY <1>1
    <2>2. DprElse(m, after, X, Y)
      BY <1>2, <1>3 DEF DprElse
    <2>3. DprClear(after, v, H, X, Y)
      <3>1. \A p \in H : Dpr!Kids(p) \notin X /\ (v[p] = None => p \notin Y \/ after.parent[p] = None)
        BY <1>1, <1>2, <1>3, CellFacts
      <3>2. ASSUME NEW p \in H, NEW x \in Below(v, p) PROVE x \notin X /\ x \notin Y
        <4>1. x \in Nodes /\ v[x] = p /\ p \in Nodes
          BY <1>1 DEF Below
        <4> QED BY <1>2, <1>3, <4>1, CellFacts, NoneAssumption
      <3> QED BY <3>1, <3>2 DEF DprClear
    <2> QED BY <2>1, <2>2, <2>3, DprOutside
  <1> QED BY <1>1, <1>4 DEF DprRings

LEMMA DprInsert ==
  ASSUME NEW u, NEW C, NEW A, DprHolds(u, C, A), NEW h \in Heaps, NEW n \in Nodes, Dpr!Insert(h, n)
  PROVE  DprInv'
  <1>1. PICK fresh : fresh = Dpr!Lone(links, n)
    OBVIOUS
  <1>2. PICK r : r = root[h]
    OBVIOUS
  <1>3. PICK joined : joined = Dpr!Join(fresh, r, n)
    OBVIOUS
  <1>4. InsertTo(h, n, fresh, joined)
    BY <1>1, <1>2, <1>3 DEF Dpr!Insert, Dpr!InsertTo, InsertTo, Dpr!NoneOut, NoneOut, Dpr!Locals, Locals,
                            Dpr!Winner, Winner
  <1>5. /\ Forestry(u, C, A) /\ links \in DprMemory /\ DprRings(links, u, Placed)
        /\ Placed \in SUBSET Nodes /\ u \in Parents /\ TypeOK /\ "dprheap" \in Kinds
    <2>1. pc = "idle"
      BY <1>4 DEF InsertTo
    <2> QED BY <2>1, DprIdle
  <1>6. /\ pc' = "idle" /\ node = None /\ node' = None
        /\ Placed' = Placed \cup {n} /\ n \notin Placed
        /\ u[n] = None /\ Below(u, n) = {}
        /\ r # None => r \in Placed /\ u[r] = None
        /\ r = None => links' = fresh
        /\ r # None => links' = joined
    BY <1>2, <1>4, <1>5, InsertEffect
  <1>7. PICK v : Forestry(v, {}, {})' /\ v = IF r = None THEN u ELSE Linking(u, r, n)
    BY <1>2, <1>4, <1>5, InsertEffect
  <1>8. PICK G : G = Placed'
    OBVIOUS
  <1>9. PICK m : m = links
    OBVIOUS
  <1>10. G \in SUBSET Nodes /\ n \in G /\ G \ {n} = Placed
    BY <1>5, <1>6, <1>8
  <1>11. fresh \in DprMemory /\ DprRings(fresh, u, G)
    <2>1. /\ fresh \in DprMemory /\ fresh.parent[n] = None
          /\ DprRing(fresh, Dpr!Kids(n), {})
          /\ \A x \in Dpr!Cells \ {Dpr!Kids(n)} : SameAt(m, fresh, x)
          /\ \A x \in Nodes \ {n} : fresh.parent[x] = m.parent[x]
      BY <1>1, <1>5, <1>9, LoneFacts DEF DprLones
    <2>2. DprRings(m, u, G \ {n}) /\ m \in DprMemory
      BY <1>5, <1>9, <1>10
    <2> QED BY <1>5, <1>6, <1>10, <2>1, <2>2, DprAdded
  <1>12. CASE r = None
    <2>1. v = u /\ links' = fresh
      BY <1>6, <1>7, <1>12
    <2> QED BY <1>5, <1>6, <1>7, <1>8, <1>11, <2>1, DprIdleNext
  <1>13. CASE r # None
    <2>1. v = Linking(u, r, n) /\ links' = joined
      BY <1>6, <1>7, <1>13
    <2>2. r \in G /\ n \in G /\ r \in Nodes /\ r # n /\ u[r] \notin G /\ u[n] \notin G
      BY <1>5, <1>6, <1>10, <1>13, NoneAssumption
    <2>3. joined \in DprMemory /\ DprRings(joined, v, G)
      BY <1>3, <1>5, <1>10, <1>11, <2>1, <2>2, DprJoined DEF DprOne
    <2> QED BY <1>5, <1>6, <1>7, <1>8, <2>1, <2>3, DprIdleNext
  <1> QED BY <1>12, <1>13

LEMMA DprMerge ==
  ASSUME NEW u, NEW C, NEW A, DprHolds(u, C, A), NEW r \in Heaps, NEW s \in Heaps, Dpr!Merge(r, s)
  PROVE  DprInv'
  <1>1. PICK m : m = links
    OBVIOUS
  <1>2. PICK a : a = root[r]
    OBVIOUS
  <1>3. PICK b : b = root[s]
    OBVIOUS
  <1>4. PICK joined : joined = Dpr!Join(m, a, b)
    OBVIOUS
  <1>5. MergeTo(r, s, joined)
    BY <1>1, <1>2, <1>3, <1>4 DEF Dpr!Merge, Dpr!MergeTo, MergeTo, Dpr!NoneOut, NoneOut, Dpr!Locals, Locals,
                            Dpr!Winner, Winner, Dpr!CountAfterMerge, CountAfterMerge
  <1>6. /\ Forestry(u, C, A) /\ links \in DprMemory /\ DprRings(links, u, Placed)
        /\ Placed \in SUBSET Nodes /\ u \in Parents /\ TypeOK /\ "dprheap" \in Kinds
    <2>1. pc = "idle"
      BY <1>5 DEF MergeTo
    <2> QED BY <2>1, DprIdle
  <1>7. /\ pc' = "idle" /\ node = None /\ node' = None
        /\ Placed' = Placed
        /\ a # None => a \in Placed /\ u[a] = None
        /\ b # None => b \in Placed /\ u[b] = None
        /\ a # None /\ b # None => a # b
        /\ links' = IF a # None /\ b # None THEN joined ELSE m
    BY <1>1, <1>2, <1>3, <1>5, <1>6, MergeEffect
  <1>8. PICK v : Forestry(v, {}, {})' /\ v = IF a # None /\ b # None THEN Linking(u, a, b) ELSE u
    BY <1>2, <1>3, <1>5, <1>6, MergeEffect
  <1>9. PICK G : G = Placed'
    OBVIOUS
  <1>10. G \in SUBSET Nodes /\ G = Placed /\ m \in DprMemory /\ DprRings(m, u, G)
    BY <1>1, <1>6, <1>7, <1>9
  <1>11. CASE ~ (a # None /\ b # None)
    <2>1. v = u /\ links' = m
      BY <1>7, <1>8, <1>11
    <2> QED BY <1>6, <1>7, <1>8, <1>9, <1>10, <2>1, DprIdleNext
  <1>12. CASE a # None /\ b # None
    <2>1. v = Linking(u, a, b) /\ links' = joined
      BY <1>7, <1>8, <1>12
    <2>2. a \in G /\ b \in G /\ a \in Nodes /\ b \in Nodes /\ a # b /\ u[a] \notin G /\ u[b] \notin G
      BY <1>7, <1>10, <1>12, NoneAssumption
    <2>3. joined \in DprMemory /\ DprRings(joined, v, G)
      BY <1>4, <1>6, <1>10, <2>1, <2>2, DprJoined DEF DprOne
    <2> QED BY <1>6, <1>7, <1>8, <1>9, <2>1, <2>3, DprIdleNext
  <1> QED BY <1>11, <1>12

(* The merge of the children of n is entered, n having left its siblings.  *)
LEMMA DprEntered ==
  ASSUME "dprheap" \in Kinds, NEW u \in Parents, NEW n \in Nodes, u[n] # n, NEW v, v = Under(u, None, n),
         Forestry(v, Below(u, n), {})', Placed' = Placed, Placed \in SUBSET Nodes,
         NEW h, NEW what, NEW m, Dpr!Begin(what, h, n, m), m \in DprMemory,
         NEW G, G = Placed \ {n}, DprRings(m, v, G),
         DprRing(m, Dpr!Kids(n), Below(u, n)),
         what = "demote" => m.parent[n] = None
  PROVE  DprInv'
  <1>1. PICK l : l = Dpr!Initialised(m, Stack)
    OBVIOUS
  <1>2. PICK k : k = Dpr!Kids(n)
    OBVIOUS
  <1>3. PICK S : S = Below(u, n)
    OBVIOUS
  <1>4. /\ pc' = "pair" /\ node' = n /\ call' = what /\ cursor' = m.next[k]
        /\ acc' = None /\ links' = l
    BY <1>1, <1>2 DEF Dpr!Begin, Dpr!Enter
  <1>5. /\ l \in DprMemory /\ l.parent = m.parent /\ DprRing(l, Stack, {})
        /\ \A x \in Dpr!Cells \ {Stack} : SameAt(m, l, x)
    BY <1>1, CellFacts, InitialisedFacts
  <1>6. Below(v, n) = S /\ S \in SUBSET Nodes /\ v \in Parents
    BY <1>3, NoneAssumption DEF Below, Under, Parents
  <1>7. k \in Dpr!Cells /\ k # Stack /\ Stack \notin Nodes /\ \A x \in Nodes : x \in Dpr!Cells
    BY <1>2, CellFacts
  <1>8. DprRing(l, k, S) /\ m.next[k] = l.next[k]
    <2>1. SameAt(m, l, k) /\ \A x \in S : SameAt(m, l, x)
      BY <1>5, <1>6, <1>7
    <2> QED BY <1>2, <1>3, <2>1, DprRingKept DEF SameAt
  <1>9. Strung(l.next, m.next[k], S, k)
    <2>1. PICK next, prev : next = l.next /\ prev = l.prev
      OBVIOUS
    <2>2. Ring(next, prev, k, S)
      BY <1>8, <2>1 DEF DprRing
    <2>3. Strung(next, next[k], S, k)
      BY <2>2, RingStrung
    <2> QED BY <1>8, <2>1, <2>3
  <1>10. DprRings(l, v, G)
    <2>1. PICK X : X = {Stack}
      OBVIOUS
    <2>2. PICK Y : Y = {}
      OBVIOUS
    <2>3. DprRings(m, v, G) /\ v \in Parents /\ G \in SUBSET Nodes
      BY <1>6
    <2>4. DprElse(m, l, X, Y)
      BY <1>5, <2>1 DEF DprElse
    <2>5. DprClear(l, v, G, X, Y)
      <3>1. \A p \in G : Dpr!Kids(p) \notin X /\ (v[p] = None => p \notin Y \/ l.parent[p] = None)
        BY <2>1, <2>2, <2>3, CellFacts
      <3>2. \A p \in G : \A x \in Below(v, p) : x \notin X /\ x \notin Y
        BY <1>7, <2>1, <2>2 DEF Below
      <3> QED BY <3>1, <3>2 DEF DprClear
    <2> QED BY <2>3, <2>4, <2>5, DprOutside
  <1>11. DprLinked(v, S, {})'
    <2>1. (Placed \ {node})' = G
      BY <1>4
    <2>2. Below(v, n) = {} => DprRing(l, k, {})
      BY <1>6, <1>8
    <2>3. what = "demote" => l.parent[n] = None
      BY <1>5
    <2>4. pc' # "fold" /\ pc' # "idle"
      BY <1>4
    <2> QED BY <1>2, <1>4, <1>5, <1>9, <1>10, <2>1, <2>2, <2>3, <2>4 DEF DprLinked, DprRings, DprRing
  <1>12. Forestry(v, S, {})'
    BY <1>3
  <1> QED BY <1>11, <1>12, DprInvNext

(* The root of a heap is entered as it is. *)
LEMMA DprRootEntered ==
  ASSUME NEW u, NEW C, NEW A, DprHolds(u, C, A), pc = "idle", NEW h \in Heaps, h \in live,
         NEW n \in content[h], n = root[h], NEW what \in {"drop", "demote"},
         Dpr!Begin(what, h, n, links),
         content' = IF what = "drop" THEN [content EXCEPT ![h] = @ \ {n}] ELSE content,
         key' \in [Nodes -> Keys], \A x \in Nodes \ {n} : key'[x] = key[x],
         out' \in [Heaps -> Nodes \cup {None}]
  PROVE  DprInv'
  <1>1. /\ Forestry(u, C, A) /\ links \in DprMemory /\ DprRings(links, u, Placed)
        /\ node = None /\ Placed \in SUBSET Nodes /\ u \in Parents /\ TypeOK /\ "dprheap" \in Kinds
    BY DprIdle
  <1>2. n \in Nodes /\ u[n] = None
    BY <1>1, IdleFacts DEF TypeOK
  <1>3. PICK m : m = links
    OBVIOUS
  <1>4. PICK memory : memory = Dpr!Initialised(m, Stack)
    OBVIOUS
  <1>5. PICK first : first = m.next[Dpr!Kids(n)]
    OBVIOUS
  <1>6. Enter(what, h, n, memory, first, None)
    BY <1>3, <1>4, <1>5 DEF Dpr!Begin, Dpr!Enter, Enter
  <1>7. /\ what \in {"drop", "remove", "update", "demote"}
        /\ what \in {"drop", "demote"} <=> n = root[h]
        /\ content' = IF what \in {"drop", "remove"} THEN [content EXCEPT ![h] = @ \ {n}] ELSE content
    OBVIOUS
  <1>8. Placed' = Placed /\ n \in Placed
    BY <1>1, <1>6, <1>7, EnterEffect, ZenonT(30)
  <1>9. PICK v : Forestry(v, Below(u, n), {})' /\ v = Under(u, None, n)
    BY <1>1, <1>6, <1>7, EnterEffect, ZenonT(30)
  <1>10. v = u
    BY <1>1, <1>2, <1>9 DEF Under, Parents
  <1>11. PICK G : G = Placed \ {n}
    OBVIOUS
  <1>12. DprRings(m, v, G)
    BY <1>1, <1>3, <1>10, <1>11 DEF DprRings
  <1>13. DprRing(m, Dpr!Kids(n), Below(u, n)) /\ m.parent[n] = None
    BY <1>1, <1>2, <1>3, <1>8 DEF DprRings
  <1>14. Dpr!Begin(what, h, n, m) /\ m \in DprMemory /\ u[n] # n
    BY <1>1, <1>2, <1>3, NoneAssumption
  <1> QED BY <1>1, <1>2, <1>8, <1>9, <1>11, <1>12, <1>13, <1>14, DprEntered

(* A node leaves the ring of its siblings. *)
LEMMA DprDetached ==
  ASSUME "dprheap" \in Kinds, NEW m \in DprMemory, NEW u \in Parents, NEW G \in SUBSET Nodes,
         DprRings(m, u, G), NEW n \in G, u[n] \in G, u[n] # n, NEW v, v = Under(u, None, n),
         NEW after, after = Dpr!RemoveNode(m, n)
  PROVE  /\ after \in DprMemory /\ DprRings(after, v, G \ {n})
         /\ DprRing(after, Dpr!Kids(n), Below(u, n))
  <1>1. PICK p : p = u[n]
    OBVIOUS
  <1>2. PICK h : h = Dpr!Kids(p)
    OBVIOUS
  <1>3. PICK S : S = Below(u, p)
    OBVIOUS
  <1>4. /\ p \in Nodes /\ p \in G /\ n \in Nodes /\ p # n /\ n \in S /\ S \in SUBSET Nodes
        /\ h \in Dpr!Cells /\ S \in SUBSET Dpr!Cells
    BY <1>1, <1>2, <1>3, CellFacts DEF Below
  <1>5. DprRing(m, h, S)
    BY <1>2, <1>3, <1>4 DEF DprRings
  <1>6. /\ after \in DprMemory /\ after.parent = m.parent
        /\ DprRing(after, h, S \ {n})
        /\ \A x \in Dpr!Cells \ (S \cup {h}) : SameAt(m, after, x)
    BY <1>4, <1>5, RemoveNodeFacts, ZenonT(30)
  <1>7. /\ Below(v, p) = S \ {n}
        /\ \A q \in Nodes \ {p} : Below(v, q) = Below(u, q)
        /\ \A x \in Nodes \ {n} : v[x] = u[x]
    BY <1>1, <1>3, <1>4, NoneAssumption DEF Below, Under, Parents
  <1>8. ASSUME NEW q \in G, q # p PROVE DprRing(after, Dpr!Kids(q), Below(u, q))
    <2>1. DprRing(m, Dpr!Kids(q), Below(u, q))
      BY DEF DprRings
    <2>2. /\ Below(u, q) \in SUBSET Nodes
          /\ Dpr!Kids(q) # h /\ Dpr!Kids(q) \notin S
          /\ \A x \in Below(u, q) : x # h /\ x \notin S
      BY <1>2, <1>3, <1>4, <1>8, CellsApart
    <2>3. SameAt(m, after, Dpr!Kids(q)) /\ \A x \in Below(u, q) : SameAt(m, after, x)
      BY <1>6, <2>2, CellFacts
    <2> QED BY <2>1, <2>3, DprRingKept
  <1>9. ASSUME NEW q \in G \ {n}
        PROVE  /\ DprRing(after, Dpr!Kids(q), Below(v, q))
               /\ \A x \in Below(v, q) : after.parent[x] = q
               /\ v[q] = None => after.parent[q] = None
    <2>1. DprRing(after, Dpr!Kids(q), Below(v, q))
      <3>1. CASE q = p
        BY <1>2, <1>6, <1>7, <3>1
      <3>2. CASE q # p
        BY <1>7, <1>8, <3>2
      <3> QED BY <3>1, <3>2
    <2>2. Below(v, q) \subseteq Below(u, q)
      BY <1>3, <1>7
    <2> QED BY <1>6, <1>7, <2>1, <2>2 DEF DprRings
  <1>10. DprRings(after, v, G \ {n})
    BY <1>9 DEF DprRings
  <1> QED BY <1>4, <1>6, <1>8, <1>10

(* Another node is detached first. *)
LEMMA DprDetachedEntered ==
  ASSUME NEW u, NEW C, NEW A, DprHolds(u, C, A), pc = "idle", NEW h \in Heaps, h \in live,
         NEW n \in content[h], n # root[h], NEW what \in {"remove", "update"},
         Dpr!BeginDetached(what, h, n),
         content' = IF what = "remove" THEN [content EXCEPT ![h] = @ \ {n}] ELSE content,
         key' \in [Nodes -> Keys], \A x \in Nodes \ {n} : key'[x] = key[x],
         out' \in [Heaps -> Nodes \cup {None}]
  PROVE  DprInv'
  <1>1. /\ Forestry(u, C, A) /\ links \in DprMemory /\ DprRings(links, u, Placed)
        /\ node = None /\ Placed \in SUBSET Nodes /\ u \in Parents /\ TypeOK /\ "dprheap" \in Kinds
    BY DprIdle
  <1>2. n \in Nodes /\ u[n] \in Placed /\ u[n] # n
    <2>1. n \in Nodes /\ u[n] \in content[h] /\ u[n] \in Nodes
      BY <1>1, IdleFacts DEF TypeOK
    <2>2. u[n] \in Placed
      BY <1>1, <2>1, PlacedFacts
    <2>3. \A x \in Nodes : u[x] # x
      BY <1>1, ShapeFacts DEF Forestry
    <2> QED BY <2>1, <2>2, <2>3
  <1>3. PICK m : m = links
    OBVIOUS
  <1>4. PICK after : after = Dpr!RemoveNode(m, n)
    OBVIOUS
  <1>5. Dpr!Begin(what, h, n, after)
    BY <1>3, <1>4 DEF Dpr!BeginDetached
  <1>6. PICK memory : memory = Dpr!Initialised(after, Stack)
    OBVIOUS
  <1>7. PICK first : first = after.next[Dpr!Kids(n)]
    OBVIOUS
  <1>8. Enter(what, h, n, memory, first, None)
    BY <1>5, <1>6, <1>7 DEF Dpr!Begin, Dpr!Enter, Enter
  <1>9. /\ what \in {"drop", "remove", "update", "demote"}
        /\ what \in {"drop", "demote"} <=> n = root[h]
        /\ content' = IF what \in {"drop", "remove"} THEN [content EXCEPT ![h] = @ \ {n}] ELSE content
    OBVIOUS
  <1>10. Placed' = Placed /\ n \in Placed
    BY <1>1, <1>8, <1>9, EnterEffect
  <1>11. PICK v : Forestry(v, Below(u, n), {})' /\ v = Under(u, None, n)
    BY <1>1, <1>8, <1>9, EnterEffect
  <1>12. PICK G : G = Placed
    OBVIOUS
  <1>13. PICK H : H = G \ {n}
    OBVIOUS
  <1>14. /\ after \in DprMemory /\ DprRings(after, v, G \ {n})
         /\ DprRing(after, Dpr!Kids(n), Below(u, n))
    BY <1>1, <1>2, <1>3, <1>4, <1>10, <1>11, <1>12, DprDetached
  <1>15. DprRings(after, v, H) /\ H = Placed \ {n}
    BY <1>12, <1>13, <1>14
  <1> QED BY <1>1, <1>2, <1>5, <1>10, <1>11, <1>14, <1>15, DprEntered

(* Between calls a root has no parent, and another node points to its own. *)
LEMMA DprParent ==
  ASSUME NEW u, NEW C, NEW A, DprHolds(u, C, A), pc = "idle", NEW h \in Heaps,
         NEW n \in content[h]
  PROVE  /\ n \in Nodes /\ links.parent[n] = u[n]
         /\ n = root[h] <=> u[n] = None
         /\ u[n] # None => u[n] \in Nodes \ {n}
  <1>1. /\ Forestry(u, C, A) /\ links \in DprMemory /\ DprRings(links, u, Placed)
        /\ node = None /\ Placed \in SUBSET Nodes /\ u \in Parents /\ TypeOK
    BY DprIdle
  <1>2. n \in Nodes /\ n \in Placed
    BY <1>1, PlacedIdle DEF TypeOK
  <1>3. n = root[h] => u[n] = None
    BY <1>1, <1>2, IdleFacts, NoneAssumption
  <1>4. n # root[h] => u[n] \in content[h]
    BY <1>1, IdleFacts
  <1>5. n # root[h] => u[n] \in Nodes /\ u[n] \in Placed
    BY <1>1, <1>4, PlacedIdle DEF TypeOK
  <1>6. u[n] # n
    BY <1>1, <1>2, ShapeFacts DEF Forestry
  <1>7. links.parent[n] = u[n]
    <2>1. CASE n = root[h]
      BY <1>1, <1>2, <1>3, <2>1 DEF DprRings
    <2>2. CASE n # root[h]
      <3>1. PICK p : p = u[n]
        OBVIOUS
      <3>2. n \in Below(u, p) /\ p \in Placed
        BY <1>2, <1>5, <2>2, <3>1 DEF Below
      <3>3. links.parent[n] = p
        BY <1>1, <3>2 DEF DprRings
      <3> QED BY <3>1, <3>3
    <2> QED BY <2>1, <2>2
  <1> QED BY <1>2, <1>3, <1>5, <1>6, <1>7, NoneAssumption

LEMMA DprExtract ==
  ASSUME NEW u, NEW C, NEW A, DprHolds(u, C, A), NEW h \in Heaps, Dpr!Extract(h)
  PROVE  DprInv'
  <1>1. PICK n : n = root[h]
    OBVIOUS
  <1>2. /\ pc = "idle" /\ h \in live /\ n # None /\ key' = key
        /\ out' = [NoneOut EXCEPT ![h] = n]
        /\ content' = [content EXCEPT ![h] = @ \ {n}]
        /\ Dpr!Begin("drop", h, n, links)
    BY <1>1 DEF Dpr!Extract, Dpr!Extracting, Dpr!NoneOut, NoneOut
  <1>3. Forestry(u, C, A) /\ TypeOK
    BY DEF DprHolds, Forestry
  <1>4. n \in content[h] /\ n \in Nodes
    BY <1>1, <1>2, <1>3, IdleFacts DEF TypeOK
  <1>5. /\ key' \in [Nodes -> Keys] /\ \A x \in Nodes \ {n} : key'[x] = key[x]
        /\ out' \in [Heaps -> Nodes \cup {None}]
    BY <1>2, <1>3, <1>4 DEF TypeOK, NoneOut
  <1> QED BY <1>1, <1>2, <1>4, <1>5, DprRootEntered

LEMMA DprRemove ==
  ASSUME NEW u, NEW C, NEW A, DprHolds(u, C, A), NEW h \in Heaps, NEW n \in Nodes, Dpr!Remove(h, n)
  PROVE  DprInv'
  <1>1. /\ pc = "idle" /\ h \in live /\ n \in content[h] /\ key' = key
        /\ out' = NoneOut
        /\ content' = [content EXCEPT ![h] = @ \ {n}]
        /\ links.parent[n] = None => Dpr!Begin("drop", h, n, links)
        /\ links.parent[n] # None => Dpr!BeginDetached("remove", h, n)
    BY DEF Dpr!Remove, Dpr!Removing, Dpr!NoneOut, NoneOut
  <1>2. TypeOK
    BY DEF DprHolds, Forestry
  <1>3. /\ key' \in [Nodes -> Keys] /\ \A x \in Nodes \ {n} : key'[x] = key[x]
        /\ out' \in [Heaps -> Nodes \cup {None}]
    BY <1>1, <1>2 DEF TypeOK, NoneOut
  <1>4. links.parent[n] = None <=> n = root[h]
    BY <1>1, DprParent, NoneAssumption
  <1>5. CASE n = root[h]
    BY <1>1, <1>3, <1>4, <1>5, DprRootEntered
  <1>6. CASE n # root[h]
    BY <1>1, <1>3, <1>4, <1>6, DprDetachedEntered
  <1> QED BY <1>5, <1>6

LEMMA DprPromote ==
  ASSUME NEW u, NEW C, NEW A, DprHolds(u, C, A), NEW h \in Heaps, NEW n \in Nodes, NEW k \in Keys,
         Dpr!Promote(h, n, k)
  PROVE  DprInv'
  <1>1. /\ pc = "idle" /\ h \in live /\ n \in content[h] /\ k <= key[n]
        /\ key' = [key EXCEPT ![n] = k]
        /\ out' = NoneOut /\ content' = content
        /\ Dpr!StaysBelow(n) => UNCHANGED <<live, root, cnt, links, Locals>>
        /\ ~ Dpr!StaysBelow(n) => Dpr!BeginDetached("update", h, n)
    BY DEF Dpr!Promote, Dpr!Rekeying, Dpr!NoneOut, NoneOut, Dpr!Locals, Locals
  <1>2. /\ Forestry(u, C, A) /\ links \in DprMemory /\ DprRings(links, u, Placed)
        /\ node = None /\ TypeOK /\ "dprheap" \in Kinds
    BY <1>1, DprIdle
  <1>3. links.parent[n] = u[n] /\ (n = root[h] <=> u[n] = None)
    BY <1>1, DprParent
  <1>4. /\ key' \in [Nodes -> Keys] /\ \A x \in Nodes \ {n} : key'[x] = key[x]
        /\ out' \in [Heaps -> Nodes \cup {None}] /\ key'[n] = k
    BY <1>1, <1>2 DEF TypeOK, NoneOut
  <1>5. CASE Dpr!StaysBelow(n)
    <2>1. UNCHANGED <<live, root, cnt, links, Locals>> /\ Rekeying(h, n, k)
      BY <1>1, <1>5 DEF Rekeying
    <2>2. ASSUME u[n] \in Nodes PROVE key'[u[n]] <= key'[n]
      BY <1>3, <1>5, <2>2, NoneAssumption DEF Dpr!StaysBelow
    <2>3. Forestry(u, {}, {})'
      BY <1>1, <1>2, <2>1, <2>2, ForestryRekey
    <2>4. /\ pc' = "idle" /\ node' = None /\ links' = links
          /\ UNCHANGED <<content, heap, node>>
      BY <1>1, <1>2, <2>1 DEF Locals
    <2>5. Placed' = Placed
      BY <2>4, PlacedKept
    <2> QED BY <1>2, <2>3, <2>4, <2>5, DprIdleNext
  <1>6. CASE ~ Dpr!StaysBelow(n)
    <2>1. n # root[h] /\ content' = IF "update" = "remove" THEN [content EXCEPT ![h] = @ \ {n}] ELSE content
      BY <1>1, <1>3, <1>6 DEF Dpr!StaysBelow
    <2> QED BY <1>1, <1>4, <1>6, <2>1, DprDetachedEntered
  <1> QED BY <1>5, <1>6

LEMMA DprDemote ==
  ASSUME NEW u, NEW C, NEW A, DprHolds(u, C, A), NEW h \in Heaps, NEW n \in Nodes, NEW k \in Keys,
         Dpr!Demote(h, n, k)
  PROVE  DprInv'
  <1>1. /\ pc = "idle" /\ h \in live /\ n \in content[h]
        /\ key' = [key EXCEPT ![n] = k]
        /\ out' = NoneOut /\ content' = content
        /\ links.parent[n] = None => Dpr!Begin("demote", h, n, links)
        /\ links.parent[n] # None => Dpr!BeginDetached("update", h, n)
    BY DEF Dpr!Demote, Dpr!Rekeying, Dpr!NoneOut, NoneOut
  <1>2. TypeOK
    BY DEF DprHolds, Forestry
  <1>3. /\ key' \in [Nodes -> Keys] /\ \A x \in Nodes \ {n} : key'[x] = key[x]
        /\ out' \in [Heaps -> Nodes \cup {None}]
    BY <1>1, <1>2 DEF TypeOK, NoneOut
  <1>4. links.parent[n] = None <=> n = root[h]
    BY <1>1, DprParent, NoneAssumption
  <1>5. /\ content' = IF "demote" = "drop" THEN [content EXCEPT ![h] = @ \ {n}] ELSE content
        /\ content' = IF "update" = "remove" THEN [content EXCEPT ![h] = @ \ {n}] ELSE content
    BY <1>1
  <1>6. CASE n = root[h]
    BY <1>1, <1>3, <1>4, <1>5, <1>6, DprRootEntered
  <1>7. CASE n # root[h]
    BY <1>1, <1>3, <1>4, <1>5, <1>7, DprDetachedEntered
  <1> QED BY <1>6, <1>7

-----------------------------------------------------------------------------
(* What is known once two children of the node are joined. *)
DprTwo(m, u, v, w, l, after) ==
  /\ w # l /\ w \in Nodes /\ v[w] = node
  /\ after \in DprMemory
  /\ DprRings(after, v, Placed \ {node})
  /\ \A x \in Below(u, node) \ {l} : SameAt(m, after, x)
  /\ SameAt(m, after, Stack)
  /\ after.parent[node] = m.parent[node]
  /\ Below(v, node) # {}

LEMMA DprTwoJoined ==
  ASSUME NEW u, NEW C, NEW A, DprHolds(u, C, A), pc # "idle",
         NEW a \in Below(u, node), NEW c \in Below(u, node), a # c,
         NEW after, after = Dpr!Join(links, a, c)
  PROVE  /\ DprTwo(links, u, Linking(u, a, c), Winner(key, a, c), Loser(key, a, c), after)
         /\ {Winner(key, a, c), Loser(key, a, c)} = {a, c}
  <1>1. PICK m : m = links
    OBVIOUS
  <1>2. PICK v : v = Linking(u, a, c)
    OBVIOUS
  <1>3. PICK w : w = Winner(key, a, c)
    OBVIOUS
  <1>4. PICK l : l = Loser(key, a, c)
    OBVIOUS
  <1>5. PICK G : G = Placed \ {node}
    OBVIOUS
  <1>6. Forestry(u, C, A) /\ m \in DprMemory /\ DprRings(m, u, G) /\ TypeOK /\ "dprheap" \in Kinds
    BY <1>1, <1>5 DEF DprHolds, DprLinked, Forestry
  <1>7. PICK n : n = node
    OBVIOUS
  <1>8. /\ u \in Parents /\ n \in Nodes /\ u[n] = None /\ G \in SUBSET Nodes /\ n \notin G
        /\ a \in Nodes /\ u[a] = n /\ a \in G /\ a # n
        /\ c \in Nodes /\ u[c] = n /\ c \in G /\ c # n
    <2>1. \A x \in Below(u, node) : u[x] = node /\ x # node /\ x \in Placed \ {node}
      BY <1>6, PassFacts
    <2>2. u[node] = None
      BY <1>6, PassNode
    <2> QED BY <1>6, <1>7, <1>5, <2>1, <2>2, PassFacts, PlacedFacts
  <1>9. DprOne(m, u, v, G, w, l, after) /\ {w, l} = {a, c}
    <2>1. after = Dpr!Join(m, a, c) /\ u[a] \notin G /\ u[c] \notin G
      BY <1>1, <1>8
    <2> QED BY <1>2, <1>3, <1>4, <1>6, <1>8, <2>1, DprJoined
  <1>10. /\ w # l /\ w \in Nodes /\ l \in Nodes
         /\ after \in DprMemory
         /\ DprRings(after, v, G)
         /\ \A x \in Dpr!Cells \ (Below(u, w) \cup {Dpr!Kids(w), l}) : SameAt(m, after, x)
         /\ \A x \in Nodes \ {l} : after.parent[x] = m.parent[x]
    BY <1>9 DEF DprOne
  <1>11. v[w] = n
    BY <1>8, <1>9, <1>10, <1>2, <1>3, <1>4 DEF Linking, Parents
  <1>12. after.parent[node] = m.parent[node]
    BY <1>7, <1>8, <1>9, <1>10
  <1>13. Below(v, node) # {}
    BY <1>7, <1>10, <1>11 DEF Below
  <1>14. SameAt(m, after, Stack)
    <2>1. Stack \in Dpr!Cells /\ Stack # Dpr!Kids(w) /\ Stack # l /\ Stack \notin Nodes
      BY <1>6, <1>10, CellFacts
    <2>2. Stack \notin Below(u, w)
      BY <2>1 DEF Below
    <2> QED BY <1>10, <2>1, <2>2
  <1>15. \A x \in Below(u, node) \ {l} : SameAt(m, after, x)
    <2> SUFFICES ASSUME NEW x \in Below(u, node), x # l PROVE SameAt(m, after, x)
      OBVIOUS
    <2>1. x \in Nodes /\ u[x] = n /\ n # w
      BY <1>7, <1>8, <1>9 DEF Below
    <2>2. x \in Dpr!Cells /\ x # Dpr!Kids(w)
      BY <1>6, <1>10, <2>1, CellFacts
    <2>3. x \notin Below(u, w)
      BY <2>1 DEF Below
    <2> QED BY <1>10, <2>2, <2>3
  <1>16. DprTwo(m, u, v, w, l, after)
    BY <1>5, <1>7, <1>10, <1>11, <1>12, <1>13, <1>14, <1>15 DEF DprTwo
  <1> QED BY <1>9, <1>16, <1>1, <1>2, <1>3, <1>4

(* A node goes to the front of the list on the stack, which holds the nodes *)
(* of A, children of the node like it.                                     *)
DprPut(m, v, G, A, w, after) ==
  /\ after \in DprMemory /\ after.parent = m.parent
  /\ DprRings(after, v, G)
  /\ DprRing(after, Stack, A \cup {w})
  /\ \A x \in Nodes \ (A \cup {w}) : SameAt(m, after, x)

LEMMA DprStacked ==
  ASSUME "dprheap" \in Kinds, NEW m \in DprMemory, NEW v \in Parents, NEW G \in SUBSET Nodes,
         DprRings(m, v, G), NEW A \in SUBSET Nodes, DprRing(m, Stack, A),
         NEW w \in Nodes, w \notin A, \A x \in A \cup {w} : v[x] \notin G,
         NEW after, after = Dpr!AppendAfter(m, Stack, w)
  PROVE  DprPut(m, v, G, A, w, after)
  <1>1. /\ Stack \in Dpr!Cells /\ Stack \notin Nodes /\ w \in Dpr!Cells /\ A \in SUBSET Dpr!Cells
        /\ w \notin A \cup {Stack}
    BY CellFacts
  <1>2. /\ after \in DprMemory /\ after.parent = m.parent
        /\ DprRing(after, Stack, A \cup {w})
        /\ \A x \in Dpr!Cells \ (A \cup {Stack, w}) : SameAt(m, after, x)
    <2>1. PICK h : h = Stack
      OBVIOUS
    <2>2. /\ h \in Dpr!Cells /\ w \in Dpr!Cells /\ A \in SUBSET Dpr!Cells /\ w \notin A \cup {h}
          /\ DprRing(m, h, A) /\ after = Dpr!AppendAfter(m, h, w)
      BY <1>1, <2>1
    <2>3. /\ after \in DprMemory /\ after.parent = m.parent
          /\ DprRing(after, h, A \cup {w})
          /\ \A x \in Dpr!Cells \ (A \cup {h, w}) : SameAt(m, after, x)
      BY <2>2, AppendAfterFacts
    <2> QED BY <2>1, <2>3
  <1>3. PICK X : X = A \cup {Stack, w}
    OBVIOUS
  <1>4. PICK Y : Y = {}
    OBVIOUS
  <1>5. DprElse(m, after, X, Y)
    BY <1>2, <1>3 DEF DprElse
  <1>6. DprClear(after, v, G, X, Y)
    <2>1. \A p \in G : Dpr!Kids(p) \notin X /\ (v[p] = None => p \notin Y \/ after.parent[p] = None)
      BY <1>1, <1>3, <1>4, CellFacts
    <2>2. ASSUME NEW p \in G, NEW x \in Below(v, p) PROVE x \notin X /\ x \notin Y
      <3>1. x \in Nodes /\ v[x] = p
        BY DEF Below
      <3> QED BY <1>1, <1>3, <1>4, <3>1
    <2> QED BY <2>1, <2>2 DEF DprClear
  <1>7. DprRings(after, v, G)
    BY <1>5, <1>6, DprOutside
  <1>8. \A x \in Nodes \ (A \cup {w}) : SameAt(m, after, x)
    BY <1>1, <1>2, CellFacts
  <1> QED BY <1>2, <1>7, <1>8 DEF DprPut

(* The nodes that are left are fewer. *)
DprPassed(u, C) ==
  \E v, D, B : /\ Forestry(v, D, B)' /\ DprLinked(v, D, B)'
               /\ pc' = pc => Cardinality(Sub(v, D)) < Cardinality(Sub(u, C))

(* The chain of nodes left is followed. *)
LEMMA DprFollows ==
  ASSUME NEW C, NEW m, NEW c, NEW end, Strung(m.next, c, C, end), c # end, C \in SUBSET Nodes,
         end \notin Nodes
  PROVE  c \in C /\ Strung(m.next, m.next[c], C \ {c}, end)
  <1>1. PICK next : next = m.next
    OBVIOUS
  <1>2. Strung(next, c, C, end) /\ c # end /\ end \notin C
    BY <1>1
  <1>3. c \in C /\ Strung(next, next[c], C \ {c}, end)
    BY <1>2, StrungNext
  <1> QED BY <1>1, <1>3

(* It is kept if nothing changes there. *)
LEMMA DprChainKept ==
  ASSUME NEW m, NEW after, NEW c, NEW C, NEW end, Strung(m.next, c, C, end),
         \A x \in C : SameAt(m, after, x)
  PROVE  Strung(after.next, c, C, end)
  <1>1. PICK next, late : next = m.next /\ late = after.next
    OBVIOUS
  <1>2. Strung(next, c, C, end) /\ \A x \in C : late[x] = next[x]
    BY <1>1 DEF SameAt
  <1>3. Strung(late, c, C, end)
    BY <1>2, StrungKept
  <1> QED BY <1>1, <1>3

LEMMA DprPair ==
  ASSUME NEW u, NEW C, NEW A, DprHolds(u, C, A), Dpr!Pair
  PROVE  DprPassed(u, C)
  <1>1. /\ Forestry(u, C, A) /\ links \in DprMemory /\ "dprheap" \in Kinds
        /\ DprRings(links, u, Placed \ {node})
        /\ pc = "pair" /\ cursor # Dpr!Kids(node)
        /\ Strung(links.next, cursor, C, Dpr!Kids(node))
        /\ DprRing(links, Stack, A) /\ acc = None
        /\ call = "demote" => links.parent[node] = None
        /\ Below(u, node) = {} => DprRing(links, Dpr!Kids(node), {})
    BY DEF DprHolds, DprLinked, Dpr!Pair
  <1>2. PICK m : m = links
    OBVIOUS
  <1>3. PICK c : c = cursor
    OBVIOUS
  <1>4. PICK t : t = twin
    OBVIOUS
  <1>5. PICK n : n = node
    OBVIOUS
  <1>6. PICK k : k = Dpr!Kids(node)
    OBVIOUS
  <1>7. /\ u \in Parents /\ n \in Nodes /\ Placed \in SUBSET Nodes
        /\ C \in SUBSET Nodes /\ A \in SUBSET Nodes /\ C \cap A = {} /\ t \notin C \cup A
        /\ t \in Nodes \cup {None}
        /\ \A x \in (C \cup A) \cup ({t} \cap Nodes) : u[x] = n /\ x # n /\ x \in Below(u, node)
    BY <1>1, <1>4, <1>5, PassFacts, PlacedFacts
  <1>8. k \notin Nodes
    BY <1>1, <1>5, <1>6, <1>7, CellFacts
  <1>9. c \in C /\ Strung(m.next, m.next[c], C \ {c}, k)
    <2>1. Strung(m.next, c, C, k) /\ c # k
      BY <1>1, <1>2, <1>3, <1>6
    <2> QED BY <1>7, <1>8, <2>1, DprFollows
  <1>10. /\ cursor' = m.next[c] /\ pc' = pc /\ acc' = acc /\ UNCHANGED Elsewhere
         /\ t = None => twin' = c /\ links' = m
         /\ t # None => /\ twin' = None
                        /\ links' = Dpr!AppendAfter(Dpr!Join(m, t, c), Stack, Winner(key, t, c))
    BY <1>1, <1>2, <1>3, <1>4 DEF Dpr!Pair, Elsewhere, Dpr!Winner, Winner
  <1>11. /\ node' = node /\ pc' = "pair" /\ call' = call /\ acc' = None
         /\ pc' # "fold" /\ pc' # "idle"
    BY <1>1, <1>10 DEF Elsewhere
  <1>12. CASE t = None
    <2>1. /\ Placed' = Placed /\ Forestry(u, C \ {c}, A)'
          /\ Cardinality(Sub(u, C \ {c})) < Cardinality(Sub(u, C))
      BY <1>1, <1>4, <1>9, <1>10, <1>12, TwinEffect
    <2>2. DprLinked(u, C \ {c}, A)'
      BY <1>1, <1>2, <1>6, <1>9, <1>10, <1>11, <1>12, <2>1 DEF DprLinked, DprRings, DprRing
    <2> QED BY <2>1, <2>2 DEF DprPassed
  <1>13. CASE t # None
    <2>1. PICK w : w = Winner(key, t, c)
      OBVIOUS
    <2>2. PICK l : l = Loser(key, t, c)
      OBVIOUS
    <2>3. PICK B : B = (A \ {t}) \cup {w}
      OBVIOUS
    <2>4. /\ t \in Below(u, node) /\ c \in Below(u, node) /\ t # c /\ t \in Nodes /\ c \in Nodes
          /\ pc = "pair" /\ twin # None /\ t = twin /\ twin' = None /\ pc # "idle"
      BY <1>1, <1>4, <1>7, <1>9, <1>10, <1>13
    <2>5. Placed' = Placed
      BY <1>10, PlacedKept DEF Elsewhere
    <2>6. PICK v : /\ v = Linking(u, t, c)
                   /\ Forestry(v, C \ {c}, B)'
                   /\ Cardinality(Sub(v, C \ {c})) < Cardinality(Sub(u, C))
      <3>1. B = (A \ {t}) \cup {Winner(key, t, c)}
        BY <2>1, <2>3
      <3> QED BY <1>1, <1>9, <1>10, <2>4, <3>1, PassEffect
    <2>7. PICK joined : joined = Dpr!Join(m, t, c)
      OBVIOUS
    <2>8. PICK after : after = Dpr!AppendAfter(joined, Stack, w)
      OBVIOUS
    <2>9. PICK G : G = Placed \ {node}
      OBVIOUS
    <2>10. DprTwo(m, u, v, w, l, joined) /\ {w, l} = {t, c}
      <3>1. /\ DprTwo(links, u, Linking(u, t, c), Winner(key, t, c), Loser(key, t, c), joined)
            /\ {Winner(key, t, c), Loser(key, t, c)} = {t, c}
        BY <1>2, <2>4, <2>7, DprTwoJoined
      <3> QED BY <1>2, <2>1, <2>2, <2>6, <3>1
    <2>11. /\ w # l /\ w \in Nodes /\ v[w] = n
           /\ joined \in DprMemory
           /\ DprRings(joined, v, G)
           /\ \A x \in Below(u, node) \ {l} : SameAt(m, joined, x)
           /\ SameAt(m, joined, Stack)
           /\ joined.parent[node] = m.parent[node]
           /\ Below(v, node) # {}
      BY <1>5, <2>9, <2>10 DEF DprTwo
    <2>12. /\ B = A \cup {w} /\ w \notin A /\ l \notin A /\ l \in Nodes
           /\ \A x \in C \ {c} : x # l /\ x \notin A /\ x # w
      BY <1>7, <1>9, <2>3, <2>4, <2>10
    <2>13. DprRing(joined, Stack, A)
      <3>1. \A x \in A : SameAt(m, joined, x)
        BY <1>7, <2>11, <2>12
      <3>2. DprRing(m, Stack, A)
        BY <1>1, <1>2
      <3> QED BY <2>11, <3>1, <3>2, DprRingKept
    <2>14. v \in Parents /\ \A x \in A \cup {w} : v[x] = n
      <3>1. v = Under(u, w, l)
        BY <2>1, <2>2, <2>6 DEF Linking, Under
      <3> QED BY <1>7, <2>11, <2>12, <3>1 DEF Under, Parents
    <2>15. DprPut(joined, v, G, A, w, after)
      <3>1. n \notin G /\ G \in SUBSET Nodes /\ \A x \in A \cup {w} : v[x] \notin G
        BY <1>5, <1>7, <2>9, <2>14
      <3> QED BY <1>1, <1>7, <2>8, <2>11, <2>12, <2>13, <2>14, <3>1, DprStacked
    <2>16. /\ after \in DprMemory /\ after.parent = joined.parent
           /\ DprRings(after, v, G)
           /\ DprRing(after, Stack, B)
           /\ \A x \in Nodes \ (A \cup {w}) : SameAt(joined, after, x)
      BY <2>12, <2>15 DEF DprPut
    <2>17. Strung(after.next, m.next[c], C \ {c}, k)
      <3>1. \A x \in C \ {c} : SameAt(m, joined, x) /\ SameAt(joined, after, x)
        BY <1>7, <2>11, <2>12, <2>16
      <3>2. \A x \in C \ {c} : SameAt(m, after, x)
        BY <3>1 DEF SameAt
      <3> QED BY <1>9, <3>2, DprChainKept
    <2>18. links' = after
      BY <1>10, <1>13, <2>1, <2>7, <2>8
    <2>19. call = "demote" => after.parent[node] = None
      BY <1>1, <1>2, <2>11, <2>16
    <2>20. DprLinked(v, C \ {c}, B)'
      BY <1>1, <1>6, <1>10, <1>11, <2>5, <2>9, <2>11, <2>16, <2>17, <2>18, <2>19
         DEF DprLinked, DprRings, DprRing
    <2> QED BY <2>6, <2>20 DEF DprPassed
  <1> QED BY <1>12, <1>13
LEMMA DprPairEnds ==
  ASSUME NEW u, NEW C, NEW A, DprHolds(u, C, A), Dpr!PairEnds
  PROVE  DprPassed(u, C)
  <1>1. /\ Forestry(u, C, A) /\ links \in DprMemory /\ "dprheap" \in Kinds
        /\ DprRings(links, u, Placed \ {node})
        /\ pc = "pair" /\ cursor = Dpr!Kids(node)
        /\ Strung(links.next, Dpr!Kids(node), C, Dpr!Kids(node))
        /\ DprRing(links, Stack, A)
        /\ call = "demote" => links.parent[node] = None
        /\ Below(u, node) = {} => DprRing(links, Dpr!Kids(node), {})
    BY DEF DprHolds, DprLinked, Dpr!PairEnds
  <1>2. PICK m : m = links
    OBVIOUS
  <1>3. PICK t : t = twin
    OBVIOUS
  <1>4. PICK k : k = Dpr!Kids(node)
    OBVIOUS
  <1>5. C = {}
    BY <1>1, StrungEmpty
  <1>6. /\ A \in SUBSET Nodes /\ t \notin A /\ t \in Nodes \cup {None}
        /\ node \in Nodes /\ u \in Parents /\ Placed \in SUBSET Nodes
        /\ \A x \in A \cup ({t} \cap Nodes) : u[x] = node
        /\ Below(u, node) = A \cup ({t} \cap Nodes)
    BY <1>1, <1>3, <1>5, PassFacts, PlacedFacts
  <1>7. PICK after : after = IF t = None THEN m ELSE Dpr!AppendAfter(m, Stack, t)
    OBVIOUS
  <1>8. PICK first : first = after.next[Stack]
    OBVIOUS
  <1>9. /\ links' = after /\ twin' = None /\ pc' = "fold" /\ UNCHANGED Elsewhere
        /\ acc' = IF first = Stack THEN None ELSE first
        /\ cursor' = IF first = Stack THEN Stack ELSE after.next[first]
    <2>1. links' = after
      BY <1>2, <1>3, <1>7 DEF Dpr!PairEnds
    <2>2. /\ twin' = None /\ pc' = "fold" /\ UNCHANGED Elsewhere
          /\ IF Dpr!Empty(links', Stack)
             THEN acc' = None /\ cursor' = Stack
             ELSE acc' = links'.next[Stack] /\ cursor' = links'.next[acc']
      BY DEF Dpr!PairEnds, Elsewhere
    <2>3. Dpr!Empty(after, Stack) <=> first = Stack
      BY <1>8 DEF Dpr!Empty
    <2> QED BY <1>8, <2>1, <2>2, <2>3
  <1>10. PICK G : G = Placed \ {node}
    OBVIOUS
  <1>11. PICK T : T = A \cup ({t} \cap Nodes)
    OBVIOUS
  <1>12. /\ after \in DprMemory /\ after.parent = m.parent
         /\ DprRings(after, u, G)
         /\ DprRing(after, Stack, T)
         /\ t = None => after = m
    <2>1. CASE t = None
      BY <1>1, <1>2, <1>7, <1>10, <1>11, <2>1, NoneAssumption
    <2>2. CASE t # None
      <3>1. /\ after = Dpr!AppendAfter(m, Stack, t) /\ t \in Nodes /\ T = A \cup {t}
            /\ node \notin G /\ G \in SUBSET Nodes /\ DprRings(m, u, G) /\ DprRing(m, Stack, A)
            /\ m \in DprMemory
        BY <1>1, <1>2, <1>6, <1>7, <1>10, <1>11, <2>2
      <3>2. \A x \in A \cup {t} : u[x] \notin G
        BY <1>6, <3>1
      <3>3. DprPut(m, u, G, A, t, after)
        BY <1>1, <1>6, <3>1, <3>2, DprStacked
      <3> QED BY <2>2, <3>1, <3>3 DEF DprPut
    <2> QED BY <2>1, <2>2
  <1>13. PICK B : B = IF first = Stack THEN {} ELSE {first}
    OBVIOUS
  <1>14. PICK D : D = T \ B
    OBVIOUS
  <1>15. PICK c : c = IF first = Stack THEN Stack ELSE after.next[first]
    OBVIOUS
  <1>16. /\ first # Stack => first \in T
         /\ Strung(after.next, c, D, Stack) /\ (first = Stack => D = {})
    <2>1. PICK next, prev, h : next = after.next /\ prev = after.prev /\ h = Stack
      OBVIOUS
    <2>2. Ring(next, prev, h, T) /\ first = next[h] /\ h \notin T
      BY <1>8, <1>12, <2>1 DEF DprRing, Ring
    <2>3. first = h <=> T = {}
      BY <2>2, RingEmpty
    <2>4. Strung(next, first, T, h)
      BY <2>2, RingStrung
    <2>5. CASE first = h
      BY <1>13, <1>14, <1>15, <2>1, <2>3, <2>5, StrungNothing
    <2>6. CASE first # h
      <3>1. first \in T /\ Strung(next, next[first], T \ {first}, h)
        BY <2>2, <2>4, <2>6, StrungNext
      <3> QED BY <1>13, <1>14, <1>15, <2>1, <2>6, <3>1
    <2> QED BY <2>5, <2>6
  <1>17. T \in SUBSET Nodes /\ Stack \notin Nodes
    BY <1>1, <1>6, <1>11, CellFacts
  <1>18. Placed' = Placed /\ Forestry(u, D, B)'
    <2>1. D \cap B = {} /\ D \cup B = A \cup ({twin} \cap Nodes)
      BY <1>3, <1>11, <1>13, <1>14, <1>16
    <2>2. Forestry(u, {}, A) /\ pc = "pair" /\ pc' = "fold" /\ twin' = None /\ UNCHANGED Elsewhere
      BY <1>1, <1>5, <1>9
    <2> QED BY <2>1, <2>2, FoldEffect
  <1>19. DprLinked(u, D, B)'
    <2>1. node' = node /\ cursor' = c /\ call' = call
      BY <1>9, <1>15 DEF Elsewhere
    <2>2. B = {acc'} \cap Nodes /\ acc' \in Nodes \cup {None} /\ (acc' = None => D = {})
      BY <1>9, <1>13, <1>16, <1>17, NoneAssumption
    <2>3. call = "demote" => after.parent[node] = None
      BY <1>1, <1>2, <1>12
    <2>4. Below(u, node) = {} => DprRing(after, k, {})
      <3> SUFFICES ASSUME Below(u, node) = {} PROVE DprRing(after, k, {})
        OBVIOUS
      <3>1. t = None
        BY <1>6
      <3> QED BY <1>1, <1>2, <1>4, <1>12, <3>1
    <2>5. pc' # "pair" /\ pc' # "idle"
      BY <1>9
    <2> QED BY <1>1, <1>4, <1>9, <1>10, <1>12, <1>16, <1>18, <2>1, <2>2, <2>3, <2>4, <2>5
         DEF DprLinked, DprRings, DprRing
  <1> QED BY <1>1, <1>9, <1>18, <1>19 DEF DprPassed

LEMMA DprFold ==
  ASSUME NEW u, NEW C, NEW A, DprHolds(u, C, A), Dpr!Fold
  PROVE  DprPassed(u, C)
  <1>1. /\ Forestry(u, C, A) /\ links \in DprMemory /\ "dprheap" \in Kinds
        /\ DprRings(links, u, Placed \ {node})
        /\ pc = "fold" /\ cursor # Stack
        /\ Strung(links.next, cursor, C, Stack)
        /\ A = {acc} \cap Nodes
        /\ acc \in Nodes \cup {None}
        /\ acc = None => C = {}
        /\ call = "demote" => links.parent[node] = None
    BY DEF DprHolds, DprLinked, Dpr!Fold
  <1>2. PICK m : m = links
    OBVIOUS
  <1>3. PICK c : c = cursor
    OBVIOUS
  <1>4. PICK t : t = acc
    OBVIOUS
  <1>5. PICK k : k = Stack
    OBVIOUS
  <1>6. /\ u \in Parents /\ C \in SUBSET Nodes /\ A \in SUBSET Nodes /\ C \cap A = {} /\ k \notin Nodes
        /\ \A x \in C \cup A : x \in Below(u, node)
    BY <1>1, <1>5, PassFacts, CellFacts
  <1>7. c \in C /\ Strung(m.next, m.next[c], C \ {c}, k)
    <2>1. Strung(m.next, c, C, k) /\ c # k
      BY <1>1, <1>2, <1>3, <1>5
    <2> QED BY <1>6, <2>1, DprFollows
  <1>8. t \in Nodes /\ A = {t} /\ t # c /\ c \in Nodes
    BY <1>1, <1>4, <1>6, <1>7
  <1>9. PICK w : w = Winner(key, t, c)
    OBVIOUS
  <1>10. PICK after : after = Dpr!Join(m, t, c)
    OBVIOUS
  <1>11. /\ cursor' = m.next[c] /\ pc' = pc /\ twin' = twin /\ UNCHANGED Elsewhere
         /\ acc' = w /\ links' = after
    BY <1>2, <1>3, <1>4, <1>9, <1>10 DEF Dpr!Fold, Elsewhere, Dpr!Winner, Winner
  <1>12. pc' = "fold" /\ twin' = None /\ node' = node /\ call' = call /\ pc' # "pair" /\ pc' # "idle"
    BY <1>1, <1>11, PassFacts DEF Elsewhere
  <1>13. PICK B : B = {w}
    OBVIOUS
  <1>14. /\ Placed' = Placed
         /\ \E v : /\ v = Linking(u, t, c)
                   /\ Forestry(v, C \ {c}, B)'
                   /\ Cardinality(Sub(v, C \ {c})) < Cardinality(Sub(u, C))
    <2>1. B = (A \ {t}) \cup {Winner(key, t, c)}
      BY <1>8, <1>9, <1>13
    <2>2. pc # "idle" /\ pc' = pc
      BY <1>1, <1>11
    <2> QED BY <1>1, <1>7, <1>8, <1>11, <1>12, <2>1, <2>2, PassEffect
  <1>15. PICK v : /\ v = Linking(u, t, c)
                  /\ Forestry(v, C \ {c}, B)'
                  /\ Cardinality(Sub(v, C \ {c})) < Cardinality(Sub(u, C))
    BY <1>14
  <1>16. PICK l : l = Loser(key, t, c)
    OBVIOUS
  <1>17. PICK G : G = Placed \ {node}
    OBVIOUS
  <1>18. t \in Below(u, node) /\ c \in Below(u, node) /\ t # c /\ pc # "idle"
    BY <1>1, <1>6, <1>7, <1>8
  <1>19. DprTwo(m, u, v, w, l, after) /\ {w, l} = {t, c}
    <2>1. /\ DprTwo(links, u, Linking(u, t, c), Winner(key, t, c), Loser(key, t, c), after)
          /\ {Winner(key, t, c), Loser(key, t, c)} = {t, c}
      BY <1>2, <1>10, <1>18, DprTwoJoined
    <2> QED BY <1>2, <1>9, <1>15, <1>16, <2>1
  <1>20. /\ w # l /\ w \in Nodes
         /\ after \in DprMemory
         /\ DprRings(after, v, G)
         /\ \A x \in Below(u, node) \ {l} : SameAt(m, after, x)
         /\ after.parent[node] = m.parent[node]
         /\ Below(v, node) # {}
    BY <1>17, <1>19 DEF DprTwo
  <1>21. Strung(after.next, m.next[c], C \ {c}, k)
    <2>1. \A x \in C \ {c} : x \in Below(u, node) \ {l}
      BY <1>6, <1>8, <1>19
    <2>2. \A x \in C \ {c} : SameAt(m, after, x)
      BY <1>20, <2>1
    <2> QED BY <1>7, <2>2, DprChainKept
  <1>22. DprLinked(v, C \ {c}, B)'
    <2>1. B = {w} \cap Nodes /\ w \in Nodes /\ w # None
      BY <1>13, <1>20, NoneAssumption
    <2>2. call = "demote" => after.parent[node] = None
      BY <1>1, <1>2, <1>20
    <2> QED BY <1>1, <1>5, <1>11, <1>12, <1>14, <1>17, <1>20, <1>21, <2>1, <2>2 DEF DprLinked, DprRings, DprRing
  <1> QED BY <1>15, <1>22 DEF DprPassed

-----------------------------------------------------------------------------
(* The ends.  What the siblings of the root r point to is written over.    *)
DprPoppedAt(m, r) ==
  [m EXCEPT !.next = [a \in Dpr!Cells |-> IF a \in {Stack, r} THEN None ELSE @[a]],
            !.prev = [a \in Dpr!Cells |-> IF a \in {Stack, r} THEN None ELSE @[a]]]

LEMMA DprPoppedSame ==
  ASSUME NEW m
  PROVE  Dpr!Popped(m) = DprPoppedAt(m, root'[heap])
  BY DEF Dpr!Popped, DprPoppedAt

LEMMA DprPoppedFacts ==
  ASSUME NEW m \in DprMemory, NEW r, NEW after, after = DprPoppedAt(m, r)
  PROVE  /\ after \in DprMemory /\ after.parent = m.parent
         /\ \A x \in Dpr!Cells \ {Stack, r} : SameAt(m, after, x)
  <1>1. PICK next : next = [a \in Dpr!Cells |-> IF a \in {Stack, r} THEN None ELSE m.next[a]]
    OBVIOUS
  <1>2. PICK prev : prev = [a \in Dpr!Cells |-> IF a \in {Stack, r} THEN None ELSE m.prev[a]]
    OBVIOUS
  <1>3. m.next \in Pointers /\ m.prev \in Pointers
    BY DEF DprMemory
  <1>4. next \in Pointers /\ prev \in Pointers
    BY <1>1, <1>2, <1>3 DEF Pointers
  <1>5. after.next = next /\ after.prev = prev /\ after.parent = m.parent
    BY <1>1, <1>2 DEF DprPoppedAt, DprMemory
  <1>6. after = [m EXCEPT !.next = next, !.prev = prev]
    BY <1>1, <1>2 DEF DprPoppedAt
  <1>7. after \in DprMemory
    BY <1>4, <1>6 DEF DprMemory
  <1>8. \A x \in Dpr!Cells \ {Stack, r} : SameAt(m, after, x)
    BY <1>1, <1>2, <1>5 DEF SameAt
  <1> QED BY <1>5, <1>7, <1>8

LEMMA DprPoppedKept ==
  ASSUME "dprheap" \in Kinds, NEW m \in DprMemory, NEW v \in Parents, NEW P \in SUBSET Nodes,
         DprRings(m, v, P), NEW r \in Nodes \cup {None}, r \in Nodes => v[r] \notin P,
         NEW after, after = DprPoppedAt(m, r)
  PROVE  after \in DprMemory /\ DprRings(after, v, P)
  <1>1. /\ after \in DprMemory /\ after.parent = m.parent
        /\ \A x \in Dpr!Cells \ {Stack, r} : SameAt(m, after, x)
    BY DprPoppedFacts
  <1>2. PICK X : X = {Stack, r}
    OBVIOUS
  <1>3. PICK Y : Y = {}
    OBVIOUS
  <1>4. DprElse(m, after, X, Y)
    BY <1>1, <1>2 DEF DprElse
  <1>5. DprClear(after, v, P, X, Y)
    <2>1. \A p \in P : Dpr!Kids(p) \notin X /\ (v[p] = None => p \notin Y \/ after.parent[p] = None)
      BY <1>2, <1>3, CellFacts
    <2>2. ASSUME NEW p \in P, NEW x \in Below(v, p) PROVE x \notin X /\ x \notin Y
      <3>1. x \in Nodes /\ v[x] = p
        BY DEF Below
      <3> QED BY <1>2, <1>3, <3>1, CellFacts
    <2> QED BY <2>1, <2>2 DEF DprClear
  <1> QED BY <1>1, <1>4, <1>5, DprOutside

(* A node that is in no tree is forgotten. *)
LEMMA DprForgot ==
  ASSUME "dprheap" \in Kinds, NEW m \in DprMemory, NEW v \in Parents, NEW G \in SUBSET Nodes,
         DprRings(m, v, G), NEW n \in Nodes, n \notin G, v[n] \notin G,
         NEW after, after = Dpr!Forgotten(m, {n})
  PROVE  after \in DprMemory /\ DprRings(after, v, G)
  <1>1. PICK S : S = {n}
    OBVIOUS
  <1>2. S \in SUBSET Nodes /\ after = Dpr!Forgotten(m, S)
    BY <1>1
  <1>3. /\ after \in DprMemory
        /\ \A x \in Dpr!Cells : x \notin S /\ (\A q \in S : x # Dpr!Kids(q)) => SameAt(m, after, x)
        /\ \A x \in Nodes \ S : after.parent[x] = m.parent[x]
    <2>1. after \in DprMemory /\ DprForgets(m, after, S)
      BY <1>2, ForgottenFacts
    <2> QED BY <2>1 DEF DprForgets
  <1>4. PICK X : X = {n, Dpr!Kids(n)}
    OBVIOUS
  <1>5. DprElse(m, after, X, S)
    BY <1>1, <1>3, <1>4 DEF DprElse
  <1>6. DprClear(after, v, G, X, S)
    <2>1. \A p \in G : Dpr!Kids(p) \notin X /\ (v[p] = None => p \notin S \/ after.parent[p] = None)
      BY <1>1, <1>4, CellFacts
    <2>2. ASSUME NEW p \in G, NEW x \in Below(v, p) PROVE x \notin X /\ x \notin S
      <3>1. x \in Nodes /\ v[x] = p
        BY DEF Below
      <3> QED BY <1>1, <1>4, <3>1, CellFacts
    <2> QED BY <2>1, <2>2 DEF DprClear
  <1> QED BY <1>3, <1>5, <1>6, DprOutside

(* The second pass ends, on a single tree or on none. *)
LEMMA DprEnd ==
  ASSUME NEW u, NEW C, NEW A, DprHolds(u, C, A), pc = "fold", cursor = Stack,
         NEW top, top = acc
  PROVE  /\ Forestry(u, {}, A) /\ top \in Nodes \cup {None} /\ A = {top} \cap Nodes
         /\ links \in DprMemory /\ DprRings(links, u, Placed \ {node}) /\ "dprheap" \in Kinds
         /\ Placed \in SUBSET Nodes
         /\ call = "demote" => links.parent[node] = None
         /\ top = None => DprRing(links, Dpr!Kids(node), {})
         /\ u \in Parents
         /\ node \in Placed /\ u[node] = None
         /\ root[heap] \in Placed /\ u[root[heap]] = None
         /\ Below(u, node) = {top} \cap Nodes
         /\ top # None => top \in Placed /\ u[top] = node /\ top # node /\ top # root[heap]
         /\ call \in {"remove", "update"} => node # root[heap]
         /\ call = "demote" => node = root[heap]
  <1>1. /\ Forestry(u, C, A) /\ links \in DprMemory /\ "dprheap" \in Kinds
        /\ DprRings(links, u, Placed \ {node})
        /\ Strung(links.next, Stack, C, Stack)
        /\ A = {top} \cap Nodes
        /\ top \in Nodes \cup {None}
        /\ call = "demote" => links.parent[node] = None
        /\ Below(u, node) = {} => DprRing(links, Dpr!Kids(node), {})
    BY DEF DprHolds, DprLinked
  <1>2. C = {}
    BY <1>1, StrungEmpty
  <1>3. Forestry(u, {}, A) /\ Placed \in SUBSET Nodes
    BY <1>1, <1>2, PlacedFacts
  <1>4. /\ u \in Parents
        /\ node \in Placed /\ u[node] = None
        /\ root[heap] \in Placed /\ u[root[heap]] = None
        /\ Below(u, node) = {top} \cap Nodes
        /\ top # None => top \in Placed /\ u[top] = node /\ top # node /\ top # root[heap]
        /\ call \in {"remove", "update"} => node # root[heap]
        /\ call = "demote" => node = root[heap]
    BY <1>1, <1>3, EndFacts
  <1>5. top = None => DprRing(links, Dpr!Kids(node), {})
    BY <1>1, <1>4, NoneAssumption
  <1> QED BY <1>1, <1>3, <1>4, <1>5

(* What has been built no longer has a parent. *)
LEMMA DprAsRoot ==
  ASSUME NEW u, NEW C, NEW A, DprHolds(u, C, A), pc = "fold", cursor = Stack,
         NEW top, top = acc, NEW after, after = Dpr!AsRoot,
         NEW v, v = IF top = None THEN u ELSE Under(u, None, top)
  PROVE  /\ after \in DprMemory /\ DprRings(after, v, Placed \ {node})
         /\ after.parent[node] = links.parent[node]
         /\ v \in Parents /\ v[node] = None /\ Below(v, node) = {}
         /\ top \in Nodes => v[top] = None
  <1>1. PICK m : m = links
    OBVIOUS
  <1>2. PICK n : n = node
    OBVIOUS
  <1>3. PICK G : G = Placed \ {node}
    OBVIOUS
  <1>4. /\ top \in Nodes \cup {None} /\ m \in DprMemory /\ DprRings(m, u, G)
        /\ u \in Parents /\ n \in Nodes /\ u[n] = None /\ G \subseteq Nodes \ {n}
        /\ Below(u, n) = {top} \cap Nodes
        /\ top # None => top \in Nodes /\ u[top] = n /\ top # n
    BY <1>1, <1>2, <1>3, DprEnd
  <1>5. /\ after \in DprMemory
        /\ \A x \in Dpr!Cells : SameAt(m, after, x)
        /\ \A x \in Nodes \ {top} : after.parent[x] = m.parent[x]
        /\ top # None => after.parent[top] = None
    <2>1. CASE top = None
      <3>1. after = m
        BY <1>1, <2>1 DEF Dpr!AsRoot
      <3> QED BY <1>4, <2>1, <3>1 DEF SameAt
    <2>2. CASE top # None
      <3>1. after = [m EXCEPT !.parent[top] = None]
        BY <1>1, <2>2 DEF Dpr!AsRoot
      <3> QED BY <1>4, <2>2, <3>1 DEF DprMemory, Parents, SameAt
    <2> QED BY <2>1, <2>2
  <1>6. /\ v \in Parents /\ v[n] = None
        /\ \A x \in Nodes \ {top} : v[x] = u[x]
        /\ top # None => v[top] = None
    BY <1>4, NoneAssumption DEF Parents, Under
  <1>7. Below(v, n) = {}
    BY <1>4, <1>6, NoneAssumption DEF Below
  <1>8. DprRings(after, v, G)
    <2>1. \A p \in G : Below(v, p) = Below(u, p)
      BY <1>4, <1>6, NoneAssumption DEF Below
    <2>2. \A p \in G : SameAt(m, after, Dpr!Kids(p))
      BY <1>4, <1>5 DEF Dpr!Cells
    <2>3. \A p \in G : v[p] = None => after.parent[p] = None
      <3> SUFFICES ASSUME NEW p \in G, v[p] = None PROVE after.parent[p] = None
        OBVIOUS
      <3>1. CASE p = top
        BY <1>4, <1>5, <3>1, NoneAssumption
      <3>2. CASE p # top
        <4>1. u[p] = None /\ after.parent[p] = m.parent[p]
          BY <1>4, <1>5, <1>6, <3>2
        <4> QED BY <1>4, <4>1 DEF DprRings
      <3> QED BY <3>1, <3>2
    <2>4. \A p \in G : \A x \in Below(u, p) : x \in Nodes \ {top} /\ x \in Dpr!Cells
      BY <1>4 DEF Below, Dpr!Cells
    <2>5. \A p \in G : \A x \in Below(u, p) : SameAt(m, after, x)
      BY <1>5, <2>4
    <2>6. \A p \in G : \A x \in Below(u, p) : after.parent[x] = m.parent[x]
      BY <1>5, <2>4
    <2>7. \A p \in G : DprRing(after, Dpr!Kids(p), Below(u, p))
      <3> SUFFICES ASSUME NEW p \in G PROVE DprRing(after, Dpr!Kids(p), Below(u, p))
        OBVIOUS
      <3>1. DprRing(m, Dpr!Kids(p), Below(u, p))
        BY <1>4 DEF DprRings
      <3> QED BY <2>2, <2>5, <3>1, DprRingKept
    <2>8. \A p \in G : \A x \in Below(u, p) : after.parent[x] = p
      BY <1>4, <2>6 DEF DprRings
    <2> QED BY <2>1, <2>3, <2>7, <2>8 DEF DprRings
  <1>9. after.parent[n] = m.parent[n]
    BY <1>4, <1>5, NoneAssumption
  <1> QED BY <1>1, <1>2, <1>3, <1>5, <1>6, <1>7, <1>8, <1>9, NoneAssumption

(* What has been built is now below the root. *)
LEMMA DprBelowRoot ==
  ASSUME NEW u, NEW C, NEW A, DprHolds(u, C, A), pc = "fold", cursor = Stack,
         call \in {"remove", "update"},
         NEW top, top = acc, NEW after, after = Dpr!BelowRoot,
         NEW v, v = IF top = None THEN u ELSE Under(u, root[heap], top)
  PROVE  /\ after \in DprMemory /\ DprRings(after, v, Placed \ {node})
         /\ v \in Parents /\ v[node] = None /\ v[root[heap]] = None /\ Below(v, node) = {}
  <1>1. PICK m : m = links
    OBVIOUS
  <1>2. PICK n : n = node
    OBVIOUS
  <1>3. PICK G : G = Placed \ {node}
    OBVIOUS
  <1>4. PICK r : r = root[heap]
    OBVIOUS
  <1>5. /\ top \in Nodes \cup {None} /\ m \in DprMemory /\ DprRings(m, u, G) /\ "dprheap" \in Kinds
        /\ u \in Parents /\ n \in Nodes /\ u[n] = None /\ G \in SUBSET Nodes /\ n \notin G
        /\ r \in Nodes /\ u[r] = None /\ r \in G
        /\ Below(u, n) = {top} \cap Nodes
        /\ top # None => top \in Nodes /\ u[top] = n /\ top # n /\ top # r
    BY <1>1, <1>2, <1>3, <1>4, DprEnd
  <1>6. after = IF top = None THEN m ELSE Dpr!Attach(m, top, r)
    BY <1>1, <1>4 DEF Dpr!BelowRoot
  <1>7. CASE top = None
    <2>1. v = u /\ after = m
      BY <1>6, <1>7
    <2>2. Below(u, n) = {}
      BY <1>5, <1>7, NoneAssumption
    <2> QED BY <1>2, <1>3, <1>4, <1>5, <2>1, <2>2
  <1>8. CASE top # None
    <2>1. v = Under(u, r, top) /\ after = Dpr!Attach(m, top, r)
      BY <1>4, <1>6, <1>8
    <2>2. r # top /\ u[top] \notin G /\ top \in Nodes
      BY <1>5, <1>8
    <2>3. after \in DprMemory /\ DprRings(after, v, G)
      BY <1>5, <2>1, <2>2, DprAttached
    <2>4. v \in Parents /\ v[n] = None /\ v[r] = None /\ \A x \in Nodes : v[x] = IF x = top THEN r ELSE u[x]
      BY <1>5, <1>8, <2>1 DEF Parents, Under
    <2>5. Below(v, n) = {}
      BY <1>5, <1>8, <2>4, NoneAssumption DEF Below
    <2> QED BY <1>2, <1>3, <1>4, <2>3, <2>4, <2>5
  <1> QED BY <1>7, <1>8

LEMMA DprDropped ==
  ASSUME NEW u, NEW C, NEW A, DprHolds(u, C, A), pc = "fold", cursor = Stack,
         Dpr!DropTo(Dpr!Popped(Dpr!Forgotten(Dpr!AsRoot, {node})), acc)
  PROVE  DprInv'
  <1>1. PICK top : top = acc
    OBVIOUS
  <1>2. PICK before : before = Dpr!AsRoot
    OBVIOUS
  <1>3. PICK n : n = node
    OBVIOUS
  <1>4. PICK less : less = Dpr!Forgotten(before, {n})
    OBVIOUS
  <1>5. PICK memory : memory = DprPoppedAt(less, top)
    OBVIOUS
  <1>6. /\ Forestry(u, {}, A) /\ top \in Nodes \cup {None} /\ A = {top} \cap Nodes
        /\ Placed \in SUBSET Nodes /\ n \in Placed /\ "dprheap" \in Kinds /\ TypeOK /\ heap \in Heaps
    <2>1. TypeOK /\ heap \in Heaps
      BY DEF DprHolds, Forestry, Busy, TypeOK
    <2> QED BY <1>1, <1>3, <2>1, DprEnd
  <1>7. DropTo(memory, top)
    <2>1. Dpr!DropTo(Dpr!Popped(less), top)
      BY <1>1, <1>2, <1>3, <1>4
    <2>2. root' = [root EXCEPT ![heap] = top]
      BY <2>1 DEF Dpr!DropTo
    <2>3. root'[heap] = top
      BY <1>6, <2>2 DEF TypeOK
    <2>4. Dpr!Popped(less) = memory
      BY <1>5, <2>3, DprPoppedSame
    <2>5. Dpr!DropTo(memory, top)
      BY <2>1, <2>4
    <2> QED BY <2>5 DEF Dpr!DropTo, DropTo, Dpr!Return, Return
  <1>8. pc' = "idle" /\ node' = None /\ links' = memory /\ Placed' = Placed \ {node}
    BY <1>6, <1>7, DropEffect
  <1>9. PICK v : Forestry(v, {}, {})' /\ v = IF top = None THEN u ELSE Under(u, None, top)
    BY <1>6, <1>7, DropEffect
  <1>10. PICK G : G = Placed \ {node}
    OBVIOUS
  <1>11. /\ before \in DprMemory /\ DprRings(before, v, G)
         /\ v \in Parents /\ v[n] = None /\ (top \in Nodes => v[top] = None)
    BY <1>1, <1>2, <1>3, <1>9, <1>10, DprAsRoot
  <1>12. G \in SUBSET Nodes /\ n \in Nodes /\ n \notin G /\ None \notin G
    BY <1>3, <1>6, <1>10, NoneAssumption
  <1>13. less \in DprMemory /\ DprRings(less, v, G)
    BY <1>4, <1>6, <1>11, <1>12, DprForgot
  <1>14. memory \in DprMemory /\ DprRings(memory, v, G)
    BY <1>5, <1>6, <1>11, <1>12, <1>13, DprPoppedKept
  <1> QED BY <1>6, <1>8, <1>9, <1>10, <1>14, DprIdleNext

LEMMA DprRemoved ==
  ASSUME NEW u, NEW C, NEW A, DprHolds(u, C, A), pc = "fold", cursor = Stack,
         Dpr!RemoveTo(Dpr!Popped(Dpr!Forgotten(Dpr!BelowRoot, {node})))
  PROVE  DprInv'
  <1>1. PICK top : top = acc
    OBVIOUS
  <1>2. PICK before : before = Dpr!BelowRoot
    OBVIOUS
  <1>3. PICK n : n = node
    OBVIOUS
  <1>4. PICK r : r = root[heap]
    OBVIOUS
  <1>5. PICK less : less = Dpr!Forgotten(before, {n})
    OBVIOUS
  <1>6. PICK memory : memory = DprPoppedAt(less, r)
    OBVIOUS
  <1>7. /\ Forestry(u, {}, A) /\ top \in Nodes \cup {None} /\ A = {top} \cap Nodes
        /\ Placed \in SUBSET Nodes /\ n \in Placed /\ r \in Placed /\ "dprheap" \in Kinds
    BY <1>1, <1>3, <1>4, DprEnd
  <1>8. RemoveTo(memory) /\ call = "remove"
    <2>1. Dpr!RemoveTo(Dpr!Popped(less))
      BY <1>2, <1>3, <1>5
    <2>2. root'[heap] = r /\ call = "remove"
      BY <1>4, <2>1 DEF Dpr!RemoveTo
    <2>3. Dpr!Popped(less) = memory
      BY <1>6, <2>2, DprPoppedSame
    <2>4. Dpr!RemoveTo(memory)
      BY <2>1, <2>3
    <2> QED BY <2>2, <2>4 DEF Dpr!RemoveTo, RemoveTo, Dpr!Return, Return
  <1>9. pc' = "idle" /\ node' = None /\ links' = memory /\ Placed' = Placed \ {node}
    BY <1>7, <1>8, RemoveEffect
  <1>10. PICK v : Forestry(v, {}, {})' /\ v = IF top = None THEN u ELSE Under(u, root[heap], top)
    BY <1>7, <1>8, RemoveEffect
  <1>11. PICK G : G = Placed \ {node}
    OBVIOUS
  <1>12. /\ before \in DprMemory /\ DprRings(before, v, G)
         /\ v \in Parents /\ v[n] = None /\ v[r] = None
    <2>1. call \in {"remove", "update"}
      BY <1>8
    <2> QED BY <1>1, <1>2, <1>3, <1>4, <1>10, <1>11, <2>1, DprBelowRoot
  <1>13. G \in SUBSET Nodes /\ n \in Nodes /\ n \notin G /\ None \notin G /\ r \in Nodes
    BY <1>3, <1>7, <1>11, NoneAssumption
  <1>14. less \in DprMemory /\ DprRings(less, v, G)
    BY <1>5, <1>7, <1>12, <1>13, DprForgot
  <1>15. memory \in DprMemory /\ DprRings(memory, v, G)
    BY <1>6, <1>7, <1>12, <1>13, <1>14, DprPoppedKept
  <1> QED BY <1>7, <1>9, <1>10, <1>11, <1>15, DprIdleNext
(* What has been built, if need be, and the node that was put back make a  *)
(* single tree.                                                            *)
LEMMA DprRejoined ==
  ASSUME "dprheap" \in Kinds, TypeOK, heap \in Heaps,
         NEW m \in DprMemory, NEW v \in Parents, NEW P \in SUBSET Nodes, DprRings(m, v, P),
         NEW a \in P, NEW n \in P, a # n, v[a] = None, v[n] = None,
         NEW what, Dpr!JoinTo(what, Dpr!Popped(Dpr!Join(m, a, n)), a), n = node
  PROVE  \E memory : /\ JoinTo(what, memory, a)
                     /\ memory \in DprMemory /\ DprRings(memory, Linking(v, a, n), P)
  <1>1. PICK joined : joined = Dpr!Join(m, a, n)
    OBVIOUS
  <1>2. PICK w : w = Winner(key, a, n)
    OBVIOUS
  <1>3. PICK memory : memory = DprPoppedAt(joined, w)
    OBVIOUS
  <1>4. PICK t : t = Linking(v, a, n)
    OBVIOUS
  <1>5. PICK l : l = Loser(key, a, n)
    OBVIOUS
  <1>6. a \in Nodes /\ n \in Nodes /\ v[a] \notin P /\ v[n] \notin P
    BY NoneAssumption
  <1>7. DprOne(m, v, t, P, w, l, joined) /\ {w, l} = {a, n}
    BY <1>1, <1>2, <1>4, <1>5, <1>6, DprJoined
  <1>8. joined \in DprMemory /\ DprRings(joined, t, P) /\ w \in Nodes /\ w # l /\ l \in Nodes
    BY <1>7 DEF DprOne
  <1>9. t \in Parents /\ t[w] = None
    BY <1>2, <1>4, <1>5, <1>6, <1>7, <1>8 DEF Linking, Parents
  <1>10. memory \in DprMemory /\ DprRings(memory, t, P)
    <2>1. w \in Nodes \cup {None} /\ (w \in Nodes => t[w] \notin P)
      BY <1>8, <1>9, NoneAssumption
    <2> QED BY <1>3, <1>8, <1>9, <2>1, DprPoppedKept
  <1>11. JoinTo(what, memory, a)
    <2>1. Dpr!JoinTo(what, Dpr!Popped(joined), a)
      BY <1>1
    <2>2. root' = [root EXCEPT ![heap] = Winner(key, a, node)]
      BY <2>1 DEF Dpr!JoinTo, Dpr!Winner, Winner
    <2>3. root'[heap] = w
      BY <1>2, <2>2 DEF TypeOK
    <2>4. Dpr!Popped(joined) = memory
      BY <1>3, <2>3, DprPoppedSame
    <2>5. Dpr!JoinTo(what, memory, a)
      BY <2>1, <2>4
    <2> QED BY <2>5 DEF Dpr!JoinTo, JoinTo, Dpr!Return, Return, Dpr!Winner, Winner
  <1> QED BY <1>4, <1>10, <1>11

LEMMA DprUpdated ==
  ASSUME NEW u, NEW C, NEW A, DprHolds(u, C, A), pc = "fold", cursor = Stack,
         Dpr!JoinTo("update", Dpr!Popped(Dpr!Join(Dpr!Lone(Dpr!BelowRoot, node), root[heap], node)),
                    root[heap])
  PROVE  DprInv'
  <1>1. PICK top : top = acc
    OBVIOUS
  <1>2. PICK before : before = Dpr!BelowRoot
    OBVIOUS
  <1>3. PICK n : n = node
    OBVIOUS
  <1>4. PICK r : r = root[heap]
    OBVIOUS
  <1>5. PICK back : back = Dpr!Lone(before, n)
    OBVIOUS
  <1>6. call = "update" /\ Dpr!JoinTo("update", Dpr!Popped(Dpr!Join(back, r, n)), r)
    BY <1>2, <1>3, <1>4, <1>5 DEF Dpr!JoinTo
  <1>7. TypeOK /\ heap \in Heaps
    BY DEF DprHolds, Forestry, Busy, TypeOK
  <1>8. /\ Forestry(u, {}, A) /\ top \in Nodes \cup {None} /\ A = {top} \cap Nodes
        /\ Placed \in SUBSET Nodes /\ n \in Placed /\ r \in Placed /\ n # r /\ "dprheap" \in Kinds
    BY <1>1, <1>3, <1>4, <1>6, DprEnd
  <1>9. PICK v : v = IF top = None THEN u ELSE Under(u, root[heap], top)
    OBVIOUS
  <1>10. PICK P : P = Placed
    OBVIOUS
  <1>11. /\ before \in DprMemory /\ DprRings(before, v, P \ {n})
         /\ v \in Parents /\ v[n] = None /\ v[r] = None /\ Below(v, n) = {}
    <2>1. call \in {"remove", "update"}
      BY <1>6
    <2> QED BY <1>1, <1>2, <1>3, <1>4, <1>9, <1>10, <2>1, DprBelowRoot
  <1>12. back \in DprMemory /\ DprRings(back, v, P)
    <2>1. n \in Nodes /\ n \in P /\ P \in SUBSET Nodes
      BY <1>8, <1>10
    <2>2. /\ back \in DprMemory /\ back.parent[n] = None
          /\ DprRing(back, Dpr!Kids(n), {})
          /\ \A x \in Dpr!Cells \ {Dpr!Kids(n)} : SameAt(before, back, x)
          /\ \A x \in Nodes \ {n} : back.parent[x] = before.parent[x]
      <3>1. DprLones(before, back, n)
        BY <1>5, <1>8, <1>11, <2>1, LoneFacts
      <3> QED BY <3>1 DEF DprLones
    <2> QED BY <1>8, <1>11, <2>1, <2>2, DprAdded
  <1>13. PICK memory : /\ JoinTo("update", memory, r)
                       /\ memory \in DprMemory /\ DprRings(memory, Linking(v, r, n), P)
    BY <1>3, <1>6, <1>7, <1>8, <1>10, <1>11, <1>12, DprRejoined
  <1>14. pc' = "idle" /\ node' = None /\ links' = memory /\ Placed' = Placed
    BY <1>4, <1>8, <1>13, JoinEffect
  <1>15. PICK t : Forestry(t, {}, {})' /\ t = Linking(v, r, n)
    <2>1. \E t : Forestry(t, {}, {})' /\ t = Linking(IF top = None THEN u ELSE Under(u, r, top), r, node)
      BY <1>4, <1>8, <1>13, JoinEffect
    <2> QED BY <1>3, <1>4, <1>9, <2>1
  <1> QED BY <1>8, <1>10, <1>13, <1>14, <1>15, DprIdleNext

LEMMA DprDemoted ==
  ASSUME NEW u, NEW C, NEW A, DprHolds(u, C, A), pc = "fold", cursor = Stack, acc # None,
         Dpr!JoinTo("demote",
                    Dpr!Popped(Dpr!Join(Dpr!Initialised(Dpr!AsRoot, Dpr!Kids(node)), acc, node)), acc)
  PROVE  DprInv'
  <1>1. PICK top : top = acc
    OBVIOUS
  <1>2. PICK before : before = Dpr!AsRoot
    OBVIOUS
  <1>3. PICK n : n = node
    OBVIOUS
  <1>4. PICK k : k = Dpr!Kids(n)
    OBVIOUS
  <1>5. PICK back : back = Dpr!Initialised(before, k)
    OBVIOUS
  <1>6. call = "demote" /\ Dpr!JoinTo("demote", Dpr!Popped(Dpr!Join(back, top, n)), top)
    BY <1>1, <1>2, <1>3, <1>4, <1>5 DEF Dpr!JoinTo
  <1>7. TypeOK /\ heap \in Heaps
    BY DEF DprHolds, Forestry, Busy, TypeOK
  <1>8. /\ Forestry(u, {}, A) /\ top \in Nodes \cup {None} /\ A = {top} \cap Nodes
        /\ Placed \in SUBSET Nodes /\ n \in Placed /\ top # None /\ top \in Placed /\ n # top
        /\ links.parent[n] = None /\ "dprheap" \in Kinds
    BY <1>1, <1>3, <1>6, DprEnd
  <1>9. PICK v : v = IF top = None THEN u ELSE Under(u, None, top)
    OBVIOUS
  <1>10. PICK P : P = Placed
    OBVIOUS
  <1>11. /\ before \in DprMemory /\ DprRings(before, v, P \ {n}) /\ before.parent[n] = None
         /\ v \in Parents /\ v[n] = None /\ v[top] = None /\ Below(v, n) = {}
    BY <1>1, <1>2, <1>3, <1>8, <1>9, <1>10, DprAsRoot
  <1>12. back \in DprMemory /\ DprRings(back, v, P)
    <2>1. n \in Nodes /\ n \in P /\ P \in SUBSET Nodes /\ k \in Dpr!Cells
      BY <1>4, <1>8, <1>10, CellFacts
    <2>2. /\ back \in DprMemory /\ back.parent = before.parent
          /\ DprRing(back, k, {})
          /\ \A x \in Dpr!Cells \ {k} : SameAt(before, back, x)
      BY <1>5, <1>11, <2>1, InitialisedFacts
    <2>3. /\ DprRing(back, Dpr!Kids(n), {}) /\ back.parent[n] = None
          /\ \A x \in Dpr!Cells \ {Dpr!Kids(n)} : SameAt(before, back, x)
          /\ \A x \in Nodes \ {n} : back.parent[x] = before.parent[x]
      BY <1>4, <1>11, <2>2
    <2> QED BY <1>8, <1>11, <2>1, <2>2, <2>3, DprAdded
  <1>13. PICK memory : /\ JoinTo("demote", memory, top)
                       /\ memory \in DprMemory /\ DprRings(memory, Linking(v, top, n), P)
    BY <1>3, <1>6, <1>7, <1>8, <1>10, <1>11, <1>12, DprRejoined
  <1>14. pc' = "idle" /\ node' = None /\ links' = memory /\ Placed' = Placed
    <2>1. "demote" = "demote" /\ top = top /\ None = None
      OBVIOUS
    <2> QED BY <1>8, <1>13, <2>1, JoinEffect
  <1>15. PICK t : Forestry(t, {}, {})' /\ t = Linking(v, top, n)
    <2>1. \E t : Forestry(t, {}, {})' /\ t = Linking(IF top = None THEN u ELSE Under(u, None, top), top, node)
      BY <1>8, <1>13, JoinEffect
    <2> QED BY <1>3, <1>9, <2>1
  <1> QED BY <1>8, <1>10, <1>13, <1>14, <1>15, DprIdleNext

LEMMA DprLeftAlone ==
  ASSUME NEW u, NEW C, NEW A, DprHolds(u, C, A), pc = "fold", cursor = Stack, acc = None,
         Dpr!DemoteAlone(Dpr!Popped(links))
  PROVE  DprInv'
  <1>1. PICK top : top = acc
    OBVIOUS
  <1>2. PICK m : m = links
    OBVIOUS
  <1>3. PICK n : n = node
    OBVIOUS
  <1>4. PICK P : P = Placed
    OBVIOUS
  <1>5. PICK r : r = root[heap]
    OBVIOUS
  <1>6. PICK memory : memory = DprPoppedAt(m, r)
    OBVIOUS
  <1>7. DemoteAlone(memory) /\ call = "demote"
    <2>1. Dpr!DemoteAlone(Dpr!Popped(m))
      BY <1>2
    <2>2. root'[heap] = r /\ call = "demote"
      BY <1>5, <2>1 DEF Dpr!DemoteAlone
    <2>3. Dpr!Popped(m) = memory
      BY <1>6, <2>2, DprPoppedSame
    <2>4. Dpr!DemoteAlone(memory)
      BY <2>1, <2>3
    <2> QED BY <2>2, <2>4 DEF Dpr!DemoteAlone, DemoteAlone, Dpr!Return, Return
  <1>8. /\ Forestry(u, {}, A) /\ A = {} /\ "dprheap" \in Kinds
        /\ P \in SUBSET Nodes /\ n \in P /\ u \in Parents /\ u[n] = None /\ Below(u, n) = {}
        /\ m \in DprMemory /\ DprRings(m, u, P \ {n}) /\ DprRing(m, Dpr!Kids(n), {}) /\ m.parent[n] = None
        /\ r \in Placed /\ u[r] = None
    <2>1. top = None
      BY <1>1
    <2>2. {None} \cap Nodes = {}
      BY NoneAssumption
    <2> QED BY <1>1, <1>2, <1>3, <1>4, <1>5, <1>7, <2>1, <2>2, DprEnd
  <1>9. pc' = "idle" /\ node' = None /\ links' = memory /\ Placed' = Placed /\ Forestry(u, {}, {})'
    BY <1>7, <1>8, AloneEffect
  <1>10. DprRings(m, u, P)
    BY <1>8 DEF DprRings
  <1>11. memory \in DprMemory /\ DprRings(memory, u, P)
    <2>1. r \in Nodes \cup {None} /\ (r \in Nodes => u[r] \notin P)
      BY <1>4, <1>8, NoneAssumption
    <2> QED BY <1>6, <1>8, <1>10, <2>1, DprPoppedKept
  <1> QED BY <1>4, <1>8, <1>9, <1>11, DprIdleNext

LEMMA DprMerged ==
  ASSUME NEW u, NEW C, NEW A, DprHolds(u, C, A), Dpr!Merged
  PROVE  DprInv'
  BY DprDropped, DprRemoved, DprUpdated, DprDemoted, DprLeftAlone DEF Dpr!Merged

-----------------------------------------------------------------------------
(* What the definitions of the trees compute. *)
LEMMA DprSame ==
  /\ \A S : Dpr!Cardinality(S) = Cardinality(S)
  /\ \A a, b, c, d : Dpr!Accounted(a, b, c, d) = Accounted(a, b, c, d)
  <1>1. \A S : Dpr!Cardinality(S) = Cardinality(S)
    BY DEF Dpr!Cardinality, Cardinality
  <1>2. \A a, b, c, d : Dpr!Accounted(a, b, c, d) = Accounted(a, b, c, d)
    BY <1>1, Zenon DEF Dpr!Accounted, Accounted
  <1> QED BY <1>1, <1>2

LEMMA DprUntilReached ==
  ASSUME NEW c, NEW end
  PROVE  Dpr!Until(c, end) =
           Reached(Nodes, [p \in Nodes |-> {p} \cup ({links.next[p]} \cap (Nodes \ {end}))],
                   {c} \cap Nodes)
  <1> DEFINE base == {c} \cap Nodes
             step == [p \in Nodes |-> {p} \cup ({links.next[p]} \cap (Nodes \ {end}))]
             k == Dpr!Cardinality(Nodes)
             U(T) == UNION {{p} \cup ({links.next[p]} \cap (Nodes \ {end})) : p \in T}
             F(f) == [i \in 0 .. k |-> IF i = 0 THEN base ELSE U(f[i - 1])]
             g == CHOOSE f : f = F(f)
  <1>1. base \in SUBSET Nodes /\ step \in [Nodes -> SUBSET Nodes] /\ \A p \in Nodes : p \in step[p]
    OBVIOUS
  <1>2. k \in Nat /\ k = Cardinality(Nodes)
    BY FiniteNodes, DprSame
  <1>3. \A T \in SUBSET Nodes : Stepped(step, T) = U(T)
    BY DEF Stepped
  <1>4. Dpr!Until(c, end) = g[k]
    BY Zenon DEF Dpr!Until
  <1> HIDE DEF base, step, k, U
  <1>5. PICK f : Grown(Nodes, step, base, k, f)
    BY <1>1, <1>2, NodesGrow
  <1>6. f = F(f)
    <2>1. /\ f \in [0 .. k -> SUBSET Nodes] /\ f[0] = base
          /\ \A i \in 1 .. k : f[i] = Stepped(step, f[i - 1])
      BY <1>5 DEF Grown
    <2>2. \A i \in 0 .. k : f[i] = IF i = 0 THEN base ELSE U(f[i - 1])
      BY <1>2, <1>3, <2>1
    <2> QED BY <2>1, <2>2
  <1>7. g = F(g)
    <2> HIDE DEF F
    <2> QED BY <1>6
  <1>8. g[0] = base /\ \A i \in 1 .. k : g[i - 1] \in SUBSET Nodes => g[i] = Stepped(step, g[i - 1])
    <2> HIDE DEF g
    <2>1. \A i \in 0 .. k : g[i] = F(g)[i]
      BY <1>7
    <2> HIDE <1>7
    <2>2. \A i \in 0 .. k : g[i] = IF i = 0 THEN base ELSE U(g[i - 1])
      BY <2>1
    <2> QED BY <1>2, <1>3, <2>2
  <1>9. g[k] = Reached(Nodes, step, base)
    <2> HIDE DEF g
    <2> QED BY <1>1, <1>2, <1>8, GrownReaches, NodesAssumption
  <1> QED BY <1>4, <1>9 DEF step, base

LEMMA DprTreeReached ==
  ASSUME NEW n
  PROVE  Dpr!Tree(n) = Reached(Nodes, [p \in Nodes |-> {p} \cup Dpr!Children(p)], {n} \cap Nodes)
  <1> DEFINE base == {n} \cap Nodes
             step == [p \in Nodes |-> {p} \cup Dpr!Children(p)]
             k == Dpr!Cardinality(Nodes)
             U(T) == UNION {{p} \cup Dpr!Children(p) : p \in T}
             F(f) == [i \in 0 .. k |-> IF i = 0 THEN base ELSE U(f[i - 1])]
             g == CHOOSE f : f = F(f)
  <1>1. base \in SUBSET Nodes /\ step \in [Nodes -> SUBSET Nodes] /\ \A p \in Nodes : p \in step[p]
    <2>1. \A p : Dpr!Children(p) \in SUBSET Nodes
      BY DprUntilReached DEF Dpr!Children, Reached
    <2> QED BY <2>1
  <1>2. k \in Nat /\ k = Cardinality(Nodes)
    BY FiniteNodes, DprSame
  <1>3. \A T \in SUBSET Nodes : Stepped(step, T) = U(T)
    BY DEF Stepped
  <1>4. Dpr!Tree(n) = g[k]
    BY Zenon DEF Dpr!Tree
  <1> HIDE DEF base, step, k, U
  <1>5. PICK f : Grown(Nodes, step, base, k, f)
    BY <1>1, <1>2, NodesGrow
  <1>6. f = F(f)
    <2>1. /\ f \in [0 .. k -> SUBSET Nodes] /\ f[0] = base
          /\ \A i \in 1 .. k : f[i] = Stepped(step, f[i - 1])
      BY <1>5 DEF Grown
    <2>2. \A i \in 0 .. k : f[i] = IF i = 0 THEN base ELSE U(f[i - 1])
      BY <1>2, <1>3, <2>1
    <2> QED BY <2>1, <2>2
  <1>7. g = F(g)
    <2> HIDE DEF F
    <2> QED BY <1>6
  <1>8. g[0] = base /\ \A i \in 1 .. k : g[i - 1] \in SUBSET Nodes => g[i] = Stepped(step, g[i - 1])
    <2> HIDE DEF g
    <2>1. \A i \in 0 .. k : g[i] = F(g)[i]
      BY <1>7
    <2> HIDE <1>7
    <2>2. \A i \in 0 .. k : g[i] = IF i = 0 THEN base ELSE U(g[i - 1])
      BY <2>1
    <2> QED BY <1>2, <1>3, <2>2
  <1>9. g[k] = Reached(Nodes, step, base)
    <2> HIDE DEF g
    <2> QED BY <1>1, <1>2, <1>8, GrownReaches, NodesAssumption
  <1> QED BY <1>4, <1>9 DEF step, base

(* What is met from c to an end that is no node. *)
LEMMA DprUntilStrung ==
  ASSUME NEW c, NEW end, end \notin Nodes, NEW S \in SUBSET Nodes, Strung(links.next, c, S, end)
  PROVE  Dpr!Until(c, end) = S
  <1>1. PICK next : next = links.next
    OBVIOUS
  <1>2. PICK step : step = [p \in Nodes |-> {p} \cup ({links.next[p]} \cap (Nodes \ {end}))]
    OBVIOUS
  <1>3. \A x \in S : step[x] = {x} \cup ({next[x]} \cap Nodes)
    BY <1>1, <1>2
  <1>4. Strung(next, c, S, end)
    BY <1>1
  <1>5. Reached(Nodes, step, {c} \cap Nodes) = S
    BY <1>3, <1>4, StrungReached
  <1>6. Dpr!Until(c, end) = Reached(Nodes, step, {c} \cap Nodes)
    BY <1>2, DprUntilReached
  <1> QED BY <1>5, <1>6

LEMMA DprChildren ==
  ASSUME NEW u, NEW C, NEW A, DprHolds(u, C, A)
  PROVE  \A p \in Placed \ {node} : Dpr!Children(p) = Below(u, p)
  <1> SUFFICES ASSUME NEW p \in Placed \ {node} PROVE Dpr!Children(p) = Below(u, p)
    OBVIOUS
  <1>1. /\ DprRing(links, Dpr!Kids(p), Below(u, p)) /\ "dprheap" \in Kinds /\ p \in Nodes
    BY PlacedFacts DEF DprHolds, DprLinked, DprRings
  <1>2. PICK h : h = Dpr!Kids(p)
    OBVIOUS
  <1>3. h \notin Nodes
    BY <1>1, <1>2, CellFacts
  <1>4. PICK S : S = Below(u, p)
    OBVIOUS
  <1>5. S \in SUBSET Nodes
    BY <1>4 DEF Below
  <1>6. PICK c : c = links.next[h]
    OBVIOUS
  <1>7. Strung(links.next, c, S, h)
    BY <1>1, <1>2, <1>4, <1>6, RingStrung DEF DprRing
  <1>8. Dpr!Until(c, h) = S
    BY <1>3, <1>5, <1>7, DprUntilStrung
  <1> QED BY <1>2, <1>4, <1>6, <1>8 DEF Dpr!Children

LEMMA DprTrees ==
  ASSUME NEW u, NEW C, NEW A, DprHolds(u, C, A), NEW n, Sub(u, {n} \cap Nodes) \subseteq Placed \ {node}
  PROVE  Dpr!Tree(n) = Sub(u, {n} \cap Nodes)
  <1>1. Forestry(u, C, A)
    BY DEF DprHolds
  <1>2. PICK R : R = {n} \cap Nodes
    OBVIOUS
  <1>3. R \in SUBSET Nodes /\ Sub(u, R) \subseteq Placed \ {node}
    BY <1>2
  <1>4. PICK step : step = [p \in Nodes |-> {p} \cup Dpr!Children(p)]
    OBVIOUS
  <1>5. \A p \in Sub(u, R) : step[p] = {p} \cup Below(u, p)
    <2>1. Placed \in SUBSET Nodes
      BY <1>1, PlacedFacts
    <2> QED BY <1>3, <1>4, <2>1, DprChildren
  <1>6. Reached(Nodes, step, R) = Sub(u, R)
    BY <1>3, <1>5, SubReached
  <1>7. Dpr!Tree(n) = Reached(Nodes, step, R)
    BY <1>2, <1>4, DprTreeReached
  <1> QED BY <1>2, <1>6, <1>7

(* The nodes from c to an end have the trees of S. *)
LEMMA DprForests ==
  ASSUME NEW u, NEW C, NEW A, DprHolds(u, C, A), NEW c, NEW S, S \subseteq Below(u, node),
         NEW end, end \notin Nodes, Strung(links.next, c, S, end), pc # "idle"
  PROVE  Dpr!Trees(Dpr!Until(c, end)) = Sub(u, S)
  <1>1. Forestry(u, C, A)
    BY DEF DprHolds
  <1>2. S \in SUBSET Nodes /\ \A x \in S : u[x] = node /\ x \in Placed
    BY <1>1, PassFacts DEF Below
  <1>3. Dpr!Until(c, end) = S
    BY <1>2, DprUntilStrung
  <1>4. \A n \in S : Dpr!Tree(n) = Sub(u, {n})
    <2> SUFFICES ASSUME NEW n \in S PROVE Dpr!Tree(n) = Sub(u, {n})
      OBVIOUS
    <2>1. PICK R : R = {n}
      OBVIOUS
    <2>2. {n} \cap Nodes = R /\ R \subseteq Placed /\ \A x \in R : u[x] = node
      BY <1>2, <2>1
    <2>3. Sub(u, R) \subseteq Placed \ {node}
      BY <1>1, <2>2, PlacedTrees
    <2>4. Dpr!Tree(n) = Sub(u, {n} \cap Nodes)
      BY <2>2, <2>3, DprTrees
    <2> QED BY <2>1, <2>2, <2>4
  <1>5. Sub(u, S) = UNION {Sub(u, {n}) : n \in S}
    BY <1>2, SubUnion
  <1> QED BY <1>3, <1>4, <1>5 DEF Dpr!Trees

LEMMA DprLeft ==
  ASSUME NEW u, NEW C, NEW A, DprHolds(u, C, A), pc # "idle"
  PROVE  Dpr!Left = Sub(u, C)
  <1>1. Forestry(u, C, A) /\ pc \in {"pair", "fold"} /\ "dprheap" \in Kinds
    BY DEF DprHolds, DprLinked, Forestry, TypeOK
  <1>2. PICK c : c = cursor
    OBVIOUS
  <1>3. PICK end : end = IF pc = "pair" THEN Dpr!Kids(node) ELSE Stack
    OBVIOUS
  <1>4. Strung(links.next, c, C, end)
    BY <1>1, <1>2, <1>3 DEF DprHolds, DprLinked
  <1>5. C \subseteq Below(u, node) /\ node \in Nodes
    BY <1>1, PassFacts
  <1>6. end \notin Nodes
    BY <1>1, <1>3, <1>5, CellFacts
  <1>7. Dpr!Trees(Dpr!Until(c, end)) = Sub(u, C)
    BY <1>4, <1>5, <1>6, DprForests
  <1> QED BY <1>2, <1>3, <1>7 DEF Dpr!Left

LEMMA DprNothingLost ==
  ASSUME NEW u, NEW C, NEW A, DprHolds(u, C, A)
  PROVE  Dpr!NothingLost
  <1> SUFFICES ASSUME pc # "idle"
               PROVE  Accounted(Dpr!Left, Dpr!Tree(twin),
                                IF pc = "pair" THEN Dpr!Trees(Dpr!Until(links.next[Stack], Stack))
                                ELSE Dpr!Tree(acc),
                                Dpr!Tree(root[heap]))
    BY DprSame DEF Dpr!NothingLost
  <1>1. /\ Forestry(u, C, A) /\ pc \in {"pair", "fold"} /\ "dprheap" \in Kinds
        /\ pc = "pair" => DprRing(links, Stack, A)
        /\ pc = "fold" => A = {acc} \cap Nodes
    BY DEF DprHolds, DprLinked, Forestry, TypeOK
  <1>2. /\ Below(u, node) = (C \cup A) \cup ({twin} \cap Nodes) /\ A \in SUBSET Nodes
        /\ \A x \in Below(u, node) : u[x] = node /\ x \in Placed
    BY <1>1, PassFacts
  <1>3. Dpr!Left = Sub(u, C)
    BY DprLeft
  <1>4. PICK t : t = twin
    OBVIOUS
  <1>5. Dpr!Tree(t) = Sub(u, {t} \cap Nodes)
    <2>1. {t} \cap Nodes \subseteq Placed /\ \A x \in {t} \cap Nodes : u[x] = node
      BY <1>2, <1>4
    <2>2. Sub(u, {t} \cap Nodes) \subseteq Placed \ {node}
      BY <1>1, <2>1, PlacedTrees
    <2> QED BY <2>2, DprTrees
  <1>6. PICK a : a = acc
    OBVIOUS
  <1>7. Sub(u, A) \subseteq Placed \ {node}
    BY <1>1, <1>2, PlacedTrees
  <1>8. PICK c : c = links.next[Stack]
    OBVIOUS
  <1>9. (IF pc = "pair" THEN Dpr!Trees(Dpr!Until(c, Stack)) ELSE Dpr!Tree(a)) = Sub(u, A)
    <2>1. CASE pc = "pair"
      <3>1. Strung(links.next, c, A, Stack)
        BY <1>1, <1>8, <2>1, RingStrung DEF DprRing
      <3>2. A \subseteq Below(u, node) /\ Stack \notin Nodes
        BY <1>1, <1>2, CellFacts
      <3>3. Dpr!Trees(Dpr!Until(c, Stack)) = Sub(u, A)
        BY <3>1, <3>2, DprForests
      <3> QED BY <2>1, <3>3
    <2>2. CASE pc = "fold"
      <3>1. A = {a} \cap Nodes
        BY <1>1, <1>6, <2>2
      <3>2. Dpr!Tree(a) = Sub(u, {a} \cap Nodes)
        BY <1>7, <3>1, DprTrees
      <3> QED BY <2>2, <3>1, <3>2
    <2> QED BY <1>1, <2>1, <2>2
  <1>10. Accounted(Sub(u, C), Sub(u, {twin} \cap Nodes), Sub(u, A), Sub(u, {root[heap]}))
    BY <1>1, ForestAccounted
  <1>11. CASE call \in {"remove", "update"}
    <2>1. PICK r : r = root[heap]
      OBVIOUS
    <2>2. PICK n : n = node
      OBVIOUS
    <2>3. r \in Nodes /\ r # n /\ heap \in Heaps
      BY <1>1, <1>11, <2>1, <2>2 DEF Forestry, Busy, TypeOK
    <2>4. r \in Placed /\ u[n] = None
      BY <1>1, <2>1, <2>2, <2>3, PlacedRoot, PassNode, NoneAssumption
    <2>5. PICK R : R = {r}
      OBVIOUS
    <2>6. R \in SUBSET Nodes /\ R = {r} \cap Nodes /\ R \subseteq Placed /\ n \notin R
      BY <2>3, <2>4, <2>5
    <2>7. Sub(u, R) \subseteq Placed
      <3>1. PICK T : T = Placed
        OBVIOUS
      <3>2. T \in SUBSET Nodes /\ R \subseteq T /\ \A x \in Nodes : u[x] \in T => x \in T
        BY <1>1, <2>6, <3>1, PlacedFacts
      <3>3. Sub(u, R) \subseteq T
        BY <3>2, SubLeast
      <3> QED BY <3>1, <3>3
    <2>8. n \notin Sub(u, R)
      <3>1. Sub(u, R) \in SUBSET Nodes /\ \A x \in Sub(u, R) : x \in R \/ u[x] \in Sub(u, R)
        BY <2>6, SubFacts
      <3> QED BY <2>4, <2>6, <3>1, NoneAssumption
    <2>9. Dpr!Tree(r) = Sub(u, R)
      BY <2>2, <2>6, <2>7, <2>8, DprTrees
    <2> QED BY <1>3, <1>4, <1>5, <1>6, <1>8, <1>9, <1>10, <2>1, <2>5, <2>9
  <1>12. CASE call \notin {"remove", "update"}
    <2>1. \A a1, b1, c1, d1, e1 : Accounted(a1, b1, c1, d1) => Accounted(a1, b1, c1, e1)
      BY <1>12 DEF Accounted
    <2>2. PICK X : X = Sub(u, {root[heap]})
      OBVIOUS
    <2>3. PICK Y : Y = Dpr!Tree(root[heap])
      OBVIOUS
    <2>4. Accounted(Sub(u, C), Sub(u, {twin} \cap Nodes), Sub(u, A), Y)
      BY <1>10, <2>1, <2>2
    <2> QED BY <1>3, <1>4, <1>5, <1>6, <1>8, <1>9, <2>3, <2>4
  <1> QED BY <1>11, <1>12

LEMMA DprHeapOrder ==
  ASSUME NEW u, NEW C, NEW A, DprHolds(u, C, A)
  PROVE  Dpr!HeapOrder
  <1> SUFFICES ASSUME pc = "idle", NEW h \in live, NEW p \in content[h], NEW n \in Dpr!Children(p)
               PROVE  key[p] <= key[n]
    BY DEF Dpr!HeapOrder
  <1>1. Forestry(u, C, A) /\ TypeOK /\ Ordered(u)
    BY DEF DprHolds, Forestry
  <1>2. h \in Heaps /\ node = None /\ p \in Nodes
    BY <1>1, BusyIdle DEF TypeOK
  <1>3. p \in Placed \ {node}
    BY <1>2, PlacedIdle, NoneAssumption
  <1>4. n \in Below(u, p)
    BY <1>3, DprChildren
  <1> QED BY <1>1, <1>2, <1>4, NoneAssumption DEF Ordered, Below

LEMMA FiniteCells == IsFiniteSet(Dpr!Cells)
  <1>1. IsFiniteSet(Nodes) /\ IsFiniteSet({Stack})
    BY NodesAssumption, FS_Singleton
  <1>2. PICK K : K = {Dpr!Kids(n) : n \in Nodes}
    OBVIOUS
  <1>3. IsFiniteSet(K)
    <2> DEFINE f == [n \in Nodes |-> Dpr!Kids(n)]
    <2>1. f \in Surjection(Nodes, K)
      BY <1>2 DEF Surjection
    <2> HIDE DEF f
    <2> QED BY <1>1, <2>1, FS_Surjection
  <1>4. IsFiniteSet(Nodes \cup K)
    BY <1>1, <1>3, FS_Union
  <1>5. IsFiniteSet((Nodes \cup K) \cup {Stack})
    BY <1>1, <1>4, FS_Union
  <1> QED BY <1>2, <1>5 DEF Dpr!Cells

LEMMA StepsWalk ==
  ASSUME NEW m \in DprMemory, NEW a \in Dpr!Cells
  PROVE  Walk(m.next, Dpr!Steps(m, a), a, Dpr!Cells, Cardinality(Dpr!Cells) + 1)
  <1>1. PICK X : X = Dpr!Cells
    OBVIOUS
  <1>2. PICK next : next = m.next
    OBVIOUS
  <1>3. DOMAIN next = X /\ a \in X
    BY <1>1, <1>2 DEF DprMemory, Pointers
  <1> DEFINE k == Dpr!Cardinality(X) + 1
             G(f) == [i \in 1 .. k |-> IF i = 1 THEN a
                                       ELSE LET b == f[i - 1] IN IF next[b] \in X THEN next[b] ELSE b]
             w == CHOOSE f : f = G(f)
  <1>4. k \in Nat /\ k = Cardinality(X) + 1
    BY <1>1, FiniteCells, FS_CardinalityType, DprSame
  <1>5. Dpr!Steps(m, a) = w
    BY <1>2, <1>3, Zenon DEF Dpr!Steps
  <1> HIDE DEF k
  <1>6. PICK f : Walked(next, f, a, X, k)
    BY <1>3, <1>4, Walks
  <1>7. f = G(f)
    BY <1>6 DEF Walked
  <1>8. w = G(w)
    <2> HIDE DEF G
    <2> QED BY <1>7
  <1>9. /\ DOMAIN w = 1 .. k
        /\ \A i \in 1 .. k : w[i] = IF i = 1 THEN a
                                    ELSE IF next[w[i - 1]] \in X THEN next[w[i - 1]] ELSE w[i - 1]
    <2> HIDE DEF w
    <2> QED BY <1>8
  <1>10. w = [i \in 1 .. k |-> w[i]]
    <2> HIDE DEF w
    <2> QED BY <1>8
  <1> HIDE DEF w, G
  <1>11. w[1] = a /\ \A i \in 1 .. k - 1 : next[w[i]] \in X => w[i + 1] = next[w[i]]
    <2>1. 1 \in 1 .. k
      BY <1>1, <1>4, FiniteCells, FS_CardinalityType
    <2>2. ASSUME NEW i \in 1 .. k - 1, next[w[i]] \in X PROVE w[i + 1] = next[w[i]]
      <3>1. i + 1 \in 1 .. k /\ (i + 1) - 1 = i /\ i + 1 # 1
        BY <1>4
      <3> QED BY <1>9, <2>2, <3>1
    <2> QED BY <1>9, <2>1, <2>2
  <1>12. \A i \in 1 .. k : w[i] \in X
    <2> DEFINE T == {n \in Nat : n + 1 \in 1 .. k => w[n + 1] \in X}
    <2>1. 0 \in T
      BY <1>3, <1>11
    <2>2. ASSUME NEW n \in Nat, n \in T PROVE n + 1 \in T
      <3> SUFFICES ASSUME (n + 1) + 1 \in 1 .. k PROVE w[(n + 1) + 1] \in X
        OBVIOUS
      <3>1. n + 1 \in 1 .. k /\ ((n + 1) + 1) - 1 = n + 1 /\ w[n + 1] \in X
        BY <1>4, <2>2
      <3>2. PICK i \in 1 .. k : i = (n + 1) + 1
        OBVIOUS
      <3>3. i # 1 /\ w[i - 1] \in X
        BY <3>1, <3>2
      <3> QED BY <1>9, <3>2, <3>3
    <2> HIDE DEF T
    <2>3. \A n \in Nat : n \in T
      BY <2>1, <2>2, NatSet
    <2>4. ASSUME NEW i \in 1 .. k PROVE w[i] \in X
      <3>1. i - 1 \in Nat /\ (i - 1) + 1 = i
        OBVIOUS
      <3> QED BY <2>3, <3>1 DEF T
    <2> QED BY <2>4
  <1>13. w \in [1 .. k -> X]
    BY <1>10, <1>12
  <1> QED BY <1>1, <1>2, <1>4, <1>5, <1>11, <1>13 DEF Walk

(* What the tests of a list compute, of the head and the nodes of a ring. *)
LEMMA DprIsRing ==
  ASSUME NEW m \in DprMemory, NEW h \in Dpr!Cells, NEW S, S \subseteq Dpr!Cells, DprRing(m, h, S)
  PROVE  Dpr!IsRing(m, h)
  <1>1. PICK X : X = Dpr!Cells
    OBVIOUS
  <1>2. PICK next : next = m.next
    OBVIOUS
  <1>3. PICK prev : prev = m.prev
    OBVIOUS
  <1>4. PICK k \in Nat : k = Cardinality(X)
    BY <1>1, FiniteCells, FS_CardinalityType
  <1>5. PICK w : w = Dpr!Steps(m, h)
    OBVIOUS
  <1>6. Walk(next, w, h, X, Cardinality(X) + 1)
    BY <1>1, <1>2, <1>5, StepsWalk
  <1>7. Ring(next, prev, h, S) /\ IsFiniteSet(X) /\ S \cup {h} \subseteq X /\ h \in S \cup {h}
    BY <1>1, <1>2, <1>3, FiniteCells DEF DprRing
  <1>8. /\ \A i \in 1 .. k + 1 : w[i] \in S \cup {h}
        /\ \A i \in 1 .. k : w[i + 1] = next[w[i]]
        /\ \E d \in 1 .. k : w[d + 1] = h
    BY <1>4, <1>6, <1>7, RingReturns
  <1>9. w \in Seq(X) /\ Len(w) = k + 1 /\ DOMAIN next = X
    <2>1. w \in [1 .. k + 1 -> X]
      BY <1>4, <1>6 DEF Walk
    <2>2. DOMAIN next = X
      BY <1>1, <1>2 DEF DprMemory, Pointers
    <2> QED BY <2>1, <2>2
  <1>10. PICK d \in 1 .. k : w[d + 1] = h
    BY <1>8
  <1>11. PICK n \in 2 .. k + 1 : n = d + 1
    OBVIOUS
  <1>12. \A i \in 1 .. n - 1 : w[i + 1] \in X /\ prev[w[i + 1]] = w[i]
    <2> SUFFICES ASSUME NEW i \in 1 .. n - 1 PROVE w[i + 1] \in X /\ prev[w[i + 1]] = w[i]
      OBVIOUS
    <2>1. i \in 1 .. k /\ i \in 1 .. k + 1 /\ i + 1 \in 1 .. k + 1
      BY <1>11
    <2>2. w[i] \in S \cup {h} /\ w[i + 1] = next[w[i]] /\ w[i + 1] \in S \cup {h}
      BY <1>8, <2>1
    <2>3. prev[next[w[i]]] = w[i]
      BY <1>7, <2>2 DEF Ring
    <2> QED BY <1>7, <2>2, <2>3
  <1>13. n \in 2 .. Len(w) /\ w[n] = h
    BY <1>9, <1>10, <1>11
  <1>14. \E j \in 2 .. Len(w) :
           /\ w[j] = h
           /\ \A i \in 1 .. j - 1 : w[i + 1] \in DOMAIN next /\ prev[w[i + 1]] = w[i]
    BY <1>9, <1>12, <1>13
  <1> QED BY <1>2, <1>3, <1>5, <1>14 DEF Dpr!IsRing

LEMMA DprMembers ==
  ASSUME NEW m \in DprMemory, NEW h \in Dpr!Cells, NEW S, S \subseteq Dpr!Cells, DprRing(m, h, S)
  PROVE  Dpr!Members(m, h) = S
  <1>1. PICK X : X = Dpr!Cells
    OBVIOUS
  <1>2. PICK next : next = m.next
    OBVIOUS
  <1>3. PICK prev : prev = m.prev
    OBVIOUS
  <1>4. PICK k \in Nat : k = Cardinality(X)
    BY <1>1, FiniteCells, FS_CardinalityType
  <1>5. Ring(next, prev, h, S) /\ IsFiniteSet(X) /\ S \cup {h} \subseteq X
    BY <1>1, <1>2, <1>3, FiniteCells DEF DprRing
  <1>6. PICK a : a = next[h]
    OBVIOUS
  <1>7. a \in S \cup {h} /\ a \in Dpr!Cells
    BY <1>1, <1>5, <1>6 DEF Ring
  <1>8. PICK w : w = Dpr!Steps(m, a)
    OBVIOUS
  <1>9. Walk(next, w, a, X, Cardinality(X) + 1)
    BY <1>1, <1>2, <1>7, <1>8, StepsWalk
  <1>10. /\ \A i \in 1 .. k + 1 : w[i] \in S \cup {h}
         /\ \A i \in 1 .. k : w[i + 1] = next[w[i]]
         /\ \E d \in 1 .. k : w[d + 1] = a
    BY <1>4, <1>5, <1>7, <1>9, RingReturns
  <1>11. w \in [1 .. k + 1 -> X] /\ w \in Seq(X) /\ Len(w) = k + 1 /\ w[1] = a /\ DOMAIN w = 1 .. k + 1
    <2>1. w \in [1 .. k + 1 -> X] /\ w[1] = a
      BY <1>4, <1>9 DEF Walk
    <2> QED BY <2>1
  <1>12. \E d \in 1 .. k : w[d] = h
    <2>1. PICK d \in 1 .. k : w[d + 1] = a
      BY <1>10
    <2>2. w[d] \in S \cup {h} /\ next[w[d]] = next[h]
      BY <1>6, <1>10, <2>1
    <2>3. prev[next[w[d]]] = w[d] /\ prev[next[h]] = h
      BY <1>5, <2>2 DEF Ring
    <2> QED BY <2>2, <2>3
  <1>13. PICK e \in 1 .. k : w[e] = h /\ \A i \in 1 .. e - 1 : w[i] # h
    <2>1. PICK T : T = {i \in 1 .. k : w[i] = h}
      OBVIOUS
    <2>2. T \subseteq Nat /\ T # {}
      BY <1>12, <2>1
    <2>3. PICK e \in T : \A i \in T : e <= i
      BY <2>2, LeastElement
    <2>4. \A i \in 1 .. e - 1 : w[i] # h
      BY <2>1, <2>3
    <2> QED BY <2>1, <2>3, <2>4
  <1>14. {i \in DOMAIN w : \A j \in 1 .. i : w[j] # h} = 1 .. e - 1
    BY <1>11, <1>13
  <1>15. Dpr!Cardinality({i \in DOMAIN w : \A j \in 1 .. i : w[j] # h}) = e - 1
    <2>1. Cardinality(1 .. e - 1) = e - 1
      BY FS_Interval
    <2> QED BY <1>14, <2>1, DprSame
  <1>16. PICK nodes : nodes = SubSeq(w, 1, e - 1)
    OBVIOUS
  <1>17. Dpr!NodesOf(m, h) = nodes
    BY <1>2, <1>6, <1>8, <1>15, <1>16 DEF Dpr!NodesOf
  <1>18. DOMAIN nodes = 1 .. e - 1 /\ \A i \in 1 .. e - 1 : nodes[i] = w[i]
    BY <1>11, <1>16
  <1>19. PICK T : T = {nodes[i] : i \in DOMAIN nodes}
    OBVIOUS
  <1>20. T = {w[i] : i \in 1 .. e - 1}
    BY <1>18, <1>19
  <1>21. T \in SUBSET S
    <2>1. \A i \in 1 .. e - 1 : w[i] \in S
      BY <1>10, <1>13
    <2> QED BY <1>20, <2>1
  <1>22. \A i \in 1 .. e : w[i] \in T \cup {h}
    BY <1>13, <1>20
  <1>23. next[h] \in T \cup {h}
    BY <1>6, <1>11, <1>22
  <1>24. ASSUME NEW x \in T PROVE next[x] \in T \cup {h}
    <2>1. PICK i \in 1 .. e - 1 : x = w[i]
      BY <1>20
    <2>2. i \in 1 .. k /\ i + 1 \in 1 .. e
      BY <1>13
    <2> QED BY <1>10, <1>22, <2>1, <2>2
  <1>25. T = S
    BY <1>5, <1>21, <1>23, <1>24 DEF Ring
  <1> QED BY <1>17, <1>19, <1>25 DEF Dpr!Members

LEMMA DprTreesSound ==
  ASSUME NEW u, NEW C, NEW A, DprHolds(u, C, A)
  PROVE  Dpr!TreesSound
  <1> SUFFICES ASSUME pc = "idle", NEW h \in live
               PROVE  /\ Dpr!Tree(root[h]) = content[h]
                      /\ root[h] # None => links.parent[root[h]] = None
                      /\ \A p \in content[h] :
                           /\ Dpr!IsRing(links, Dpr!Kids(p))
                           /\ {n \in content[h] : links.parent[n] = p}
                                = Dpr!Members(links, Dpr!Kids(p))
    BY DEF Dpr!TreesSound
  <1>1. /\ Forestry(u, C, A) /\ TypeOK /\ links \in DprMemory /\ "dprheap" \in Kinds
        /\ DprRings(links, u, Placed \ {node})
    BY DEF DprHolds, Forestry, DprLinked
  <1>2. h \in Heaps /\ node = None
    BY <1>1, BusyIdle DEF TypeOK
  <1>3. PICK r : r = root[h]
    OBVIOUS
  <1>4. PICK S : S = content[h]
    OBVIOUS
  <1>5. /\ S = Sub(u, {r} \cap Nodes) /\ S \in SUBSET Nodes
        /\ \A p \in S : Below(u, p) = {n \in S : u[n] = p}
    BY <1>1, <1>2, <1>3, <1>4, IdleTrees
  <1>6. \A n \in S : n \in Placed \ {node}
    BY <1>2, <1>4, <1>5, PlacedIdle, NoneAssumption
  <1>7. /\ r # None => r \in S /\ u[r] = None
        /\ \A n \in S : n # r => u[n] \in S
    BY <1>1, <1>2, <1>3, <1>4, IdleFacts
  <1>8. PICK m : m = links
    OBVIOUS
  <1>9. \A p \in S : /\ DprRing(m, Dpr!Kids(p), Below(u, p))
                     /\ \A x \in Below(u, p) : m.parent[x] = p
                     /\ u[p] = None => m.parent[p] = None
    BY <1>1, <1>6, <1>8 DEF DprRings
  <1>10. Dpr!Tree(r) = S
    <2>1. Sub(u, {r} \cap Nodes) \subseteq Placed \ {node}
      BY <1>5, <1>6
    <2> QED BY <1>5, <2>1, DprTrees
  <1>11. r # None => m.parent[r] = None
    BY <1>7, <1>9
  <1>12. ASSUME NEW p \in S
         PROVE  Dpr!IsRing(m, Dpr!Kids(p)) /\ {n \in S : m.parent[n] = p} = Dpr!Members(m, Dpr!Kids(p))
    <2>1. PICK k : k = Dpr!Kids(p)
      OBVIOUS
    <2>2. PICK B : B = Below(u, p)
      OBVIOUS
    <2>3. m \in DprMemory /\ k \in Dpr!Cells /\ B \subseteq Dpr!Cells /\ DprRing(m, k, B)
      <3>1. B \subseteq Nodes /\ p \in Nodes
        BY <1>5, <2>2 DEF Below
      <3> QED BY <1>1, <1>8, <1>9, <2>1, <2>2, <3>1, CellFacts
    <2>4. Dpr!IsRing(m, k) /\ Dpr!Members(m, k) = B
      BY <2>3, DprIsRing, DprMembers
    <2>5. ASSUME NEW n \in S PROVE m.parent[n] = p <=> n \in B
      <3>1. n \in B => m.parent[n] = p
        BY <1>9, <2>2
      <3>2. n = r => m.parent[n] # p /\ n \notin B
        BY <1>5, <1>7, <1>11, <2>2, NoneAssumption
      <3>3. n # r => m.parent[n] = u[n]
        <4> SUFFICES ASSUME n # r PROVE m.parent[n] = u[n]
          OBVIOUS
        <4>1. PICK q \in S : q = u[n]
          BY <1>7
        <4>2. n \in Below(u, q)
          BY <1>5, <4>1
        <4> QED BY <1>9, <4>1, <4>2
      <3>4. n \in B <=> u[n] = p
        BY <1>5, <2>2
      <3> QED BY <3>1, <3>2, <3>3, <3>4
    <2>6. B \subseteq S
      BY <1>5, <2>2
    <2> QED BY <2>1, <2>4, <2>5, <2>6
  <1> QED BY <1>3, <1>4, <1>8, <1>10, <1>11, <1>12

LEMMA DprStays ==
  ASSUME UNCHANGED vars, DprInv
  PROVE  DprInv'
  <1>1. PICK u \in Parents, C \in SUBSET Nodes, A \in SUBSET Nodes : DprHolds(u, C, A)
    BY DEF DprInv
  <1>2. UNCHANGED <<links, call, pc, cursor, acc, node>> /\ Placed' = Placed
    BY PlacedKept DEF vars, Locals
  <1>3. DprLinked(u, C, A)'
    BY <1>1, <1>2 DEF DprHolds, DprLinked, DprRings
  <1>4. Forestry(u, C, A)'
    BY <1>1, ForestrySame DEF DprHolds
  <1> QED BY <1>3, <1>4, DprInvNext

LEMMA DprStep ==
  ASSUME DprInv, Dpr!Next
  PROVE  DprInv'
  <1>1. PICK u \in Parents, C \in SUBSET Nodes, A \in SUBSET Nodes : DprHolds(u, C, A)
    BY DEF DprInv
  <1>2. DprPassed(u, C) => DprInv'
    BY DprInvNext DEF DprPassed
  <1>3. CASE Dpr!Pair \/ Dpr!PairEnds \/ Dpr!Fold
    BY <1>1, <1>2, <1>3, DprPair, DprPairEnds, DprFold
  <1>4. CASE Dpr!Merged
    BY <1>1, <1>4, DprMerged
  <1>5. ASSUME NEW h \in Heaps, NEW n \in Nodes,
               \/ Dpr!Insert(h, n) \/ Dpr!Remove(h, n)
               \/ \E k \in Keys : Dpr!Promote(h, n, k) \/ Dpr!Demote(h, n, k)
        PROVE  DprInv'
    BY <1>1, <1>5, DprInsert, DprRemove, DprPromote, DprDemote
  <1>6. ASSUME NEW h \in Heaps,
               \/ Dpr!Setup(h) \/ Dpr!Extract(h)
               \/ \E g \in Heaps : Dpr!Merge(h, g)
        PROVE  DprInv'
    BY <1>1, <1>6, DprSetup, DprExtract, DprMerge
  <1>7. CASE \E n \in Nodes, k \in Keys : Dpr!SetKey(n, k)
    BY <1>1, <1>7, DprSetKey
  <1> QED BY <1>3, <1>4, <1>5, <1>6, <1>7 DEF Dpr!Next

LEMMA DprLeftNext ==
  ASSUME NEW u, NEW C, NEW A
  PROVE  (DprHolds(u, C, A) /\ pc # "idle" => Dpr!Left = Sub(u, C))'
  <1>1. DprHolds(u, C, A) /\ pc # "idle" => Dpr!Left = Sub(u, C)
    BY DprLeft
  <1> QED BY <1>1, PTL

LEMMA DprAdvances ==
  ASSUME DprInv, Dpr!Next, pc # "idle", pc' = pc
  PROVE  Cardinality(Dpr!Left') < Cardinality(Dpr!Left)
  <1>1. PICK u \in Parents, C \in SUBSET Nodes, A \in SUBSET Nodes : DprHolds(u, C, A)
    BY DEF DprInv
  <1>2. DprPassed(u, C)
    <2>1. \A h : ~ Dpr!Setup(h) /\ ~ Dpr!Extract(h) /\ \A g : ~ Dpr!Merge(h, g)
      BY DEF Dpr!Setup, Dpr!Extract, Dpr!Merge, Dpr!SetupTo, Dpr!Extracting, Dpr!MergeTo
    <2>2. \A h, n : ~ Dpr!Insert(h, n) /\ ~ Dpr!Remove(h, n) /\ ~ Dpr!SetKey(h, n)
      BY DEF Dpr!Insert, Dpr!Remove, Dpr!SetKey, Dpr!Removing, Dpr!InsertTo
    <2>3. \A h, n, k : ~ Dpr!Promote(h, n, k) /\ ~ Dpr!Demote(h, n, k)
      BY DEF Dpr!Promote, Dpr!Demote, Dpr!Rekeying
    <2>4. Dpr!Merged => pc' = "idle"
      BY DEF Dpr!Merged, Dpr!DropTo, Dpr!RemoveTo, Dpr!JoinTo, Dpr!DemoteAlone, Dpr!Return
    <2>5. Dpr!Pair \/ Dpr!PairEnds \/ Dpr!Fold
      BY <2>1, <2>2, <2>3, <2>4 DEF Dpr!Next
    <2> QED BY <1>1, <2>5, DprPair, DprPairEnds, DprFold
  <1>3. PICK v, D, B : /\ Forestry(v, D, B)' /\ DprLinked(v, D, B)'
                       /\ Cardinality(Sub(v, D)) < Cardinality(Sub(u, C))
    BY <1>2 DEF DprPassed
  <1>4. Dpr!Left = Sub(u, C)
    BY <1>1, DprLeft
  <1>5. DprHolds(v, D, B)'
    BY <1>3 DEF DprHolds
  <1>6. Dpr!Left' = Sub(v, D)
    BY <1>5, DprLeftNext
  <1> QED BY <1>3, <1>4, <1>6

LEMMA DprQueue ==
  ASSUME NEW u, NEW C, NEW A, Forestry(u, C, A), Dpr!Next
  PROVE  QueueSteps
  <1>1. ASSUME NEW h \in Heaps, Dpr!Setup(h) PROVE QueueSteps
    <2>1. \E memory : SetupTo(h, memory)
      BY <1>1, Zenon DEF Dpr!Setup, Dpr!SetupTo, SetupTo, Dpr!NoneOut, NoneOut, Dpr!Locals, Locals
    <2> QED BY <2>1, QueueSetup
  <1>2. ASSUME NEW h \in Heaps, Dpr!Extract(h) PROVE QueueSteps
    <2>1. Extracting(h)
      BY <1>2 DEF Dpr!Extract, Dpr!Extracting, Extracting, Dpr!NoneOut, NoneOut
    <2> QED BY <2>1, QueueExtract
  <1>3. ASSUME NEW r \in Heaps, NEW s \in Heaps, Dpr!Merge(r, s) PROVE QueueSteps
    <2>1. \E joined : MergeTo(r, s, joined)
      BY <1>3, Zenon DEF Dpr!Merge, Dpr!MergeTo, MergeTo, Dpr!NoneOut, NoneOut, Dpr!Locals, Locals,
                         Dpr!CountAfterMerge, CountAfterMerge, Dpr!Winner, Winner
    <2> QED BY <2>1, QueueMerge
  <1>4. ASSUME NEW h \in Heaps, NEW n \in Nodes, Dpr!Insert(h, n) PROVE QueueSteps
    <2>1. \E alone, joined : InsertTo(h, n, alone, joined)
      BY <1>4, Zenon DEF Dpr!Insert, Dpr!InsertTo, InsertTo, Dpr!NoneOut, NoneOut, Dpr!Locals, Locals,
                         Dpr!Winner, Winner
    <2> QED BY <2>1, QueueInsert
  <1>5. ASSUME NEW n \in Nodes, NEW k, Dpr!SetKey(n, k) PROVE QueueSteps
    <2>1. SetKey(n, k)
      BY <1>5 DEF Dpr!SetKey, SetKey, Dpr!NoneOut, NoneOut, Dpr!Locals, Locals
    <2> QED BY <2>1, QueueSetKey
  <1>6. ASSUME NEW h \in Heaps, NEW n \in Nodes, Dpr!Remove(h, n) PROVE QueueSteps
    <2>1. Removing(h, n)
      BY <1>6 DEF Dpr!Remove, Dpr!Removing, Removing, Dpr!NoneOut, NoneOut
    <2> QED BY <2>1, QueueRemove
  <1>7. ASSUME NEW h \in Heaps, NEW n \in Nodes, NEW k, Dpr!Promote(h, n, k) \/ Dpr!Demote(h, n, k)
        PROVE  QueueSteps
    <2>1. Rekeying(h, n, k)
      BY <1>7 DEF Dpr!Promote, Dpr!Demote, Dpr!Rekeying, Rekeying, Dpr!NoneOut, NoneOut
    <2> QED BY <2>1, QueueRekey
  <1>8. ASSUME Dpr!Pair \/ Dpr!PairEnds \/ Dpr!Fold \/ Dpr!Merged PROVE QueueSteps
    <2>1. UNCHANGED <<key, content, out>>
      BY <1>8 DEF Dpr!Pair, Dpr!PairEnds, Dpr!Fold, Dpr!Merged, Dpr!DropTo, Dpr!RemoveTo, Dpr!JoinTo, Dpr!DemoteAlone
    <2> QED BY <2>1, QueueStutters
  <1> QED BY <1>1, <1>2, <1>3, <1>4, <1>5, <1>6, <1>7, <1>8 DEF Dpr!Next

-----------------------------------------------------------------------------
(* The pairing heaps: pprheap is the one that is built with its internal   *)
(* assertions, without which it loses nodes.                               *)
Covered == kind \in {"hprheap", "dprheap"} \/ (kind = "pprheap" /\ AssertIntern)

PairingInv ==
  /\ Covered
  /\ kind = "hprheap" => HprInv
  /\ kind = "pprheap" => PprInv
  /\ kind = "dprheap" => DprInv

(* The links of the nodes follow a forest that the heaps hold apart, and   *)
(* while children are merged those that are left and those that have been  *)
(* merged are strung from the variables of the call.                       *)
THEOREM PairingInvariant == MCSpec /\ Covered => []PairingInv
  <1>1. MCInit /\ Covered => PairingInv
    BY HprInit, PprInit, DprInit DEF MCInit, Covered, PairingInv
  <1>2. PairingInv /\ [MCNext]_allVars => PairingInv'
    <2> SUFFICES ASSUME PairingInv, [MCNext]_allVars
                 PROVE  PairingInv'
      OBVIOUS
    <2>1. kind' = kind
      BY DEF MCNext, allVars
    <2>2. CASE kind = "hprheap"
      <3>1. HprInv'
        <4>1. HprInv /\ (Hpr!Next \/ UNCHANGED vars)
          BY <2>2 DEF PairingInv, MCNext, allVars
        <4> QED BY <4>1, HprStep, HprStays
      <3> QED BY <2>1, <2>2, <3>1 DEF PairingInv, Covered
    <2>3. CASE kind = "pprheap"
      <3>1. PprInv'
        <4>1. PprInv /\ (Ppr!Next \/ UNCHANGED vars) /\ AssertIntern = TRUE
          BY <2>3, PprAssumption DEF PairingInv, MCNext, allVars, Covered, Ppr!AssertAssumption
        <4> QED BY <4>1, PprStep, PprStays
      <3> QED BY <2>1, <2>3, <3>1 DEF PairingInv, Covered
    <2>4. CASE kind = "dprheap"
      <3>1. DprInv'
        <4>1. DprInv /\ (Dpr!Next \/ UNCHANGED vars)
          BY <2>4 DEF PairingInv, MCNext, allVars
        <4> QED BY <4>1, DprStep, DprStays
      <3> QED BY <2>1, <2>4, <3>1 DEF PairingInv, Covered
    <2> QED BY <2>2, <2>3, <2>4 DEF PairingInv, Covered
  <1> QED BY <1>1, <1>2, PTL DEF MCSpec

(* Between calls the links of a heap make a tree of exactly the nodes that *)
(* the client put in it, each one reached once, or in the ring of the      *)
(* children of its parent, and the count is right, whatever calls came     *)
(* before.                                                                 *)
THEOREM PairingTreesSound == MCSpec /\ Covered => []TreesSound
  <1>1. PairingInv => TreesSound
    <2> SUFFICES ASSUME PairingInv PROVE TreesSound
      OBVIOUS
    <2>1. CASE kind = "hprheap"
      <3>1. PICK u \in Parents, C \in SUBSET Nodes, A \in SUBSET Nodes : HprHolds(u, C, A)
        BY <2>1 DEF PairingInv, HprInv
      <3>2. Hpr!TreesSound /\ TypeOK /\ CountsAgree
        BY <3>1, HprTreesSound, ForestCounts DEF HprHolds
      <3> QED BY <2>1, <3>2 DEF TreesSound
    <2>2. CASE kind = "pprheap"
      <3>1. PICK u \in Parents, C \in SUBSET Nodes, A \in SUBSET Nodes : PprHolds(u, C, A)
        BY <2>2 DEF PairingInv, PprInv
      <3>2. Ppr!TreesSound /\ TypeOK /\ CountsAgree
        BY <3>1, PprTreesSound, ForestCounts DEF PprHolds
      <3> QED BY <2>2, <3>2 DEF TreesSound
    <2>3. CASE kind = "dprheap"
      <3>1. PICK u \in Parents, C \in SUBSET Nodes, A \in SUBSET Nodes : DprHolds(u, C, A)
        BY <2>3 DEF PairingInv, DprInv
      <3>2. Dpr!TreesSound /\ TypeOK /\ CountsAgree
        BY <3>1, DprTreesSound, ForestCounts DEF DprHolds
      <3> QED BY <2>3, <3>2 DEF TreesSound
    <2> QED BY <2>1, <2>2, <2>3 DEF PairingInv, Covered
  <1> QED BY <1>1, PairingInvariant, PTL

(* Between calls no node precedes its parent, whatever nodes were removed, *)
(* promoted or demoted, and heaps merged.                                  *)
THEOREM PairingHeapOrder == MCSpec /\ Covered => []HeapOrder
  <1>1. PairingInv => HeapOrder
    <2> SUFFICES ASSUME PairingInv PROVE HeapOrder
      OBVIOUS
    <2>1. CASE kind = "hprheap"
      <3>1. Hpr!HeapOrder
        BY <2>1, HprHeapOrder DEF PairingInv, HprInv
      <3> QED BY <2>1, <3>1 DEF HeapOrder
    <2>2. CASE kind = "pprheap"
      <3>1. Ppr!HeapOrder
        BY <2>2, PprHeapOrder DEF PairingInv, PprInv
      <3> QED BY <2>2, <3>1 DEF HeapOrder
    <2>3. CASE kind = "dprheap"
      <3>1. Dpr!HeapOrder
        BY <2>3, DprHeapOrder DEF PairingInv, DprInv
      <3> QED BY <2>3, <3>1 DEF HeapOrder
    <2> QED BY <2>1, <2>2, <2>3 DEF PairingInv, Covered
  <1> QED BY <1>1, PairingInvariant, PTL

(* At every iteration of either pass of a merge each node of the heap is   *)
(* in one of the places that the call holds.                               *)
THEOREM PairingNothingLost == MCSpec /\ Covered => []NothingLost
  <1>1. PairingInv => NothingLost
    <2> SUFFICES ASSUME PairingInv PROVE NothingLost
      OBVIOUS
    <2>1. CASE kind = "hprheap"
      <3>1. Hpr!NothingLost
        BY <2>1, HprNothingLost DEF PairingInv, HprInv
      <3> QED BY <2>1, <3>1 DEF NothingLost
    <2>2. CASE kind = "pprheap"
      <3>1. Ppr!NothingLost
        BY <2>2, PprNothingLost DEF PairingInv, PprInv
      <3> QED BY <2>2, <3>1 DEF NothingLost
    <2>3. CASE kind = "dprheap"
      <3>1. Dpr!NothingLost
        BY <2>3, DprNothingLost DEF PairingInv, DprInv
      <3> QED BY <2>3, <3>1 DEF NothingLost
    <2> QED BY <2>1, <2>2, <2>3 DEF PairingInv, Covered
  <1> QED BY <1>1, PairingInvariant, PTL

(* Each iteration of either pass leaves fewer nodes to look at, so that    *)
(* every call ends.                                                        *)
THEOREM PairingPassesAdvance == MCSpec /\ Covered => PassesAdvance
  <1> DEFINE Advance == pc # "idle" /\ pc' = pc /\ kind \in Pairing
                          => Cardinality(Left') < Cardinality(Left)
  <1>1. PairingInv /\ [MCNext]_allVars => [Advance]_vars
    <2> SUFFICES ASSUME PairingInv, MCNext, pc # "idle", pc' = pc
                 PROVE  Cardinality(Left') < Cardinality(Left)
      BY DEF allVars
    <2>1. kind' = kind
      BY DEF MCNext
    <2>2. CASE kind = "hprheap"
      <3>1. HprInv /\ Hpr!Next
        BY <2>2 DEF PairingInv, MCNext
      <3>2. Cardinality(Hpr!Left') < Cardinality(Hpr!Left)
        BY <3>1, HprAdvances
      <3> QED BY <2>1, <2>2, <3>2 DEF Left
    <2>3. CASE kind = "pprheap"
      <3>1. PprInv /\ Ppr!Next
        BY <2>3 DEF PairingInv, MCNext
      <3>2. Cardinality(Ppr!Left') < Cardinality(Ppr!Left)
        BY <3>1, PprAdvances
      <3> QED BY <2>1, <2>3, <3>2 DEF Left
    <2>4. CASE kind = "dprheap"
      <3>1. DprInv /\ Dpr!Next
        BY <2>4 DEF PairingInv, MCNext
      <3>2. Cardinality(Dpr!Left') < Cardinality(Dpr!Left)
        BY <3>1, DprAdvances
      <3> QED BY <2>1, <2>4, <3>2 DEF Left
    <2> QED BY <2>2, <2>3, <2>4 DEF PairingInv, Covered
  <1> QED BY <1>1, PairingInvariant, PTL DEF MCSpec, PassesAdvance

(* Every heap is a bounded priority queue: what extract() returns precedes *)
(* every node that the client has in the heap, whatever was removed,       *)
(* promoted, demoted and merged before, and takes that node only.          *)
THEOREM PairingQueues == MCSpec /\ Covered => HeapsSpec
  <1> DEFINE Starts == \A h \in Heaps : IF kind = "wide" THEN WideQueue(h)!Init ELSE Queue(h)!Init
             Steps == \A h \in Heaps : IF kind = "wide"
                                       THEN [WideQueue(h)!Next]_(WideQueue(h)!vars)
                                       ELSE [Queue(h)!Next]_(Queue(h)!vars)
  <1>1. MCInit /\ Covered => Starts
    <2> SUFFICES ASSUME MCInit, Covered PROVE Starts
      OBVIOUS
    <2>1. content = [h \in Heaps |-> {}] /\ out = [h \in Heaps |-> None] /\ kind # "wide"
      BY DEF MCInit, Covered, Hpr!Init, Ppr!Init, Dpr!Init, Hpr!Down, Ppr!Down, Dpr!Down
    <2>2. \A h \in Heaps : content[h] = {} /\ out[h] = None
      BY <2>1
    <2>3. \A h \in Heaps : Queue(h)!Init
      BY <2>2 DEF Queue!Init
    <2> QED BY <2>1, <2>3
  <1>2. PairingInv /\ [MCNext]_allVars => [Steps]_vars
    <2> SUFFICES ASSUME PairingInv, MCNext PROVE Steps
      BY DEF allVars
    <2>1. QueueSteps
      <3>1. CASE kind = "hprheap"
        <4>1. PICK u \in Parents, C \in SUBSET Nodes, A \in SUBSET Nodes : HprHolds(u, C, A)
          BY <3>1 DEF PairingInv, HprInv
        <4>2. Forestry(u, C, A) /\ Hpr!Next
          BY <3>1, <4>1 DEF HprHolds, MCNext
        <4> QED BY <4>2, HprQueue
      <3>2. CASE kind = "pprheap"
        <4>1. PICK u \in Parents, C \in SUBSET Nodes, A \in SUBSET Nodes : PprHolds(u, C, A)
          BY <3>2 DEF PairingInv, PprInv
        <4>2. Forestry(u, C, A) /\ Ppr!Next
          BY <3>2, <4>1 DEF PprHolds, MCNext
        <4> QED BY <4>2, PprQueue
      <3>3. CASE kind = "dprheap"
        <4>1. PICK u \in Parents, C \in SUBSET Nodes, A \in SUBSET Nodes : DprHolds(u, C, A)
          BY <3>3 DEF PairingInv, DprInv
        <4>2. Forestry(u, C, A) /\ Dpr!Next
          BY <3>3, <4>1 DEF DprHolds, MCNext
        <4> QED BY <4>2, DprQueue
      <3> QED BY <3>1, <3>2, <3>3 DEF PairingInv, Covered
    <2>2. kind # "wide"
      BY DEF PairingInv, Covered
    <2> QED BY <2>1, <2>2 DEF QueueSteps
  <1> QED BY <1>1, <1>2, PairingInvariant, PTL DEF MCSpec, HeapsSpec

=============================================================================
