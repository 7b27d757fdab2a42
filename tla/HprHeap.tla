------------------------------- MODULE HprHeap ------------------------------
(***************************************************************************)
(* The pairing heap of src/src/hprheap.c, whose nodes only hold pointers   *)
(* to their first child (children[0]) and right sibling (children[1]), and *)
(* can be neither removed nor moved.                                       *)
(***************************************************************************)
EXTENDS PairingHeap

(* stroll_hprheap_attach() and stroll_hprheap_join(). *)
Attach(m, n, p) == [m EXCEPT ![n].next = m[p].first, ![p].first = n]

Join(m, a, b) == IF Winner(key, a, b) = a THEN Attach(m, b, a) ELSE Attach(m, a, b)

(* What a node points to while it is in no heap: the client's business. *)
Blank == [first |-> None, next |-> None]

Init == Down /\ links = [n \in Nodes |-> Blank]

(* stroll_hprheap_setup(). *)
Setup(h) == SetupTo(h, [n \in Nodes |-> IF n \in content[h] THEN Blank ELSE links[n]])

(* stroll_hprheap_insert(): the right sibling is left as it was. *)
Insert(h, n) ==
  LET fresh == [links EXCEPT ![n].first = None] IN
  InsertTo(h, n, fresh, Join(fresh, root[h], n))

(* stroll_hprheap_merge(). *)
Merge(r, s) == MergeTo(r, s, Join(links, root[r], root[s]))

(* stroll_hprheap_extract(). *)
Extract(h) ==
  /\ Extracting(h)
  /\ Enter("drop", h, root[h], links, links[root[h]].first, None)

(* First pass of stroll_hprheap_merge_nodes(). *)
Pair ==
  /\ pc = "pair" /\ cursor # None
  /\ IF twin = None
     THEN twin' = cursor /\ UNCHANGED <<links, acc>>
     ELSE /\ acc' = Winner(key, twin, cursor)
          /\ links' = [Join(links, twin, cursor) EXCEPT ![acc'].next = acc]
          /\ twin' = None
  /\ cursor' = links[cursor].next
  /\ UNCHANGED <<live, root, cnt, key, content, out, pc, call, heap, node>>

PairEnds ==
  /\ pc = "pair" /\ cursor = None
  /\ pc' = "fold"
  /\ IF twin = None
     THEN UNCHANGED <<links, acc>>
     ELSE acc' = twin /\ links' = [links EXCEPT ![twin].next = acc]
  /\ twin' = None
  /\ cursor' = IF acc' = None THEN None ELSE links'[acc'].next
  /\ UNCHANGED <<live, root, cnt, key, content, out, call, heap, node>>

(* Second pass. *)
Fold ==
  /\ pc = "fold" /\ cursor # None
  /\ acc' = Winner(key, acc, cursor)
  /\ links' = Join(links, acc, cursor)
  /\ cursor' = links[cursor].next
  /\ UNCHANGED <<live, root, cnt, key, content, out, pc, call, heap, node, twin>>

Dropped ==
  /\ pc = "fold" /\ cursor = None
  /\ DropTo([links EXCEPT ![node] = Blank], acc)

Next ==
  \/ \E h \in Heaps :
       \/ Setup(h) \/ Extract(h)
       \/ \E g \in Heaps : Merge(h, g)
       \/ \E n \in Nodes : Insert(h, n)
  \/ \E n \in Nodes, k \in Keys : SetKey(n, k)
  \/ Pair \/ PairEnds \/ Fold \/ Dropped

-----------------------------------------------------------------------------

(* The node n and its right siblings. *)
Chain(n) ==
  LET grow[i \in 0 .. Cardinality(Nodes)] ==
        IF i = 0 THEN {n} \cap Nodes
        ELSE UNION {{p, links[p].next} \cap Nodes : p \in grow[i - 1]}
  IN  grow[Cardinality(Nodes)]

Children(n) == Chain(links[n].first)

(* The nodes of the tree rooted at n. *)
Tree(n) ==
  LET grow[i \in 0 .. Cardinality(Nodes)] ==
        IF i = 0 THEN {n} \cap Nodes
        ELSE UNION {{p} \cup Children(p) : p \in grow[i - 1]}
  IN  grow[Cardinality(Nodes)]

Trees(roots) == UNION {Tree(n) : n \in roots}

(* Each node but the root is reached through the pointer of one other. *)
TreesSound ==
  pc = "idle" =>
    \A h \in live :
      /\ Tree(root[h]) = content[h]
      /\ \A n \in content[h] :
           Cardinality({m \in content[h] : links[m].first = n})
             + Cardinality({m \in content[h] \ {root[h]} : links[m].next = n})
           = IF n = root[h] THEN 0 ELSE 1

(* No node precedes its parent. *)
HeapOrder ==
  pc = "idle" =>
    \A h \in live : \A p \in content[h] : \A n \in Children(p) : key[p] <= key[n]

Left == Trees(Chain(cursor))

NothingLost ==
  pc # "idle" =>
    Accounted(Left, Tree(twin), IF pc = "pair" THEN Trees(Chain(acc)) ELSE Tree(acc), {})

=============================================================================
