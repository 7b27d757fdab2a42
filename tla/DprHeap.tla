------------------------------- MODULE DprHeap ------------------------------
(***************************************************************************)
(* The pairing heap of src/src/dprheap.c, whose nodes hold a pointer to    *)
(* their parent (parent) and two nodes of doubly linked lists: the head of *)
(* the list of their children (children) and their place in the list of    *)
(* their parent's (siblings), whose address is taken for the node's.       *)
(***************************************************************************)
EXTENDS PairingHeap, DlistOps

CONSTANT Stack   (* Address of the list head of merge_nodes(). *)

Kids(n) == <<"children", n>>

Cells == Nodes \cup {Kids(n) : n \in Nodes} \cup {Stack}

(* Distinct addresses, none of them null. *)
CellsAssumption ==
  /\ Stack \notin Nodes \cup {None}
  /\ \A n \in Nodes : Kids(n) \notin Nodes \cup {None, Stack}

Forgotten(m, nodes) ==
  LET cells == nodes \cup {Kids(n) : n \in nodes} IN
  [next |-> [a \in Cells |-> IF a \in cells THEN None ELSE m.next[a]],
   prev |-> [a \in Cells |-> IF a \in cells THEN None ELSE m.prev[a]],
   parent |-> [n \in Nodes |-> IF n \in nodes THEN None ELSE m.parent[n]]]

Init ==
  /\ Down
  /\ links = [next |-> [a \in Cells |-> None], prev |-> [a \in Cells |-> None],
              parent |-> [n \in Nodes |-> None]]

(* stroll_dprheap_attach_child(): n becomes the last child of p. *)
Attach(m, n, p) == InsertBefore([m EXCEPT !.parent[n] = p], Kids(p), n)

(* stroll_dprheap_join(). *)
Join(m, a, b) == IF Winner(key, a, b) = a THEN Attach(m, b, a) ELSE Attach(m, a, b)

(* The parent and children of n as those of a lone node. *)
Lone(m, n) == Initialised([m EXCEPT !.parent[n] = None], Kids(n))

(* stroll_dprheap_setup(). *)
Setup(h) == SetupTo(h, Forgotten(links, content[h]))

(* stroll_dprheap_insert(). *)
Insert(h, n) ==
  LET fresh == Lone(links, n) IN InsertTo(h, n, fresh, Join(fresh, root[h], n))

(* stroll_dprheap_merge(). *)
Merge(r, s) == MergeTo(r, s, Join(links, root[r], root[s]))

(* stroll_dprheap_merge_nodes() is entered on the children of n. *)
Begin(what, h, n, memory) ==
  Enter(what, h, n, Initialised(memory, Stack), memory.next[Kids(n)], None)

(* A node that is not the root is detached first. *)
BeginDetached(what, h, n) == Begin(what, h, n, RemoveNode(links, n))

(* stroll_dprheap_extract(). *)
Extract(h) == Extracting(h) /\ Begin("drop", h, root[h], links)

(* stroll_dprheap_remove(). *)
Remove(h, n) ==
  /\ Removing(h, n)
  /\ IF links.parent[n] = None
     THEN Begin("drop", h, n, links)
     ELSE BeginDetached("remove", h, n)

(* stroll_dprheap_base_promote(), the client having lowered the key. *)
StaysBelow(n) == links.parent[n] # None => key'[links.parent[n]] <= key'[n]

Promote(h, n, k) ==
  /\ k <= key[n]
  /\ Rekeying(h, n, k)
  /\ IF StaysBelow(n)
     THEN UNCHANGED <<live, root, cnt, links, Locals>>
     ELSE BeginDetached("update", h, n)

(* stroll_dprheap_base_demote(), the client having raised the key. *)
Demote(h, n, k) ==
  /\ k >= key[n]
  /\ Rekeying(h, n, k)
  /\ IF links.parent[n] = None
     THEN Begin("demote", h, n, links)
     ELSE BeginDetached("update", h, n)

-----------------------------------------------------------------------------

(* First pass: siblings are joined two by two from the left, and put at    *)
(* the front of the list on the stack.  The node to look at next is read   *)
(* before its turn, and before the links of this one are overwritten.      *)
Pair ==
  /\ pc = "pair" /\ cursor # Kids(node)
  /\ IF twin = None
     THEN twin' = cursor /\ UNCHANGED links
     ELSE /\ links' = AppendAfter(Join(links, twin, cursor), Stack, Winner(key, twin, cursor))
          /\ twin' = None
  /\ cursor' = links.next[cursor]
  /\ UNCHANGED <<live, root, cnt, key, content, out, pc, call, heap, node, acc>>

(* Its end: the odd one, if any, joins them.  Nothing follows if there is  *)
(* no child.                                                               *)
PairEnds ==
  /\ pc = "pair" /\ cursor = Kids(node)
  /\ pc' = "fold"
  /\ links' = IF twin = None THEN links ELSE AppendAfter(links, Stack, twin)
  /\ IF Empty(links', Stack)
     THEN acc' = None /\ cursor' = Stack
     ELSE acc' = links'.next[Stack] /\ cursor' = links'.next[acc']
  /\ twin' = None
  /\ UNCHANGED <<live, root, cnt, key, content, out, call, heap, node>>

(* Second pass: the trees of the list are joined into a single one, whose  *)
(* root keeps its links to the list.                                       *)
Fold ==
  /\ pc = "fold" /\ cursor # Stack
  /\ acc' = Winner(key, acc, cursor)
  /\ links' = Join(links, acc, cursor)
  /\ cursor' = links.next[cursor]
  /\ UNCHANGED <<live, root, cnt, key, content, out, pc, call, heap, node, twin>>

(* stroll_dprheap_remove_root() and stroll_dprheap_remove_node(): what the *)
(* children made is a root, or goes below the root.                        *)
AsRootWithParent == links

AsRoot == IF acc = None THEN links ELSE [links EXCEPT !.parent[acc] = None]

BelowRoot == IF acc = None THEN links ELSE Attach(links, acc, root[heap])

(* The list head on the stack is no more once the call returns, and what   *)
(* the siblings of the root of the heap point to is written as None: it    *)
(* may be that list, or nodes that moved since.                            *)
Popped(m) ==
  LET cells == {Stack, root'[heap]} IN
  [m EXCEPT !.next = [a \in Cells |-> IF a \in cells THEN None ELSE @[a]],
            !.prev = [a \in Cells |-> IF a \in cells THEN None ELSE @[a]]]

Merged ==
  /\ pc = "fold" /\ cursor = Stack
  /\ \/ DropTo(Popped(Forgotten(AsRoot, {node})), acc)
     \/ RemoveTo(Popped(Forgotten(BelowRoot, {node})))
     \/ JoinTo("update", Popped(Join(Lone(BelowRoot, node), root[heap], node)), root[heap])
     \/ /\ acc # None
        /\ JoinTo("demote", Popped(Join(Initialised(AsRoot, Kids(node)), acc, node)), acc)
     \/ acc = None /\ DemoteAlone(Popped(links))

Next ==
  \/ \E h \in Heaps :
       \/ Setup(h) \/ Extract(h)
       \/ \E g \in Heaps : Merge(h, g)
       \/ \E n \in Nodes :
            \/ Insert(h, n)
            \/ Remove(h, n)
            \/ \E k \in Keys : Promote(h, n, k) \/ Demote(h, n, k)
  \/ \E n \in Nodes, k \in Keys : SetKey(n, k)
  \/ Pair \/ PairEnds \/ Fold \/ Merged

-----------------------------------------------------------------------------

(* The nodes met from a up to the end of a list. *)
Until(a, end) ==
  LET grow[i \in 0 .. Cardinality(Nodes)] ==
        IF i = 0 THEN {a} \cap Nodes
        ELSE UNION {{p} \cup ({links.next[p]} \cap (Nodes \ {end})) : p \in grow[i - 1]}
  IN  grow[Cardinality(Nodes)]

Children(n) == Until(links.next[Kids(n)], Kids(n))

(* The nodes of the tree rooted at n. *)
Tree(n) ==
  LET grow[i \in 0 .. Cardinality(Nodes)] ==
        IF i = 0 THEN {n} \cap Nodes
        ELSE UNION {{p} \cup Children(p) : p \in grow[i - 1]}
  IN  grow[Cardinality(Nodes)]

Trees(roots) == UNION {Tree(n) : n \in roots}

(* The tree of a heap has its nodes, each in the ring of the children of   *)
(* the one that it points to as its parent: no link that can be reached    *)
(* leads to the stack, although the root keeps its own.                    *)
TreesSound ==
  pc = "idle" =>
    \A h \in live :
      /\ Tree(root[h]) = content[h]
      /\ root[h] # None => links.parent[root[h]] = None
      /\ \A p \in content[h] :
           /\ IsRing(links, Kids(p))
           /\ {n \in content[h] : links.parent[n] = p} = Members(links, Kids(p))

(* No node precedes its parent. *)
HeapOrder ==
  pc = "idle" =>
    \A h \in live : \A p \in content[h] : \A n \in Children(p) : key[p] <= key[n]

Left == Trees(Until(cursor, IF pc = "pair" THEN Kids(node) ELSE Stack))

NothingLost ==
  pc # "idle" =>
    Accounted(Left, Tree(twin),
              IF pc = "pair" THEN Trees(Until(links.next[Stack], Stack)) ELSE Tree(acc),
              Tree(root[heap]))

=============================================================================
