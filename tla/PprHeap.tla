------------------------------- MODULE PprHeap -------------------------------
(***************************************************************************)
(* The pairing heap of src/src/pprheap.c, whose nodes hold three pointers: *)
(* to the first child (children[0]), to the right sibling (children[1]),   *)
(* and to the parent or, for a node that is not a first child, to the left *)
(* sibling (parent).                                                       *)
(***************************************************************************)
EXTENDS PairingHeap

CONSTANTS
  Plug,          (* Address of stroll_pprheap_plug, which ends lists.      *)
  AssertIntern   (* Built with CONFIG_STROLL_ASSERT_INTERN.                *)

PlugAssumption == Plug \notin Nodes \cup {None}
AssertAssumption == AssertIntern \in BOOLEAN

(* What a node points to while it is in no heap: the client's business. *)
Blank == [parent |-> None, first |-> None, next |-> None]

(* A store to the parent of a node; the one of the plug is never read. *)
SetParent(m, n, p) == IF n = Plug THEN m ELSE [m EXCEPT ![n].parent = p]

(* stroll_pprheap_attach_child(): n becomes the first child of p. *)
Attach(m, n, p) ==
  SetParent([m EXCEPT ![n].next = m[p].first, ![n].parent = p, ![p].first = n],
            m[p].first, n)

(* stroll_pprheap_detach_node(): the right sibling takes n's place. *)
Detach(m, n) ==
  LET p == m[n].parent IN
  SetParent(IF m[p].next = n THEN [m EXCEPT ![p].next = m[n].next]
                             ELSE [m EXCEPT ![p].first = m[n].next],
            m[n].next, p)

(* Its assertion: n is either the first child or the right sibling. *)
MayDetach(n) ==
  LET p == links[n].parent IN (links[p].first = n) # (links[p].next = n)

(* stroll_pprheap_join(). *)
Join(m, a, b) == IF Winner(key, a, b) = a THEN Attach(m, b, a) ELSE Attach(m, a, b)

-----------------------------------------------------------------------------

Init == Down /\ links = [n \in Nodes |-> Blank]

(* stroll_pprheap_setup(). *)
Setup(h) == SetupTo(h, [n \in Nodes |-> IF n \in content[h] THEN Blank ELSE links[n]])

(* stroll_pprheap_insert(). *)
Insert(h, n) ==
  LET fresh == [links EXCEPT ![n] = [parent |-> None, first |-> Plug, next |-> Plug]]
  IN  InsertTo(h, n, fresh, Join(fresh, root[h], n))

(* stroll_pprheap_merge(). *)
Merge(r, s) == MergeTo(r, s, Join(links, root[r], root[s]))

(* stroll_pprheap_merge_nodes() entered on the children of n. *)
Begin(what, h, n, memory) == Enter(what, h, n, memory, memory[n].first, Plug)

(* A node that is not the root is detached first.  With internal           *)
(* assertions the program aborts if its parent points to it twice.         *)
BeginDetached(what, h, n) ==
  /\ AssertIntern => MayDetach(n)
  /\ Begin(what, h, n, Detach(links, n))

(* stroll_pprheap_extract(). *)
Extract(h) == Extracting(h) /\ Begin("drop", h, root[h], links)

(* stroll_pprheap_remove(). *)
Remove(h, n) ==
  /\ Removing(h, n)
  /\ IF links[n].parent = None
     THEN Begin("drop", h, n, links)
     ELSE BeginDetached("remove", h, n)

(* stroll_pprheap_base_promote() has nothing to do: what it compares the   *)
(* node with may be its left sibling.                                      *)
StaysBelowRoot(h, n) == key'[root[h]] <= key'[n] /\ links[n].parent # root[h]

StaysBelow(h, n) ==
  links[n].parent # None => key'[links[n].parent] <= key'[n]

(* stroll_pprheap_promote(), the client having lowered the key. *)
Promote(h, n, k) ==
  /\ k <= key[n]
  /\ Rekeying(h, n, k)
  /\ IF StaysBelow(h, n)
     THEN UNCHANGED <<live, root, cnt, links, Locals>>
     ELSE BeginDetached("update", h, n)

(* stroll_pprheap_demote(), the client having raised the key. *)
Demote(h, n, k) ==
  /\ k >= key[n]
  /\ Rekeying(h, n, k)
  /\ IF links[n].parent = None
     THEN Begin("demote", h, n, links)
     ELSE BeginDetached("update", h, n)

-----------------------------------------------------------------------------

(* The next node to look at, read before the join that overwrites it. *)
NotAdvanced == cursor

Follower == links[cursor].next

(* First pass: siblings are joined two by two from the left, and the       *)
(* winners chained in reverse order.                                       *)
Pair ==
  /\ pc = "pair"
  /\ cursor # Plug
  /\ IF twin = None
     THEN twin' = cursor /\ UNCHANGED <<links, acc>>
     ELSE /\ acc' = Winner(key, twin, cursor)
          /\ links' = [Join(links, twin, cursor) EXCEPT ![acc'].next = acc]
          /\ twin' = None
  /\ cursor' = Follower
  /\ UNCHANGED <<live, root, cnt, key, content, out, pc, call, heap, node>>

(* Its end: the odd one, if any, is chained too. *)
PairEnds ==
  /\ pc = "pair"
  /\ cursor = Plug
  /\ pc' = "fold"
  /\ IF twin = None
     THEN acc' = acc /\ UNCHANGED links
     ELSE acc' = twin /\ links' = [links EXCEPT ![twin].next = acc]
  /\ twin' = None
  /\ cursor' = IF acc' = Plug THEN Plug ELSE links'[acc'].next
  /\ UNCHANGED <<live, root, cnt, key, content, out, call, heap, node>>

(* Second pass: the chained trees are joined into a single one. *)
Fold ==
  /\ pc = "fold"
  /\ cursor # Plug
  /\ acc' = Winner(key, acc, cursor)
  /\ links' = Join(links, acc, cursor)
  /\ cursor' = Follower
  /\ UNCHANGED <<live, root, cnt, key, content, out, pc, call, heap, node, twin>>

(* stroll_pprheap_remove_root(): acc is a root. *)
AsRoot ==
  IF acc = Plug THEN links
  ELSE [links EXCEPT ![acc].next = Plug, ![acc].parent = None]

(* stroll_pprheap_remove_node(): the children go below the root. *)
LostBelowRoot == links

BelowRoot == IF acc = Plug THEN links ELSE Attach(links, acc, root[heap])

(* What merge_nodes() returns: null when there was nothing to merge. *)
Merged == IF acc = Plug THEN None ELSE acc

(* What follows in extract() and remove(), in stroll_pprheap_update_node(), *)
(* which leaves the right sibling of the node as it was, and in demote().   *)
MergeDone ==
  /\ pc = "fold" /\ cursor = Plug
  /\ \/ DropTo([AsRoot EXCEPT ![node] = Blank], Merged)
     \/ RemoveTo([BelowRoot EXCEPT ![node] = Blank])
     \/ JoinTo("update",
               Join([BelowRoot EXCEPT ![node].parent = None, ![node].first = Plug],
                    root[heap], node),
               root[heap])
     \/ /\ acc # Plug
        /\ JoinTo("demote", Join([AsRoot EXCEPT ![node].first = Plug], acc, node), acc)
     \/ acc = Plug /\ DemoteAlone(links)

Call ==
  \/ \E h \in Heaps :
       \/ Setup(h)
       \/ Extract(h)
       \/ \E g \in Heaps : Merge(h, g)
       \/ \E n \in Nodes :
            \/ Insert(h, n)
            \/ Remove(h, n)
            \/ \E k \in Keys : Promote(h, n, k) \/ Demote(h, n, k)
  \/ \E n \in Nodes, k \in Keys : SetKey(n, k)

Run == Pair \/ PairEnds \/ Fold \/ MergeDone

Next == Call \/ Run

-----------------------------------------------------------------------------

(* The nodes reached from n through first children and right siblings. *)
Forest(n) ==
  LET grow[i \in 0 .. Cardinality(Nodes)] ==
        IF i = 0 THEN {n} \cap Nodes
        ELSE UNION {{p, links[p].first, links[p].next} \cap Nodes : p \in grow[i - 1]}
  IN  grow[Cardinality(Nodes)]

(* The nodes of the tree rooted at n. *)
Tree(n) == IF n \in Nodes THEN {n} \cup Forest(links[n].first) ELSE {}

(* The children of n. *)
Children(n) ==
  LET grow[i \in 0 .. Cardinality(Nodes)] ==
        IF i = 0 THEN {links[n].first} \cap Nodes
        ELSE UNION {{p, links[p].next} \cap Nodes : p \in grow[i - 1]}
  IN  grow[Cardinality(Nodes)]

(* The pointers to n among the nodes of the tree rooted at r. *)
PointersTo(n, r) ==
  {pf \in Tree(r) \X {"first", "next"} :
     links[pf[1]][pf[2]] = n /\ pf # <<r, "next">>}

(* The tree of a heap has its nodes, and each points back to the only one  *)
(* that points to it, which is what lets it be detached.                   *)
TreesSound ==
  pc = "idle" =>
    \A h \in live :
      /\ Tree(root[h]) = content[h]
      /\ root[h] # None => links[root[h]].parent = None
      /\ \A n \in content[h] \ {root[h]} :
           \E f \in {"first", "next"} :
             PointersTo(n, root[h]) = {<<links[n].parent, f>>}

(* No node precedes its parent. *)
HeapOrder ==
  pc = "idle" =>
    \A h \in live : \A p \in content[h] : \A n \in Children(p) : key[p] <= key[n]

(* The nodes that the merge in progress has not looked at. *)
Left == Forest(cursor)

NothingLost ==
  pc # "idle" =>
    Accounted(Left, Tree(twin), IF pc = "pair" THEN Forest(acc) ELSE Tree(acc),
              Tree(root[heap]))

(* "stroll_pprheap_assert_intern((node == node->parent->children[0]) ^     *)
(* (node == node->parent->children[1]))": whichever node of a heap is to   *)
(* be detached, its parent points to it once.                              *)
NodesMayDetach ==
  pc = "idle" =>
    \A h \in live : \A n \in content[h] : links[n].parent # None => MayDetach(n)

=============================================================================
