------------------------------ MODULE DbnHeap -------------------------------
(***************************************************************************)
(* The binomial heap of src/src/dbnheap.c: binomial trees in the order of  *)
(* their sizes, each a node whose children are the trees it was joined     *)
(* with, all of them in doubly linked lists.  A node holds its order, a    *)
(* pointer to its parent, its place among its siblings (siblings), whose   *)
(* address is taken for the node's, and the head of its children           *)
(* (children).  The address of a heap is that of the list of its roots.    *)
(*                                                                         *)
(* Nodes sift up to be removed by trading places with their parents.  A    *)
(* call takes one step per loop iteration.                                 *)
(***************************************************************************)
EXTENDS DlistOps

CONSTANTS
  Nodes,      (* The nodes of the client.                                  *)
  Heaps,      (* Its heaps.                                                *)
  Keys,       (* Keys that compare() looks at.                             *)
  Nr,         (* Most nodes a heap may hold (nr).                          *)
  None,       (* The null pointer.                                         *)
  Stack       (* Address of the list that a call has on its stack.         *)

VARIABLES
  live,      \* the heaps that are set up
  mem,       \* next and prev of lists, and parent and order of nodes
  cnt,       \* count of nodes of each heap (cnt)
  key,       \* the key of each node
  content,   \* the nodes the client has put in each heap
  out,       \* what the last call returned, if it extracted from the heap
  pc,        \* "idle", or the loop of the call in progress
  call,      \* the call in progress
  heap,      \* the heap it works on
  node,      \* the node it is about, or the heap that is merged
  last,      \* the tree to put in a list (last, or node of merge_single())
  left       \* the list that it goes to (left), or source

Locals == <<pc, call, heap, node, last, left>>
vars == <<live, mem, cnt, key, content, out, Locals>>

Kids(n) == <<"children", n>>

Cells == Nodes \cup Heaps \cup {Kids(n) : n \in Nodes} \cup {Stack}

(* What these cells hold is no more to be read. *)
Forgotten(m, cells) ==
  [m EXCEPT !.next = [a \in Cells |-> IF a \in cells THEN None ELSE @[a]],
            !.prev = [a \in Cells |-> IF a \in cells THEN None ELSE @[a]],
            !.parent = [n \in Nodes |-> IF n \in cells THEN None ELSE @[n]],
            !.order = [n \in Nodes |-> IF n \in cells THEN 0 ELSE @[n]]]

NodeCells(nodes) == nodes \cup {Kids(n) : n \in nodes}

-----------------------------------------------------------------------------

(* stroll_dbnheap_join(). *)
Winner(a, b) == IF key[a] <= key[b] THEN a ELSE b

Join(m, a, b) ==
  LET p == Winner(a, b)
      c == IF p = a THEN b ELSE a
  IN  InsertBefore([m EXCEPT !.parent[c] = p, !.order[p] = @ + 1], Kids(p), c)

ParentsKept(m, nodes, p) == m

WithParent(m, nodes, p) ==
  [m EXCEPT !.parent = [n \in Nodes |-> IF n \in nodes THEN p ELSE @[n]]]

(* stroll_dbnheap_siftup(): n and its parent p exchange their orders,      *)
(* siblings, parents and children, p being one of the children that n has  *)
(* in the end.  The children of p wait on a list of the stack, where p     *)
(* takes the place of n.                                                   *)
Exchanged(m, n) ==
  LET p == m.parent[n]
      kept == SpliceBefore(Initialised(m, Stack), Stack, m.next[Kids(p)], m.prev[Kids(p)])
      placed == Inject([kept EXCEPT !.order[p] = m.order[n]], kept.prev[n], p, kept.next[n])
      told == WithParent(placed, Members(placed, Kids(n)), p)
      lowered == IF Empty(told, Kids(n))
                 THEN Initialised(told, Kids(p))
                 ELSE SpliceBefore(told, Kids(p), told.next[Kids(n)], told.prev[Kids(n)])
      raised == Inject([lowered EXCEPT !.order[n] = m.order[p], !.parent[n] = m.parent[p]],
                       m.prev[p], n, m.next[p])
      owner == WithParent(raised, Members(raised, Stack), n)
  IN  EmbedBefore(owner, Kids(n), owner.next[Stack], owner.prev[Stack])

(* stroll_dbnheap_merge_pair(): the first tree of either list, the one of  *)
(* lesser order, or both joined.                                           *)
Picked(m, a, b) ==
  LET fst == m.next[a]
      snd == m.next[b]
  IN  CASE m.order[fst] = m.order[snd] ->
             [mem |-> Join(RemoveNode(RemoveNode(m, fst), snd), fst, snd),
              tree |-> Winner(fst, snd)]
        [] m.order[fst] < m.order[snd] -> [mem |-> RemoveNode(m, fst), tree |-> fst]
        [] m.order[fst] > m.order[snd] -> [mem |-> RemoveNode(m, snd), tree |-> snd]

(* stroll_dbnheap_base_peek(): the first of the least roots. *)
Peek(h) ==
  LET roots == NodesOf(mem, h)
      least[i \in 1 .. Len(roots)] ==
        IF i = 1 THEN roots[1]
        ELSE LET n == least[i - 1] IN IF key[roots[i]] < key[n] THEN roots[i] ELSE n
  IN  least[Len(roots)]

-----------------------------------------------------------------------------

NoneOut == [h \in Heaps |-> None]

Init ==
  /\ live = {}
  /\ mem = [next |-> [a \in Cells |-> None], prev |-> [a \in Cells |-> None],
            parent |-> [n \in Nodes |-> None], order |-> [n \in Nodes |-> 0]]
  /\ cnt = [h \in Heaps |-> 0]
  /\ key \in [Nodes -> Keys]
  /\ content = [h \in Heaps |-> {}]
  /\ out = NoneOut
  /\ pc = "idle" /\ call = None
  /\ heap = None /\ node = None /\ last = None /\ left = None

(* stroll_dbnheap_setup().  The nodes of the heap, if any, are forgotten. *)
Setup(h) ==
  /\ pc = "idle"
  /\ live' = live \cup {h}
  /\ mem' = Initialised(Forgotten(mem, NodeCells(content[h])), h)
  /\ cnt' = [cnt EXCEPT ![h] = 0]
  /\ content' = [content EXCEPT ![h] = {}]
  /\ out' = NoneOut
  /\ UNCHANGED <<key, Locals>>

(* The client changes the key of a node that is in no heap. *)
SetKey(n, k) ==
  /\ pc = "idle"
  /\ \A h \in Heaps : n \notin content[h]
  /\ key' = [key EXCEPT ![n] = k]
  /\ out' = NoneOut
  /\ UNCHANGED <<live, mem, cnt, content, Locals>>

(* The counts once a call returns. *)
Counted(what, h, n) ==
  CASE what = "insert" -> [cnt EXCEPT ![h] = @ + 1]
    [] what \in {"extract", "remove"} -> [cnt EXCEPT ![h] = @ - 1]
    [] what = "merge" -> [cnt EXCEPT ![h] = @ + cnt[n], ![n] = 0]
    [] what \in {"promote", "demote"} -> cnt

(* What was taken out, and the list of the stack, are no more to be read;  *)
(* nor is the heap that was merged, before it is set up again.             *)
Return(what, h, n, m) ==
  /\ mem' = Forgotten(m, CASE what \in {"extract", "remove"} -> NodeCells({n}) \cup {Stack}
                           [] what = "merge" -> {n, Stack}
                           [] what \in {"insert", "promote", "demote"} -> {Stack})
  /\ cnt' = Counted(what, h, n)
  /\ pc' = "idle" /\ call' = None
  /\ heap' = None /\ node' = None /\ last' = None /\ left' = None

(* A call goes on with a loop. *)
Enter(loop, what, h, n, m, tree, list) ==
  /\ pc' = loop /\ call' = what
  /\ heap' = h /\ node' = n
  /\ mem' = m
  /\ last' = tree /\ left' = list
  /\ UNCHANGED cnt

(* A lone node n goes to the roots of h: what insert() does, and demote()  *)
(* once the node is out.                                                   *)
Lone(m, n) == Initialised([m EXCEPT !.order[n] = 0, !.parent[n] = None], Kids(n))

PutBack(what, h, n, m) == Enter("single", what, h, n, Lone(m, n), n, h)

(* stroll_dbnheap_insert(). *)
Insert(h, n) ==
  /\ pc = "idle"
  /\ h \in live
  /\ cnt[h] < Nr
  /\ \A g \in Heaps : n \notin content[g]
  /\ content' = [content EXCEPT ![h] = @ \cup {n}]
  /\ out' = NoneOut
  /\ PutBack("insert", h, n, mem)
  /\ UNCHANGED <<live, key>>

(* stroll_dbnheap_merge_trees() is entered on the roots of h and a list:   *)
(* the former go to a list of the stack, and a first pair is picked.       *)
MergeTrees(what, h, n, m, list) ==
  \E first \in {Picked(SpliceBefore(Initialised(m, Stack), Stack, m.next[h], m.prev[h]),
                       Stack, list)} :
    Enter("trees", what, h, n, first.mem, first.tree, list)

(* A list of trees, none of them a child, becomes or joins the roots of h. *)
AddTrees(what, h, n, m, list) ==
  IF Empty(m, h)
  THEN Return(what, h, n, EmbedBefore(m, h, m.next[list], m.prev[list]))
  ELSE MergeTrees(what, h, n, m, list)

(* stroll_dbnheap_merge(). *)
Merge(r, s) ==
  /\ pc = "idle"
  /\ r # s /\ {r, s} \subseteq live
  /\ cnt[r] + cnt[s] <= Nr
  /\ live' = live \ {s}
  /\ content' = [content EXCEPT ![r] = @ \cup content[s], ![s] = {}]
  /\ out' = NoneOut
  /\ IF Empty(mem, s) THEN Return("merge", r, s, mem) ELSE AddTrees("merge", r, s, mem, s)
  /\ UNCHANGED key

(* What is left of a call when the node is out. *)
Removed(what, h, n, m) ==
  IF what = "demote" THEN PutBack(what, h, n, m) ELSE Return(what, h, n, m)

(* stroll_dbnheap_remove_root(). *)
RemoveRoot(what, h, n) ==
  \E m \in {RemoveNode(mem, n)} :
    IF Empty(m, Kids(n))
    THEN Removed(what, h, n, m)
    ELSE \E free \in {WithParent(m, Members(m, Kids(n)), None)} :
           IF Empty(free, h)
           THEN Removed(what, h, n,
                        EmbedBefore(free, h, free.next[Kids(n)], free.prev[Kids(n)]))
           ELSE MergeTrees(what, h, n, free, Kids(n))

(* stroll_dbnheap_extract(). *)
Extract(h) ==
  /\ pc = "idle"
  /\ h \in live
  /\ ~ Empty(mem, h)
  /\ \E n \in {Peek(h)} :
       /\ out' = [NoneOut EXCEPT ![h] = n]
       /\ content' = [content EXCEPT ![h] = @ \ {n}]
       /\ RemoveRoot("extract", h, n)
  /\ UNCHANGED <<live, key>>

(* stroll_dbnheap_remove(), and promote() and demote(), the client having  *)
(* changed the key: the node sifts up first.                               *)
Sifting(what, h, n) ==
  /\ pc = "idle"
  /\ h \in live
  /\ n \in content[h]
  /\ out' = NoneOut
  /\ Enter("sift", what, h, n, mem, None, None)
  /\ UNCHANGED live

Remove(h, n) ==
  /\ Sifting("remove", h, n)
  /\ content' = [content EXCEPT ![h] = @ \ {n}]
  /\ UNCHANGED key

Promote(h, n, k) ==
  /\ k <= key[n]
  /\ Sifting("promote", h, n)
  /\ key' = [key EXCEPT ![n] = k]
  /\ UNCHANGED content

Demote(h, n, k) ==
  /\ k >= key[n]
  /\ Sifting("demote", h, n)
  /\ key' = [key EXCEPT ![n] = k]
  /\ UNCHANGED content

-----------------------------------------------------------------------------

(* A node goes up to the root, or below a parent that it does not precede. *)
GoesUp ==
  /\ mem.parent[node] # None
  /\ call = "promote" => key[node] < key[mem.parent[node]]

Siftup ==
  /\ pc = "sift" /\ GoesUp
  /\ mem' = Forgotten(Exchanged(mem, node), {Stack})
  /\ UNCHANGED <<live, cnt, key, content, out, Locals>>

SiftEnds ==
  /\ pc = "sift" /\ ~ GoesUp
  /\ IF call = "promote"
     THEN Return(call, heap, node, mem)
     ELSE RemoveRoot(call, heap, node)
  /\ UNCHANGED <<live, key, content, out>>

(* stroll_dbnheap_merge_trees(): what is picked next goes behind the last  *)
(* tree, or is joined with it.                                             *)
MergePair ==
  /\ pc = "trees" /\ ~ Empty(mem, Stack) /\ ~ Empty(mem, left)
  /\ \E next \in {Picked(mem, Stack, left)} :
       IF next.mem.order[last] # next.mem.order[next.tree]
       THEN mem' = InsertBefore(next.mem, heap, last) /\ last' = next.tree
       ELSE mem' = Join(next.mem, last, next.tree) /\ last' = Winner(last, next.tree)
  /\ UNCHANGED <<live, cnt, key, content, out, pc, call, heap, node, left>>

PairsEnd ==
  /\ pc = "trees" /\ (Empty(mem, Stack) \/ Empty(mem, left))
  /\ pc' = "rest"
  /\ left' = IF Empty(mem, Stack) THEN left ELSE Stack
  /\ UNCHANGED <<live, mem, cnt, key, content, out, call, heap, node, last>>

(* stroll_dbnheap_merge_single(): the first tree of the list is joined     *)
(* with the last one if they are of the same order.                        *)
SameOrder == ~ Empty(mem, left) /\ mem.order[last] = mem.order[mem.next[left]]

MergeSingle ==
  /\ pc \in {"rest", "single"} /\ SameOrder
  /\ mem' = Join(RemoveNode(mem, mem.next[left]), last, mem.next[left])
  /\ last' = Winner(last, mem.next[left])
  /\ UNCHANGED <<live, cnt, key, content, out, pc, call, heap, node, left>>

SingleEnds ==
  /\ pc = "single" /\ ~ SameOrder
  /\ Return(call, heap, node, AppendAfter(mem, left, last))
  /\ UNCHANGED <<live, key, content, out>>

(* What is left of merge_trees() when its call to merge_single() returns. *)
RestEnds ==
  /\ pc = "rest" /\ ~ SameOrder
  /\ \E m \in {AppendAfter(mem, left, last)} :
       Removed(call, heap, node, EmbedBefore(m, heap, m.next[left], m.prev[left]))
  /\ UNCHANGED <<live, key, content, out>>

Call ==
  \/ \E h \in Heaps :
       \/ Setup(h) \/ Extract(h)
       \/ \E g \in Heaps : Merge(h, g)
       \/ \E n \in Nodes :
            \/ Insert(h, n)
            \/ Remove(h, n)
            \/ \E k \in Keys : Promote(h, n, k) \/ Demote(h, n, k)
  \/ \E n \in Nodes, k \in Keys : SetKey(n, k)

Run ==
  \/ Siftup \/ SiftEnds
  \/ MergePair \/ PairsEnd
  \/ MergeSingle \/ SingleEnds \/ RestEnds

Next == Call \/ Run

-----------------------------------------------------------------------------

(* Every variable keeps the type of the local or field it models. *)
TypeOK ==
  /\ live \subseteq Heaps
  /\ mem.next \in [Cells -> Cells \cup {None}]
  /\ mem.prev \in [Cells -> Cells \cup {None}]
  /\ mem.parent \in [Nodes -> Nodes \cup {None}]
  /\ mem.order \in [Nodes -> 0 .. Nr]
  /\ cnt \in [Heaps -> 0 .. Nr]
  /\ key \in [Nodes -> Keys]
  /\ content \in [Heaps -> SUBSET Nodes]
  /\ out \in [Heaps -> Nodes \cup {None}]

(* The nodes of the trees of those roots. *)
Trees(roots) ==
  LET grow[i \in 0 .. Cardinality(Nodes)] ==
        IF i = 0 THEN roots
        ELSE UNION {{p} \cup Members(mem, Kids(p)) : p \in grow[i - 1]}
  IN  grow[Cardinality(Nodes)]

(* The children of a node are one tree of each order below its own. *)
Binomial(n) ==
  /\ IsRing(mem, Kids(n))
  /\ \E kids \in {NodesOf(mem, Kids(n))} :
       /\ Len(kids) = mem.order[n]
       /\ \A i \in DOMAIN kids : mem.order[kids[i]] = i - 1 /\ mem.parent[kids[i]] = n

(* A list of trees of ever greater orders. *)
Ascending(list) ==
  /\ IsRing(mem, list)
  /\ \E roots \in {NodesOf(mem, list)} :
       \A i \in DOMAIN roots :
         /\ mem.parent[roots[i]] = None
         /\ i > 1 => mem.order[roots[i - 1]] < mem.order[roots[i]]

(* Between calls the roots of a heap are binomial trees, no two of the     *)
(* same order, of exactly the nodes that the client put there, none before *)
(* its parent.                                                             *)
HeapSound ==
  /\ TypeOK
  /\ pc = "idle" =>
       \A h \in live :
         /\ Ascending(h)
         /\ Trees(Members(mem, h)) = content[h]
         /\ \A n \in content[h] :
              /\ Binomial(n)
              /\ mem.parent[n] # None => key[mem.parent[n]] <= key[n]
         /\ cnt[h] = Cardinality(content[h])

(* While a call is in progress its lists hold, with the tree in hand, all  *)
(* the nodes of the heap but the one taken out, and no tree of a list that *)
(* is left is smaller than the one in hand, as the assertions of           *)
(* merge_trees() and merge_single() say.                                   *)
NothingLost ==
  pc # "idle" =>
    LET lists == CASE pc = "sift" -> {heap}
                   [] pc = "trees" -> {heap, Stack, left}
                   [] pc \in {"rest", "single"} -> {heap, left}
        inside == UNION {Members(mem, list) : list \in lists}
        nodes == CASE pc = "sift" -> content[heap] \cup {node}
                   [] pc \in {"trees", "rest"} -> content[heap] \ {node}
                   [] pc = "single" -> content[heap]
    IN  /\ \A list \in lists : Ascending(list)
        /\ Trees(inside \cup ({last} \ {None})) = nodes
        /\ \A n \in nodes : Binomial(n)
        /\ last # None =>
             /\ last \notin inside
             /\ \A list \in lists \ (IF pc = "single" THEN {} ELSE {heap}) :
                  Empty(mem, list) \/ mem.order[last] <= mem.order[mem.next[list]]

=============================================================================
