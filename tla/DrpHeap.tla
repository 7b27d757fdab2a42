------------------------------ MODULE DrpHeap -------------------------------
(***************************************************************************)
(* The rank-pairing heap of src/src/drpheap.c: a ring of half trees, the   *)
(* least root first.  A node points to its first child (child) and, as a   *)
(* root, to its neighbours in the ring or, otherwise, to its right sibling *)
(* (edges[0]) and to its left sibling or, being a first child, its parent  *)
(* (edges[1]).  The low bit of edges[1] tells roots.                       *)
(*                                                                         *)
(* A call is one step, except that the calls that merge half trees of the  *)
(* same rank take one step per half tree and per join.                     *)
(***************************************************************************)
EXTENDS Integers, FiniteSets, Sequences

CONSTANTS
  Nodes,      (* The nodes of the client.                                  *)
  Heaps,      (* Its heaps, each standing for the head of its ring too.    *)
  Keys,       (* Keys that compare() looks at.                             *)
  Nr,         (* Most nodes a heap may hold (nr).                          *)
  Buckets,    (* STROLL_DRPHEAP_BUCKETS_MAX.                               *)
  None,       (* The null pointer.                                         *)
  Plug        (* Address of stroll_drpheap_plug, which ends siblings.      *)

KeysAssumption == Keys \subseteq Int /\ Nr \in Nat \ {0}
BucketsAssumption == Buckets \in Nat \ {0}
PlugAssumption == {None, Plug} \cap (Nodes \cup Heaps) = {} /\ None # Plug

VARIABLES
  live,      \* the heaps that are set up
  mem,       \* edges[0] as next, edges[1] as prev and its low bit as isroot, child, rank
  cnt,       \* count of nodes of each heap (cnt)
  key,       \* the key of each node
  content,   \* the nodes the client has put in each heap
  out,       \* what the last call returned, if it extracted from the heap
  pc,        \* "idle", or the loop of the call in progress
  heap,      \* the heap it works on
  slots,     \* half trees waiting for another one of their rank (slots)
  links,     \* siblings that become roots (links)
  roots,     \* roots not looked at yet (roots)
  node       \* half tree that looks for its slot (node)

vars == <<live, mem, cnt, key, content, out, pc, heap, slots, links, roots, node>>

Locals == <<pc, heap, slots, links, roots, node>>

-----------------------------------------------------------------------------

(* edges[0] of a and edges[1] of b for a root b, and for a sibling b; the  *)
(* edges[1] of the plug is never read.                                     *)
LinkRoots(m, a, b) == [m EXCEPT !.next[a] = b, !.prev[b] = a, !.isroot[b] = TRUE]

SetLeft(m, b, a) == IF b = Plug THEN m ELSE [m EXCEPT !.prev[b] = a, !.isroot[b] = FALSE]

(* stroll_drpheap_inject_root_link(). *)
InjectRoot(m, prev, n, next) == LinkRoots(LinkRoots(m, prev, n), n, next)

(* stroll_drpheap_remove_root_link(). *)
RemoveRoot(m, n) == LinkRoots(m, m.prev[n], m.next[n])

(* stroll_drpheap_attach_child(): n becomes the first child of p. *)
Attach(m, n, p) ==
  LET sibling == m.child[p]
      below == SetLeft([m EXCEPT !.next[n] = sibling], n, p)
  IN  SetLeft([below EXCEPT !.rank[p] = m.rank[n] + 1, !.child[p] = n], sibling, n)

(* stroll_drpheap_detach_child() of n, p being on its left or its parent. *)
Detach(m, n, p) ==
  LET sibling == m.next[n]
  IN  SetLeft(IF m.child[p] = n THEN [m EXCEPT !.child[p] = sibling]
                                ELSE [m EXCEPT !.next[p] = sibling],
              sibling, p)

(* stroll_drpheap_join(). *)
Winner(a, b) == IF key[a] <= key[b] THEN a ELSE b

Join(m, a, b) == IF Winner(a, b) = a THEN Attach(m, b, a) ELSE Attach(m, a, b)

Max2(a, b) == IF a > b THEN a ELSE b

(* The rank of a node of given ranks on its left and on its right. *)
RankRule(left, right) ==
  Max2(left, right) + (IF left - right \in -1 .. 1 THEN 1 ELSE 0)

(* The ranks once those of p and of what is above it are restored, up to   *)
(* the first one that does not change or to a root.                        *)
RanksRestored(m, p) ==
  LET walk[rank \in [Nodes \cup {Plug} -> Int], q \in Nodes] ==
        IF m.isroot[q]
        THEN [rank EXCEPT ![q] = rank[m.child[q]] + 1]
        ELSE LET new == RankRule(rank[m.child[q]], rank[m.next[q]])
             IN  IF new = rank[q] THEN rank
                 ELSE walk[[rank EXCEPT ![q] = new], m.prev[q]]
  IN  walk[m.rank, p]

(* stroll_drpheap_remove_node(). *)
RemoveNode(m, n) ==
  LET p == m.prev[n]
      detached == Detach(m, n, p)
  IN  [detached EXCEPT !.rank = RanksRestored(detached, p)]

(* n leaves its heap, or the place it has there, with its children. *)
Unlinked(m, n) == IF m.isroot[n] THEN RemoveRoot(m, n) ELSE RemoveNode(m, n)

-----------------------------------------------------------------------------

(* What a node that is in no heap holds is the client's business. *)
Forgotten(m, out_of) ==
  [m EXCEPT !.next = [a \in DOMAIN @ |-> IF a \in out_of THEN None ELSE @[a]],
            !.prev = [a \in DOMAIN @ |-> IF a \in out_of THEN None ELSE @[a]],
            !.isroot = [a \in DOMAIN @ |-> a \notin out_of /\ @[a]],
            !.child = [a \in DOMAIN @ |-> IF a \in out_of THEN None ELSE @[a]],
            !.rank = [a \in DOMAIN @ |-> IF a \in out_of THEN -1 ELSE @[a]]]

NoneOut == [h \in Heaps |-> None]

Init ==
  /\ live = {}
  /\ mem = [next |-> [a \in Nodes \cup Heaps |-> None],
            prev |-> [a \in Nodes \cup Heaps |-> None],
            isroot |-> [a \in Nodes \cup Heaps |-> FALSE],
            child |-> [n \in Nodes |-> None],
            rank |-> [n \in Nodes \cup {Plug} |-> -1]]
  /\ cnt = [h \in Heaps |-> 0]
  /\ key \in [Nodes -> Keys]
  /\ content = [h \in Heaps |-> {}]
  /\ out = NoneOut
  /\ pc = "idle"
  /\ heap = None /\ slots = <<>> /\ links = None /\ roots = None /\ node = None

(* stroll_drpheap_setup().  The nodes of the heap, if any, are forgotten. *)
Setup(h) ==
  /\ pc = "idle"
  /\ live' = live \cup {h}
  /\ mem' = LinkRoots(Forgotten(mem, content[h]), h, h)
  /\ cnt' = [cnt EXCEPT ![h] = 0]
  /\ content' = [content EXCEPT ![h] = {}]
  /\ out' = NoneOut
  /\ UNCHANGED <<key, Locals>>

(* The client changes the key of a node that is in no heap. *)
SetKey(n, k) ==
  /\ pc = "idle"
  /\ \A h \in Heaps : n \notin content[h]
  /\ key' = [key EXCEPT ![n] = k]
  /\ out' = NoneOut
  /\ UNCHANGED <<live, mem, cnt, content, Locals>>

(* stroll_drpheap_insert(): the node comes first or, if it does not        *)
(* precede the first root, second.                                         *)
Insert(h, n) ==
  LET lead == mem.next[h]
      prev == IF lead # h /\ key[lead] <= key[n] THEN lead ELSE h
  IN
  /\ pc = "idle"
  /\ h \in live
  /\ cnt[h] < Nr
  /\ \A g \in Heaps : n \notin content[g]
  /\ mem' = InjectRoot([mem EXCEPT !.rank[n] = 0, !.child[n] = Plug],
                       prev, n, mem.next[prev])
  /\ cnt' = [cnt EXCEPT ![h] = @ + 1]
  /\ content' = [content EXCEPT ![h] = @ \cup {n}]
  /\ out' = NoneOut
  /\ UNCHANGED <<live, key, Locals>>

(* stroll_drpheap_concat_roots(): the ring at holds those of a then of b. *)
Concatenated(m, at, a, b) ==
  LinkRoots(LinkRoots(LinkRoots(m, at, m.next[a]), m.prev[a], m.next[b]), m.prev[b], at)

(* stroll_drpheap_clone_roots(). *)
Cloned(m, at, a) == LinkRoots(LinkRoots(m, at, m.next[a]), m.prev[a], at)

(* stroll_drpheap_merge(): the source is left as it is and can only be set *)
(* up again.                                                               *)
Merge(r, s) ==
  /\ pc = "idle"
  /\ r # s /\ {r, s} \subseteq live
  /\ cnt[r] + cnt[s] <= Nr
  /\ LET rhead == mem.next[r]
         shead == mem.next[s]
         merged == CASE shead = s -> mem
                     [] rhead = r /\ shead # s -> Cloned(mem, r, s)
                     [] OTHER -> IF key[rhead] < key[shead]
                                 THEN Concatenated(mem, r, r, s)
                                 ELSE Concatenated(mem, r, s, r)
     IN  mem' = Forgotten(merged, {s})
  /\ cnt' = [cnt EXCEPT ![r] = @ + cnt[s], ![s] = 0]
  /\ content' = [content EXCEPT ![r] = @ \cup content[s], ![s] = {}]
  /\ live' = live \ {s}
  /\ out' = NoneOut
  /\ UNCHANGED <<key, Locals>>

-----------------------------------------------------------------------------

(* stroll_drpheap_restore_order() entered with some slots taken, to merge  *)
(* the siblings from first on and the roots from lead on.                  *)
Begin(h, taken, first, lead) ==
  /\ pc' = "next"
  /\ heap' = h
  /\ slots' = [r \in 0 .. Buckets - 1 |-> IF r \in DOMAIN taken THEN taken[r] ELSE None]
  /\ links' = first
  /\ roots' = lead
  /\ node' = None

(* stroll_drpheap_extract(). *)
Extract(h) ==
  LET lead == mem.next[h] IN
  /\ pc = "idle"
  /\ h \in live
  /\ lead # h
  /\ Begin(h, <<>>, mem.child[lead], mem.next[lead])
  /\ mem' = Forgotten(mem, {lead})
  /\ cnt' = [cnt EXCEPT ![h] = @ - 1]
  /\ content' = [content EXCEPT ![h] = @ \ {lead}]
  /\ out' = [NoneOut EXCEPT ![h] = lead]
  /\ UNCHANGED <<live, key>>

(* What a node leaves behind has to be merged: it had children, or it was  *)
(* the first root, which the next one follows.                             *)
WasFirst(m, h, n) == m.next[n] = m.next[h]

(* stroll_drpheap_remove(). *)
Remove(h, n) ==
  LET unlinked == Unlinked(mem, n) IN
  /\ pc = "idle"
  /\ h \in live
  /\ n \in content[h]
  /\ IF mem.child[n] # Plug \/ WasFirst(unlinked, h, n)
     THEN Begin(h, <<>>, mem.child[n], unlinked.next[h])
     ELSE UNCHANGED Locals
  /\ mem' = Forgotten(unlinked, {n})
  /\ cnt' = [cnt EXCEPT ![h] = @ - 1]
  /\ content' = [content EXCEPT ![h] = @ \ {n}]
  /\ out' = NoneOut
  /\ UNCHANGED <<live, key>>

(* stroll_drpheap_base_promote(), the client having lowered the key.  An   *)
(* inner node comes first or second; its rank stays as it is.              *)
Promote(h, n, k) ==
  LET lead == mem.next[h]
      small == key'[n] < key'[lead]
      prev == IF small THEN h ELSE lead
      moves == ~ mem.isroot[n] \/ (lead # n /\ small)
      unlinked == Unlinked(mem, n)
  IN
  /\ pc = "idle"
  /\ h \in live
  /\ n \in content[h]
  /\ k <= key[n]
  /\ key' = [key EXCEPT ![n] = k]
  /\ mem' = IF moves THEN InjectRoot(unlinked, prev, n, unlinked.next[prev]) ELSE mem
  /\ out' = NoneOut
  /\ UNCHANGED <<live, cnt, content, Locals>>

(* stroll_drpheap_base_demote(), the client having raised the key: the     *)
(* node takes the first slot, its children are merged with the roots.      *)
Demote(h, n, k) ==
  /\ pc = "idle"
  /\ h \in live
  /\ n \in content[h]
  /\ k >= key[n]
  /\ key' = [key EXCEPT ![n] = k]
  /\ IF mem.child[n] # Plug \/ n = mem.next[h]
     THEN LET unlinked == Unlinked(mem, n) IN
          /\ mem' = [unlinked EXCEPT !.rank[n] = 0, !.child[n] = Plug]
          /\ Begin(h, [r \in {0} |-> n], mem.child[n], unlinked.next[h])
     ELSE UNCHANGED <<mem, Locals>>
  /\ out' = NoneOut
  /\ UNCHANGED <<live, cnt, content>>

-----------------------------------------------------------------------------

(* stroll_drpheap_merge_nodes(): the next sibling becomes a half tree.     *)
Ranked(m, n) == [m EXCEPT !.rank[n] = m.rank[m.child[n]] + 1]

TakeSibling ==
  /\ pc = "next"
  /\ links # Plug
  /\ mem' = Ranked(mem, links)
  /\ node' = links
  /\ links' = mem.next[links]
  /\ pc' = "slot"
  /\ UNCHANGED <<live, cnt, key, content, out, heap, slots, roots>>

(* stroll_drpheap_merge_roots(): the next root, once siblings are done. *)
TakeRoot ==
  /\ pc = "next"
  /\ links = Plug /\ roots # heap
  /\ node' = roots
  /\ roots' = mem.next[roots]
  /\ pc' = "slot"
  /\ UNCHANGED <<live, mem, cnt, key, content, out, heap, slots, links>>

(* stroll_drpheap_merge_slots(): the slot of its rank is taken, and what   *)
(* the join makes looks for the next one.                                  *)
StillTaken(r) == slots

Freed(r) == [slots EXCEPT ![r] = None]

Carry ==
  /\ pc = "slot"
  /\ slots[mem.rank[node]] # None
  /\ LET r == mem.rank[node] IN
     /\ mem' = Join(mem, node, slots[r])
     /\ node' = Winner(node, slots[r])
     /\ slots' = Freed(r)
  /\ UNCHANGED <<live, cnt, key, content, out, pc, heap, links, roots>>

Place ==
  /\ pc = "slot"
  /\ slots[mem.rank[node]] = None
  /\ slots' = [slots EXCEPT ![mem.rank[node]] = node]
  /\ pc' = "next" /\ node' = None
  /\ UNCHANGED <<live, mem, cnt, key, content, out, heap, links, roots>>

(* stroll_drpheap_make_roots(): half trees go to the front of a new ring   *)
(* in order of their ranks, but the least met so far, which goes last.     *)
Ahead(a, b) == key[a] < key[b]

Gathered(m, h) ==
  LET build[r \in -1 .. Buckets - 1] ==
        IF r = -1 THEN [first |-> None, mem |-> LinkRoots(m, h, h)]
        ELSE LET so == build[r - 1]
                 curr == slots[r]
                 Front(n) == InjectRoot(so.mem, h, n, so.mem.next[h])
             IN CASE curr = None -> so
                  [] curr # None /\ so.first = None -> [so EXCEPT !.first = curr]
                  [] OTHER -> IF Ahead(curr, so.first)
                              THEN [first |-> curr, mem |-> Front(so.first)]
                              ELSE [so EXCEPT !.mem = Front(curr)]
      built == build[Buckets - 1]
  IN  IF built.first = None THEN built.mem
      ELSE InjectRoot(built.mem, h, built.first, built.mem.next[h])

MakeRoots ==
  /\ pc = "next"
  /\ links = Plug /\ roots = heap
  /\ mem' = Gathered(mem, heap)
  /\ pc' = "idle"
  /\ heap' = None /\ slots' = <<>> /\ links' = None /\ roots' = None /\ node' = None
  /\ UNCHANGED <<live, cnt, key, content, out>>

Call ==
  \/ \E h \in Heaps :
       \/ Setup(h)
       \/ Extract(h)
       \/ \E g \in Heaps : Merge(h, g)
       \/ \E n \in Nodes :
            \/ Insert(h, n)
            \/ Remove(h, n)
            \/ \E k \in Keys : Promote(h, n, k) \/ Demote(h, n, k)
  \/ \E n \in Nodes, k \in Keys : SetKey(n, k)

Run == TakeSibling \/ TakeRoot \/ Carry \/ Place \/ MakeRoots

Next == Call \/ Run

Spec == Init /\ [][Next]_vars

-----------------------------------------------------------------------------

(* Every variable keeps the type of the local or field it models. *)
TypeOK ==
  /\ live \subseteq Heaps
  /\ mem.next \in [Nodes \cup Heaps -> Nodes \cup Heaps \cup {None, Plug}]
  /\ mem.prev \in [Nodes \cup Heaps -> Nodes \cup Heaps \cup {None}]
  /\ mem.isroot \in [Nodes \cup Heaps -> BOOLEAN]
  /\ mem.child \in [Nodes -> Nodes \cup {None, Plug}]
  /\ mem.rank \in [Nodes \cup {Plug} -> -1 .. Buckets]
  /\ cnt \in [Heaps -> 0 .. Nr]
  /\ key \in [Nodes -> Keys]
  /\ content \in [Heaps -> SUBSET Nodes]
  /\ out \in [Heaps -> Nodes \cup {None}]

(* The nodes that next leads to from a, up to the end given. *)
Chain(a, end) ==
  LET walk[path \in Seq(Nodes), b \in Nodes \cup Heaps \cup {None, Plug}] ==
        IF b = end \/ b \notin Nodes \ {path[i] : i \in 1 .. Len(path)} THEN path
        ELSE walk[Append(path, b), mem.next[b]]
  IN  walk[<<>>, a]

Members(chain) == {chain[i] : i \in 1 .. Len(chain)}

Roots(h) == Chain(mem.next[h], h)
Children(n) == Chain(mem.child[n], Plug)

(* The half tree of n: n and what its children lead to. *)
Tree(n) ==
  LET grow[i \in 0 .. Cardinality(Nodes)] ==
        IF i = 0 THEN {n}
        ELSE UNION {{p} \cup Members(Children(p)) : p \in grow[i - 1]}
  IN  grow[Cardinality(Nodes)]

(* Nodes chained back from where each stands: the one before it. *)
ChainedBack(chain, before, isroot) ==
  \A i \in 1 .. Len(chain) :
    /\ mem.prev[chain[i]] = IF i = 1 THEN before ELSE chain[i - 1]
    /\ mem.isroot[chain[i]] = isroot

(* Below n, no node precedes its parent and each points back rightly. *)
HalfTreeSound(n) ==
  \A p \in Tree(n) :
    /\ ChainedBack(Children(p), p, FALSE)
    /\ \A c \in Members(Children(p)) : key[p] <= key[c]

(* The half trees partition that set of nodes. *)
Partition(trees, nodes) ==
  LET tree == [n \in trees |-> Tree(n)] IN
  /\ UNION {tree[n] : n \in trees} = nodes
  /\ \A a, b \in trees : a # b => tree[a] \cap tree[b] = {}

(* Between calls the ring of a heap holds exactly the nodes the client put *)
(* there, in half trees in which each node comes after its parent and      *)
(* points back to what leads to it; the first root is the least; and the   *)
(* count is right.                                                         *)
HeapSound ==
  /\ TypeOK
  /\ pc = "idle" =>
       \A h \in live :
         LET ring == Roots(h) IN
         /\ ChainedBack(ring, h, TRUE)
         /\ mem.prev[h] = IF ring = <<>> THEN h ELSE ring[Len(ring)]
         /\ Partition(Members(ring), content[h])
         /\ \A i \in 1 .. Len(ring) : HalfTreeSound(ring[i]) /\ key[ring[1]] <= key[ring[i]]
         /\ cnt[h] = Cardinality(content[h])

(* While half trees are merged each one is in a slot, in hand, among the   *)
(* siblings or among the roots left, and the slot of a half tree is its    *)
(* rank: a join is of equal ranks, and there is a bucket for the result.   *)
(* No half tree in hand ranks below its first child.                       *)
NothingLost ==
  pc # "idle" =>
    LET waiting == {slots[r] : r \in DOMAIN slots} \ {None}
        left == Members(Chain(links, Plug)) \cup Members(Chain(roots, heap))
    IN  /\ Partition(waiting \cup left \cup ({node} \ {None}), content[heap])
        /\ node # None => /\ node \notin waiting \cup left
                          /\ mem.rank[node] >= mem.rank[mem.child[node]]
        /\ waiting \cap left = {}
        /\ \A r \in DOMAIN slots : slots[r] # None => mem.rank[slots[r]] = r
        /\ \A n \in waiting : HalfTreeSound(n)

(* "assert rank < pnode->rank" of stroll_drpheap_remove_node(): whichever   *)
(* inner node leaves its place next, no rank above it grows.               *)
RanksOnlyFall ==
  pc = "idle" =>
    \A h \in live : \A n \in content[h] :
      ~ mem.isroot[n] =>
        LET p == mem.prev[n]
            detached == Detach(mem, n, p)
            restored == RanksRestored(detached, p)
        IN  \A q \in Nodes : ~ mem.isroot[q] => restored[q] <= mem.rank[q]

=============================================================================
