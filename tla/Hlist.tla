-------------------------------- MODULE Hlist -------------------------------
(***************************************************************************)
(* The hashed lists of src/include/stroll/hlist.h and src/src/hlist.c: an  *)
(* array of 2^Bits buckets, each the first of a chain of nodes, and nodes  *)
(* that point back to the pointer that leads to them.  The address of a    *)
(* pointer is that of the node, or bucket, that it belongs to.             *)
(*                                                                         *)
(* A call is one step.  The loops over all buckets take one step per node, *)
(* between which the client may take out the node that it was given, if    *)
(* the loop is one of those that are safe.                                 *)
(***************************************************************************)
EXTENDS ListClient

CONSTANTS
  Bits,   (* Log base 2 of the number of buckets; Heads are their indices. *)
  Null    (* The null pointer.                                             *)

VARIABLE loop   \* the loop in progress, or Null

(* stroll_hlist_init(), stroll_hlist_init_node(). *)
Emptied(m, buckets) ==
  [m EXCEPT !.next = [a \in DOMAIN @ |-> IF a \in buckets THEN Null ELSE @[a]]]

InitialisedNode(m, n) == [m EXCEPT !.next[n] = Null, !.prev[n] = n]

(* stroll_hlist_node_hashed(). *)
Hashed(n) == mem.prev[n] # n

(* What points back to the node that followed, if any. *)
PointsBack(m, n, a) == IF n = Null THEN m ELSE [m EXCEPT !.prev[n] = a]

(* _stroll_hlist_append_node(), a being a node or a bucket. *)
AppendAfter(m, a, n) ==
  PointsBack([m EXCEPT !.next = [@ EXCEPT ![n] = m.next[a], ![a] = n], !.prev[n] = a],
             m.next[a], n)

(* stroll_hlist_insert_node(). *)
InsertBefore(m, at, n) ==
  [m EXCEPT !.next = [@ EXCEPT ![n] = at, ![m.prev[at]] = n],
            !.prev = [@ EXCEPT ![n] = m.prev[at], ![at] = n]]

(* stroll_hlist_remove_node(). *)
RemoveNodeAlone(m, n) == [m EXCEPT !.next[m.prev[n]] = m.next[n]]

RemoveNode(m, n) == PointsBack([m EXCEPT !.next[m.prev[n]] = m.next[n]], m.next[n], m.prev[n])

(* Nodes in no list hold what the client cares not about. *)
Forgotten(m, nodes) ==
  [next |-> [a \in DOMAIN m.next |-> IF a \in nodes THEN Wild ELSE m.next[a]],
   prev |-> [n \in Nodes |-> IF n \in nodes THEN Wild ELSE m.prev[n]]]

-----------------------------------------------------------------------------

Init ==
  /\ mem = [next |-> [a \in Heads \cup Nodes |-> IF a \in Heads THEN Null ELSE Wild],
            prev |-> [n \in Nodes |-> Wild]]
  /\ lists = [h \in Heads |-> <<>>]
  /\ hand = <<>>
  /\ loop = Null

(* stroll_hlist_init() of a bucket, stroll_hlist_init_buckets() of all:    *)
(* nodes that were there are the client's to find again.                   *)
InitList(buckets) ==
  /\ mem' = Forgotten(Emptied(mem, buckets), UNION {Range(lists[h]) : h \in buckets})
  /\ lists' = [h \in Heads |-> IF h \in buckets THEN <<>> ELSE lists[h]]
  /\ UNCHANGED <<hand, loop>>

InitNode(n) ==
  /\ Free(n)
  /\ mem' = InitialisedNode(mem, n)
  /\ UNCHANGED <<lists, hand, loop>>

(* stroll_hlist_add(), or append_node() after a node. *)
AppendNode(h, i, n) ==
  /\ Free(n)
  /\ mem' = AppendAfter(mem, At(h, i), n)
  /\ lists' = [lists EXCEPT ![h] = With(@, i, <<n>>)]
  /\ UNCHANGED <<hand, loop>>

InsertNode(h, i, n) ==
  /\ Free(n)
  /\ mem' = InsertBefore(mem, lists[h][i], n)
  /\ lists' = [lists EXCEPT ![h] = With(@, i - 1, <<n>>)]
  /\ UNCHANGED <<hand, loop>>

(* stroll_hlist_remove_node() and stroll_hlist_remove_node_init(), that    *)
(* stroll_hlist_del() and stroll_hlist_del_init() are.                     *)
Removed(h, i) ==
  /\ LET n == lists[h][i] IN
     mem' \in {Forgotten(RemoveNode(mem, n), {n}), InitialisedNode(RemoveNode(mem, n), n)}
  /\ lists' = [lists EXCEPT ![h] = Without(@, i, i)]

Remove(h, i) == Removed(h, i) /\ UNCHANGED <<hand, loop>>

(* The same of a node that is initialised but in no list. *)
RemoveUnhashed(n) ==
  /\ mem.prev[n] = n
  /\ mem' \in {RemoveNode(mem, n), InitialisedNode(RemoveNode(mem, n), n)}
  /\ UNCHANGED <<lists, hand, loop>>

(* What stroll_hlist_foreach_buckets_node() and its _safe variant get to   *)
(* once a chain leads to n: the first node of the next bucket that has one *)
(* when it is at its end.  The safe variant looks at once at what follows. *)
BucketsFrom(b) == {h \in Heads : h >= b /\ mem.next[h] # Null}

Reached(n, b) ==
  IF n # Null THEN <<n, b>>
  ELSE IF BucketsFrom(b + 1) = {} THEN <<Null, 2 ^ Bits>>
  ELSE LET h == CHOOSE h \in BucketsFrom(b + 1) : \A g \in BucketsFrom(b + 1) : h <= g
       IN  <<mem.next[h], h>>

LoopAt(safe, place, got, due) ==
  [safe |-> safe, node |-> place[1], bucket |-> place[2],
   tmp |-> IF safe /\ place[1] # Null THEN mem.next[place[1]] ELSE Null,
   got |-> IF place[1] = Null THEN got ELSE Append(got, place[1]), due |-> due]

LoopBegins(safe) ==
  /\ loop = Null
  /\ loop' = LoopAt(safe, Reached(Null, -1), <<>>, InLists)
  /\ UNCHANGED vars

LoopGoesOn ==
  /\ loop.node # Null
  /\ \E place \in {Reached(IF loop.safe THEN loop.tmp ELSE mem.next[loop.node], loop.bucket)} :
       loop' = LoopAt(loop.safe, place, loop.got, loop.due)
  /\ UNCHANGED vars

LoopEnds ==
  /\ loop.node = Null
  /\ loop' = Null
  /\ UNCHANGED vars

(* The client takes out the node that the loop has given it. *)
RemoveCurrent(h, i) ==
  /\ loop.safe
  /\ lists[h][i] = loop.node
  /\ Removed(h, i)
  /\ UNCHANGED <<hand, loop>>

Call ==
  \/ InitList(Heads)
  \/ \E h \in Heads :
       \/ InitList({h})
       \/ \E i \in Places(h), n \in Nodes : AppendNode(h, i, n)
       \/ \E i \in Places(h) \ {0} : Remove(h, i) \/ \E n \in Nodes : InsertNode(h, i, n)
  \/ \E n \in Nodes : InitNode(n) \/ RemoveUnhashed(n)
  \/ \E safe \in BOOLEAN : LoopBegins(safe)

Next ==
  \/ loop = Null /\ Call
  \/ /\ loop # Null
     /\ \/ LoopGoesOn \/ LoopEnds
        \/ \E h \in Heads : \E i \in Places(h) \ {0} : RemoveCurrent(h, i)

-----------------------------------------------------------------------------

TypeOK ==
  /\ mem \in [next : [Heads \cup Nodes -> Nodes \cup {Null, Wild}],
             prev : [Nodes -> Heads \cup Nodes \cup {Wild}]]
  /\ lists \in [Heads -> Seq(Nodes)]
  /\ hand = <<>>

(* The chain of each bucket has exactly the nodes that the calls made so   *)
(* far put there, in that order, each pointing back to what leads to it;   *)
(* nodes that are initialised are told to be in a list when they are.  The *)
(* loops over buckets get every node once, those that the client takes out *)
(* on the way included.                                                    *)
HashChainsSound ==
  /\ TypeOK
  /\ \A h \in Heads :
       \A i \in Places(h) :
         /\ mem.next[At(h, i)] = IF i = Len(lists[h]) THEN Null ELSE At(h, i + 1)
         /\ i > 0 => mem.prev[lists[h][i]] = At(h, i - 1)
  /\ \A n \in Nodes : mem.prev[n] # Wild => (Hashed(n) <=> n \in InLists)
  /\ loop # Null =>
       /\ \A i, j \in 1 .. Len(loop.got) : loop.got[i] = loop.got[j] => i = j
       /\ loop.node = Null => Range(loop.got) = loop.due

=============================================================================
