-------------------------------- MODULE Dlist --------------------------------
(***************************************************************************)
(* The doubly linked lists of src/include/stroll/dlist.h and               *)
(* src/src/dlist.c, as a client uses them.  A call is one step.            *)
(***************************************************************************)
EXTENDS DlistOps, ListClient

Addresses == Heads \cup Nodes

(* Nodes out of any list point where the client does not care. *)
Forgotten(m, out) ==
  [next |-> [a \in Addresses |-> IF a \in out THEN Wild ELSE m.next[a]],
   prev |-> [a \in Addresses |-> IF a \in out THEN Wild ELSE m.prev[a]]]

Init ==
  /\ mem = Forgotten([next |-> [a \in Addresses |-> a], prev |-> [a \in Addresses |-> a]],
                     Nodes)
  /\ lists = [h \in Heads |-> <<>>]
  /\ hand = <<>>

-----------------------------------------------------------------------------

(* stroll_dlist_init() of a head, empty or not, or of a node in no list. *)
InitHead(h) ==
  /\ mem' = Forgotten(Initialised(mem, h), Range(lists[h]))
  /\ lists' = [lists EXCEPT ![h] = <<>>]
  /\ UNCHANGED hand

InitNode(n) ==
  /\ Free(n)
  /\ mem' = Initialised(mem, n)
  /\ UNCHANGED <<lists, hand>>

(* stroll_dlist_insert() and stroll_dlist_append() of n between the nodes  *)
(* i and i + 1; at the head of the list, nqueue_back() and nqueue_front(). *)
Insert(h, i, n) ==
  /\ Free(n)
  /\ mem' \in {InsertBefore(mem, At(h, i + 1), n), AppendAfter(mem, At(h, i), n)}
  /\ lists' = [lists EXCEPT ![h] = With(@, i, <<n>>)]
  /\ UNCHANGED hand

(* stroll_dlist_remove(), and dqueue_front() or dqueue_back() of the nodes *)
(* at the ends; the variants that initialise the node they remove.         *)
Remove(h, i) ==
  /\ LET n == lists[h][i] IN
     mem' \in {Forgotten(RemoveNode(mem, n), {n}), Initialised(RemoveNode(mem, n), n)}
  /\ lists' = [lists EXCEPT ![h] = Without(@, i, i)]
  /\ UNCHANGED hand

(* stroll_dlist_replace() and stroll_dlist_replace_init(). *)
Replaced(m, old, n) == Inject(m, m.prev[old], n, m.next[old])

Replace(h, i, n) ==
  /\ Free(n)
  /\ LET old == lists[h][i] IN
     mem' \in {Forgotten(Replaced(mem, old, n), {old}), Initialised(Replaced(mem, old, n), old)}
  /\ lists' = [lists EXCEPT ![h][i] = n]
  /\ UNCHANGED hand

(* What moving the nodes i to j of h to the place k of g should come to. *)
Moved(h, i, j, g, k) ==
  LET portion == SubSeq(lists[h], i, j)
      rest == Without(lists[h], i, j)
  IN  IF g # h
      THEN [lists EXCEPT ![h] = rest, ![g] = With(@, k, portion)]
      ELSE [lists EXCEPT ![h] = With(rest, IF k < i THEN k ELSE k - Len(portion), portion)]

(* A place, as the node before or after it, out of the portion. *)
Outside(h, i, j, g, k) == g # h \/ k \notin i .. j

(* stroll_dlist_move_before() and stroll_dlist_move_after().  Where the    *)
(* node goes is looked at once it is out.                                  *)
MovedBeforeStale(m, at, n) == Inject(RemoveNode(m, n), m.prev[at], n, at)

MovedBefore(m, at, n) == InsertBefore(RemoveNode(m, n), at, n)

MovedAfter(m, at, n) == AppendAfter(RemoveNode(m, n), at, n)

Move(h, i, g, k) ==
  LET n == lists[h][i] IN
  /\ \/ Outside(h, i, i, g, k) /\ mem' = MovedAfter(mem, At(g, k), n)
     \/ Outside(h, i, i, g, k + 1) /\ mem' = MovedBefore(mem, At(g, k + 1), n)
  /\ lists' = Moved(h, i, i, g, k)
  /\ UNCHANGED hand

(* stroll_dlist_splice_before() and stroll_dlist_splice_after(). *)
Splice(h, i, j, g, k) ==
  LET first == lists[h][i]
      last == lists[h][j]
  IN  /\ \/ Outside(h, i, j, g, k) /\ mem' = SpliceAfter(mem, At(g, k), first, last)
         \/ Outside(h, i, j, g, k + 1) /\ mem' = SpliceBefore(mem, At(g, k + 1), first, last)
      /\ lists' = Moved(h, i, j, g, k)
      /\ UNCHANGED hand

(* stroll_dlist_withdraw(). *)
WithdrawPortion(h, i, j) ==
  /\ hand = <<>>
  /\ mem' = Withdraw(mem, lists[h][i], lists[h][j])
  /\ lists' = [lists EXCEPT ![h] = Without(@, i, j)]
  /\ hand' = SubSeq(lists[h], i, j)

(* stroll_dlist_embed_before() and stroll_dlist_embed_after() of what was  *)
(* withdrawn.                                                              *)
Embed(h, i) ==
  /\ hand # <<>>
  /\ LET first == hand[1]
         last == hand[Len(hand)]
     IN  mem' \in {EmbedBefore(mem, At(h, i + 1), first, last),
                   EmbedAfter(mem, At(h, i), first, last)}
  /\ lists' = [lists EXCEPT ![h] = With(@, i, hand)]
  /\ hand' = <<>>

Next ==
  \/ \E n \in Nodes : InitNode(n)
  \/ \E h \in Heads :
       \/ InitHead(h)
       \/ \E i \in Places(h) : Embed(h, i) \/ \E n \in Nodes : Insert(h, i, n)
       \/ \E i \in Places(h) \ {0} :
            \/ Remove(h, i)
            \/ \E n \in Nodes : Replace(h, i, n)
            \/ \E g \in Heads : \E k \in Places(g) : Move(h, i, g, k)
            \/ \E j \in i .. Len(lists[h]) :
                 \/ WithdrawPortion(h, i, j)
                 \/ \E g \in Heads : \E k \in Places(g) : Splice(h, i, j, g, k)

Spec == Init /\ [][Next]_vars

-----------------------------------------------------------------------------

TypeOK ==
  /\ mem \in [next : [Addresses -> Addresses \cup {Wild}],
             prev : [Addresses -> Addresses \cup {Wild}]]
  /\ lists \in [Heads -> Seq(Nodes)]
  /\ hand \in Seq(Nodes)

(* b follows a, both ways. *)
Follows(a, b) == mem.next[a] = b /\ mem.prev[b] = a

(* Each list is a ring, in both directions, of exactly the nodes that the  *)
(* calls made so far put there, in that order, however portions of it went *)
(* from one place to another; a portion in hand is still chained; and a    *)
(* node is not empty while it is in a list, so that a client who removes   *)
(* with the _init variants may ask stroll_dlist_empty() whether it is.     *)
RingsSound ==
  /\ TypeOK
  /\ \A h \in Heads : \A i \in Places(h) : Follows(At(h, i), At(h, i + 1))
  /\ \A i \in 1 .. Len(hand) - 1 : Follows(hand[i], hand[i + 1])
  /\ \A n \in InLists : ~ Empty(mem, n)

=============================================================================
