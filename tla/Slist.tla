-------------------------------- MODULE Slist --------------------------------
(***************************************************************************)
(* The singly linked lists of src/include/stroll/slist.h and               *)
(* src/src/slist.c, as a client uses them.  A call is one step.            *)
(***************************************************************************)
EXTENDS SlistOps, ListClient

(* Nodes out of any list point where the client does not care. *)
Forgotten(m, out) == [m EXCEPT !.next = [a \in DOMAIN @ |-> IF a \in out THEN Wild ELSE @[a]]]

Init ==
  /\ mem = [next |-> [a \in Heads \cup Nodes |-> IF a \in Heads THEN Null ELSE Wild],
            tail |-> [h \in Heads |-> h]]
  /\ lists = [h \in Heads |-> <<>>]
  /\ hand = <<>>

-----------------------------------------------------------------------------

(* stroll_slist_init() of a list, empty or not. *)
InitList(h) ==
  /\ mem' = Forgotten(Initialised(mem, h), Range(lists[h]))
  /\ lists' = [lists EXCEPT ![h] = <<>>]
  /\ UNCHANGED hand

(* stroll_slist_append(), or nqueue_front() at the head of the list. *)
AppendNode(h, i, n) ==
  /\ Free(n)
  /\ mem' = AppendAfter(mem, h, At(h, i), n)
  /\ lists' = [lists EXCEPT ![h] = With(@, i, <<n>>)]
  /\ UNCHANGED hand

(* stroll_slist_nqueue_back(). *)
NqueueBack(h, n) ==
  /\ Free(n)
  /\ mem' = AppendBack(mem, h, n)
  /\ lists' = [lists EXCEPT ![h] = Append(@, n)]
  /\ UNCHANGED hand

(* stroll_slist_remove(). *)
Remove(h, i) ==
  /\ mem' = Forgotten(RemoveNode(mem, h, At(h, i - 1), At(h, i)), {At(h, i)})
  /\ lists' = [lists EXCEPT ![h] = Without(@, i, i)]
  /\ UNCHANGED hand

(* stroll_slist_dqueue_front(). *)
DqueueFront(h) ==
  /\ ~ Empty(mem, h)
  /\ mem' = Forgotten(RemoveFront(mem, h), {mem.next[h]})
  /\ lists' = [lists EXCEPT ![h] = Tail(@)]
  /\ UNCHANGED hand

(* stroll_slist_move() of a node to another place of its list. *)
Move(h, i, k) ==
  /\ k # i
  /\ mem' = MoveNode(mem, h, At(h, k), At(h, i - 1), At(h, i))
  /\ lists' = [lists EXCEPT ![h] =
       With(Without(@, i, i), IF k < i THEN k ELSE k - 1, <<At(h, i)>>)]
  /\ UNCHANGED hand

(* stroll_slist_splice() of the nodes i to j to a place of another list. *)
Splice(h, i, j, g, k) ==
  /\ g # h
  /\ mem' = SpliceAfter(mem, g, At(g, k), h, At(h, i - 1), At(h, j))
  /\ lists' = [lists EXCEPT ![h] = Without(@, i, j),
                            ![g] = With(@, k, SubSeq(lists[h], i, j))]
  /\ UNCHANGED hand

(* stroll_slist_withdraw(), then stroll_slist_embed() of what was          *)
(* withdrawn.                                                              *)
WithdrawPortion(h, i, j) ==
  /\ hand = <<>>
  /\ mem' = Withdraw(mem, h, At(h, i - 1), At(h, j))
  /\ lists' = [lists EXCEPT ![h] = Without(@, i, j)]
  /\ hand' = SubSeq(lists[h], i, j)

EmbedPortion(h, i) ==
  /\ hand # <<>>
  /\ mem' = Embed(mem, h, At(h, i), hand[1], hand[Len(hand)])
  /\ lists' = [lists EXCEPT ![h] = With(@, i, hand)]
  /\ hand' = <<>>

Next ==
  \E h \in Heads :
    \/ InitList(h)
    \/ DqueueFront(h)
    \/ \E n \in Nodes : NqueueBack(h, n)
    \/ \E i \in Places(h) : EmbedPortion(h, i) \/ \E n \in Nodes : AppendNode(h, i, n)
    \/ \E i \in Places(h) \ {0} :
         \/ Remove(h, i)
         \/ \E k \in Places(h) : Move(h, i, k)
         \/ \E j \in i .. Len(lists[h]) :
              \/ WithdrawPortion(h, i, j)
              \/ \E g \in Heads : \E k \in Places(g) : Splice(h, i, j, g, k)

Spec == Init /\ [][Next]_vars

-----------------------------------------------------------------------------

TypeOK ==
  /\ mem \in [next : [Heads \cup Nodes -> Nodes \cup {Null, Wild}],
             tail : [Heads -> Heads \cup Nodes]]
  /\ lists \in [Heads -> Seq(Nodes)]
  /\ hand \in Seq(Nodes)

(* Each list chains exactly the nodes that the calls made so far put       *)
(* there, in that order, and its tail is the last one, or its own head,    *)
(* whichever call took or brought the last node; a portion in hand is      *)
(* still chained.                                                          *)
ChainsSound ==
  /\ TypeOK
  /\ \A h \in Heads :
       /\ \A i \in Places(h) :
            mem.next[At(h, i)] = IF i = Len(lists[h]) THEN Null ELSE At(h, i + 1)
       /\ mem.tail[h] = At(h, Len(lists[h]))
  /\ \A i \in 1 .. Len(hand) - 1 : mem.next[hand[i]] = hand[i + 1]

=============================================================================
