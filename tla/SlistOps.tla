------------------------------ MODULE SlistOps ------------------------------
(***************************************************************************)
(* What the primitives of src/include/stroll/slist.h do to a memory m: the *)
(* function m.next, from nodes and heads of lists to nodes or Null, and    *)
(* the function m.tail, from heads of lists to the last node of the list,  *)
(* or to the head itself.                                                  *)
(***************************************************************************)
EXTENDS Integers, Sequences

CONSTANT Null   (* The null pointer. *)

(* stroll_slist_init(). *)
Initialised(m, list) == [m EXCEPT !.next[list] = Null, !.tail[list] = list]

(* stroll_slist_empty() and stroll_slist_last(). *)
Empty(m, list) == m.next[list] = Null
Last(m, list) == m.tail[list]

(* The tail of a list when nothing follows what becomes its last node. *)
TailWhen(m, condition, list, n) ==
  IF condition THEN [m EXCEPT !.tail[list] = n] ELSE m

(* stroll_slist_append(). *)
AppendAfter(m, list, previous, n) ==
  TailWhen([m EXCEPT !.next[n] = m.next[previous], !.next[previous] = n],
           m.next[previous] = Null, list, n)

(* stroll_slist_nqueue_back(). *)
AppendBack(m, list, n) ==
  [m EXCEPT !.next = [@ EXCEPT ![n] = Null, ![m.tail[list]] = n], !.tail[list] = n]

(* stroll_slist_withdraw() of what follows previous up to last, of which   *)
(* remove() is the case of a single node.                                  *)
WithdrawKeepsTail(m, list, previous, last) ==
  [m EXCEPT !.next[previous] = m.next[last]]

Withdraw(m, list, previous, last) ==
  TailWhen([m EXCEPT !.next[previous] = m.next[last]],
           m.next[last] = Null, list, previous)

RemoveNode(m, list, previous, n) == Withdraw(m, list, previous, n)

(* stroll_slist_dqueue_front(). *)
RemoveFront(m, list) == RemoveNode(m, list, list, m.next[list])

(* stroll_slist_move(). *)
MoveNode(m, list, at, previous, n) ==
  AppendAfter(RemoveNode(m, list, previous, n), list, at, n)

(* stroll_slist_embed(). *)
Embed(m, list, at, first, last) ==
  TailWhen([m EXCEPT !.next[last] = m.next[at], !.next[at] = first],
           m.next[at] = Null, list, last)

(* stroll_slist_splice(): the portion follows previous up to last. *)
SpliceAfter(m, result, at, source, previous, last) ==
  Embed(Withdraw(m, source, previous, last), result, at, m.next[previous], last)

-----------------------------------------------------------------------------

(* The first address from a on that satisfies Test, as the loops of the    *)
(* sorts look for.                                                         *)
FirstFrom(m, a, Test(_)) ==
  LET search[b \in DOMAIN m.next] == IF Test(b) THEN b ELSE search[m.next[b]]
  IN  search[a]

(* The nodes of a list, as many as there are addresses at most. *)
NodesOf(m, list) ==
  LET walk[path \in Seq(DOMAIN m.next)] ==
        LET a == m.next[path[Len(path)]]
        IN  IF a \notin DOMAIN m.next \ {path[i] : i \in 1 .. Len(path)} THEN path
            ELSE walk[Append(path, a)]
  IN  Tail(walk[<<list>>])

(* The chain of the list reaches its tail, and ends there. *)
IsChain(m, list) ==
  LET nodes == <<list>> \o NodesOf(m, list)
      last == nodes[Len(nodes)]
  IN  m.tail[list] = last /\ m.next[last] = Null

Members(m, list) == LET nodes == NodesOf(m, list) IN {nodes[i] : i \in 1 .. Len(nodes)}

=============================================================================
