------------------------------ MODULE DlistOps ------------------------------
(***************************************************************************)
(* What the primitives of src/include/stroll/dlist.h do to a memory m: two *)
(* functions from addresses to addresses, the fields next and prev of      *)
(* struct stroll_dlist_node.  The head of a list is a node like any other, *)
(* so that a list is a ring.                                               *)
(***************************************************************************)
EXTENDS Integers, Sequences, FiniteSets

(* stroll_dlist_init(). *)
Initialised(m, a) == [m EXCEPT !.next[a] = a, !.prev[a] = a]

(* stroll_dlist_empty(). *)
Empty(m, a) == m.next[a] = a

(* The two stores that make b follow a. *)
Link(m, a, b) == [m EXCEPT !.next[a] = b, !.prev[b] = a]

(* stroll_dlist_inject(): n goes between p and q. *)
Inject(m, p, n, q) == Link(Link(m, p, n), n, q)

InsertBefore(m, at, n) == Inject(m, m.prev[at], n, at)

AppendAfter(m, at, n) == Inject(m, at, n, m.next[at])

(* stroll_dlist_withdraw() of a portion, of which remove() is the case of  *)
(* a single node.  The portion keeps its own pointers.                     *)
Withdraw(m, first, last) == Link(m, m.prev[first], m.next[last])

RemoveNode(m, n) == Withdraw(m, n, n)

(* stroll_dlist_embed_before() and stroll_dlist_embed_after(). *)
EmbedBefore(m, at, first, last) == Link(Link(m, m.prev[at], first), last, at)

EmbedAfter(m, at, first, last) == Link(Link(m, last, m.next[at]), at, first)

(* stroll_dlist_splice_before() and stroll_dlist_splice_after(): where the *)
(* portion goes is looked at once it is out.                               *)
SpliceBefore(m, at, first, last) ==
  EmbedBefore(Withdraw(m, first, last), at, first, last)

SpliceAfterWithoutWithdraw(m, at, first, last) == EmbedAfter(m, at, first, last)

SpliceAfter(m, at, first, last) ==
  EmbedAfter(Withdraw(m, first, last), at, first, last)

-----------------------------------------------------------------------------

(* The addresses met from a on, a first, each following the one before. *)
Steps(m, a) ==
  LET addresses == DOMAIN m.next
      walk[i \in 1 .. Cardinality(addresses) + 1] ==
        IF i = 1 THEN a
        ELSE LET b == walk[i - 1] IN IF m.next[b] \in addresses THEN m.next[b] ELSE b
  IN  walk

(* The first of them that satisfies Test, as the loops of the sorts look   *)
(* for.                                                                    *)
FirstFrom(m, a, Test(_)) ==
  LET search[b \in DOMAIN m.next] == IF Test(b) THEN b ELSE search[m.next[b]]
  IN  search[a]

(* They lead back to h, through nodes that point back to one another. *)
IsRing(m, h) ==
  LET at == Steps(m, h) IN
  \E n \in 2 .. Len(at) :
    /\ at[n] = h
    /\ \A i \in 1 .. n - 1 : at[i + 1] \in DOMAIN m.next /\ m.prev[at[i + 1]] = at[i]

(* The nodes of the list of head h, in the order of foreach_node(): those  *)
(* met before it.                                                          *)
NodesOf(m, h) ==
  LET at == Steps(m, m.next[h]) IN
  SubSeq(at, 1, Cardinality({i \in DOMAIN at : \A j \in 1 .. i : at[j] # h}))

Members(m, h) == LET nodes == NodesOf(m, h) IN {nodes[i] : i \in DOMAIN nodes}

=============================================================================
