----------------------------- MODULE DlistSort ------------------------------
(***************************************************************************)
(* The sorts of src/src/dlist.c.  A step is an iteration of the loop in    *)
(* progress: what it searches for with an inner loop that changes nothing, *)
(* it finds at once.                                                       *)
(***************************************************************************)
EXTENDS DlistOps, ListSort

LOCAL INSTANCE FiniteSetsExt

(* The list on the stack of the selection sort. *)
Unsort == Sub(0)

First(a) == mem.next[a]
Last(a) == mem.prev[a]

-----------------------------------------------------------------------------

(* The lists given, as rings, those on the stack being empty. *)
Chained ==
  [next |-> [a \in Nodes \cup Lists |->
               CASE a \in Given -> FirstOf(a)
                 [] a \in Nodes -> IF \E h \in Given : a = LastOf(h)
                                  THEN CHOOSE h \in Given : a = LastOf(h) ELSE a + 1
                 [] OTHER -> a],
   prev |-> [a \in Nodes \cup Lists |->
               CASE a \in Given -> LastOf(a)
                 [] a \in Nodes -> IF \E h \in Given : a = FirstOf(h)
                                  THEN CHOOSE h \in Given : a = FirstOf(h) ELSE a - 1
                 [] OTHER -> a]]

Init ==
  /\ call \in Calls
  /\ mem = Chained
  /\ pc = "call"
  /\ loop = None /\ sort = None /\ merge = None /\ kway = None

-----------------------------------------------------------------------------

(* stroll_dlist_bubble_sort().  A pass ends at loop.sort, the first node   *)
(* of the sorted end of the list.                                          *)
BubbleCall ==
  /\ Called("bubble")
  /\ pc' = "bubble"
  /\ loop' = [sort |-> List(0), curr |-> First(List(0)), swap |-> FALSE]
  /\ UNCHANGED <<mem, call, sort, merge, kway>>

(* The next node that is out of order, or the last one before the end. *)
OutOfOrder(from, end) ==
  FirstFrom(mem, from, LAMBDA a : First(a) = end \/ key[a] > key[First(a)])

BubblePassOver(end, swapped) ==
  IF swapped
  THEN loop' = [sort |-> end, curr |-> mem'.next[List(0)], swap |-> FALSE] /\ pc' = pc
  ELSE loop' = None /\ pc' = "done"

BubblePassEnds ==
  /\ pc = "bubble"
  /\ LET curr == OutOfOrder(loop.curr, loop.sort) IN
     /\ First(curr) = loop.sort
     /\ mem' = mem
     /\ BubblePassOver(curr, loop.swap)
  /\ UNCHANGED <<call, sort, merge, kway>>

(* Where the node n, out of order, goes: before a node not less. *)
InOrderPast(n, end) ==
  FirstFrom(mem, First(First(n)), LAMBDA a : a = end \/ key[a] > key[n])

InOrder(n, end) ==
  FirstFrom(mem, First(First(n)), LAMBDA a : a = end \/ key[a] >= key[n])

BubbleMove ==
  /\ pc = "bubble"
  /\ LET swap == OutOfOrder(loop.curr, loop.sort)
         curr == InOrder(swap, loop.sort)
     IN  /\ First(swap) # loop.sort
         /\ mem' = InsertBefore(RemoveNode(mem, swap), curr, swap)
         /\ IF curr = loop.sort
            THEN BubblePassOver(swap, TRUE)
            ELSE loop' = [loop EXCEPT !.curr = curr, !.swap = TRUE] /\ pc' = pc
  /\ UNCHANGED <<call, sort, merge, kway>>

(* stroll_dlist_select_sort(). *)
SelectFrom(m) == [sort |-> m.next[Unsort], curr |-> m.next[Unsort]]

SelectCall ==
  /\ Called("select")
  /\ pc' = "select"
  /\ mem' = SpliceAfter(mem, Unsort, First(List(0)), Last(List(0)))
  /\ loop' = SelectFrom(mem')
  /\ UNCHANGED <<call, sort, merge, kway>>

(* loop.sort is the first of the least nodes met. *)
Precedes(a, b) == key[a] < key[b]

SameNode(a) == a

NextToCompare(a) == First(a)

SelectCompare ==
  /\ pc = "select"
  /\ loop.curr # Unsort
  /\ loop' = [curr |-> NextToCompare(loop.curr),
              sort |-> IF Precedes(loop.curr, loop.sort) THEN loop.curr ELSE loop.sort]
  /\ UNCHANGED <<mem, call, pc, sort, merge, kway>>

SelectMove ==
  /\ pc = "select"
  /\ loop.curr = Unsort
  /\ mem' = InsertBefore(RemoveNode(mem, loop.sort), List(0), loop.sort)
  /\ IF Empty(mem', Unsort)
     THEN loop' = None /\ pc' = "done"
     ELSE loop' = SelectFrom(mem') /\ pc' = pc
  /\ UNCHANGED <<call, sort, merge, kway>>

-----------------------------------------------------------------------------

(* stroll_dlist_insert_inorder_front() and stroll_dlist_insert_inorder_    *)
(* back(), when the client inserts the nodes one at a time into the list.  *)
FrontPlace(n) == FirstFrom(mem, First(List(0)), LAMBDA a : a = List(0) \/ key[n] < key[a])

BackPlace(n) ==
  LET back == [mem EXCEPT !.next = mem.prev]
  IN  FirstFrom(back, Last(List(0)), LAMBDA a : a = List(0) \/ key[n] >= key[a])

InOrderCall ==
  /\ \E which \in {"front", "back"} : Called(which) /\ pc' = which
  /\ mem' = Initialised(mem, List(0))
  /\ loop' = [curr |-> 1]
  /\ UNCHANGED <<call, sort, merge, kway>>

InOrderInsert ==
  /\ pc \in {"front", "back"}
  /\ loop.curr <= Len(key)
  /\ mem' = IF pc = "front"
            THEN InsertBefore(mem, FrontPlace(loop.curr), loop.curr)
            ELSE AppendAfter(mem, BackPlace(loop.curr), loop.curr)
  /\ loop' = [curr |-> loop.curr + 1]
  /\ UNCHANGED <<call, pc, sort, merge, kway>>

InOrderDone ==
  /\ pc \in {"front", "back"}
  /\ loop.curr > Len(key)
  /\ pc' = "done" /\ loop' = None
  /\ UNCHANGED <<mem, call, sort, merge, kway>>

(* stroll_dlist_insert_reorder_front(): the memory and the node that then  *)
(* ends the sorted start of the list.                                      *)
ReorderFront(list, prev, node) ==
  IF key[node] < key[prev]
  THEN LET out == RemoveNode(mem, node)
           curr == FirstFrom(out, out.next[list], LAMBDA a : key[node] < key[a])
       IN  [mem |-> InsertBefore(out, curr, node), prev |-> prev]
  ELSE [mem |-> mem, prev |-> node]

Larger(a, b) == IF a > b THEN a ELSE b

(* The loop of stroll_dlist_insert_sort(), which nothing limits (0), and   *)
(* of stroll_dlist_merge_insert_sort(), which takes a run.                 *)
InsertLoop(m, list, limit) ==
  [list |-> list, prev |-> m.next[list], curr |-> m.next[m.next[list]], cnt |-> limit]

InsertCall ==
  /\ Called("insert")
  /\ pc' = "insert"
  /\ loop' = InsertLoop(mem, List(0), 0)
  /\ UNCHANGED <<mem, call, sort, merge, kway>>

(* while (--cnt && (curr != head)). *)
InsertMore == loop.cnt # 1 /\ loop.curr # loop.list

(* The node to look at next, read before curr moves. *)
NextToReorder == First(loop.curr)

InsertStep ==
  /\ pc = "insert"
  /\ InsertMore
  /\ LET reordered == ReorderFront(loop.list, loop.prev, loop.curr) IN
     /\ mem' = reordered.mem
     /\ loop' = [loop EXCEPT !.prev = reordered.prev, !.curr = NextToReorder,
                             !.cnt = Larger(@ - 1, 0)]
  /\ UNCHANGED <<call, pc, sort, merge, kway>>

InsertDone ==
  /\ pc = "insert"
  /\ ~ InsertMore
  /\ sort = None
  /\ pc' = "done" /\ loop' = None
  /\ UNCHANGED <<mem, call, sort, merge, kway>>

-----------------------------------------------------------------------------

(* stroll_dlist_merge_sort() of a list.  The sublists are on its stack. *)
EnterMergeSort(list) ==
  /\ mem' = [next |-> [a \in DOMAIN mem.next |-> IF a \in Subs THEN a ELSE mem.next[a]],
             prev |-> [a \in DOMAIN mem.prev |-> IF a \in Subs THEN a ELSE mem.prev[a]]]
  /\ sort' = [list |-> list, cnt |-> 1, nr |-> 0]
  /\ loop' = InsertLoop(mem', list, Threshold)
  /\ pc' = "insert"

MergeSortCall ==
  /\ Called("merge")
  /\ EnterMergeSort(List(0))
  /\ UNCHANGED <<call, merge, kway>>

(* The end of stroll_dlist_merge_insert_sort(). *)
RunDone ==
  /\ pc = "insert"
  /\ ~ InsertMore
  /\ sort # None
  /\ mem' = SpliceAfter(mem, Sub(0), First(loop.list), loop.prev)
  /\ sort' = [sort EXCEPT !.cnt = 1]
  /\ pc' = "carry" /\ loop' = None
  /\ UNCHANGED <<call, merge, kway>>

(* stroll_dlist_merge_presort() of two lists, to return to its caller. *)
EnterMerge(result, source, caller) ==
  /\ merge' = [result |-> result, source |-> source, at |-> result, caller |-> caller]
  /\ pc' = "merge"

(* Two runs of the same length, the longer ago the first. *)
CarryMerge ==
  /\ pc = "carry"
  /\ ~ Empty(mem, Sub(sort.cnt))
  /\ EnterMerge(Sub(sort.cnt), Sub(sort.cnt - 1), "carry")
  /\ UNCHANGED <<mem, call, loop, sort, kway>>

CarryEnds ==
  /\ pc = "carry"
  /\ Empty(mem, Sub(sort.cnt))
  /\ LET carried == Sub(sort.cnt - 1) IN
     mem' = Initialised(EmbedAfter(mem, Sub(sort.cnt), First(carried), Last(carried)), carried)
  /\ sort' = [sort EXCEPT !.nr = Larger(@, sort.cnt)]
  /\ IF Empty(mem', sort.list)
     THEN pc' = "gather" /\ loop' = None
     ELSE pc' = "insert" /\ loop' = InsertLoop(mem', sort.list, Threshold)
  /\ UNCHANGED <<call, merge, kway>>

(* The longest sublist goes back to the list, then the others are merged   *)
(* into it, from the longest to the shortest.                              *)
Gather ==
  /\ pc = "gather"
  /\ mem' = EmbedAfter(mem, sort.list, First(Sub(sort.nr)), Last(Sub(sort.nr)))
  /\ pc' = "final"
  /\ UNCHANGED <<call, loop, sort, merge, kway>>

FinalMerge ==
  /\ pc = "final"
  /\ sort.nr > 0
  /\ sort' = [sort EXCEPT !.nr = @ - 1]
  /\ IF Empty(mem, Sub(sort'.nr))
     THEN UNCHANGED <<pc, merge>>
     ELSE EnterMerge(sort.list, Sub(sort'.nr), "final")
  /\ UNCHANGED <<mem, call, loop, kway>>

MergeSortDone ==
  /\ pc = "final"
  /\ sort.nr = 0
  /\ kway = None
  /\ pc' = "done" /\ sort' = None
  /\ UNCHANGED <<mem, call, loop, merge, kway>>

(* stroll_dlist_merge_sorted_subs(): what it inserts comes after this node *)
(* of the result.                                                          *)
FollowsAll(list, n) == key[n] >= key[Last(list)]

LastNotAfter(result, at, n) ==
  FirstFrom(mem, at, LAMBDA a : First(a) = result \/ key[First(a)] > key[n])

(* The source up to this node. *)
LastBeforeLoose(source, n) ==
  FirstFrom(mem, source, LAMBDA a : First(a) = source \/ key[First(a)] > key[n])

LastBefore(source, n) ==
  FirstFrom(mem, source, LAMBDA a : First(a) = source \/ key[First(a)] >= key[n])

MergeSubs ==
  /\ pc = "merge"
  /\ LET result == merge.result
         source == merge.source
         ref == First(source)
         fast == FollowsAll(result, ref)
         after == IF fast THEN Last(result) ELSE LastNotAfter(result, merge.at, ref)
         whole == fast \/ First(after) = result \/ key[First(after)] > key[Last(source)]
         upto == IF whole THEN Last(source) ELSE LastBefore(source, First(after))
     IN  /\ mem' = SpliceAfter(mem, after, ref, upto)
         /\ IF Empty(mem', source)
            THEN /\ pc' = merge.caller /\ merge' = None
                 /\ sort' = IF merge.caller = "carry" THEN [sort EXCEPT !.cnt = @ + 1] ELSE sort
            ELSE /\ merge' = [merge EXCEPT !.at = upto]
                 /\ UNCHANGED <<pc, sort>>
  /\ UNCHANGED <<call, loop, kway>>

-----------------------------------------------------------------------------

(* stroll_dlist_kwmerge_sort(), kway.p being 0 while lists are sorted. *)
KwayCall ==
  /\ Called("kwmerge")
  /\ EnterMergeSort(List(0))
  /\ kway' = [h |-> 0, p |-> 0]
  /\ UNCHANGED <<call, merge>>

KwaySortNext ==
  /\ pc = "final" /\ sort.nr = 0
  /\ kway # None
  /\ IF kway.h + 1 < NrHeads
     THEN /\ EnterMergeSort(List(kway.h + 1))
          /\ kway' = [kway EXCEPT !.h = @ + 1]
     ELSE /\ pc' = "kway" /\ sort' = None
          /\ kway' = [h |-> 0, p |-> 1]
          /\ UNCHANGED <<mem, loop>>
  /\ UNCHANGED <<call, merge>>

(* stroll_dlist_kwmerge_presort(): lists are merged by pairs, at a         *)
(* distance that doubles.                                                  *)
KwayMerge ==
  /\ pc = "kway"
  /\ kway.h + kway.p < NrHeads
  /\ EnterMerge(List(kway.h), List(kway.h + kway.p), "kway")
  /\ kway' = [kway EXCEPT !.h = @ + 2 * kway.p]
  /\ UNCHANGED <<mem, call, loop, sort>>

KwayNextPass ==
  /\ pc = "kway"
  /\ kway.p < NrHeads /\ kway.h + kway.p >= NrHeads
  /\ kway' = [h |-> 0, p |-> 2 * kway.p]
  /\ UNCHANGED <<mem, call, pc, loop, sort, merge>>

KwayDone ==
  /\ pc = "kway"
  /\ kway.p >= NrHeads
  /\ pc' = "done" /\ kway' = None
  /\ UNCHANGED <<mem, call, loop, sort, merge>>

Next ==
  \/ BubbleCall \/ BubbleMove \/ BubblePassEnds
  \/ SelectCall \/ SelectCompare \/ SelectMove
  \/ InOrderCall \/ InOrderInsert \/ InOrderDone
  \/ InsertCall \/ InsertStep \/ InsertDone
  \/ MergeSortCall \/ RunDone \/ CarryMerge \/ CarryEnds
  \/ Gather \/ FinalMerge \/ MergeSortDone \/ MergeSubs
  \/ KwayCall \/ KwaySortNext \/ KwayMerge \/ KwayNextPass \/ KwayDone

Spec == Init /\ [][Next]_vars

-----------------------------------------------------------------------------

(* Whatever the sort, the list ends up sorted and the sort was stable, the *)
(* merge of several lists included.                                        *)
SortedStably ==
  pc = "done" => StablySorted(NodesOf(mem, List(0))) /\ Members(mem, List(0)) = Nodes

(* Between two steps every node is in one list, among those of the client  *)
(* and those on the stack, and the lists are rings in both directions; a   *)
(* head whose nodes went to another by stroll_dlist_embed_after() is no    *)
(* longer a list.                                                          *)
NothingLost ==
  LET rings == {r \in Lists : Last(First(r)) = r}
      nodes == IF pc \in {"front", "back"} THEN 1 .. loop.curr - 1 ELSE Nodes
  IN  /\ \A r \in rings : IsRing(mem, r)
      /\ UNION {Members(mem, r) : r \in rings} = nodes
      /\ MapThenSumSet(LAMBDA r : Len(NodesOf(mem, r)), rings) = Cardinality(nodes)

(* Why the merge sort is stable, and why its sublists suffice: those       *)
(* waiting are sorted, they hold a power of two of runs, the longer a      *)
(* sublist the earlier its nodes, and the list holds the last ones.        *)
RunsInOrder ==
  pc = "carry" =>
    /\ sort.cnt < SubsMax
    /\ \A i \in 0 .. SubsMax - 1 :
         /\ StablySorted(NodesOf(mem, Sub(i)))
         /\ i >= sort.cnt =>
              Len(NodesOf(mem, Sub(i))) \in {0, Threshold * 2^(i - 1)}
         /\ \A n \in Members(mem, Sub(i)) :
              /\ \A j \in 0 .. i - 1 : \A k \in Members(mem, Sub(j)) : n < k
              /\ \A k \in Members(mem, sort.list) : n < k

=============================================================================
