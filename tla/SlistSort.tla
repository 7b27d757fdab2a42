----------------------------- MODULE SlistSort ------------------------------
(***************************************************************************)
(* The sorts of src/src/slist.c.  A step is an iteration of the loop in    *)
(* progress: what it searches for with an inner loop that changes nothing, *)
(* it finds at once.  Nodes are only chained forwards, so that the loops   *)
(* keep the node before the one they move, and the lists must keep their   *)
(* tail right.                                                             *)
(***************************************************************************)
EXTENDS SlistOps, ListSort

LOCAL INSTANCE FiniteSetsExt

After(a) == mem.next[a]

-----------------------------------------------------------------------------

(* The lists given, those on the stack being empty. *)
Chained ==
  [next |-> [a \in Nodes \cup Lists |->
               CASE a \in Given -> FirstOf(a)
                 [] a \in Nodes /\ \A h \in Given : a # LastOf(h) -> a + 1
                 [] OTHER -> Null],
   tail |-> [a \in Lists |-> IF a \in Given THEN LastOf(a) ELSE a]]

Init ==
  /\ call \in Calls
  /\ mem = Chained
  /\ pc = "call"
  /\ loop = None /\ sort = None /\ merge = None /\ kway = None

-----------------------------------------------------------------------------

(* stroll_slist_bubble_sort().  A pass ends at loop.sort, the first node   *)
(* of the sorted end of the list, Null at first.                           *)
BubbleCall ==
  /\ Called("bubble")
  /\ pc' = "bubble"
  /\ loop' = [sort |-> Null, prev |-> List(0), swap |-> FALSE]
  /\ UNCHANGED <<mem, call, sort, merge, kway>>

AtEnd(a) == a \in {Null, loop.sort}

(* What comes before the next node out of order, or before the last one.   *)
BeforeDisorder ==
  FirstFrom(mem, loop.prev,
    LAMBDA a : LET next == After(After(a)) IN AtEnd(next) \/ key[After(a)] > key[next])

(* A pass is over: another one, up to where it ended, unless nothing moved. *)
BubblePassOver(end, swapped) ==
  IF swapped
  THEN loop' = [sort |-> end, prev |-> List(0), swap |-> FALSE] /\ pc' = pc
  ELSE loop' = None /\ pc' = "done"

BubblePassEnds ==
  /\ pc = "bubble"
  /\ LET curr == After(BeforeDisorder) IN
     /\ AtEnd(After(curr))
     /\ BubblePassOver(curr, loop.swap)
  /\ UNCHANGED <<mem, call, sort, merge, kway>>

(* The node after which n, out of order, goes: the next is not less. *)
InOrder(n) ==
  FirstFrom(mem, After(n), LAMBDA a : AtEnd(After(a)) \/ key[After(a)] >= key[n])

BubbleMove ==
  /\ pc = "bubble"
  /\ LET swap == After(BeforeDisorder)
         prev == InOrder(swap)
     IN  /\ ~ AtEnd(After(swap))
         /\ mem' = AppendAfter(RemoveNode(mem, List(0), BeforeDisorder, swap),
                               List(0), prev, swap)
         /\ IF AtEnd(After(prev))
            THEN BubblePassOver(swap, TRUE)
            ELSE loop' = [loop EXCEPT !.prev = swap, !.swap = TRUE] /\ pc' = pc
  /\ UNCHANGED <<call, sort, merge, kway>>

(* stroll_slist_select_sort(): loop.tail ends the sorted start of the      *)
(* list, to which goes the first of the least nodes that follow it.        *)
SelectCall ==
  /\ Called("select")
  /\ pc' = "select" /\ loop' = [tail |-> List(0)]
  /\ UNCHANGED <<mem, call, sort, merge, kway>>

SelectDone ==
  /\ pc = "select"
  /\ After(loop.tail) = Last(mem, List(0))
  /\ pc' = "done" /\ loop' = None
  /\ UNCHANGED <<mem, call, sort, merge, kway>>

BeforeLeast(tail) ==
  LET least == Min({key[n] : n \in Members(mem, tail)})
  IN  FirstFrom(mem, tail, LAMBDA a : key[After(a)] = least)

SelectMove ==
  /\ pc = "select"
  /\ After(loop.tail) # Last(mem, List(0))
  /\ LET prev == BeforeLeast(loop.tail) IN
     /\ mem' = IF prev = loop.tail THEN mem
               ELSE MoveNode(mem, List(0), loop.tail, prev, After(prev))
     /\ loop' = [tail |-> After(prev)]
  /\ UNCHANGED <<call, pc, sort, merge, kway>>

-----------------------------------------------------------------------------

(* stroll_slist_insert_inorder(): some node is greater. *)
InsertInOrder(m, list, n) ==
  AppendAfter(m, list, FirstFrom(m, list, LAMBDA a : key[n] < key[m.next[a]]), n)

(* The loop of stroll_slist_insert_sort(), which nothing limits (0), and   *)
(* of stroll_slist_merge_insert_sort(), which takes a run.                 *)
InsertLoop(m, list, limit) ==
  [list |-> list, prev |-> m.next[list], curr |-> m.next[m.next[list]], cnt |-> limit]

InsertCall ==
  /\ Called("insert")
  /\ pc' = "insert"
  /\ loop' = InsertLoop(mem, List(0), 0)
  /\ UNCHANGED <<mem, call, sort, merge, kway>>

(* while (--cnt && curr). *)
InsertMore == loop.cnt # 1 /\ loop.curr # Null

InsertStep ==
  /\ pc = "insert"
  /\ InsertMore
  /\ LET less == key[loop.curr] < key[loop.prev]
         prev == IF less THEN loop.prev ELSE loop.curr
     IN  /\ mem' = IF less
                   THEN InsertInOrder(RemoveNode(mem, loop.list, loop.prev, loop.curr),
                                      loop.list, loop.curr)
                   ELSE mem
         /\ loop' = [loop EXCEPT !.prev = prev, !.curr = mem'.next[prev],
                                 !.cnt = Max({@ - 1, 0})]
  /\ UNCHANGED <<call, pc, sort, merge, kway>>

InsertDone ==
  /\ pc = "insert"
  /\ ~ InsertMore
  /\ sort = None
  /\ pc' = "done" /\ loop' = None
  /\ UNCHANGED <<mem, call, sort, merge, kway>>

-----------------------------------------------------------------------------

(* stroll_slist_merge_sort() of a list.  The sublists are on its stack. *)
EnterMergeSort(list) ==
  /\ mem' = [next |-> [a \in DOMAIN mem.next |-> IF a \in Subs THEN Null ELSE mem.next[a]],
             tail |-> [a \in DOMAIN mem.tail |-> IF a \in Subs THEN a ELSE mem.tail[a]]]
  /\ sort' = [list |-> list, cnt |-> 1, nr |-> 0]
  /\ loop' = InsertLoop(mem', list, Threshold)
  /\ pc' = "insert"

MergeSortCall ==
  /\ Called("merge")
  /\ EnterMergeSort(List(0))
  /\ UNCHANGED <<call, merge, kway>>

(* The end of stroll_slist_merge_insert_sort(). *)
RunDone ==
  /\ pc = "insert"
  /\ ~ InsertMore
  /\ sort # None
  /\ mem' = SpliceAfter(mem, Sub(0), Sub(0), loop.list, loop.list, loop.prev)
  /\ sort' = [sort EXCEPT !.cnt = 1]
  /\ pc' = "carry" /\ loop' = None
  /\ UNCHANGED <<call, merge, kway>>

(* stroll_slist_merge_presort() of two lists, to return to its caller. *)
EnterMerge(result, source, caller) ==
  /\ merge' = [result |-> result, source |-> source, at |-> result, caller |-> caller]
  /\ pc' = "merge"

(* Two runs of the same length, the longer ago the first. *)
CarryMerge ==
  /\ pc = "carry"
  /\ ~ Empty(mem, Sub(sort.cnt))
  /\ EnterMerge(Sub(sort.cnt), Sub(sort.cnt - 1), "carry")
  /\ UNCHANGED <<mem, call, loop, sort, kway>>

(* A list assigned to another, of which both fields change. *)
Copied(m, to, from) ==
  [m EXCEPT !.next[to] = m.next[from], !.tail[to] = m.tail[from]]

CarryEnds ==
  /\ pc = "carry"
  /\ Empty(mem, Sub(sort.cnt))
  /\ mem' = Initialised(Copied(mem, Sub(sort.cnt), Sub(sort.cnt - 1)), Sub(sort.cnt - 1))
  /\ sort' = [sort EXCEPT !.nr = Max({@, sort.cnt})]
  /\ IF Empty(mem', sort.list)
     THEN pc' = "gather" /\ loop' = None
     ELSE pc' = "insert" /\ loop' = InsertLoop(mem', sort.list, Threshold)
  /\ UNCHANGED <<call, merge, kway>>

(* The longest sublist goes back to the list, then the others are merged   *)
(* into it, from the longest to the shortest.                              *)
Gather ==
  /\ pc = "gather"
  /\ mem' = Copied(mem, sort.list, Sub(sort.nr))
  /\ pc' = "final"
  /\ UNCHANGED <<call, loop, sort, merge, kway>>

FinalMerge ==
  /\ pc = "final"
  /\ sort.nr > 0
  /\ sort' = [sort EXCEPT !.nr = @ - 1]
  /\ IF Empty(mem, Sub(sort'.nr))
     THEN UNCHANGED <<pc, merge>>
     ELSE EnterMerge(sort.list, Sub(sort'.nr), "final")
  /\ UNCHANGED <<mem, call, loop, kway>>

MergeSortDone ==
  /\ pc = "final"
  /\ sort.nr = 0
  /\ kway = None
  /\ pc' = "done" /\ sort' = None
  /\ UNCHANGED <<mem, call, loop, merge, kway>>

(* stroll_slist_merge_sorted_subs(): what it inserts comes after this node *)
(* of the result, and is the source up to that node of the source.         *)
LastNotAfter(at, n) ==
  FirstFrom(mem, at, LAMBDA a : After(a) = Null \/ key[After(a)] > key[n])

LastBefore(source, n) ==
  FirstFrom(mem, source, LAMBDA a : After(a) = Null \/ key[After(a)] >= key[n])

MergeSubs ==
  /\ pc = "merge"
  /\ LET result == merge.result
         source == merge.source
         ref == After(source)
         fast == key[ref] >= key[Last(mem, result)]
         after == IF fast THEN Last(mem, result) ELSE LastNotAfter(merge.at, ref)
         whole == \/ fast
                  \/ After(after) = Null
                  \/ key[After(after)] > key[Last(mem, source)]
         upto == IF whole THEN Last(mem, source) ELSE LastBefore(source, After(after))
     IN  /\ mem' = SpliceAfter(mem, result, after, source, source, upto)
         /\ IF Empty(mem', source)
            THEN /\ pc' = merge.caller /\ merge' = None
                 /\ sort' = IF merge.caller = "carry" THEN [sort EXCEPT !.cnt = @ + 1] ELSE sort
            ELSE /\ merge' = [merge EXCEPT !.at = upto]
                 /\ UNCHANGED <<pc, sort>>
  /\ UNCHANGED <<call, loop, kway>>

-----------------------------------------------------------------------------

(* stroll_slist_kwmerge_sort(), kway.p being 0 while lists are sorted. *)
KwayCall ==
  /\ Called("kwmerge")
  /\ EnterMergeSort(List(0))
  /\ kway' = [h |-> 0, p |-> 0]
  /\ UNCHANGED <<call, merge>>

KwaySortNext ==
  /\ pc = "final" /\ sort.nr = 0
  /\ kway # None
  /\ IF kway.h + 1 < NrHeads
     THEN /\ EnterMergeSort(List(kway.h + 1))
          /\ kway' = [kway EXCEPT !.h = @ + 1]
     ELSE /\ pc' = "kway" /\ sort' = None
          /\ kway' = [h |-> 0, p |-> 1]
          /\ UNCHANGED <<mem, loop>>
  /\ UNCHANGED <<call, merge>>

(* stroll_slist_kwmerge_presort(): lists are merged by pairs, at a         *)
(* distance that doubles.                                                  *)
KwayMerge ==
  /\ pc = "kway"
  /\ kway.h + kway.p < NrHeads
  /\ EnterMerge(List(kway.h), List(kway.h + kway.p), "kway")
  /\ kway' = [kway EXCEPT !.h = @ + 2 * kway.p]
  /\ UNCHANGED <<mem, call, loop, sort>>

KwayNextPass ==
  /\ pc = "kway"
  /\ kway.p < NrHeads /\ kway.h + kway.p >= NrHeads
  /\ kway' = [h |-> 0, p |-> 2 * kway.p]
  /\ UNCHANGED <<mem, call, pc, loop, sort, merge>>

KwayDone ==
  /\ pc = "kway"
  /\ kway.p >= NrHeads
  /\ pc' = "done" /\ kway' = None
  /\ UNCHANGED <<mem, call, loop, sort, merge>>

Next ==
  \/ BubbleCall \/ BubbleMove \/ BubblePassEnds
  \/ SelectCall \/ SelectMove \/ SelectDone
  \/ InsertCall \/ InsertStep \/ InsertDone
  \/ MergeSortCall \/ RunDone \/ CarryMerge \/ CarryEnds
  \/ Gather \/ FinalMerge \/ MergeSortDone \/ MergeSubs
  \/ KwayCall \/ KwaySortNext \/ KwayMerge \/ KwayNextPass \/ KwayDone

Spec == Init /\ [][Next]_vars

-----------------------------------------------------------------------------

(* Whatever the sort, the list ends up with every node and its tail on the *)
(* last one, sorted, and the sort was stable, the merge of several lists   *)
(* included.                                                               *)
SortedStably ==
  pc = "done" =>
    /\ StablySorted(NodesOf(mem, List(0)))
    /\ Members(mem, List(0)) = Nodes
    /\ IsChain(mem, List(0))

=============================================================================
