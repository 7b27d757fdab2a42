------------------------------- MODULE MCSorts ------------------------------
(***************************************************************************)
(* Every sort of both kinds of list and of arrays, on small inputs of all  *)
(* keys: a behaviour sorts once, with one of them.                         *)
(***************************************************************************)
EXTENDS ListSort

CONSTANTS
  ArrayCalls,  (* The calls that sort or search an array.                  *)
  Keys,        (* Keys that compare() looks at.                            *)
  Most,        (* Most nodes to sort, but for the merge sort of a list.    *)
  Null         (* The null pointer.                                        *)

VARIABLE kind   \* "dlist", "slist" or "array"

D == INSTANCE DlistSort
S == INSTANCE SlistSort
A == INSTANCE ArraySort WITH Calls <- ArrayCalls, Aux <- 2 * Most, stack <- sort

ASSUME ArraysAssumption == A!ArraySortAssumption

(* Sorts of a single list.  The insertions in order are those of dlist.    *)
Sorts == {"bubble", "select", "insert", "front", "back", "merge"}

KeysUpTo(n) == UNION {[1 .. m -> Keys] : m \in 1 .. n}

(* The ways to cut lists of up to n nodes in total. *)
Cuts(n) ==
  {lasts \in UNION {[1 .. nr -> 1 .. n] : nr \in 1 .. MaxHeads} :
     \A h \in 2 .. Len(lasts) : lasts[h - 1] < lasts[h]}

SingleCalls ==
  {[sort |-> which, keys |-> keys, lasts |-> <<Len(keys)>>] :
     which \in Sorts, keys \in KeysUpTo(Most)}

KwayCalls ==
  {c \in [sort : {"kwmerge"}, keys : KeysUpTo(Most), lasts : Cuts(Most)] :
     c.lasts[Len(c.lasts)] = Len(c.keys)}

(* Two keys are enough to fill every sublist of the merge sort, down to    *)
(* the last one.                                                           *)
LongCalls == [sort : {"merge"}, keys : [1 .. 2^IntBits -> {1, 2}], lasts : {<<2^IntBits>>}]

ListCalls == SingleCalls \cup KwayCalls \cup LongCalls

(* Arrays have one more element than lists, so that both halves of what a  *)
(* merge sort splits are split again.                                      *)
ArrayKeys == KeysUpTo(Most + 1)

InPlaceCalls ==
  [sort : {"bubble", "select", "insert", "hoare", "dijkstra", "bentley"}, keys : ArrayKeys]

MergeCalls == [sort : {"merge"}, keys : ArrayKeys, full : BOOLEAN, block : BOOLEAN]

(* Searches of keys that are there, between others, or past both ends. *)
SearchCalls ==
  {c \in [sort : {"bisect"}, keys : ArrayKeys, wanted : Keys \cup {0, 4}] :
     \A i \in 2 .. Len(c.keys) : c.keys[i - 1] <= c.keys[i]}

AllArrayCalls == InPlaceCalls \cup MergeCalls \cup SearchCalls

Init ==
  /\ kind \in {"dlist", "slist", "array"}
  /\ CASE kind = "dlist" -> D!Init
       [] kind = "slist" -> S!Init /\ call.sort \notin {"front", "back"}
       [] kind = "array" -> A!Init /\ kway = None

Next ==
  /\ \/ kind = "dlist" /\ D!Next
     \/ kind = "slist" /\ S!Next
     \/ kind = "array" /\ A!Next /\ UNCHANGED kway
  /\ UNCHANGED kind

(* The sort that was called runs. *)
Spec == Init /\ [][Next]_<<vars, kind>> /\ WF_<<vars, kind>>(Next)

-----------------------------------------------------------------------------

(* Whatever the sort, the list or the array ends up with every node,       *)
(* sorted, and the sort was stable if it is documented so, the merge of    *)
(* several lists included; a singly linked list has its tail on the last   *)
(* node, and an array is untouched when the merge sort gets no buffer.     *)
SortedStably ==
  CASE kind = "dlist" -> D!SortedStably
    [] kind = "slist" -> S!SortedStably
    [] kind = "array" -> A!SortedStably

(* In a dlist, between any two steps every node is in one list, among      *)
(* those of the client and those on the stack, and lists are rings in both *)
(* directions.                                                             *)
NothingLost == kind = "dlist" => D!NothingLost

(* What the sorts that divide rely on.  In a dlist, the sublists that wait *)
(* while the merge sort runs are sorted, hold a power of two of runs, the  *)
(* longer a sublist the earlier its nodes, and do not exceed the ones on   *)
(* the stack.  In an array, both runs of a merge are sorted and the first  *)
(* has the elements that came first; the ranges that a quick sort has left *)
(* are bounded by what is around them, and leave the array sorted up to    *)
(* the threshold.                                                          *)
RunsInOrder ==
  CASE kind = "dlist" -> D!RunsInOrder
    [] kind = "slist" -> TRUE
    [] kind = "array" -> A!RunsInOrder

(* A quick sort of an array recurses no deeper than the binary logarithm   *)
(* of its length.                                                          *)
StackShallow == kind = "array" => A!StackShallow

(* When areas that the merge sort of an array gives to memcpy() overlap,   *)
(* it is by moving elements towards the start.                             *)
CopiesHarmless == kind = "array" => A!CopiesHarmless

(* The bisection of a sorted array finds an element that equals the key    *)
(* when there is one, and nothing otherwise.                               *)
SearchSound == kind = "array" => A!SearchSound

(* Every sort, and the search, ends. *)
SortEnds == <>(pc \in {"done", "failed", "found", "absent"})

(* The merge sort of an array is stable, as src/sphinx/api.rst:610 has it  *)
(* of the build that looks for full runs too.                              *)
MergeStable == kind = "array" => A!MergeStable

=============================================================================
