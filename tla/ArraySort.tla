----------------------------- MODULE ArraySort ------------------------------
(***************************************************************************)
(* The sorts of src/src/array.c, and its bisection search.  The code has   *)
(* each of them for elements of 32 bits, of 64 bits and of any other size, *)
(* that only differ by how they merge runs (call.block).  A step is an     *)
(* iteration of the loop in progress: what an inner loop looks for without *)
(* changing anything is found at once.  Recursion is a stack of what the   *)
(* suspended calls have left to do.                                        *)
(***************************************************************************)
EXTENDS Integers, Sequences, FiniteSets

INSTANCE Pow2 WITH W <- 32   \* unsigned int

CONSTANTS
  Calls,      (* The calls that the client may make: the sort, the keys of *)
              (* the elements, the options of the build, the key to find.  *)
  Threshold,  (* CONFIG_STROLL_ARRAY_*_SORT_INSERT_THRESHOLD.              *)
  Aux,        (* Where malloc() puts the merge sort's buffer, past arrays. *)
  None        (* The locals of a function that is not running.             *)

(* Arrays are not empty, and one that is searched is sorted. *)
ArraySortAssumption ==
  /\ Threshold \in Nat \ {0, 1}
  /\ Aux \in Nat
  /\ \A c \in Calls : c.keys \in Seq(Int) /\ Len(c.keys) \in 1 .. Aux
  /\ \A c \in Calls : c.sort = "bisect" =>
       /\ c.wanted \in Int
       /\ \A i, j \in 1 .. Len(c.keys) : i < j => c.keys[i] <= c.keys[j]

VARIABLES
  call,    \* the call that the client makes
  mem,     \* what each index of the array holds, then the merge sort's buffer
  pc,      \* the loop in progress
  loop,    \* its locals
  stack,   \* what the suspended calls have left to do, the innermost first
  merge    \* locals of the merge of two runs

vars == <<call, mem, pc, loop, stack, merge>>

key == call.keys
Nr == Len(key)
Array == 0 .. Nr - 1

(* The key of the element at index i: elements are numbered from 1 in the  *)
(* order in which the client gives them.                                   *)
At(m, i) == key[m[i]]

Swap(m, i, j) == [m EXCEPT ![i] = m[j], ![j] = m[i]]

Init ==
  /\ call \in Calls
  /\ mem = [i \in Array |-> i + 1]
  /\ pc = "call"
  /\ loop = None /\ stack = <<>> /\ merge = None

Called(which) == pc = "call" /\ call.sort = which

Return ==
  /\ pc' = "done" /\ loop' = None
  /\ UNCHANGED <<call, stack, merge>>

(* Nothing to sort. *)
SortOne ==
  /\ pc = "call" /\ call.sort # "bisect"
  /\ Nr = 1
  /\ Return /\ UNCHANGED mem

Enter(which, locals) ==
  /\ Called(which) /\ Nr > 1
  /\ pc' = which /\ loop' = locals
  /\ UNCHANGED <<call, mem, stack, merge>>

-----------------------------------------------------------------------------

(* stroll_array_bisect_search() for call.wanted: the element is at         *)
(* loop.min when it is found, and there is none when it is not.            *)
BisectCall ==
  /\ Called("bisect")
  /\ pc' = "bisect" /\ loop' = [min |-> 0, max |-> Nr]
  /\ UNCHANGED <<call, mem, stack, merge>>

NarrowedPastMid(mid) ==
  [min |-> IF call.wanted > At(mem, mid) THEN mid + 1 ELSE loop.min,
   max |-> IF call.wanted < At(mem, mid) THEN mid - 1 ELSE loop.max]

Narrowed(mid) ==
  [min |-> IF call.wanted > At(mem, mid) THEN mid + 1 ELSE loop.min,
   max |-> IF call.wanted < At(mem, mid) THEN mid ELSE loop.max]

Bisect ==
  /\ pc = "bisect"
  /\ LET mid == (loop.min + loop.max) \div 2 IN
     IF call.wanted = At(mem, mid)
     THEN pc' = "found" /\ loop' = [loop EXCEPT !.min = mid]
     ELSE /\ loop' = Narrowed(mid)
          /\ pc' = IF loop'.min < loop'.max THEN pc ELSE "absent"
  /\ UNCHANGED <<call, mem, stack, merge>>

-----------------------------------------------------------------------------

(* stroll_array_bubble_sort(): a pass goes up to loop.end, and the next    *)
(* one up to the last element that it swapped.                             *)
BubblePass(end) == [end |-> end, elm |-> 0, last |-> 0]

BubbleCall == Enter("bubble", BubblePass(Nr - 1))

Bubble ==
  /\ pc = "bubble"
  /\ LET neigh == loop.elm + 1
         swap == At(mem, loop.elm) > At(mem, neigh)
         last == IF swap THEN neigh ELSE loop.last
     IN  /\ mem' = IF swap THEN Swap(mem, loop.elm, neigh) ELSE mem
         /\ IF neigh >= loop.end /\ last = 0
            THEN Return
            ELSE /\ loop' = IF neigh < loop.end
                            THEN [loop EXCEPT !.elm = neigh, !.last = last]
                            ELSE BubblePass(last)
                 /\ UNCHANGED <<call, pc, stack, merge>>

(* stroll_array_select_sort(): the first of the least elements comes next. *)
SelectCall == Enter("select", [unsort |-> 0])

Least(m, from) ==
  CHOOSE i \in from .. Nr - 1 :
    /\ \A j \in from .. i - 1 : At(m, i) < At(m, j)
    /\ \A j \in i .. Nr - 1 : At(m, i) <= At(m, j)

Select ==
  /\ pc = "select"
  /\ mem' = Swap(mem, loop.unsort, Least(mem, loop.unsort))
  /\ IF loop.unsort + 1 < Nr - 1
     THEN loop' = [unsort |-> loop.unsort + 1] /\ UNCHANGED <<call, pc, stack, merge>>
     ELSE Return

(* Where an element goes between two indices: after those not above it.    *)
Place(m, from, end, elem) ==
  CHOOSE p \in from .. end :
    /\ \A i \in p .. end - 1 : key[elem] < At(m, i)
    /\ p > from => key[elem] >= At(m, p - 1)

Inserted(m, from, end, elem) ==
  LET p == Place(m, from, end, elem) IN
  [i \in DOMAIN m |-> CASE i = p -> elem
                        [] i \in p + 1 .. end -> m[i - 1]
                        [] OTHER -> m[i]]

(* stroll_array_insert_inpsort_elem() and stroll_array_insert_oopsort_elem(). *)
InPlace(m, elem) == Inserted(m, 0, elem, m[elem])
OutOfPlace(m, array, end, elem) == Inserted(m, array, end, m[elem])

(* stroll_array_insert_sort(). *)
InsertCall == Enter("insert", [unsort |-> 1])

Insert ==
  /\ pc = "insert"
  /\ mem' = InPlace(mem, loop.unsort)
  /\ IF loop.unsort + 1 <= Nr - 1
     THEN loop' = [unsort |-> loop.unsort + 1] /\ UNCHANGED <<call, pc, stack, merge>>
     ELSE Return

-----------------------------------------------------------------------------

(* The quick sorts: stroll_array_quick_sort(), and both partitions that    *)
(* stroll_array_3wquick_sort() may be built with.                          *)
QuickSorts == {"hoare", "dijkstra", "bentley"}

QuickCall ==
  /\ pc = "call" /\ call.sort \in QuickSorts /\ Nr > 1
  /\ pc' = "quick" /\ loop' = [low |-> 0, high |-> Nr - 1]
  /\ UNCHANGED <<call, mem, stack, merge>>

(* Nothing to do with a range that short: go on with what is suspended,    *)
(* then sort the whole array by insertion.                                 *)
QuickReturn ==
  /\ pc = "quick"
  /\ loop.low + Threshold > loop.high
  /\ IF stack = <<>>
     THEN pc' = "insert" /\ loop' = [unsort |-> 1] /\ UNCHANGED stack
     ELSE loop' = Head(stack) /\ stack' = Tail(stack) /\ UNCHANGED pc
  /\ UNCHANGED <<call, mem, merge>>

Middle == loop.low + (loop.high - loop.low) \div 2

(* The first, middle and last elements in order. *)
MedianOfThree(m) ==
  LET m1 == IF At(m, loop.low) > At(m, Middle) THEN Swap(m, loop.low, Middle) ELSE m
      m2 == Swap(m1, Middle, loop.high)
  IN  CASE At(m1, Middle) <= At(m1, loop.high) -> m1
        [] At(m2, loop.low) > At(m2, Middle) -> Swap(m2, loop.low, Middle)
        [] OTHER -> m2

(* A partition starts, with the median as its pivot. *)
Partition(scheme) ==
  /\ pc = "quick" /\ call.sort = scheme
  /\ loop.low + Threshold <= loop.high
  /\ mem' = MedianOfThree(mem)
  /\ pc' = scheme
  /\ UNCHANGED <<call, stack, merge>>

(* Upwards the first element not below the pivot, downwards the first one  *)
(* not above it.                                                           *)
NotBelow(m, from, pivot) ==
  CHOOSE i \in from .. Nr - 1 :
    At(m, i) >= key[pivot] /\ \A j \in from .. i - 1 : At(m, j) < key[pivot]

NotAbove(m, from, pivot) ==
  CHOOSE i \in 0 .. from :
    At(m, i) <= key[pivot] /\ \A j \in i + 1 .. from : At(m, j) > key[pivot]

(* The recursive call gets one side of the partition, and the loop goes on *)
(* with the other.                                                         *)
Recurse(low, high, lowFirst) ==
  LET below == [low |-> loop.low, high |-> low]
      above == [low |-> high, high |-> loop.high]
  IN  /\ pc' = "quick"
      /\ loop' = IF lowFirst THEN below ELSE above
      /\ stack' = <<IF lowFirst THEN above ELSE below>> \o stack
      /\ UNCHANGED <<call, merge>>

LargerFirst(low, high) == low - loop.low > loop.high - high

SmallerFirst(low, high) == low - loop.low < loop.high - high

(* Hoare's partition. *)
HoareCall ==
  /\ Partition("hoare")
  /\ loop' = [low |-> loop.low, high |-> loop.high,
              bot |-> loop.low, top |-> loop.high, pivot |-> mem'[Middle]]

Hoare ==
  /\ pc = "hoare"
  /\ LET bot == NotBelow(mem, loop.bot + 1, loop.pivot)
         top == NotAbove(mem, loop.top - 1, loop.pivot)
     IN  IF bot >= top
         THEN Recurse(top, top + 1, SmallerFirst(top, top)) /\ UNCHANGED mem
         ELSE /\ mem' = Swap(mem, bot, top)
              /\ loop' = [loop EXCEPT !.bot = bot, !.top = top]
              /\ UNCHANGED <<call, pc, stack, merge>>

(* Dijkstra's partition in three. *)
DijkstraCall ==
  /\ Partition("dijkstra")
  /\ LET bot == NotBelow(mem', loop.low, mem'[Middle]) IN
     loop' = [low |-> loop.low, high |-> loop.high, bot |-> bot,
              top |-> NotAbove(mem', loop.high, mem'[Middle]), elm |-> bot,
              pivot |-> mem'[Middle]]

DijkstraBelow(elm) ==
  /\ At(mem, elm) < key[loop.pivot]
  /\ mem' = Swap(mem, loop.bot, elm)
  /\ loop' = [loop EXCEPT !.bot = @ + 1, !.elm = elm + 1]

DijkstraAbove(elm) ==
  /\ At(mem, elm) > key[loop.pivot]
  /\ mem' = Swap(mem, loop.top, elm)
  /\ loop' = [loop EXCEPT !.top = @ - 1]

DijkstraEqual(elm) ==
  /\ At(mem, elm) = key[loop.pivot]
  /\ loop' = [loop EXCEPT !.elm = elm + 1] /\ UNCHANGED mem

Dijkstra ==
  /\ pc = "dijkstra" /\ loop.elm <= loop.top
  /\ DijkstraBelow(loop.elm) \/ DijkstraAbove(loop.elm) \/ DijkstraEqual(loop.elm)
  /\ UNCHANGED <<call, pc, stack, merge>>

DijkstraEnds ==
  /\ pc = "dijkstra" /\ loop.elm > loop.top
  /\ Recurse(loop.bot - 1, loop.top + 1, SmallerFirst(loop.bot - 1, loop.top + 1))
  /\ UNCHANGED mem

(* Bentley and McIlroy's partition: elements equal to the pivot gather at  *)
(* both ends, before loop.leq and after loop.heq.                          *)
BentleyCall ==
  /\ Partition("bentley")
  /\ loop' = [low |-> loop.low, high |-> loop.high, leq |-> loop.low, bot |-> loop.low - 1,
              heq |-> loop.high, top |-> loop.high + 1, pivot |-> mem'[Middle]]

NextBot == NotBelow(mem, loop.bot + 1, loop.pivot)
NextTop == NotAbove(mem, loop.top - 1, loop.pivot)

Bentley ==
  /\ pc = "bentley" /\ NextBot < NextTop
  /\ LET bot == NextBot
         top == NextTop
         m1 == Swap(mem, bot, top)
         low == At(m1, bot) = key[loop.pivot]
         m2 == IF low THEN Swap(m1, bot, loop.leq) ELSE m1
         high == At(m2, top) = key[loop.pivot]
     IN  /\ mem' = IF high THEN Swap(m2, top, loop.heq) ELSE m2
         /\ loop' = [loop EXCEPT !.bot = bot, !.top = top,
                                 !.leq = IF low THEN @ + 1 ELSE @,
                                 !.heq = IF high THEN @ - 1 ELSE @]
  /\ UNCHANGED <<call, pc, stack, merge>>

(* n elements from index i exchanged with n elements from index j. *)
SwapRange(m, i, j, n) ==
  [k \in DOMAIN m |-> CASE k \in i .. i + n - 1 -> m[k - i + j]
                        [] k \in j .. j + n - 1 -> m[k - j + i]
                        [] OTHER -> m[k]]

(* Elements equal to the pivot go from both ends to the middle. *)
LowerFrom(lnr) == IF loop.leq - loop.low < lnr THEN loop.low + lnr ELSE loop.leq
UpperFrom(hnr) == IF hnr < loop.high - loop.heq THEN loop.high + 1 - hnr ELSE loop.heq + 1

BentleyEnds ==
  /\ pc = "bentley" /\ NextBot >= NextTop
  /\ LET lnr == NextBot - loop.leq
         hnr == loop.heq - NextTop
         leq == LowerFrom(lnr)
         heq == UpperFrom(hnr)
         m1 == SwapRange(mem, loop.low, leq, NextBot - leq)
     IN  /\ mem' = SwapRange(m1, NextTop + 1, heq, loop.high + 1 - heq)
         /\ LET low == loop.low + lnr - 1
                high == loop.high - hnr + 1
            IN  Recurse(low, high, SmallerFirst(low, high))

-----------------------------------------------------------------------------

(* memcpy() of n elements, and several of them in turn. *)
Copy(to, from, n) == [to |-> to, from |-> from, n |-> n]

Copied(m, copy) ==
  [i \in DOMAIN m |-> IF i \in copy.to .. copy.to + copy.n - 1
                      THEN m[i - copy.to + copy.from]
                      ELSE m[i]]

AllCopied(m, copies) ==
  LET after[k \in 0 .. Len(copies)] ==
        IF k = 0 THEN m ELSE Copied(after[k - 1], copies[k])
  IN  after[Len(copies)]

(* Calls that the merge sort has left: to sort nr elements into result, or *)
(* to merge into it the results of two of them.                            *)
Sort(result, array, nr) == [do |-> "sort", result |-> result, array |-> array, nr |-> nr]

Merge(result, lower, upper) ==
  [do |-> "merge", result |-> result,
   part0 |-> lower.result, end0 |-> lower.result + lower.nr,
   part1 |-> upper.result, end1 |-> upper.result + upper.nr]

(* stroll_array_merge_sort(): the upper half is sorted into a buffer, the  *)
(* lower one at the end of the array, and both are merged into the array.  *)
MergeCall ==
  /\ Called("merge") /\ Nr > 1
  /\ LET anr == Nr \div 2
         upper == Sort(Aux, anr, Nr - anr)
         lower == Sort(Nr - anr, 0, anr)
     IN  /\ mem' = [i \in Array \cup Aux .. Aux + upper.nr - 1 |->
                      IF i \in Array THEN mem[i] ELSE None]
         /\ stack' = <<upper, lower, Merge(0, lower, upper)>>
  /\ pc' = "topdown"
  /\ UNCHANGED <<call, loop, merge>>

(* malloc() fails. *)
MergeFails ==
  /\ Called("merge") /\ Nr > 1
  /\ pc' = "failed"
  /\ UNCHANGED <<call, mem, loop, stack, merge>>

(* stroll_array_merge_topdwn_sort(): the upper half goes to its place, the *)
(* lower one to the end of the source.                                     *)
Doing(what) == pc = "topdown" /\ stack # <<>> /\ Head(stack).do = what

Half(t) == t.nr \div 2
UpperAtStart(t) == Sort(t.result, t.array + Half(t), t.nr - Half(t))

Upper(t) == Sort(t.result + Half(t), t.array + Half(t), t.nr - Half(t))

Lower(t) == Sort(t.array + t.nr - Half(t), t.array, Half(t))

SplitRun ==
  /\ Doing("sort") /\ Head(stack).nr > Threshold
  /\ LET t == Head(stack) IN
     stack' = <<Upper(t), Lower(t), Merge(t.result, Lower(t), Upper(t))>> \o Tail(stack)
  /\ UNCHANGED <<call, mem, pc, loop, merge>>

(* stroll_array_insert_oopsort(). *)
OopsortCall ==
  /\ Doing("sort") /\ Head(stack).nr <= Threshold
  /\ LET t == Head(stack) IN
     /\ mem' = Copied(mem, Copy(t.result, t.array, 1))
     /\ loop' = [result |-> t.result, array |-> t.array, nr |-> t.nr, i |-> 1]
  /\ pc' = "oopsort" /\ stack' = Tail(stack)
  /\ UNCHANGED <<call, merge>>

Oopsort ==
  /\ pc = "oopsort"
  /\ IF loop.i < loop.nr
     THEN /\ mem' = OutOfPlace(mem, loop.result, loop.result + loop.i, loop.array + loop.i)
          /\ loop' = [loop EXCEPT !.i = @ + 1] /\ UNCHANGED pc
     ELSE pc' = "topdown" /\ loop' = None /\ UNCHANGED mem
  /\ UNCHANGED <<call, stack, merge>>

(* stroll_array_merge_full_runs(), when the build has it: a run that is    *)
(* not above the other one is copied as a whole, and so is the other.      *)
InTurn(result, from0, nr0, from1, nr1) ==
  << Copy(result, from0, nr0), Copy(result + nr0, from1, nr1) >>

FullRuns(t) ==
  LET nr0 == t.end0 - t.part0
      nr1 == t.end1 - t.part1
  IN  CASE ~ call.full -> <<>>
        [] call.full /\ At(mem, t.end0 - 1) <= At(mem, t.part1) ->
             InTurn(t.result, t.part0, nr0, t.part1, nr1)
        [] call.full /\ At(mem, t.end0 - 1) > At(mem, t.part1)
                     /\ At(mem, t.end1 - 1) <= At(mem, t.part0) ->
             InTurn(t.result, t.part1, nr1, t.part0, nr0)
        [] OTHER -> <<>>

(* stroll_array_merge_parts(). *)
MergeParts ==
  /\ Doing("merge")
  /\ LET copies == FullRuns(Head(stack)) IN
     IF copies = <<>>
     THEN pc' = "merge" /\ merge' = Head(stack) /\ UNCHANGED mem
     ELSE mem' = AllCopied(mem, copies) /\ UNCHANGED <<pc, merge>>
  /\ stack' = Tail(stack)
  /\ UNCHANGED <<call, loop>>

(* What an iteration of stroll_array_merge_part_runs() takes from each of  *)
(* the parts: one element, or, by blocks, all that come next from part 0,  *)
(* then from part 1, which the first copy does not reach.                  *)
ElementTaken ==
  LET first == At(mem, merge.part0) <= At(mem, merge.part1) IN
  [part0 |-> IF first THEN merge.part0 + 1 ELSE merge.part0,
   part1 |-> IF first THEN merge.part1 ELSE merge.part1 + 1]

BlockTaken ==
  LET end0 == CHOOSE p \in merge.part0 .. merge.end0 :
                /\ \A i \in merge.part0 .. p - 1 : At(mem, i) <= At(mem, merge.part1)
                /\ p < merge.end0 => At(mem, p) > At(mem, merge.part1)
      end1 == CHOOSE p \in merge.part1 .. merge.end1 :
                /\ \A i \in merge.part1 .. p - 1 : At(mem, end0) > At(mem, i)
                /\ p < merge.end1 => At(mem, end0) <= At(mem, p)
  IN  [part0 |-> end0, part1 |-> IF end0 = merge.end0 THEN merge.part1 ELSE end1]

Taken == IF call.block THEN BlockTaken ELSE ElementTaken

(* Once a part is exhausted, the rest of the other is copied too. *)
PartCopies(taken) ==
  LET nr0 == taken.part0 - merge.part0
      nr1 == taken.part1 - merge.part1
      result == merge.result + nr0 + nr1
  IN  InTurn(merge.result, merge.part0, nr0, merge.part1, nr1)
      \o CASE taken.part0 = merge.end0 ->
                << Copy(result, taken.part1, merge.end1 - taken.part1) >>
           [] taken.part1 = merge.end1 ->
                << Copy(result, taken.part0, merge.end0 - taken.part0) >>
           [] OTHER -> <<>>

MergeRuns ==
  /\ pc = "merge"
  /\ \E taken \in {Taken} :
         /\ mem' = AllCopied(mem, PartCopies(taken))
         /\ IF taken.part0 = merge.end0 \/ taken.part1 = merge.end1
            THEN pc' = "topdown" /\ merge' = None
            ELSE /\ merge' = [merge EXCEPT !.part0 = taken.part0, !.part1 = taken.part1,
                     !.result = @ + (taken.part0 - merge.part0) + (taken.part1 - merge.part1)]
                 /\ UNCHANGED pc
  /\ UNCHANGED <<call, loop, stack>>

(* The buffer is freed. *)
MergeDone ==
  /\ pc = "topdown" /\ stack = <<>>
  /\ mem' = [i \in Array |-> mem[i]]
  /\ Return

Next ==
  \/ SortOne
  \/ BisectCall \/ Bisect
  \/ BubbleCall \/ Bubble \/ SelectCall \/ Select \/ InsertCall \/ Insert
  \/ QuickCall \/ QuickReturn \/ HoareCall \/ Hoare
  \/ DijkstraCall \/ Dijkstra \/ DijkstraEnds
  \/ BentleyCall \/ Bentley \/ BentleyEnds
  \/ MergeCall \/ MergeFails \/ SplitRun \/ OopsortCall \/ Oopsort
  \/ MergeParts \/ MergeRuns \/ MergeDone

Spec == Init /\ [][Next]_vars

-----------------------------------------------------------------------------

(* The sorts documented as stable (src/sphinx/api.rst:542); the merge sort *)
(* when the build does not look for full runs.                             *)
Stable == call.sort \in {"bubble", "insert"} \/ (call.sort = "merge" /\ ~ call.full)

Before(e, f) == key[e] < key[f] \/ (key[e] = key[f] /\ (Stable => e < f))

SortedFrom(from, end) ==
  \A i \in from .. end - 2 : Before(mem[i], mem[i + 1])

(* Whatever the sort, the array ends up sorted, with every element that it *)
(* had, and equal ones in the order in which they came if the sort is      *)
(* stable.  When malloc() fails it is untouched.                           *)
SortedStably ==
  /\ pc = "done" =>
       /\ SortedFrom(0, Nr)
       /\ DOMAIN mem = Array /\ {mem[i] : i \in Array} = 1 .. Nr
  /\ pc = "failed" => \A i \in Array : mem[i] = i + 1

(* The bisection finds an element with the wanted key if there is one, and *)
(* only then.                                                              *)
SearchSound ==
  /\ pc = "found" => At(mem, loop.min) = call.wanted
  /\ pc = "absent" => \A i \in Array : At(mem, i) # call.wanted

(* The elements between two indices. *)
Held(from, end) == {mem[i] : i \in from .. end - 1}

(* What a merge sort has left of two runs is sorted, the first run having  *)
(* the elements that came before those of the second.                      *)
MergeInOrder(t) ==
  /\ SortedFrom(t.part0, t.end0) /\ SortedFrom(t.part1, t.end1)
  /\ \A e \in Held(t.part0, t.end0), f \in Held(t.part1, t.end1) : e < f

(* What a quick sort has left to do is a range of elements not below those *)
(* before it and not above those after it.                                 *)
RangeInOrder(r) ==
  \A i \in Array, j \in r.low .. r.high :
    /\ i < r.low => At(mem, i) <= At(mem, j)
    /\ i > r.high => At(mem, i) >= At(mem, j)

(* When its final insertion sort starts, each element is less than         *)
(* Threshold places away from where it goes (src/src/array.c:898).         *)
NearlySorted ==
  \A i, j \in Array : i + Threshold <= j => At(mem, i) <= At(mem, j)

(* What the recursive sorts rely on: see above. *)
RunsInOrder ==
  /\ Doing("merge") => MergeInOrder(Head(stack))
  /\ pc = "merge" => MergeInOrder(merge)
  /\ pc \in QuickSorts \cup {"quick"} =>
       RangeInOrder(loop) /\ \A d \in 1 .. Len(stack) : RangeInOrder(stack[d])
  /\ pc = "insert" /\ call.sort \in QuickSorts /\ loop.unsort = 1 => NearlySorted

(* The recursion of a quick sort goes to the smaller side, of half the     *)
(* elements at most, and stops at ranges of Threshold elements: its depth  *)
(* is logarithmic, whatever the pivots (src/src/array.c:954).              *)
StackShallow ==
  call.sort \in QuickSorts /\ stack # <<>> =>
    Two[Len(stack) - 1] * (Threshold + 1) <= Nr

(* What memcpy() is about to be given. *)
CopiesAhead ==
  CASE Doing("merge") -> FullRuns(Head(stack))
    [] pc = "merge" -> PartCopies(Taken)
    [] OTHER -> <<>>

(* Areas given to memcpy() overlap at most downwards, so that one that     *)
(* copies upwards does what the merge sort needs.                          *)
CopiesHarmless ==
  LET copies == CopiesAhead IN
  \A i \in DOMAIN copies :
    \/ copies[i].to <= copies[i].from
    \/ copies[i].to >= copies[i].from + copies[i].n

(* The merge sort is stable (src/sphinx/api.rst:610). *)
MergeStable ==
  pc = "done" /\ call.sort = "merge" =>
    \A i, j \in Array : i < j /\ At(mem, i) = At(mem, j) => mem[i] < mem[j]

=============================================================================
