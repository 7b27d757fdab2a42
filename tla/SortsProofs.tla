----------------------------- MODULE SortsProofs ----------------------------
(***************************************************************************)
(* Proofs about the sorts and the search of arrays, for every array, key   *)
(* and threshold: bisection finds what is there; the recursion of the      *)
(* quick sorts is as deep as the logarithm of the length at most, each     *)
(* partition staying within its range whatever it finds there; and the     *)
(* merge sort never copies an area onto one that overlaps it upwards.      *)
(***************************************************************************)
EXTENDS MCSorts, NatFacts

(* The length of the array. *)
ArrNr == Len(call.keys)

-----------------------------------------------------------------------------
(* What is known while a bisection is in progress: the wanted key is not   *)
(* before loop.min nor from loop.max on.                                   *)
Narrowing ==
  /\ loop = [min |-> loop.min, max |-> loop.max]
  /\ loop.min \in 0 .. ArrNr /\ loop.max \in 0 .. ArrNr /\ loop.min < loop.max
  /\ \A i \in 0 .. loop.min - 1 : call.keys[i + 1] < call.wanted
  /\ \A i \in loop.max .. ArrNr - 1 : call.keys[i + 1] > call.wanted

SearchInv ==
  /\ call \in ArrayCalls
  /\ pc = "call" => mem = [i \in A!Array |-> i + 1]
  /\ pc = "bisect" =>
       /\ call.sort = "bisect"
       /\ mem = [i \in A!Array |-> i + 1]
       /\ Narrowing
  /\ A!SearchSound

-----------------------------------------------------------------------------
(* The quick sorts: ranges, and what is known while one is partitioned.    *)
Rank(e) == call.keys[e]

WithinArray(r) ==
  /\ r.low \in Int /\ r.high \in Int
  /\ 0 <= r.low /\ r.high <= ArrNr - 1

Size(r) == r.high - r.low + 1

HoarePart ==
  /\ loop \in [low : Int, high : Int, bot : Int, top : Int, pivot : Int]
  /\ loop.bot \in loop.low .. loop.high /\ loop.top \in loop.low .. loop.high
  /\ loop.bot < loop.top
  /\ Rank(mem[loop.bot]) <= Rank(loop.pivot)
  /\ Rank(mem[loop.top]) >= Rank(loop.pivot)

DijkstraPart ==
  /\ loop \in [low : Int, high : Int, bot : Int, top : Int, elm : Int, pivot : Int]
  /\ loop.low <= loop.bot /\ loop.bot <= loop.elm
  /\ loop.elm <= loop.top + 1 /\ loop.top <= loop.high

BentleyPart ==
  /\ loop \in [low : Int, high : Int, leq : Int, bot : Int, heq : Int, top : Int, pivot : Int]
  /\ loop.low <= loop.leq /\ loop.leq <= loop.bot + 1
  /\ loop.low - 1 <= loop.bot /\ loop.bot < loop.top /\ loop.top <= loop.high + 1
  /\ loop.top - 1 <= loop.heq /\ loop.heq <= loop.high
  /\ \E w \in loop.bot + 1 .. loop.top : w <= loop.high /\ Rank(mem[w]) >= Rank(loop.pivot)
  /\ \E w \in loop.bot .. loop.top - 1 : w >= loop.low /\ Rank(mem[w]) <= Rank(loop.pivot)
  /\ \A i \in loop.leq .. loop.bot : Rank(mem[i]) <= Rank(loop.pivot)
  /\ \A i \in loop.top .. loop.heq : Rank(mem[i]) >= Rank(loop.pivot)

Partitioning ==
  pc # "quick" =>
    /\ loop.low + Threshold <= loop.high
    /\ loop.pivot \in 1 .. ArrNr
    /\ pc = "hoare" => HoarePart
    /\ pc = "dijkstra" => DijkstraPart
    /\ pc = "bentley" => BentleyPart

(* The range in hand is as small as its depth makes it, and so are those   *)
(* that wait.                                                              *)
Halved ==
  /\ Two[Len(sort)] * Size(loop) <= ArrNr
  /\ \A d \in 1 .. Len(sort) : Two[Len(sort) - d] * Size(sort[d]) <= ArrNr
  /\ sort # <<>> => Two[Len(sort) - 1] * (Threshold + 1) <= ArrNr

QuickOn ==
  /\ mem \in [A!Array -> 1 .. ArrNr]
  /\ sort \in Seq([low : Int, high : Int])
  /\ WithinArray(loop) /\ \A d \in 1 .. Len(sort) : WithinArray(sort[d])
  /\ Halved
  /\ Partitioning

QuickInv ==
  call.sort \in A!QuickSorts =>
    /\ pc \in {"call", "quick", call.sort, "insert", "done"}
    /\ pc \in {"call", "insert", "done"} => sort = <<>>
    /\ pc \in {"quick", call.sort} => QuickOn

-----------------------------------------------------------------------------
(* What is known of a call. *)
LEMMA CallFacts ==
  ASSUME call \in ArrayCalls
  PROVE  /\ call.keys \in Seq(Int) /\ ArrNr \in Nat \ {0}
         /\ \A i \in 1 .. ArrNr : call.keys[i] \in Int
         /\ A!Nr = ArrNr /\ A!Array = 0 .. ArrNr - 1
         /\ \A m, i : A!At(m, i) = Rank(m[i])
         /\ \A p : A!key[p] = Rank(p)
         /\ Threshold \in Nat /\ Threshold >= 2
  BY ArraysAssumption DEF A!ArraySortAssumption, ArrNr, A!Nr, A!key, A!Array, A!At, Rank

(* The calls that sort never search. *)
Sorting == {"hoare", "dijkstra", "bentley", "bubble", "select", "insert", "quick",
            "topdown", "oopsort", "merge", "failed", "done"}

LEMMA OtherSteps ==
  ASSUME A!Next, ~ A!BisectCall, ~ A!Bisect
  PROVE  call' = call /\ pc' \in Sorting
  <1> USE DEF A!Return, A!Enter, Sorting
  <1>1. CASE A!SortOne
    BY <1>1 DEF A!SortOne
  <1>2. CASE A!BubbleCall \/ A!Bubble
    BY <1>2 DEF A!BubbleCall, A!Bubble
  <1>3. CASE A!SelectCall \/ A!Select
    BY <1>3 DEF A!SelectCall, A!Select
  <1>4. CASE A!InsertCall \/ A!Insert
    BY <1>4 DEF A!InsertCall, A!Insert
  <1>5. CASE A!QuickCall \/ A!QuickReturn
    BY <1>5 DEF A!QuickCall, A!QuickReturn
  <1>6. CASE A!HoareCall \/ A!Hoare
    BY <1>6 DEF A!HoareCall, A!Hoare, A!Partition, A!Recurse
  <1>7. CASE A!DijkstraCall \/ A!Dijkstra \/ A!DijkstraEnds
    BY <1>7 DEF A!DijkstraCall, A!Dijkstra, A!DijkstraEnds, A!Partition, A!Recurse
  <1>8. CASE A!BentleyCall \/ A!Bentley \/ A!BentleyEnds
    BY <1>8 DEF A!BentleyCall, A!Bentley, A!BentleyEnds, A!Partition, A!Recurse
  <1>9. CASE A!MergeCall \/ A!MergeFails \/ A!SplitRun
    BY <1>9 DEF A!MergeCall, A!MergeFails, A!SplitRun, A!Doing
  <1>10. CASE A!OopsortCall \/ A!Oopsort
    BY <1>10 DEF A!OopsortCall, A!Oopsort, A!Doing
  <1>11. CASE A!MergeParts \/ A!MergeRuns \/ A!MergeDone
    BY <1>11 DEF A!MergeParts, A!MergeRuns, A!MergeDone, A!Doing
  <1> QED BY <1>1, <1>2, <1>3, <1>4, <1>5, <1>6, <1>7, <1>8, <1>9, <1>10, <1>11 DEF A!Next

(* The first and the next steps of a bisection. *)
LEMMA BisectCallStep ==
  ASSUME SearchInv, A!BisectCall
  PROVE  SearchInv'
  <1>1. /\ pc = "call" /\ call.sort = "bisect" /\ pc' = "bisect"
        /\ loop' = [min |-> 0, max |-> A!Nr] /\ call' = call /\ mem' = mem
    BY DEF A!BisectCall, A!Called
  <1>2. /\ ArrNr \in Nat \ {0} /\ A!Nr = ArrNr /\ call \in ArrayCalls
    BY CallFacts DEF SearchInv
  <1>3. loop'.min = 0 /\ loop'.max = ArrNr
    BY <1>1, <1>2
  <1>4. ArrNr' = ArrNr /\ A!Array' = A!Array
    BY <1>1 DEF ArrNr, A!Array, A!Nr, A!key
  <1>5. Narrowing'
    BY <1>1, <1>2, <1>3, <1>4 DEF Narrowing
  <1>6. A!SearchSound'
    BY <1>1 DEF A!SearchSound
  <1> QED BY <1>1, <1>2, <1>4, <1>5, <1>6 DEF SearchInv

LEMMA BisectStep ==
  ASSUME SearchInv, A!Bisect
  PROVE  SearchInv'
  <1> DEFINE mid == (loop.min + loop.max) \div 2
             n == ArrNr
             k(i) == call.keys[i + 1]
             w == call.wanted
  <1>1. /\ pc = "bisect" /\ call' = call /\ mem' = mem
        /\ IF w = A!At(mem, mid)
           THEN pc' = "found" /\ loop' = [loop EXCEPT !.min = mid]
           ELSE /\ loop' = A!Narrowed(mid)
                /\ pc' = IF loop'.min < loop'.max THEN pc ELSE "absent"
    BY DEF A!Bisect
  <1>2. /\ call \in ArrayCalls /\ call.sort = "bisect" /\ mem = [i \in A!Array |-> i + 1]
        /\ Narrowing
    BY <1>1 DEF SearchInv
  <1>3. /\ n \in Nat \ {0} /\ A!Nr = n /\ A!Array = 0 .. n - 1 /\ call.keys \in Seq(Int)
        /\ \A i \in 1 .. n : call.keys[i] \in Int
        /\ \A m, i : A!At(m, i) = call.keys[m[i]]
    BY <1>2, CallFacts DEF Rank
  <1>4. w \in Int /\ \A i, j \in 1 .. n : i < j => call.keys[i] <= call.keys[j]
    BY <1>2, ArraysAssumption DEF A!ArraySortAssumption, ArrNr
  <1>5. /\ \A i \in 0 .. n - 1 : k(i) \in Int /\ A!At(mem, i) = k(i) /\ i + 1 \in 1 .. n
        /\ \A i, j \in 0 .. n - 1 : i < j => k(i) <= k(j)
    <2>1. ASSUME NEW i \in 0 .. n - 1
          PROVE  /\ k(i) \in Int /\ A!At(mem, i) = k(i) /\ i + 1 \in 1 .. n
      <3>1. i + 1 \in 1 .. n
        BY <1>3
      <3>2. mem[i] = i + 1
        BY <1>2, <1>3
      <3>3. A!At(mem, i) = call.keys[mem[i]]
        BY <1>3
      <3> QED BY <1>3, <3>1, <3>2, <3>3
    <2>2. ASSUME NEW i \in 0 .. n - 1, NEW j \in 0 .. n - 1, i < j
          PROVE  k(i) <= k(j)
      <3>1. i + 1 \in 1 .. n /\ j + 1 \in 1 .. n /\ i + 1 < j + 1
        BY <1>3, <2>2
      <3> QED BY <1>4, <3>1
    <2> QED BY <2>1, <2>2
  <1>6. /\ loop.min \in 0 .. n /\ loop.max \in 0 .. n /\ loop.min < loop.max
        /\ \A i \in 0 .. loop.min - 1 : k(i) < w
        /\ \A i \in loop.max .. n - 1 : k(i) > w
    BY <1>2 DEF Narrowing
  <1> HIDE DEF k, w, n
  <1>7. mid \in 0 .. n - 1 /\ loop.min <= mid /\ mid < loop.max
    BY <1>3, <1>6
  <1> HIDE DEF mid
  <1>8. A!At(mem, mid) = k(mid) /\ k(mid) \in Int
    BY <1>5, <1>7
  <1>9. ArrNr' = ArrNr /\ A!Array' = A!Array
    BY <1>1 DEF ArrNr, A!Array, A!Nr, A!key
  <1>10. ASSUME w = k(mid) PROVE SearchInv'
    <2>1. /\ pc' = "found" /\ loop' = [loop EXCEPT !.min = mid]
      BY <1>1, <1>8, <1>10
    <2>2. loop'.min = mid
      <3>1. loop = [min |-> loop.min, max |-> loop.max]
        BY <1>2 DEF Narrowing
      <3> DEFINE a == loop.min
                 b == loop.max
      <3> HIDE DEF a, b
      <3>2. loop = [min |-> a, max |-> b]
        BY <3>1 DEF a, b
      <3> QED BY <2>1, <3>2
    <2>3. A!SearchSound'
      BY <1>1, <1>8, <1>10, <2>1, <2>2 DEF A!SearchSound, A!At, A!key, w
    <2> QED BY <1>1, <1>2, <1>9, <2>1, <2>3 DEF SearchInv
  <1>11. ASSUME w # k(mid) PROVE SearchInv'
    <2> DEFINE min == IF w > k(mid) THEN mid + 1 ELSE loop.min
               max == IF w < k(mid) THEN mid ELSE loop.max
    <2>1. /\ loop' = [min |-> min, max |-> max]
          /\ pc' = IF loop'.min < loop'.max THEN pc ELSE "absent"
      BY <1>1, <1>8, <1>11 DEF A!Narrowed, w
    <2>2. /\ min \in 0 .. n /\ max \in 0 .. n
          /\ \A i \in 0 .. min - 1 : k(i) < w
          /\ \A i \in max .. n - 1 : k(i) > w
      <3>1. CASE w > k(mid)
        <4>1. \A i \in 0 .. mid : k(i) < w
          <5> TAKE i \in 0 .. mid
          <5>1. i \in 0 .. n - 1 /\ k(i) \in Int /\ (i < mid => k(i) <= k(mid))
            BY <1>3, <1>5, <1>7
          <5>2. i = mid \/ i < mid
            BY <1>7
          <5> QED BY <1>4, <1>8, <3>1, <5>1, <5>2
        <4> QED BY <1>3, <1>4, <1>6, <1>7, <1>8, <3>1, <4>1
      <3>2. CASE w < k(mid)
        <4>1. \A i \in mid .. n - 1 : k(i) > w
          <5> TAKE i \in mid .. n - 1
          <5>1. i \in 0 .. n - 1 /\ k(i) \in Int /\ (mid < i => k(mid) <= k(i))
            BY <1>3, <1>5, <1>7
          <5>2. i = mid \/ mid < i
            BY <1>7
          <5> QED BY <1>4, <1>8, <3>2, <5>1, <5>2
        <4> QED BY <1>3, <1>4, <1>6, <1>7, <1>8, <3>2, <4>1
      <3> QED BY <1>4, <1>8, <1>11, <3>1, <3>2
    <2> HIDE DEF min, max
    <2>3. /\ loop'.min = min /\ loop'.max = max
          /\ pc' = IF min < max THEN "bisect" ELSE "absent"
      BY <1>1, <2>1
    <2>4. ASSUME min < max PROVE Narrowing'
      BY <1>1, <1>9, <2>1, <2>2, <2>3, <2>4 DEF Narrowing, k, w, n
    <2>5. ASSUME ~ (min < max) PROVE \A i \in 0 .. n - 1 : k(i) # w
      BY <1>3, <1>4, <1>5, <2>2, <2>5
    <2>6. A!SearchSound'
      <3>1. CASE min < max
        BY <2>3, <3>1 DEF A!SearchSound
      <3>2. CASE ~ (min < max)
        <4>1. \A i \in A!Array : A!At(mem, i) # w
          BY <1>3, <1>5, <2>5, <3>2
        <4>2. /\ pc' = "absent" /\ call'.wanted = w
              /\ \A i : A!At(mem, i)' = A!At(mem, i)
          BY <1>1, <2>3, <3>2 DEF A!At, A!key, w
        <4> QED BY <1>9, <4>1, <4>2 DEF A!SearchSound
      <3> QED BY <3>1, <3>2
    <2> QED BY <1>1, <1>2, <1>9, <2>3, <2>4, <2>6 DEF SearchInv
  <1> QED BY <1>10, <1>11

LEMMA SearchStep ==
  ASSUME SearchInv, A!Next
  PROVE  SearchInv'
  <1>1. CASE ~ A!BisectCall /\ ~ A!Bisect
    <2>1. call' = call /\ pc' \notin {"call", "bisect", "found", "absent"}
      BY <1>1, OtherSteps DEF Sorting
    <2> QED BY <2>1 DEF SearchInv, A!SearchSound
  <1> QED BY <1>1, BisectCallStep, BisectStep

-----------------------------------------------------------------------------
(* What the quick sorts do to the array. *)
Elements == 1 .. ArrNr

LEMMA SwapFacts ==
  ASSUME call \in ArrayCalls, NEW m \in [A!Array -> Elements],
         NEW i \in A!Array, NEW j \in A!Array
  PROVE  /\ A!Swap(m, i, j) \in [A!Array -> Elements]
         /\ A!Swap(m, i, j)[i] = m[j] /\ A!Swap(m, i, j)[j] = m[i]
         /\ \A x \in A!Array \ {i, j} : A!Swap(m, i, j)[x] = m[x]
  BY DEF A!Swap

LEMMA Ranked ==
  ASSUME call \in ArrayCalls, NEW m \in [A!Array -> Elements]
  PROVE  \A i \in A!Array : m[i] \in Elements /\ Rank(m[i]) \in Int /\ A!At(m, i) = Rank(m[i])
  BY CallFacts DEF Elements, Rank

(* Three elements are put in order. *)
LEMMA MedianFacts ==
  ASSUME call \in ArrayCalls, NEW m \in [A!Array -> Elements],
         WithinArray(loop), loop.low + Threshold <= loop.high
  PROVE  /\ A!Middle \in Int /\ loop.low < A!Middle /\ A!Middle < loop.high
         /\ A!MedianOfThree(m) \in [A!Array -> Elements]
         /\ Rank(A!MedianOfThree(m)[loop.low]) <= Rank(A!MedianOfThree(m)[A!Middle])
         /\ Rank(A!MedianOfThree(m)[A!Middle]) <= Rank(A!MedianOfThree(m)[loop.high])
  <1> DEFINE lo == loop.low
             hi == loop.high
             mi == A!Middle
  <1>1. /\ lo \in Int /\ hi \in Int /\ 0 <= lo /\ hi <= ArrNr - 1
        /\ Threshold \in Nat /\ Threshold >= 2 /\ lo + Threshold <= hi
        /\ ArrNr \in Nat /\ A!Array = 0 .. ArrNr - 1
    BY CallFacts DEF WithinArray
  <1>2. mi = lo + (hi - lo) \div 2
    BY DEF A!Middle
  <1> HIDE DEF lo, hi, mi
  <1>3. mi \in Int /\ lo < mi /\ mi < hi
    BY <1>1, <1>2
  <1>4. lo \in A!Array /\ mi \in A!Array /\ hi \in A!Array
    BY <1>1, <1>3
  <1> DEFINE m1 == IF A!At(m, lo) > A!At(m, mi) THEN A!Swap(m, lo, mi) ELSE m
             m2 == A!Swap(m1, mi, hi)
             m3 == A!Swap(m2, lo, mi)
             r == A!MedianOfThree(m)
  <1>5. r = CASE A!At(m1, mi) <= A!At(m1, hi) -> m1
              [] A!At(m2, lo) > A!At(m2, mi) -> m3
              [] OTHER -> m2
    BY DEF A!MedianOfThree, lo, mi, hi
  <1>6. m1 \in [A!Array -> Elements] /\ Rank(m1[lo]) <= Rank(m1[mi])
    <2>1. CASE A!At(m, lo) > A!At(m, mi)
      <3>1. m1 = A!Swap(m, lo, mi)
        BY <2>1
      <3> HIDE DEF m1
      <3> QED BY <1>4, <2>1, <3>1, SwapFacts, Ranked
    <2>2. CASE ~ (A!At(m, lo) > A!At(m, mi))
      <3>1. m1 = m
        BY <2>2
      <3> HIDE DEF m1
      <3> QED BY <1>4, <2>2, <3>1, Ranked
    <2> QED BY <2>1, <2>2
  <1> HIDE DEF m1
  <1>7. /\ m2 \in [A!Array -> Elements]
        /\ m2[lo] = m1[lo] /\ m2[mi] = m1[hi] /\ m2[hi] = m1[mi]
    BY <1>3, <1>4, <1>6, SwapFacts
  <1> HIDE DEF m2
  <1>8. /\ m3 \in [A!Array -> Elements]
        /\ m3[lo] = m2[mi] /\ m3[mi] = m2[lo] /\ m3[hi] = m2[hi]
    BY <1>3, <1>4, <1>7, SwapFacts
  <1> HIDE DEF m3, r
  <1>9. /\ \A i \in {lo, mi, hi} : Rank(m1[i]) \in Int /\ A!At(m1, i) = Rank(m1[i])
        /\ \A i \in {lo, mi, hi} : Rank(m2[i]) \in Int /\ A!At(m2, i) = Rank(m2[i])
    BY <1>4, <1>6, <1>7, Ranked
  <1>10. /\ r \in [A!Array -> Elements]
         /\ Rank(r[lo]) <= Rank(r[mi]) /\ Rank(r[mi]) <= Rank(r[hi])
    <2>1. CASE A!At(m1, mi) <= A!At(m1, hi)
      <3>0. ~ (A!At(m2, lo) > A!At(m2, mi))
        BY <1>6, <1>7, <1>9, <2>1
      <3>1. r = m1
        BY <1>5, <2>1, <3>0
      <3> QED BY <1>6, <1>9, <2>1, <3>1
    <2>2. CASE ~ (A!At(m1, mi) <= A!At(m1, hi)) /\ A!At(m2, lo) > A!At(m2, mi)
      <3>1. r = m3
        BY <1>5, <2>2
      <3> QED BY <1>6, <1>7, <1>8, <1>9, <2>2, <3>1
    <2>3. CASE ~ (A!At(m1, mi) <= A!At(m1, hi)) /\ ~ (A!At(m2, lo) > A!At(m2, mi))
      <3>1. r = m2
        BY <1>5, <2>3
      <3> QED BY <1>6, <1>7, <1>9, <2>3, <3>1
    <2> QED BY <2>1, <2>2, <2>3
  <1> QED BY <1>3, <1>10 DEF r, lo, mi, hi

(* Looking upwards stops, at the latest where there is an element that is  *)
(* not below the pivot.                                                    *)
LEMMA NotBelowFacts ==
  ASSUME call \in ArrayCalls, NEW m \in [A!Array -> Elements],
         NEW from \in Nat, NEW pivot \in Elements,
         NEW w \in from .. ArrNr - 1, Rank(m[w]) >= Rank(pivot)
  PROVE  /\ A!NotBelow(m, from, pivot) \in from .. w
         /\ Rank(m[A!NotBelow(m, from, pivot)]) >= Rank(pivot)
         /\ \A j \in from .. A!NotBelow(m, from, pivot) - 1 : Rank(m[j]) < Rank(pivot)
  <1> DEFINE n == ArrNr
             T == {i \in from .. n - 1 : Rank(m[i]) >= Rank(pivot)}
             P(i) == /\ Rank(m[i]) >= Rank(pivot)
                     /\ \A j \in from .. i - 1 : Rank(m[j]) < Rank(pivot)
             c == A!NotBelow(m, from, pivot)
  <1>1. /\ n \in Nat /\ A!Array = 0 .. n - 1 /\ A!Nr = n
        /\ Rank(pivot) \in Int /\ \A p : A!key[p] = Rank(p)
    BY CallFacts DEF Elements, Rank
  <1>2. \A i \in from .. n - 1 : i \in A!Array /\ Rank(m[i]) \in Int /\ A!At(m, i) = Rank(m[i])
    BY <1>1, Ranked
  <1>3. PICK x \in T : \A y \in T : x <= y
    <2>1. w \in T /\ T \subseteq Nat
      BY <1>1
    <2> HIDE DEF T
    <2> QED BY <2>1, LeastElement
  <1>4. x \in from .. n - 1 /\ P(x)
    <2>1. ASSUME NEW j \in from .. x - 1 PROVE Rank(m[j]) < Rank(pivot)
      <3>1. j \in from .. n - 1 /\ j \notin T
        BY <1>1, <1>3
      <3> QED BY <1>1, <1>2, <3>1
    <2> QED BY <1>3, <2>1
  <1>5. c = CHOOSE i \in from .. n - 1 : P(i)
    <2>1. \A i \in from .. n - 1 :
            (A!At(m, i) >= A!key[pivot] /\ \A j \in from .. i - 1 : A!At(m, j) < A!key[pivot])
              <=> P(i)
      <3> TAKE i \in from .. n - 1
      <3>1. \A j \in from .. i - 1 : j \in from .. n - 1
        BY <1>1
      <3> QED BY <1>1, <1>2, <3>1
    <2>2. c = CHOOSE i \in from .. n - 1 :
                A!At(m, i) >= A!key[pivot] /\ \A j \in from .. i - 1 : A!At(m, j) < A!key[pivot]
      BY <1>1 DEF A!NotBelow
    <2> HIDE DEF P, c
    <2> QED BY <2>1, <2>2, Zenon
  <1> HIDE DEF P, c
  <1>6. c \in from .. n - 1 /\ P(c)
    BY <1>4, <1>5
  <1>7. c <= w
    <2>1. ASSUME w < c PROVE FALSE
      <3>1. w \in from .. c - 1
        BY <1>6, <2>1
      <3>2. Rank(m[w]) < Rank(pivot)
        BY <1>6, <3>1 DEF P
      <3> QED BY <1>1, <1>2, <3>2
    <2> QED BY <1>6, <2>1
  <1> QED BY <1>6, <1>7 DEF P, c

LEMMA NotAboveFacts ==
  ASSUME call \in ArrayCalls, NEW m \in [A!Array -> Elements],
         NEW from \in 0 .. ArrNr - 1, NEW pivot \in Elements,
         NEW w \in 0 .. from, Rank(m[w]) <= Rank(pivot)
  PROVE  /\ A!NotAbove(m, from, pivot) \in w .. from
         /\ Rank(m[A!NotAbove(m, from, pivot)]) <= Rank(pivot)
         /\ \A j \in A!NotAbove(m, from, pivot) + 1 .. from : Rank(m[j]) > Rank(pivot)
  <1> DEFINE n == ArrNr
             T == {d \in 0 .. from : Rank(m[from - d]) <= Rank(pivot)}
             P(i) == /\ Rank(m[i]) <= Rank(pivot)
                     /\ \A j \in i + 1 .. from : Rank(m[j]) > Rank(pivot)
             c == A!NotAbove(m, from, pivot)
  <1>1. /\ n \in Nat /\ A!Array = 0 .. n - 1 /\ from \in Nat /\ from <= n - 1
        /\ Rank(pivot) \in Int /\ \A p : A!key[p] = Rank(p)
    BY CallFacts DEF Elements, Rank
  <1>2. \A i \in 0 .. from : i \in A!Array /\ Rank(m[i]) \in Int /\ A!At(m, i) = Rank(m[i])
    BY <1>1, Ranked
  <1>3. PICK d \in T : \A y \in T : d <= y
    <2>1. from - w \in 0 .. from /\ from - (from - w) = w
      BY <1>1
    <2>2. from - w \in T /\ T \subseteq Nat
      BY <1>1, <2>1
    <2> HIDE DEF T
    <2> QED BY <2>2, LeastElement
  <1> DEFINE x == from - d
  <1>4. x \in 0 .. from /\ P(x)
    <2>1. ASSUME NEW j \in x + 1 .. from PROVE Rank(m[j]) > Rank(pivot)
      <3>1. j \in 0 .. from /\ from - j \in 0 .. from /\ from - j < d /\ from - (from - j) = j
        BY <1>1, <1>3
      <3>2. from - j \notin T
        BY <1>1, <1>3, <3>1
      <3> QED BY <1>1, <1>2, <3>1, <3>2
    <2> QED BY <1>1, <1>3, <2>1
  <1>5. c = CHOOSE i \in 0 .. from : P(i)
    <2>1. \A i \in 0 .. from :
            (A!At(m, i) <= A!key[pivot] /\ \A j \in i + 1 .. from : A!At(m, j) > A!key[pivot])
              <=> P(i)
      <3> TAKE i \in 0 .. from
      <3>1. \A j \in i + 1 .. from : j \in 0 .. from
        BY <1>1
      <3> QED BY <1>1, <1>2, <3>1
    <2>2. c = CHOOSE i \in 0 .. from :
                A!At(m, i) <= A!key[pivot] /\ \A j \in i + 1 .. from : A!At(m, j) > A!key[pivot]
      BY <1>1 DEF A!NotAbove
    <2> HIDE DEF P, c
    <2> QED BY <2>1, <2>2, Zenon
  <1> HIDE DEF P, c, x
  <1>6. c \in 0 .. from /\ P(c)
    BY <1>4, <1>5
  <1>7. w <= c
    <2>1. ASSUME c < w PROVE FALSE
      <3>1. w \in c + 1 .. from
        BY <1>6, <2>1
      <3>2. Rank(m[w]) > Rank(pivot)
        BY <1>6, <3>1 DEF P
      <3> QED BY <1>1, <1>2, <3>2
    <2> QED BY <1>6, <2>1
  <1> QED BY <1>6, <1>7 DEF P, c

-----------------------------------------------------------------------------
(* The depth of the recursion. *)
Range2 == [low : Int, high : Int]

LEMMA Scaled ==
  ASSUME NEW p \in Nat, NEW a \in Int, NEW b \in Int, a <= b
  PROVE  p * a <= p * b
  BY Z3

(* A partition leaves two sides, apart, within its range. *)
LEMMA RecurseStep ==
  ASSUME QuickOn, call \in ArrayCalls, loop.low + Threshold <= loop.high,
         NEW low \in Int, NEW high \in Int, low < high,
         loop.low - 1 <= low, low <= loop.high, loop.low <= high, high <= loop.high + 1,
         NEW first \in BOOLEAN, A!Recurse(low, high, first),
         first => low - loop.low <= loop.high - high,
         ~ first => loop.high - high <= low - loop.low,
         mem' \in [A!Array -> Elements]
  PROVE  QuickOn' /\ pc' = "quick" /\ call' = call
  <1> DEFINE below == [low |-> loop.low, high |-> low]
             above == [low |-> high, high |-> loop.high]
             rest == IF first THEN above ELSE below
             k == Len(sort)
             n == ArrNr
  <1>1. /\ pc' = "quick" /\ call' = call
        /\ loop' = IF first THEN below ELSE above
        /\ sort' = <<rest>> \o sort
    BY DEF A!Recurse
  <1>2. /\ loop.low \in Int /\ loop.high \in Int /\ 0 <= loop.low /\ loop.high <= n - 1
        /\ n \in Nat \ {0} /\ Threshold \in Nat
    BY CallFacts DEF QuickOn, WithinArray
  <1>3. /\ sort \in Seq(Range2) /\ k \in Nat
        /\ \A d \in 1 .. k : WithinArray(sort[d])
    BY DEF QuickOn, Range2
  <1>4. /\ below \in Range2 /\ above \in Range2
        /\ below.low = loop.low /\ below.high = low
        /\ above.low = high /\ above.high = loop.high
    BY <1>2 DEF Range2
  <1>5. WithinArray(below) /\ WithinArray(above)
    BY <1>2, <1>4 DEF WithinArray
  <1>6. /\ Size(below) \in Int /\ Size(above) \in Int /\ Size(loop) \in Int
        /\ Size(below) <= Size(loop) /\ Size(above) <= Size(loop)
        /\ Size(loop) >= Threshold + 1
        /\ 2 * Size(IF first THEN below ELSE above) <= Size(loop)
    <2>1. Size(below) = low - loop.low + 1 /\ Size(above) = loop.high - high + 1
      BY <1>4 DEF Size
    <2>2. Size(loop) = loop.high - loop.low + 1
      BY DEF Size
    <2>3. Size(below) + Size(above) <= Size(loop)
      BY <1>2, <2>1, <2>2
    <2>4. CASE first
      <3>1. Size(below) <= Size(above)
        BY <1>2, <2>1, <2>4
      <3> HIDE DEF below, above
      <3> QED BY <1>2, <2>1, <2>2, <2>3, <2>4, <3>1
    <2>5. CASE ~ first
      <3>1. Size(above) <= Size(below)
        BY <1>2, <2>1, <2>5
      <3> HIDE DEF below, above
      <3> QED BY <1>2, <2>1, <2>2, <2>3, <2>5, <3>1
    <2> QED BY <2>4, <2>5
  <1> HIDE DEF below, above
  <1>7. /\ rest \in Range2 /\ WithinArray(rest) /\ Size(rest) <= Size(loop) /\ Size(rest) \in Int
        /\ WithinArray(loop)' /\ Size(loop)' \in Int /\ 2 * Size(loop)' <= Size(loop)
    <2>1. ArrNr' = ArrNr
      BY <1>1 DEF ArrNr
    <2>2. CASE first
      BY <1>1, <1>4, <1>5, <1>6, <2>1, <2>2 DEF WithinArray, Size
    <2>3. CASE ~ first
      BY <1>1, <1>4, <1>5, <1>6, <2>1, <2>3 DEF WithinArray, Size
    <2> QED BY <2>2, <2>3
  <1> HIDE DEF rest
  <1>8. /\ sort' \in Seq(Range2) /\ Len(sort') = k + 1 /\ sort'[1] = rest
        /\ \A i \in 2 .. k + 1 : sort'[i] = sort[i - 1]
    BY <1>1, <1>3, <1>7
  <1>9. /\ Two[k] \in Nat \ {0} /\ Two[k + 1] = 2 * Two[k]
        /\ \A d \in 0 .. k : Two[d] \in Nat \ {0}
    <2>1. k \in Nat
      BY <1>3
    <2> HIDE DEF k
    <2> QED BY <2>1, TwoFacts
  <1>10. /\ Two[k] * Size(loop) <= n
         /\ \A d \in 1 .. k : Two[k - d] * Size(sort[d]) <= n
    BY DEF QuickOn, Halved
  <1> HIDE DEF k, n
  <1>11. Two[k + 1] * Size(loop)' <= n
    <2>1. Two[k] * (2 * Size(loop)') <= Two[k] * Size(loop)
      BY <1>6, <1>7, <1>9, Scaled
    <2>2. (2 * Two[k]) * Size(loop)' = Two[k] * (2 * Size(loop)')
      BY <1>7, <1>9, Z3
    <2>3. Two[k] * Size(loop) \in Int /\ Two[k] * (2 * Size(loop)') \in Int
      BY <1>6, <1>7, <1>9
    <2> QED BY <1>2, <1>9, <1>10, <2>1, <2>2, <2>3
  <1>12. ASSUME NEW d \in 1 .. k + 1
         PROVE  Two[k + 1 - d] * Size(sort'[d]) <= n /\ WithinArray(sort'[d])
    <2>1. CASE d = 1
      <3>1. k + 1 - d = k
        BY <1>3, <2>1 DEF k
      <3>2. Two[k] * Size(rest) <= Two[k] * Size(loop)
        BY <1>6, <1>7, <1>9, Scaled
      <3>3. Two[k] * Size(rest) \in Int /\ Two[k] * Size(loop) \in Int
        BY <1>6, <1>7, <1>9
      <3> QED BY <1>2, <1>7, <1>8, <1>10, <2>1, <3>1, <3>2, <3>3
    <2>2. CASE d # 1
      <3>1. k \in Nat
        BY <1>3 DEF k
      <3>2. d - 1 \in 1 .. k /\ k + 1 - d = k - (d - 1) /\ d \in 2 .. k + 1
        BY <2>2, <3>1
      <3>3. sort'[d] = sort[d - 1]
        BY <1>8, <3>2
      <3>4. Two[k - (d - 1)] * Size(sort[d - 1]) <= n /\ WithinArray(sort[d - 1])
        BY <1>3, <1>10, <3>2 DEF k
      <3> QED BY <3>2, <3>3, <3>4
    <2> QED BY <2>1, <2>2
  <1>13. Two[k] * (Threshold + 1) <= n
    <2>1. Two[k] * (Threshold + 1) <= Two[k] * Size(loop)
      BY <1>2, <1>6, <1>9, Scaled
    <2>2. Two[k] * (Threshold + 1) \in Int /\ Two[k] * Size(loop) \in Int
      BY <1>2, <1>6, <1>9
    <2> QED BY <1>2, <1>10, <2>1, <2>2
  <1>14. /\ ArrNr' = n /\ A!Array' = A!Array /\ Len(sort') = k + 1 /\ k + 1 - 1 = k /\ k \in Nat
    BY <1>1, <1>3, <1>8 DEF ArrNr, A!Array, A!Nr, A!key, k, n
  <1>15. \A d \in 1 .. Len(sort') : WithinArray(sort[d])'
    BY <1>12, <1>14 DEF WithinArray, n
  <1>16. Halved'
    BY <1>11, <1>12, <1>13, <1>14 DEF Halved, Size
  <1>17. Partitioning'
    BY <1>1 DEF Partitioning
  <1>18. sort' \in Seq([low : Int, high : Int]) /\ mem' \in [A!Array' -> 1 .. ArrNr']
    BY <1>8, <1>14 DEF Range2, Elements, n
  <1> QED BY <1>1, <1>7, <1>15, <1>16, <1>17, <1>18 DEF QuickOn

(* A range is over: the last one that was left comes next. *)
LEMMA QuickReturnStep ==
  ASSUME QuickOn, call \in ArrayCalls, A!QuickReturn
  PROVE  /\ call' = call
         /\ IF sort = <<>> THEN pc' = "insert" /\ sort' = <<>> ELSE pc' = "quick" /\ QuickOn'
  <1> DEFINE k == Len(sort)
             n == ArrNr
  <1>1. CASE sort = <<>>
    BY <1>1 DEF A!QuickReturn
  <1>2. CASE sort # <<>>
    <2>1. /\ pc' = "quick" /\ loop' = Head(sort) /\ sort' = Tail(sort)
          /\ call' = call /\ mem' = mem
      BY <1>2 DEF A!QuickReturn
    <2>2. /\ sort \in Seq(Range2) /\ k \in Nat \ {0} /\ Threshold \in Nat /\ n \in Nat
      BY <1>2, CallFacts DEF QuickOn, Range2
    <2>3. /\ loop' = sort[1] /\ sort' \in Seq(Range2) /\ Len(sort') = k - 1
          /\ \A d \in 1 .. k - 1 : sort'[d] = sort[d + 1]
      BY <1>2, <2>1, <2>2
    <2>4. /\ \A d \in 1 .. k : Two[k - d] * Size(sort[d]) <= n /\ WithinArray(sort[d])
          /\ Two[k - 1] * (Threshold + 1) <= n
      BY <1>2 DEF QuickOn, Halved
    <2> HIDE DEF k, n
    <2>5. /\ WithinArray(sort[1]) /\ Two[k - 1] * Size(sort[1]) <= n
      BY <2>2, <2>4
    <2>6. ASSUME NEW d \in 1 .. k - 1
          PROVE  Two[k - 1 - d] * Size(sort'[d]) <= n /\ WithinArray(sort'[d])
      <3>1. d + 1 \in 1 .. k /\ k - (d + 1) = k - 1 - d
        BY <2>2
      <3> QED BY <2>3, <2>4, <3>1
    <2>7. sort' # <<>> => Two[k - 1 - 1] * (Threshold + 1) <= n
      <3> SUFFICES ASSUME sort' # <<>> PROVE Two[k - 1 - 1] * (Threshold + 1) <= n
        OBVIOUS
      <3>1. k - 1 - 1 \in Nat /\ k - 1 - 1 + 1 = k - 1
        BY <2>2, <2>3
      <3> DEFINE p == Two[k - 1 - 1]
      <3>2. p \in Nat \ {0} /\ Two[k - 1] = 2 * p
        BY <3>1, TwoFacts
      <3> HIDE DEF p
      <3>3. p * (Threshold + 1) \in Nat /\ (2 * p) * (Threshold + 1) = 2 * (p * (Threshold + 1))
        BY <2>2, <3>2, Z3
      <3>4. 2 * (p * (Threshold + 1)) <= n
        BY <2>4, <3>2, <3>3
      <3>5. p * (Threshold + 1) <= n
        <4> DEFINE x == p * (Threshold + 1)
        <4>1. x \in Nat /\ 2 * x <= n
          BY <3>3, <3>4
        <4> HIDE DEF x
        <4>2. x <= n
          BY <2>2, <4>1
        <4> QED BY <4>2 DEF x
      <3> QED BY <3>5 DEF p
    <2>8. /\ ArrNr' = n /\ A!Array' = A!Array /\ Len(sort') = k - 1
      BY <2>1, <2>3 DEF ArrNr, A!Array, A!Nr, A!key, n
    <2>9. /\ WithinArray(loop)' /\ \A d \in 1 .. Len(sort') : WithinArray(sort[d])'
      BY <2>3, <2>5, <2>6, <2>8 DEF WithinArray, n
    <2>10. Halved'
      BY <2>3, <2>5, <2>6, <2>7, <2>8 DEF Halved, Size
    <2>11. mem' \in [A!Array' -> 1 .. ArrNr'] /\ sort' \in Seq([low : Int, high : Int])
      BY <2>1, <2>3, <2>8 DEF QuickOn, Range2, n
    <2>12. Partitioning'
      BY <2>1 DEF Partitioning
    <2> QED BY <1>2, <2>1, <2>9, <2>10, <2>11, <2>12 DEF QuickOn
  <1> QED BY <1>1, <1>2

(* A partition goes on, in the same range. *)
LEMMA QuickKept ==
  ASSUME QuickOn, call' = call, sort' = sort, mem' \in [A!Array -> Elements],
         loop'.low = loop.low, loop'.high = loop.high, Partitioning'
  PROVE  QuickOn'
  <1>1. ArrNr' = ArrNr /\ A!Array' = A!Array
    BY DEF ArrNr, A!Array, A!Nr, A!key
  <1>2. WithinArray(loop)' /\ \A d \in 1 .. Len(sort) : WithinArray(sort[d])'
    BY <1>1 DEF QuickOn, WithinArray
  <1>3. Halved'
    BY <1>1 DEF QuickOn, Halved, Size
  <1> QED BY <1>1, <1>2, <1>3 DEF QuickOn, Elements

-----------------------------------------------------------------------------
(* A partition starts from the median of three. *)
LEMMA PartitionStarts ==
  ASSUME QuickOn, call \in ArrayCalls, NEW scheme, A!Partition(scheme)
  PROVE  /\ call' = call /\ sort' = sort /\ pc' = scheme
         /\ loop.low + Threshold <= loop.high
         /\ mem' \in [A!Array -> Elements]
         /\ A!Middle \in loop.low + 1 .. loop.high - 1 /\ A!Middle \in A!Array
         /\ mem'[A!Middle] \in Elements
         /\ Rank(mem'[loop.low]) <= Rank(mem'[A!Middle])
         /\ Rank(mem'[A!Middle]) <= Rank(mem'[loop.high])
         /\ \A e : Rank(e)' = Rank(e)
         /\ ArrNr' = ArrNr /\ A!Array' = A!Array
  <1>1. /\ call' = call /\ sort' = sort /\ pc' = scheme
        /\ loop.low + Threshold <= loop.high /\ mem' = A!MedianOfThree(mem)
    BY DEF A!Partition
  <1>2. WithinArray(loop) /\ mem \in [A!Array -> Elements]
    BY DEF QuickOn, Elements
  <1>3. /\ A!Middle \in Int /\ loop.low < A!Middle /\ A!Middle < loop.high
        /\ mem' \in [A!Array -> Elements]
        /\ Rank(mem'[loop.low]) <= Rank(mem'[A!Middle])
        /\ Rank(mem'[A!Middle]) <= Rank(mem'[loop.high])
    BY <1>1, <1>2, MedianFacts
  <1>4. A!Middle \in loop.low + 1 .. loop.high - 1 /\ A!Middle \in A!Array
    BY <1>2, <1>3, CallFacts DEF WithinArray
  <1>5. ArrNr' = ArrNr /\ A!Array' = A!Array /\ \A e : Rank(e)' = Rank(e)
    BY <1>1 DEF ArrNr, A!Array, A!Nr, A!key, Rank
  <1> QED BY <1>1, <1>3, <1>4, <1>5

(* Hoare's partition. *)
LEMMA HoareCallStep ==
  ASSUME QuickOn, call \in ArrayCalls, A!HoareCall
  PROVE  call' = call /\ pc' = "hoare" /\ QuickOn'
  <1>1. A!Partition("hoare")
    BY DEF A!HoareCall
  <1>2. /\ loop' = [low |-> loop.low, high |-> loop.high, bot |-> loop.low, top |-> loop.high,
                    pivot |-> mem'[A!Middle]]
    BY DEF A!HoareCall
  <1>3. /\ loop.low \in Int /\ loop.high \in Int /\ Threshold \in Nat /\ Threshold >= 2
        /\ ArrNr \in Nat
    BY CallFacts DEF QuickOn, WithinArray
  <1> DEFINE mi == A!Middle
  <1>4. /\ call' = call /\ sort' = sort /\ pc' = "hoare"
        /\ loop.low + Threshold <= loop.high
        /\ mem' \in [A!Array -> Elements]
        /\ mem'[mi] \in 1 .. ArrNr
        /\ Rank(mem'[loop.low]) <= Rank(mem'[mi])
        /\ Rank(mem'[mi]) <= Rank(mem'[loop.high])
        /\ \A e : Rank(e)' = Rank(e)
        /\ ArrNr' = ArrNr
    BY <1>1, PartitionStarts DEF Elements
  <1> HIDE DEF mi
  <1>5. loop' = [low |-> loop.low, high |-> loop.high, bot |-> loop.low, top |-> loop.high,
                 pivot |-> mem'[mi]]
    BY <1>2 DEF mi
  <1>6. HoarePart'
    BY <1>3, <1>4, <1>5 DEF HoarePart
  <1>7. Partitioning'
    BY <1>3, <1>4, <1>5, <1>6 DEF Partitioning
  <1>8. loop'.low = loop.low /\ loop'.high = loop.high
    BY <1>5
  <1> QED BY <1>4, <1>7, <1>8, QuickKept

LEMMA HoareStep ==
  ASSUME QuickOn, call \in ArrayCalls, A!Hoare
  PROVE  call' = call /\ pc' \in {"quick", "hoare"} /\ QuickOn'
  <1>1. /\ loop.low \in Int /\ loop.high \in Int /\ 0 <= loop.low /\ loop.high <= ArrNr - 1
        /\ ArrNr \in Nat /\ A!Array = 0 .. ArrNr - 1
        /\ mem \in [A!Array -> Elements]
    BY CallFacts DEF QuickOn, WithinArray, Elements
  <1>2. /\ pc = "hoare" /\ HoarePart /\ loop.low + Threshold <= loop.high
        /\ loop.pivot \in Elements
    BY DEF QuickOn, Partitioning, A!Hoare, Elements
  <1> DEFINE bot == A!NotBelow(mem, loop.bot + 1, loop.pivot)
             top == A!NotAbove(mem, loop.top - 1, loop.pivot)
             first == A!SmallerFirst(top, top)
  <1>3. /\ bot \in loop.bot + 1 .. loop.top
        /\ Rank(mem[bot]) >= Rank(loop.pivot)
    <2>1. loop.bot + 1 \in Nat /\ loop.top \in loop.bot + 1 .. ArrNr - 1
      BY <1>1, <1>2 DEF HoarePart
    <2>2. Rank(mem[loop.top]) >= Rank(loop.pivot)
      BY <1>2 DEF HoarePart
    <2> QED BY <1>1, <1>2, <2>1, <2>2, NotBelowFacts
  <1>4. /\ top \in loop.bot .. loop.top - 1
        /\ Rank(mem[top]) <= Rank(loop.pivot)
    <2>1. loop.top - 1 \in 0 .. ArrNr - 1 /\ loop.bot \in 0 .. loop.top - 1
      BY <1>1, <1>2 DEF HoarePart
    <2>2. Rank(mem[loop.bot]) <= Rank(loop.pivot)
      BY <1>2 DEF HoarePart
    <2> QED BY <1>1, <1>2, <2>1, <2>2, NotAboveFacts
  <1>5. IF bot >= top
        THEN A!Recurse(top, top + 1, first) /\ mem' = mem
        ELSE /\ mem' = A!Swap(mem, bot, top)
             /\ loop' = [loop EXCEPT !.bot = bot, !.top = top]
             /\ call' = call /\ pc' = pc /\ sort' = sort
    BY DEF A!Hoare
  <1>6. /\ first \in BOOLEAN
        /\ first => top - loop.low < loop.high - top
        /\ ~ first => top - loop.low >= loop.high - top
    BY <1>1, <1>2, <1>4 DEF A!SmallerFirst, HoarePart
  <1> HIDE DEF bot, top, first
  <1>7. /\ loop \in [low : Int, high : Int, bot : Int, top : Int, pivot : Int]
        /\ loop.low <= loop.bot /\ loop.bot < loop.top /\ loop.top <= loop.high
    BY <1>1, <1>2 DEF HoarePart
  <1>8. CASE bot >= top
    <2>1. A!Recurse(top, top + 1, first) /\ mem' \in [A!Array -> Elements]
      BY <1>1, <1>5, <1>8
    <2>2. /\ top \in Int /\ top + 1 \in Int /\ top < top + 1
          /\ loop.low - 1 <= top /\ top <= loop.high
          /\ loop.low <= top + 1 /\ top + 1 <= loop.high + 1
          /\ first => top - loop.low <= loop.high - (top + 1)
          /\ ~ first => loop.high - (top + 1) <= top - loop.low
      BY SMTT(30), <1>1, <1>4, <1>6, <1>7
    <2> DEFINE high == top + 1
    <2> HIDE DEF high
    <2>3. QuickOn' /\ pc' = "quick" /\ call' = call
      BY <1>2, <1>6, <2>1, <2>2, RecurseStep DEF high
    <2> QED BY <2>3
  <1>9. CASE ~ (bot >= top)
    <2>1. /\ mem' = A!Swap(mem, bot, top)
          /\ loop' = [loop EXCEPT !.bot = bot, !.top = top]
          /\ call' = call /\ pc' = "hoare" /\ sort' = sort
      BY <1>2, <1>5, <1>9
    <2>2. /\ bot \in Int /\ top \in Int /\ bot < top
          /\ bot \in A!Array /\ top \in A!Array
      BY <1>1, <1>3, <1>4, <1>7, <1>9
    <2>3. /\ mem' \in [A!Array -> Elements]
          /\ mem'[bot] = mem[top] /\ mem'[top] = mem[bot]
      BY <1>1, <2>1, <2>2, SwapFacts
    <2>4. loop' = [low |-> loop.low, high |-> loop.high, bot |-> bot, top |-> top,
                   pivot |-> loop.pivot]
      BY <1>7, <2>1
    <2>5. ArrNr' = ArrNr /\ \A e : Rank(e)' = Rank(e)
      BY <2>1 DEF ArrNr, Rank
    <2>6. HoarePart'
      BY <1>3, <1>4, <1>7, <2>2, <2>3, <2>4, <2>5 DEF HoarePart
    <2>7. Partitioning'
      BY <1>2, <2>1, <2>4, <2>5, <2>6 DEF Partitioning, Elements
    <2>8. loop'.low = loop.low /\ loop'.high = loop.high
      BY <2>4
    <2> QED BY <2>1, <2>3, <2>7, <2>8, QuickKept
  <1> QED BY <1>8, <1>9

(* Dijkstra's partition. *)
LEMMA DijkstraCallStep ==
  ASSUME QuickOn, call \in ArrayCalls, A!DijkstraCall
  PROVE  call' = call /\ pc' = "dijkstra" /\ QuickOn'
  <1>1. A!Partition("dijkstra")
    BY DEF A!DijkstraCall
  <1> DEFINE mi == A!Middle
             bot == A!NotBelow(mem', loop.low, mem'[mi])
             top == A!NotAbove(mem', loop.high, mem'[mi])
  <1>2. loop' = [low |-> loop.low, high |-> loop.high, bot |-> bot, top |-> top,
                 elm |-> bot, pivot |-> mem'[mi]]
    BY DEF A!DijkstraCall
  <1>3. /\ loop.low \in Nat /\ loop.high \in 0 .. ArrNr - 1 /\ ArrNr \in Nat
        /\ mi \in loop.low .. ArrNr - 1 /\ mi \in 0 .. loop.high
        /\ mi \in loop.low .. loop.high
    <2>1. mi \in loop.low + 1 .. loop.high - 1
      BY <1>1, PartitionStarts
    <2> HIDE DEF mi
    <2> QED BY SMTT(30), <2>1, CallFacts DEF QuickOn, WithinArray
  <1>4. /\ call' = call /\ sort' = sort /\ pc' = "dijkstra"
        /\ loop.low + Threshold <= loop.high
        /\ mem' \in [A!Array -> Elements]
        /\ mem'[mi] \in Elements /\ Elements = 1 .. ArrNr
        /\ ArrNr' = ArrNr
    BY <1>1, PartitionStarts DEF Elements
  <1>5. Rank(mem'[mi]) >= Rank(mem'[mi]) /\ Rank(mem'[mi]) <= Rank(mem'[mi])
    BY <1>4, CallFacts DEF Elements, Rank
  <1> HIDE DEF mi
  <1>6. bot \in loop.low .. mi
    <2> DEFINE m == mem'
    <2>1. m \in [A!Array -> Elements] /\ m[mi] \in Elements /\ Rank(m[mi]) >= Rank(m[mi])
      BY <1>4, <1>5
    <2> HIDE DEF m
    <2>2. A!NotBelow(m, loop.low, m[mi]) \in loop.low .. mi
      BY <1>3, <2>1, NotBelowFacts
    <2> QED BY <2>2 DEF m
  <1>7. top \in mi .. loop.high
    <2> DEFINE m == mem'
    <2>1. m \in [A!Array -> Elements] /\ m[mi] \in Elements /\ Rank(m[mi]) <= Rank(m[mi])
      BY <1>4, <1>5
    <2> HIDE DEF m
    <2>2. A!NotAbove(m, loop.high, m[mi]) \in mi .. loop.high
      BY <1>3, <2>1, NotAboveFacts
    <2> QED BY <2>2 DEF m
  <1> HIDE DEF bot, top
  <1>8. DijkstraPart'
    BY <1>2, <1>3, <1>4, <1>6, <1>7 DEF DijkstraPart
  <1>9. Threshold \in Nat
    BY CallFacts
  <1>10. Partitioning'
    BY <1>2, <1>4, <1>8, <1>9 DEF Partitioning
  <1>11. loop'.low = loop.low /\ loop'.high = loop.high
    BY <1>2
  <1> QED BY <1>4, <1>10, <1>11, QuickKept

LEMMA DijkstraStep ==
  ASSUME QuickOn, call \in ArrayCalls, A!Dijkstra
  PROVE  call' = call /\ pc' = "dijkstra" /\ QuickOn'
  <1>1. /\ loop.low \in Int /\ loop.high \in Int /\ 0 <= loop.low /\ loop.high <= ArrNr - 1
        /\ ArrNr \in Nat /\ A!Array = 0 .. ArrNr - 1
        /\ mem \in [A!Array -> Elements]
    BY CallFacts DEF QuickOn, WithinArray, Elements
  <1>2. /\ call' = call /\ pc = "dijkstra" /\ pc' = "dijkstra" /\ sort' = sort
        /\ loop.elm <= loop.top /\ DijkstraPart
        /\ loop.low + Threshold <= loop.high /\ loop.pivot \in 1 .. ArrNr
    BY DEF QuickOn, Partitioning, A!Dijkstra
  <1>3. ArrNr' = ArrNr
    BY <1>2 DEF ArrNr
  <1>4. /\ loop \in [low : Int, high : Int, bot : Int, top : Int, elm : Int, pivot : Int]
        /\ loop.low <= loop.bot /\ loop.bot <= loop.elm
        /\ loop.elm <= loop.top /\ loop.top <= loop.high
    BY <1>2 DEF DijkstraPart
  <1>5. /\ loop.bot \in A!Array /\ loop.elm \in A!Array /\ loop.top \in A!Array
    BY <1>1, <1>4
  <1>6. SUFFICES /\ mem' \in [A!Array -> Elements]
                 /\ DijkstraPart' /\ loop'.low = loop.low /\ loop'.high = loop.high
                 /\ loop'.pivot = loop.pivot
    <2>1. Partitioning'
      BY <1>2, <1>3, <1>6 DEF Partitioning
    <2> QED BY <1>2, <1>6, <2>1, QuickKept
  <1>7. CASE A!DijkstraBelow(loop.elm)
    <2>1. /\ mem' = A!Swap(mem, loop.bot, loop.elm)
          /\ loop' = [low |-> loop.low, high |-> loop.high, bot |-> loop.bot + 1,
                      top |-> loop.top, elm |-> loop.elm + 1, pivot |-> loop.pivot]
      BY <1>4, <1>7 DEF A!DijkstraBelow
    <2>2. mem' \in [A!Array -> Elements]
      BY <1>1, <1>5, <2>1, SwapFacts
    <2>3. DijkstraPart'
      BY <1>4, <2>1 DEF DijkstraPart
    <2> QED BY <2>1, <2>2, <2>3
  <1>8. CASE A!DijkstraAbove(loop.elm)
    <2>1. /\ mem' = A!Swap(mem, loop.top, loop.elm)
          /\ loop' = [low |-> loop.low, high |-> loop.high, bot |-> loop.bot,
                      top |-> loop.top - 1, elm |-> loop.elm, pivot |-> loop.pivot]
      BY <1>4, <1>8 DEF A!DijkstraAbove
    <2>2. mem' \in [A!Array -> Elements]
      BY <1>1, <1>5, <2>1, SwapFacts
    <2>3. DijkstraPart'
      BY <1>4, <2>1 DEF DijkstraPart
    <2> QED BY <2>1, <2>2, <2>3
  <1>9. CASE A!DijkstraEqual(loop.elm)
    <2>1. /\ mem' = mem
          /\ loop' = [low |-> loop.low, high |-> loop.high, bot |-> loop.bot,
                      top |-> loop.top, elm |-> loop.elm + 1, pivot |-> loop.pivot]
      BY <1>4, <1>9 DEF A!DijkstraEqual
    <2>2. DijkstraPart'
      BY <1>4, <2>1 DEF DijkstraPart
    <2> QED BY <1>1, <2>1, <2>2
  <1> QED BY <1>7, <1>8, <1>9 DEF A!Dijkstra

LEMMA DijkstraEndsStep ==
  ASSUME QuickOn, call \in ArrayCalls, A!DijkstraEnds
  PROVE  call' = call /\ pc' = "quick" /\ QuickOn'
  <1> DEFINE low == loop.bot - 1
             high == loop.top + 1
             first == A!SmallerFirst(low, high)
  <1>1. /\ loop.low \in Int /\ loop.high \in Int /\ mem \in [A!Array -> Elements]
        /\ loop.low + Threshold <= loop.high /\ DijkstraPart
        /\ loop.elm > loop.top /\ mem' = mem
        /\ A!Recurse(low, high, first)
    BY DEF QuickOn, WithinArray, Partitioning, A!DijkstraEnds, Elements
  <1>2. /\ first \in BOOLEAN
        /\ first => low - loop.low < loop.high - high
        /\ ~ first => low - loop.low >= loop.high - high
    BY <1>1 DEF A!SmallerFirst, DijkstraPart
  <1>3. /\ low \in Int /\ high \in Int /\ low < high
        /\ loop.low - 1 <= low /\ low <= loop.high
        /\ loop.low <= high /\ high <= loop.high + 1
    BY <1>1 DEF DijkstraPart
  <1> HIDE DEF low, high, first
  <1>4. /\ first => low - loop.low <= loop.high - high
        /\ ~ first => loop.high - high <= low - loop.low
    BY <1>1, <1>2, <1>3
  <1>5. QuickOn' /\ pc' = "quick" /\ call' = call
    BY <1>1, <1>2, <1>3, <1>4, RecurseStep
  <1> QED BY <1>5

(* Bentley and McIlroy's partition. *)
LEMMA BentleyCallStep ==
  ASSUME QuickOn, call \in ArrayCalls, A!BentleyCall
  PROVE  call' = call /\ pc' = "bentley" /\ QuickOn'
  <1>1. A!Partition("bentley")
    BY DEF A!BentleyCall
  <1> DEFINE mi == A!Middle
  <1>2. loop' = [low |-> loop.low, high |-> loop.high, leq |-> loop.low, bot |-> loop.low - 1,
                 heq |-> loop.high, top |-> loop.high + 1, pivot |-> mem'[mi]]
    BY DEF A!BentleyCall
  <1>3. /\ loop.low \in Nat /\ loop.high \in 0 .. ArrNr - 1 /\ ArrNr \in Nat
        /\ mi \in loop.low .. loop.high
    <2>1. mi \in loop.low + 1 .. loop.high - 1
      BY <1>1, PartitionStarts
    <2> HIDE DEF mi
    <2> QED BY SMTT(30), <2>1, CallFacts DEF QuickOn, WithinArray
  <1>4. /\ call' = call /\ sort' = sort /\ pc' = "bentley"
        /\ loop.low + Threshold <= loop.high
        /\ mem' \in [A!Array -> Elements]
        /\ mem'[mi] \in 1 .. ArrNr
        /\ \A e : Rank(e)' = Rank(e)
        /\ ArrNr' = ArrNr /\ Threshold \in Nat
    BY <1>1, PartitionStarts, CallFacts DEF Elements
  <1>5. Rank(mem'[mi]) >= Rank(mem'[mi]) /\ Rank(mem'[mi]) <= Rank(mem'[mi])
    BY <1>4, CallFacts DEF Rank
  <1> HIDE DEF mi
  <1>6. BentleyPart'
    <2>1. /\ mi \in loop'.bot + 1 .. loop'.top /\ mi <= loop'.high
          /\ mi \in loop'.bot .. loop'.top - 1 /\ mi >= loop'.low
          /\ Rank(mem'[mi]) >= Rank(loop'.pivot) /\ Rank(mem'[mi]) <= Rank(loop'.pivot)
      BY <1>2, <1>3, <1>5
    <2>2. /\ \A i \in loop'.leq .. loop'.bot : FALSE
          /\ \A i \in loop'.top .. loop'.heq : FALSE
      BY <1>2, <1>3
    <2>3. /\ loop' \in [low : Int, high : Int, leq : Int, bot : Int, heq : Int, top : Int,
                        pivot : Int]
          /\ loop'.low <= loop'.leq /\ loop'.leq <= loop'.bot + 1
          /\ loop'.low - 1 <= loop'.bot /\ loop'.bot < loop'.top /\ loop'.top <= loop'.high + 1
          /\ loop'.top - 1 <= loop'.heq /\ loop'.heq <= loop'.high
      BY <1>2, <1>3, <1>4
    <2> QED BY <1>4, <2>1, <2>2, <2>3 DEF BentleyPart, Rank
  <1>7. Partitioning'
    BY <1>2, <1>4, <1>6 DEF Partitioning
  <1>8. loop'.low = loop.low /\ loop'.high = loop.high
    BY <1>2
  <1> QED BY <1>4, <1>7, <1>8, QuickKept

(* What both searches of an iteration find. *)
LEMMA BentleyNext ==
  ASSUME QuickOn, call \in ArrayCalls, pc = "bentley"
  PROVE  /\ A!NextBot \in loop.bot + 1 .. loop.top /\ A!NextBot <= loop.high
         /\ A!NextTop \in loop.bot .. loop.top - 1 /\ A!NextTop >= loop.low
         /\ Rank(mem[A!NextBot]) >= Rank(loop.pivot)
         /\ Rank(mem[A!NextTop]) <= Rank(loop.pivot)
         /\ \A i \in loop.bot + 1 .. A!NextBot - 1 : Rank(mem[i]) < Rank(loop.pivot)
         /\ \A i \in A!NextTop + 1 .. loop.top - 1 : Rank(mem[i]) > Rank(loop.pivot)
  <1>1. /\ loop.low \in Int /\ loop.high \in Int /\ 0 <= loop.low /\ loop.high <= ArrNr - 1
        /\ ArrNr \in Nat /\ mem \in [A!Array -> Elements]
        /\ BentleyPart /\ loop.pivot \in Elements
    BY CallFacts DEF QuickOn, WithinArray, Partitioning, Elements
  <1>2. /\ loop.bot \in Int /\ loop.top \in Int
        /\ loop.low - 1 <= loop.bot /\ loop.bot < loop.top /\ loop.top <= loop.high + 1
    BY <1>1 DEF BentleyPart
  <1>3. PICK w \in loop.bot + 1 .. loop.top :
          w <= loop.high /\ Rank(mem[w]) >= Rank(loop.pivot)
    BY <1>1 DEF BentleyPart
  <1>4. PICK v \in loop.bot .. loop.top - 1 :
          v >= loop.low /\ Rank(mem[v]) <= Rank(loop.pivot)
    BY <1>1 DEF BentleyPart
  <1>5. /\ A!NextBot \in loop.bot + 1 .. w
        /\ Rank(mem[A!NextBot]) >= Rank(loop.pivot)
        /\ \A i \in loop.bot + 1 .. A!NextBot - 1 : Rank(mem[i]) < Rank(loop.pivot)
    <2>1. loop.bot + 1 \in Nat /\ w \in loop.bot + 1 .. ArrNr - 1
      BY <1>1, <1>2, <1>3
    <2> QED BY <1>1, <1>3, <2>1, NotBelowFacts DEF A!NextBot
  <1>6. /\ A!NextTop \in v .. loop.top - 1
        /\ Rank(mem[A!NextTop]) <= Rank(loop.pivot)
        /\ \A i \in A!NextTop + 1 .. loop.top - 1 : Rank(mem[i]) > Rank(loop.pivot)
    <2>1. loop.top - 1 \in 0 .. ArrNr - 1 /\ v \in 0 .. loop.top - 1
      BY <1>1, <1>2, <1>4
    <2> QED BY <1>1, <1>4, <2>1, NotAboveFacts DEF A!NextTop
  <1> QED BY <1>1, <1>2, <1>3, <1>4, <1>5, <1>6

LEMMA SwapRangeFacts ==
  ASSUME call \in ArrayCalls, NEW m \in [A!Array -> Elements],
         NEW i \in Nat, NEW j \in Nat, NEW n \in Int,
         i + n <= ArrNr, j + n <= ArrNr
  PROVE  A!SwapRange(m, i, j, n) \in [A!Array -> Elements]
  <1>1. ArrNr \in Nat /\ A!Array = 0 .. ArrNr - 1
    BY CallFacts
  <1>2. /\ \A x \in i .. i + n - 1 : x - i + j \in A!Array
        /\ \A x \in j .. j + n - 1 : x - j + i \in A!Array
    BY <1>1
  <1> QED BY <1>2 DEF A!SwapRange

LEMMA BentleyStep ==
  ASSUME QuickOn, call \in ArrayCalls, A!Bentley
  PROVE  call' = call /\ pc' = "bentley" /\ QuickOn'
  <1> DEFINE b == A!NextBot
             t == A!NextTop
             p == Rank(loop.pivot)
             le == loop.leq
             he == loop.heq
             m1 == A!Swap(mem, b, t)
             low == A!At(m1, b) = A!key[loop.pivot]
             m2 == IF low THEN A!Swap(m1, b, le) ELSE m1
             high == A!At(m2, t) = A!key[loop.pivot]
             m3 == IF high THEN A!Swap(m2, t, he) ELSE m2
  <1>1. /\ ArrNr \in Nat /\ A!Array = 0 .. ArrNr - 1 /\ mem \in [A!Array -> Elements]
        /\ WithinArray(loop) /\ BentleyPart /\ pc = "bentley"
        /\ loop.low + Threshold <= loop.high /\ loop.pivot \in 1 .. ArrNr
        /\ p \in Int /\ \A i : A!key[i] = Rank(i)
    BY CallFacts DEF QuickOn, Partitioning, Elements, A!Bentley, Rank
  <1>2. /\ call' = call /\ pc' = "bentley" /\ sort' = sort /\ b < t
        /\ mem' = m3
        /\ loop' = [loop EXCEPT !.bot = b, !.top = t,
                                !.leq = IF low THEN @ + 1 ELSE @,
                                !.heq = IF high THEN @ - 1 ELSE @]
    BY DEF A!Bentley
  <1>3. /\ b \in loop.bot + 1 .. loop.top /\ b <= loop.high
        /\ t \in loop.bot .. loop.top - 1 /\ t >= loop.low
        /\ Rank(mem[b]) >= p /\ Rank(mem[t]) <= p
        /\ \A i \in loop.bot + 1 .. b - 1 : Rank(mem[i]) < p
        /\ \A i \in t + 1 .. loop.top - 1 : Rank(mem[i]) > p
    BY <1>1, BentleyNext
  <1>4. /\ loop \in [low : Int, high : Int, leq : Int, bot : Int, heq : Int, top : Int,
                     pivot : Int]
        /\ 0 <= loop.low /\ loop.high <= ArrNr - 1
        /\ loop.low <= le /\ le <= loop.bot + 1 /\ loop.low - 1 <= loop.bot
        /\ loop.top <= loop.high + 1 /\ loop.top - 1 <= he /\ he <= loop.high
        /\ \A i \in le .. loop.bot : Rank(mem[i]) <= p
        /\ \A i \in loop.top .. he : Rank(mem[i]) >= p
    BY <1>1 DEF BentleyPart, WithinArray
  <1> HIDE DEF b, t, p, le, he, m1, low, m2, high, m3
  <1>5. /\ b \in Int /\ t \in Int /\ le \in Int /\ he \in Int
        /\ loop.low <= le /\ le <= b /\ b < t /\ t <= he /\ he <= loop.high
        /\ loop.low \in Int /\ loop.high \in Int /\ loop.bot \in Int /\ loop.top \in Int
    BY <1>2, <1>3, <1>4 DEF le, he
  <1>6. /\ b \in A!Array /\ t \in A!Array /\ le \in A!Array /\ he \in A!Array
        /\ \A i \in le .. he : i \in A!Array
    BY <1>1, <1>4, <1>5
  <1>7. /\ \A i \in le .. b - 1 : Rank(mem[i]) <= p
        /\ \A i \in t + 1 .. he : Rank(mem[i]) >= p
    <2>1. ASSUME NEW i \in le .. b - 1 PROVE Rank(mem[i]) <= p
      <3>0. i \in le .. he
        BY <1>5
      <3>1. i \in A!Array /\ Rank(mem[i]) \in Int
        BY <1>1, <1>6, <3>0, Ranked
      <3>2. CASE i <= loop.bot
        <4>1. i \in le .. loop.bot
          BY <1>5, <3>2
        <4> QED BY <1>4, <4>1
      <3>3. CASE i > loop.bot
        <4>1. i \in loop.bot + 1 .. b - 1
          BY <1>5, <3>3
        <4> QED BY <1>1, <1>3, <3>1, <4>1
      <3> QED BY <1>5, <3>2, <3>3
    <2>2. ASSUME NEW i \in t + 1 .. he PROVE Rank(mem[i]) >= p
      <3>0. i \in le .. he
        BY <1>5
      <3>1. i \in A!Array /\ Rank(mem[i]) \in Int
        BY <1>1, <1>6, <3>0, Ranked
      <3>2. CASE i >= loop.top
        <4>1. i \in loop.top .. he
          BY <1>5, <3>2
        <4> QED BY <1>4, <4>1
      <3>3. CASE i < loop.top
        <4>1. i \in t + 1 .. loop.top - 1
          BY <1>5, <3>3
        <4> QED BY <1>1, <1>3, <3>1, <4>1
      <3> QED BY <1>5, <3>2, <3>3
    <2> QED BY <2>1, <2>2
  <1>8. /\ m1 \in [A!Array -> Elements] /\ m1[b] = mem[t] /\ m1[t] = mem[b]
        /\ \A x \in A!Array \ {b, t} : m1[x] = mem[x]
    BY <1>1, <1>6, SwapFacts DEF m1
  <1>9. /\ \A i \in le .. b : Rank(m1[i]) <= p
        /\ \A i \in t .. he : Rank(m1[i]) >= p
    <2>1. ASSUME NEW i \in le .. b PROVE Rank(m1[i]) <= p
      <3>1. i = b \/ (i \in le .. b - 1 /\ i \in A!Array \ {b, t})
        BY <1>5, <1>6
      <3> QED BY <1>3, <1>7, <1>8, <3>1
    <2>2. ASSUME NEW i \in t .. he PROVE Rank(m1[i]) >= p
      <3>1. i = t \/ (i \in t + 1 .. he /\ i \in A!Array \ {b, t})
        BY <1>5, <1>6
      <3> QED BY <1>3, <1>7, <1>8, <3>1
    <2> QED BY <2>1, <2>2
  <1>10. /\ m2 \in [A!Array -> Elements]
         /\ \A i \in (IF low THEN le + 1 ELSE le) .. b : Rank(m2[i]) <= p
         /\ \A i \in t .. he : Rank(m2[i]) >= p
         /\ Rank(m2[b]) <= p
    <2>1. CASE low
      <3>1. m2 = A!Swap(m1, b, le)
        BY <2>1 DEF m2
      <3>2. /\ m2 \in [A!Array -> Elements] /\ m2[b] = m1[le]
            /\ \A x \in A!Array \ {b, le} : m2[x] = m1[x]
        BY <1>6, <1>8, <3>1, SwapFacts
      <3>3. le \in le .. b /\ \A i \in le + 1 .. b : i \in le .. b /\ i \in A!Array /\ i # le
        BY <1>5, <1>6
      <3>4. \A i \in t .. he : i \in A!Array \ {b, le}
        BY <1>5, <1>6
      <3> QED BY <1>9, <2>1, <3>2, <3>3, <3>4
    <2>2. CASE ~ low
      <3>1. m2 = m1
        BY <2>2 DEF m2
      <3>2. b \in le .. b
        BY <1>5
      <3> QED BY <1>8, <1>9, <2>2, <3>1, <3>2
    <2> QED BY <2>1, <2>2
  <1>11. /\ m3 \in [A!Array -> Elements]
         /\ \A i \in (IF low THEN le + 1 ELSE le) .. b : Rank(m3[i]) <= p
         /\ \A i \in t .. (IF high THEN he - 1 ELSE he) : Rank(m3[i]) >= p
         /\ Rank(m3[b]) <= p /\ Rank(m3[t]) >= p
    <2>1. CASE high
      <3>1. m3 = A!Swap(m2, t, he)
        BY <2>1 DEF m3
      <3>2. /\ m3 \in [A!Array -> Elements] /\ m3[t] = m2[he]
            /\ \A x \in A!Array \ {t, he} : m3[x] = m2[x]
        BY <1>6, <1>10, <3>1, SwapFacts
      <3>3. he \in t .. he /\ \A i \in t .. he - 1 : i \in t .. he /\ i \in A!Array /\ i # he
        BY <1>5, <1>6
      <3>4. /\ b \in A!Array \ {t, he}
            /\ \A i \in (IF low THEN le + 1 ELSE le) .. b : i \in A!Array \ {t, he}
        BY <1>5, <1>6
      <3> QED BY <1>10, <2>1, <3>2, <3>3, <3>4
    <2>2. CASE ~ high
      <3>1. m3 = m2
        BY <2>2 DEF m3
      <3>2. t \in t .. he
        BY <1>5
      <3> QED BY <1>10, <2>2, <3>1, <3>2
    <2> QED BY <2>1, <2>2
  <1> DEFINE leq == IF low THEN le + 1 ELSE le
             heq == IF high THEN he - 1 ELSE he
  <1>12. /\ loop' = [low |-> loop.low, high |-> loop.high, leq |-> leq, bot |-> b,
                     heq |-> heq, top |-> t, pivot |-> loop.pivot]
         /\ leq \in Int /\ le <= leq /\ leq <= le + 1
         /\ heq \in Int /\ heq <= he /\ he - 1 <= heq
         /\ \A i \in leq .. b : Rank(m3[i]) <= p
         /\ \A i \in t .. heq : Rank(m3[i]) >= p
    <2>1. loop' = [low |-> loop.low, high |-> loop.high, leq |-> leq, bot |-> b,
                   heq |-> heq, top |-> t, pivot |-> loop.pivot]
      BY <1>2, <1>4 DEF le, he
    <2>2. /\ leq \in Int /\ le <= leq /\ leq <= le + 1
          /\ heq \in Int /\ heq <= he /\ he - 1 <= heq
      BY <1>5
    <2> QED BY <1>11, <2>1, <2>2
  <1> HIDE DEF leq, heq
  <1>13. ArrNr' = ArrNr /\ \A e : Rank(e)' = Rank(e)
    BY <1>2 DEF ArrNr, Rank
  <1>14. BentleyPart'
    <2>1. /\ t \in loop'.bot + 1 .. loop'.top /\ t <= loop'.high /\ Rank(mem'[t]) >= p
          /\ b \in loop'.bot .. loop'.top - 1 /\ b >= loop'.low /\ Rank(mem'[b]) <= p
      BY <1>2, <1>5, <1>11, <1>12
    <2>2. /\ \A i \in loop'.leq .. loop'.bot : Rank(mem'[i]) <= p
          /\ \A i \in loop'.top .. loop'.heq : Rank(mem'[i]) >= p
      <3>1. mem' = m3
        BY <1>2
      <3> QED BY <1>12, <3>1
    <2>3. /\ loop' \in [low : Int, high : Int, leq : Int, bot : Int, heq : Int, top : Int,
                        pivot : Int]
          /\ loop'.low <= loop'.leq /\ loop'.leq <= loop'.bot + 1
          /\ loop'.low - 1 <= loop'.bot /\ loop'.bot < loop'.top /\ loop'.top <= loop'.high + 1
          /\ loop'.top - 1 <= loop'.heq /\ loop'.heq <= loop'.high
      <3>1. loop.pivot \in Int /\ loop.low <= leq
        BY <1>1, <1>5, <1>12
      <3>2. leq <= b + 1 /\ loop.low - 1 <= b /\ t <= loop.high + 1
        BY <1>5, <1>12
      <3>3. t - 1 <= heq /\ heq <= loop.high
        BY <1>5, <1>12
      <3> QED BY <1>5, <1>12, <3>1, <3>2, <3>3
    <2>4. p = Rank(loop'.pivot)
      BY <1>12 DEF p
    <2> QED BY <1>2, <2>1, <2>2, <2>3, <2>4 DEF BentleyPart, Rank
  <1>15. Partitioning'
    BY <1>1, <1>2, <1>12, <1>13, <1>14 DEF Partitioning
  <1>16. loop'.low = loop.low /\ loop'.high = loop.high
    BY <1>12
  <1> QED BY <1>2, <1>11, <1>15, <1>16, QuickKept

LEMMA BentleyEndsStep ==
  ASSUME QuickOn, call \in ArrayCalls, A!BentleyEnds
  PROVE  call' = call /\ pc' = "quick" /\ QuickOn'
  <1> DEFINE b == A!NextBot
             t == A!NextTop
             p == Rank(loop.pivot)
             lnr == b - loop.leq
             hnr == loop.heq - t
             leq == A!LowerFrom(lnr)
             heq == A!UpperFrom(hnr)
             m1 == A!SwapRange(mem, loop.low, leq, b - leq)
             m2 == A!SwapRange(m1, t + 1, heq, loop.high + 1 - heq)
             low == loop.low + lnr - 1
             high == loop.high - hnr + 1
             first == A!SmallerFirst(low, high)
  <1>1. /\ ArrNr \in Nat /\ A!Array = 0 .. ArrNr - 1 /\ mem \in [A!Array -> Elements]
        /\ WithinArray(loop) /\ BentleyPart /\ pc = "bentley"
        /\ loop.low + Threshold <= loop.high
    BY CallFacts DEF QuickOn, Partitioning, Elements, A!BentleyEnds
  <1>2. b >= t /\ mem' = m2 /\ A!Recurse(low, high, first)
    BY DEF A!BentleyEnds
  <1>3. /\ b \in loop.bot + 1 .. loop.top /\ b <= loop.high
        /\ t \in loop.bot .. loop.top - 1 /\ t >= loop.low
        /\ \A i \in loop.bot + 1 .. b - 1 : Rank(mem[i]) < p
        /\ \A i \in t + 1 .. loop.top - 1 : Rank(mem[i]) > p
    BY <1>1, BentleyNext
  <1>4. /\ loop.low \in Int /\ loop.high \in Int /\ loop.leq \in Int /\ loop.heq \in Int
        /\ loop.bot \in Int /\ loop.top \in Int
        /\ 0 <= loop.low /\ loop.high <= ArrNr - 1
        /\ loop.low <= loop.leq /\ loop.leq <= loop.bot + 1 /\ loop.low - 1 <= loop.bot
        /\ loop.top <= loop.high + 1 /\ loop.top - 1 <= loop.heq /\ loop.heq <= loop.high
        /\ p \in Int
    <2>1. loop.pivot \in 1 .. ArrNr
      BY <1>1 DEF QuickOn, Partitioning
    <2> QED BY <1>1, <2>1, CallFacts DEF BentleyPart, WithinArray, Rank
  <1> HIDE DEF b, t, p
  <1>5. /\ b \in Int /\ t \in Int
        /\ loop.leq <= b /\ t <= loop.heq /\ loop.low <= t /\ b <= loop.high
    BY <1>3, <1>4
  <1>6. b <= t + 1
    <2>1. ASSUME t + 1 < b PROVE FALSE
      <3>1. t + 1 \in loop.bot + 1 .. b - 1 /\ t + 1 \in t + 1 .. loop.top - 1
        BY <1>3, <1>4, <1>5, <2>1
      <3>2. t + 1 \in A!Array
        BY <1>1, <1>4, <1>5, <2>1
      <3>3. Rank(mem[t + 1]) \in Int
        BY <1>1, <3>2, Ranked
      <3>4. Rank(mem[t + 1]) < p /\ Rank(mem[t + 1]) > p
        BY <1>3, <3>1
      <3> QED BY <1>4, <3>3, <3>4
    <2> QED BY <1>5, <2>1
  <1>7. /\ leq \in Nat /\ b - leq \in Int /\ loop.low \in Nat
        /\ loop.low + (b - leq) <= ArrNr /\ leq + (b - leq) <= ArrNr
    <2>1. lnr \in Int /\ (loop.leq - loop.low < lnr => leq = loop.low + lnr)
          /\ (~ (loop.leq - loop.low < lnr) => leq = loop.leq)
      BY <1>4, <1>5 DEF A!LowerFrom
    <2>2. leq = loop.leq \/ leq = loop.low + (b - loop.leq)
      BY <2>1
    <2> HIDE DEF leq
    <2>3. leq \in Int /\ loop.low <= leq /\ loop.low + (b - leq) <= b
      BY <1>4, <1>5, <2>2
    <2> QED BY SMTT(30), <1>1, <1>4, <1>5, <2>3
  <1>8. /\ heq \in Nat /\ loop.high + 1 - heq \in Int /\ t + 1 \in Nat
        /\ t + 1 + (loop.high + 1 - heq) <= ArrNr /\ heq + (loop.high + 1 - heq) <= ArrNr
    <2> DEFINE hi == loop.high
               he == loop.heq
               nr == ArrNr
               from == heq
    <2>1. /\ hi \in Int /\ he \in Int /\ nr \in Int /\ t \in Int
          /\ hi <= nr - 1 /\ he <= hi /\ 0 <= t /\ t <= he
      BY <1>1, <1>4, <1>5
    <2>2. /\ he - t < hi - he => from = hi + 1 - (he - t)
          /\ ~ (he - t < hi - he) => from = he + 1
      BY DEF A!UpperFrom
    <2> HIDE DEF hi, he, nr, from
    <2>3. /\ from \in Int /\ t + 1 <= from /\ from <= hi + 1
          /\ t + 1 + (hi + 1 - from) <= hi + 1
      BY <2>1, <2>2
    <2>4. /\ from \in Nat /\ hi + 1 - from \in Int /\ t + 1 \in Nat
          /\ t + 1 + (hi + 1 - from) <= nr /\ from + (hi + 1 - from) <= nr
      BY <2>1, <2>3
    <2> QED BY <2>4 DEF hi, nr, from
  <1>9. mem' \in [A!Array -> Elements]
    <2> DEFINE i == t + 1
               n == b - leq
               o == loop.high + 1 - heq
    <2>1. m2 = A!SwapRange(m1, i, heq, o) /\ m1 = A!SwapRange(mem, loop.low, leq, n)
      OBVIOUS
    <2>2. i \in Nat /\ n \in Int /\ o \in Int /\ i + o <= ArrNr /\ heq + o <= ArrNr
          /\ loop.low + n <= ArrNr /\ leq + n <= ArrNr
      BY <1>7, <1>8
    <2> HIDE DEF i, n, o, leq, heq, m1, m2
    <2>3. m1 \in [A!Array -> Elements]
      BY <1>1, <1>7, <2>1, <2>2, SwapRangeFacts
    <2>4. m2 \in [A!Array -> Elements]
      BY <1>8, <2>1, <2>2, <2>3, SwapRangeFacts
    <2> QED BY <1>2, <2>4
  <1>10. /\ low \in Int /\ high \in Int /\ low < high
         /\ loop.low - 1 <= low /\ low <= loop.high
         /\ loop.low <= high /\ high <= loop.high + 1
    BY <1>4, <1>5, <1>6
  <1> HIDE DEF low, high
  <1>11. /\ first \in BOOLEAN
         /\ first => low - loop.low <= loop.high - high
         /\ ~ first => loop.high - high <= low - loop.low
    BY <1>4, <1>10 DEF A!SmallerFirst
  <1> HIDE DEF first
  <1>12. QuickOn' /\ pc' = "quick" /\ call' = call
    BY <1>1, <1>2, <1>9, <1>10, <1>11, RecurseStep
  <1> QED BY <1>12

-----------------------------------------------------------------------------
(* Every step of a quick sort. *)
LEMMA QuickCallStep ==
  ASSUME SearchInv, QuickInv, A!QuickCall
  PROVE  call' = call /\ pc' = "quick" /\ QuickOn'
  <1>1. /\ call \in ArrayCalls /\ mem = [i \in A!Array |-> i + 1] /\ sort = <<>>
        /\ call' = call /\ mem' = mem /\ sort' = sort
        /\ pc' = "quick" /\ loop' = [low |-> 0, high |-> ArrNr - 1]
    BY CallFacts DEF SearchInv, QuickInv, A!QuickCall
  <1>2. ArrNr \in Nat \ {0} /\ A!Array = 0 .. ArrNr - 1
    BY <1>1, CallFacts
  <1>3. mem \in [A!Array -> 1 .. ArrNr]
    BY <1>1, <1>2
  <1>4. ArrNr' = ArrNr /\ A!Array' = A!Array
    BY <1>1 DEF ArrNr, A!Array, A!Nr, A!key
  <1>5. WithinArray(loop)' /\ Size(loop)' = ArrNr
    BY <1>1, <1>2, <1>4 DEF WithinArray, Size
  <1>6. Len(sort') = 0 /\ sort' = <<>> /\ sort' \in Seq([low : Int, high : Int])
    BY <1>1
  <1>7. Halved'
    BY <1>2, <1>4, <1>5, <1>6, TwoFacts DEF Halved
  <1> QED BY <1>1, <1>3, <1>4, <1>5, <1>6, <1>7 DEF QuickOn, Partitioning

LEMMA QuickStep ==
  ASSUME SearchInv, QuickInv, A!Next
  PROVE  QuickInv'
  <1> SUFFICES ASSUME call'.sort \in A!QuickSorts
               PROVE  /\ pc' \in {"call", "quick", call'.sort, "insert", "done"}
                      /\ pc' \in {"call", "insert", "done"} => sort' = <<>>
                      /\ pc' \in {"quick", call'.sort} => QuickOn'
    BY DEF QuickInv, A!QuickSorts
  <1>1. call' = call /\ call \in ArrayCalls
    <2>1. CASE A!BisectCall \/ A!Bisect
      BY <2>1 DEF SearchInv, A!BisectCall, A!Bisect
    <2> QED BY <2>1, OtherSteps DEF SearchInv
  <1>2. call.sort \in {"hoare", "dijkstra", "bentley"}
    BY <1>1 DEF A!QuickSorts
  <1>3. /\ pc \in {"call", "quick", call.sort, "insert", "done"}
        /\ pc \in {"call", "insert", "done"} => sort = <<>>
        /\ pc \in {"quick", call.sort} => QuickOn
    BY <1>2 DEF QuickInv, A!QuickSorts
  <1>4. CASE A!SortOne
    BY <1>2, <1>3, <1>4 DEF A!SortOne, A!Return
  <1>5. CASE A!QuickCall
    <2>1. pc' = "quick" /\ QuickOn'
      BY <1>5, QuickCallStep
    <2> QED BY <1>1, <1>2, <2>1
  <1>6. CASE A!QuickReturn
    <2>1. QuickOn
      BY <1>3, <1>6 DEF A!QuickReturn
    <2>2. IF sort = <<>> THEN pc' = "insert" /\ sort' = <<>> ELSE pc' = "quick" /\ QuickOn'
      BY <1>1, <1>6, <2>1, QuickReturnStep
    <2> QED BY <1>1, <1>2, <2>2
  <1>7. CASE A!HoareCall
    <2>1. QuickOn /\ call.sort = "hoare"
      BY <1>3, <1>7 DEF A!HoareCall, A!Partition
    <2>2. pc' = "hoare" /\ QuickOn'
      BY <1>1, <1>7, <2>1, HoareCallStep
    <2> QED BY <1>1, <2>1, <2>2
  <1>8. CASE A!Hoare
    <2>1. QuickOn /\ call.sort = "hoare"
      BY <1>2, <1>3, <1>8 DEF A!Hoare
    <2>2. pc' \in {"quick", "hoare"} /\ QuickOn'
      BY <1>1, <1>8, <2>1, HoareStep
    <2> QED BY <1>1, <2>1, <2>2
  <1>9. CASE A!DijkstraCall
    <2>1. QuickOn /\ call.sort = "dijkstra"
      BY <1>3, <1>9 DEF A!DijkstraCall, A!Partition
    <2>2. pc' = "dijkstra" /\ QuickOn'
      BY <1>1, <1>9, <2>1, DijkstraCallStep
    <2> QED BY <1>1, <2>1, <2>2
  <1>10. CASE A!Dijkstra
    <2>1. QuickOn /\ call.sort = "dijkstra"
      BY <1>2, <1>3, <1>10 DEF A!Dijkstra
    <2>2. pc' = "dijkstra" /\ QuickOn'
      BY <1>1, <1>10, <2>1, DijkstraStep
    <2> QED BY <1>1, <2>1, <2>2
  <1>11. CASE A!DijkstraEnds
    <2>1. QuickOn
      BY <1>2, <1>3, <1>11 DEF A!DijkstraEnds
    <2>2. pc' = "quick" /\ QuickOn'
      BY <1>1, <1>11, <2>1, DijkstraEndsStep
    <2> QED BY <1>1, <1>2, <2>2
  <1>12. CASE A!BentleyCall
    <2>1. QuickOn /\ call.sort = "bentley"
      BY <1>3, <1>12 DEF A!BentleyCall, A!Partition
    <2>2. pc' = "bentley" /\ QuickOn'
      BY <1>1, <1>12, <2>1, BentleyCallStep
    <2> QED BY <1>1, <2>1, <2>2
  <1>13. CASE A!Bentley
    <2>1. QuickOn /\ call.sort = "bentley"
      BY <1>2, <1>3, <1>13 DEF A!Bentley
    <2>2. pc' = "bentley" /\ QuickOn'
      BY <1>1, <1>13, <2>1, BentleyStep
    <2> QED BY <1>1, <2>1, <2>2
  <1>14. CASE A!BentleyEnds
    <2>1. QuickOn
      BY <1>2, <1>3, <1>14 DEF A!BentleyEnds
    <2>2. pc' = "quick" /\ QuickOn'
      BY <1>1, <1>14, <2>1, BentleyEndsStep
    <2> QED BY <1>1, <1>2, <2>2
  <1>15. CASE A!Insert
    BY <1>1, <1>2, <1>3, <1>15 DEF A!Insert, A!Return
  <1>16. ASSUME A!BisectCall \/ A!Bisect \/ A!BubbleCall \/ A!Bubble \/ A!SelectCall \/ A!Select
                \/ A!InsertCall
         PROVE  FALSE
    BY <1>2, <1>3, <1>16 DEF A!BisectCall, A!Bisect, A!BubbleCall, A!Bubble, A!SelectCall,
       A!Select, A!InsertCall, A!Enter, A!Called
  <1>17. ASSUME A!MergeCall \/ A!MergeFails \/ A!SplitRun \/ A!OopsortCall \/ A!Oopsort
                \/ A!MergeParts \/ A!MergeRuns \/ A!MergeDone
         PROVE  FALSE
    BY <1>2, <1>3, <1>17 DEF A!MergeCall, A!MergeFails, A!SplitRun, A!OopsortCall, A!Oopsort,
       A!MergeParts, A!MergeRuns, A!MergeDone, A!Doing, A!Called
  <1> QED BY <1>4, <1>5, <1>6, <1>7, <1>8, <1>9, <1>10, <1>11, <1>12, <1>13, <1>14, <1>15,
             <1>16, <1>17 DEF A!Next

-----------------------------------------------------------------------------
(* The merge sort: the areas of the array and of the buffer that its calls *)
(* work on.  It sorts an area of the array into one that it is apart from. *)
Buffer == 2 * Most
Places == A!Array \cup Buffer .. Buffer + (ArrNr - ArrNr \div 2) - 1

Area(from, n) == from .. from + n - 1
Filled(m, from, n) == \A i \in Area(from, n) : m[i] \in Elements

Nr0(t) == t.end0 - t.part0
Nr1(t) == t.end1 - t.part1

SortTasks ==
  {t \in [do : {"sort"}, result : Nat, array : Nat, nr : Nat \ {0}] :
     /\ t.array + t.nr <= ArrNr
     /\ \A i \in Area(t.result, t.nr) : i \in Places
     /\ t.result + t.nr <= t.array \/ t.array + t.nr <= t.result}

(* One of the runs to merge is at the end of where they go, the other one  *)
(* is apart from it.                                                       *)
InShape(t) ==
  \/ /\ t.part1 = t.result + Nr0(t)
     /\ t.end1 <= t.part0 \/ t.end0 <= t.result
  \/ /\ t.part0 = t.result + Nr1(t)
     /\ t.end0 <= t.part1 \/ t.end1 <= t.result

MergeTasks ==
  {t \in [do : {"merge"}, result : Nat, part0 : Nat, end0 : Nat, part1 : Nat, end1 : Nat] :
     /\ t.part0 < t.end0 /\ t.end0 <= ArrNr /\ t.part1 < t.end1
     /\ \A i \in Area(t.result, Nr0(t) + Nr1(t)) : i \in Places
     /\ \A i \in Area(t.part1, Nr1(t)) : i \in Places
     /\ InShape(t)}

Tasks == SortTasks \cup MergeTasks

(* Where a call leaves its result, and where the one that runs still does. *)
Out(t) == IF t.do = "sort" THEN Area(t.result, t.nr) ELSE Area(t.result, Nr0(t) + Nr1(t))

InHand ==
  CASE pc = "oopsort" -> Area(loop.result + loop.i, loop.nr - loop.i)
    [] pc = "merge" -> Area(merge.result, Nr0(merge) + Nr1(merge))
    [] OTHER -> {}

(* The second run of a merge that waits is there, or what it waits for     *)
(* brings it.                                                              *)
Awaited(d) ==
  \A i \in Area(sort[d].part1, Nr1(sort[d])) :
    mem[i] \in Elements \/ i \in InHand \/ \E e \in 1 .. d - 1 : i \in Out(sort[e])

Oopsorting ==
  /\ loop \in [result : Nat, array : Nat, nr : Nat, i : Nat]
  /\ loop.i \in 1 .. loop.nr /\ loop.array + loop.nr <= ArrNr
  /\ \A i \in Area(loop.result, loop.nr) : i \in Places
  /\ Filled(mem, loop.result, loop.i)

MergeOn ==
  /\ DOMAIN mem = Places /\ Filled(mem, 0, ArrNr)
  /\ sort \in Seq(Tasks)
  /\ \A d \in 1 .. Len(sort) : sort[d].do = "merge" => Awaited(d)
  /\ pc = "oopsort" => Oopsorting
  /\ pc = "merge" => merge \in MergeTasks /\ Filled(mem, merge.part1, Nr1(merge))

MergeInv == pc \in {"topdown", "oopsort", "merge"} => MergeOn

(* A search that ends at the latest at a bound. *)
LEMMA ScanUp ==
  ASSUME NEW lo \in Nat, NEW hi \in Nat, lo <= hi, NEW stops
  PROVE  \E p \in lo .. hi : /\ \A i \in lo .. p - 1 : i \notin stops
                             /\ p < hi => p \in stops
  <1> DEFINE T == {i \in lo .. hi : i \in stops \/ i = hi}
  <1>1. PICK p \in T : \A y \in T : p <= y
    <2>1. hi \in T /\ T \subseteq Nat
      OBVIOUS
    <2> HIDE DEF T
    <2> QED BY <2>1, LeastElement
  <1>2. ASSUME NEW i \in lo .. p - 1 PROVE i \notin stops
    <2>1. i \in lo .. hi /\ i \notin T
      BY <1>1
    <2> QED BY <2>1
  <1> QED BY <1>1, <1>2

LEMMA ScanDown ==
  ASSUME NEW lo \in Nat, NEW hi \in Nat, lo <= hi, NEW stops
  PROVE  \E p \in lo .. hi : /\ p = lo \/ p - 1 \in stops
                             /\ \A i \in p .. hi - 1 : i \notin stops
  <1> DEFINE T == {d \in 0 .. hi - lo : d = hi - lo \/ hi - d - 1 \in stops}
  <1>1. PICK d \in T : \A y \in T : d <= y
    <2>1. hi - lo \in T /\ T \subseteq Nat
      OBVIOUS
    <2> HIDE DEF T
    <2> QED BY <2>1, LeastElement
  <1> DEFINE p == hi - d
  <1>2. d \in 0 .. hi - lo /\ p \in lo .. hi
    BY <1>1
  <1>3. ASSUME NEW i \in p .. hi - 1 PROVE i \notin stops
    <2>1. hi - 1 - i \in 0 .. hi - lo /\ hi - 1 - i < d /\ hi - (hi - 1 - i) - 1 = i
      BY <1>2
    <2> DEFINE e == hi - 1 - i
    <2>2. ASSUME i \in stops PROVE e \in T
      <3>1. hi - e - 1 \in stops
        BY <2>1, <2>2
      <3> HIDE DEF e
      <3> QED BY <2>1, <3>1 DEF e
    <2> HIDE DEF T, e
    <2>3. e \in T => d <= e
      BY <1>1
    <2>4. e \in Int /\ e < d /\ d \in Int
      BY <1>2, <2>1 DEF e
    <2> QED BY <2>2, <2>3, <2>4
  <1>4. p = lo \/ p - 1 \in stops
    BY <1>1, <1>2
  <1> QED BY <1>2, <1>3, <1>4

-----------------------------------------------------------------------------
(* Copies. *)
LEMMA PlaceFacts ==
  ASSUME call \in ArrayCalls
  PROVE  /\ ArrNr \in Nat \ {0} /\ Buffer \in Nat /\ ArrNr <= Buffer /\ Places \subseteq Nat
         /\ A!Array = 0 .. ArrNr - 1 /\ \A i \in 0 .. ArrNr - 1 : i \in Places
  <1>1. ArrNr \in Nat \ {0} /\ A!Array = 0 .. ArrNr - 1
    BY CallFacts
  <1>2. Buffer \in Nat /\ ArrNr <= Buffer
    BY ArraysAssumption DEF A!ArraySortAssumption, ArrNr, Buffer
  <1> HIDE DEF Buffer
  <1> QED BY <1>1, <1>2 DEF Places

(* What is filled stays filled. *)
Grown(m, r) ==
  DOMAIN r = Places /\ \A i \in Places : m[i] \in Elements => r[i] \in Elements

LEMMA GrownFilled ==
  ASSUME NEW m, NEW r, Grown(m, r), NEW from \in Int, NEW n \in Int,
         Filled(m, from, n), \A i \in Area(from, n) : i \in Places
  PROVE  Filled(r, from, n)
  BY DEF Grown, Filled

LEMMA GrownTwice ==
  ASSUME NEW m, NEW r, NEW q, Grown(m, r), Grown(r, q)
  PROVE  Grown(m, q)
  BY DEF Grown

LEMMA CopiedFacts ==
  ASSUME NEW m, DOMAIN m = Places, NEW to \in Int, NEW from \in Int, NEW n \in Int,
         Filled(m, from, n)
  PROVE  /\ Grown(m, A!Copied(m, A!Copy(to, from, n)))
         /\ (\A i \in Area(to, n) : i \in Places) => Filled(A!Copied(m, A!Copy(to, from, n)), to, n)
  <1> DEFINE r == A!Copied(m, A!Copy(to, from, n))
  <1>1. r = [i \in Places |-> IF i \in Area(to, n) THEN m[i - to + from] ELSE m[i]]
    BY DEF A!Copied, A!Copy, Area
  <1>2. \A i \in Area(to, n) : i - to + from \in Area(from, n)
    BY DEF Area
  <1> HIDE DEF r
  <1>3. \A i \in Area(to, n) : m[i - to + from] \in Elements
    BY <1>2 DEF Filled
  <1>4. \A i \in Places : (i \in Area(to, n) \/ m[i] \in Elements) => r[i] \in Elements
    BY <1>1, <1>3
  <1>5. DOMAIN r = Places
    BY <1>1
  <1> QED BY <1>4, <1>5 DEF Grown, Filled, r

LEMMA TwoCopies ==
  ASSUME NEW m, NEW c, NEW d
  PROVE  A!AllCopied(m, <<c, d>>) = A!Copied(A!Copied(m, c), d)
  <1> DEFINE s == <<c, d>>
             h == [k \in 0 .. Len(s) |-> IF k = 0 THEN m
                                         ELSE IF k = 1 THEN A!Copied(m, c)
                                         ELSE A!Copied(A!Copied(m, c), d)]
  <1>1. Len(s) = 2 /\ s[1] = c /\ s[2] = d
    OBVIOUS
  <1>2. h[0] = m /\ h[1] = A!Copied(m, c) /\ h[2] = A!Copied(A!Copied(m, c), d)
    BY <1>1
  <1>3. h = [k \in 0 .. Len(s) |-> IF k = 0 THEN m ELSE A!Copied(h[k - 1], s[k])]
    <2>1. ASSUME NEW k \in 0 .. Len(s)
          PROVE  h[k] = IF k = 0 THEN m ELSE A!Copied(h[k - 1], s[k])
      <3>1. k = 0 \/ (k = 1 /\ k - 1 = 0) \/ (k = 2 /\ k - 1 = 1)
        BY <1>1
      <3> HIDE DEF h, s
      <3> QED BY <1>1, <1>2, <3>1
    <2> QED BY <2>1
  <1> DEFINE g == CHOOSE f : f = [k \in 0 .. Len(s) |-> IF k = 0 THEN m ELSE A!Copied(f[k - 1], s[k])]
  <1>4. A!AllCopied(m, s) = g[Len(s)]
    BY DEF A!AllCopied
  <1>5. g = [k \in 0 .. Len(s) |-> IF k = 0 THEN m ELSE A!Copied(g[k - 1], s[k])]
    <2> HIDE DEF h, s
    <2> QED BY <1>3, Zenon
  <1> HIDE DEF g, s
  <1>6. g[0] = m /\ g[1] = A!Copied(g[0], s[1]) /\ g[2] = A!Copied(g[1], s[2])
    <2>1. 0 \in 0 .. Len(s) /\ 1 \in 0 .. Len(s) /\ 2 \in 0 .. Len(s) /\ 1 - 1 = 0 /\ 2 - 1 = 1
      BY <1>1
    <2> QED BY <1>5, <2>1
  <1> QED BY <1>1, <1>4, <1>6 DEF s

LEMMA ThreeCopies ==
  ASSUME NEW m, NEW c, NEW d, NEW e
  PROVE  A!AllCopied(m, <<c, d>> \o <<e>>) = A!Copied(A!Copied(A!Copied(m, c), d), e)
  <1> DEFINE s == <<c, d>> \o <<e>>
             h == [k \in 0 .. Len(s) |-> IF k = 0 THEN m
                                         ELSE IF k = 1 THEN A!Copied(m, c)
                                         ELSE IF k = 2 THEN A!Copied(A!Copied(m, c), d)
                                         ELSE A!Copied(A!Copied(A!Copied(m, c), d), e)]
  <1>1. Len(s) = 3 /\ s[1] = c /\ s[2] = d /\ s[3] = e
    OBVIOUS
  <1>2. /\ h[0] = m /\ h[1] = A!Copied(m, c) /\ h[2] = A!Copied(A!Copied(m, c), d)
        /\ h[3] = A!Copied(A!Copied(A!Copied(m, c), d), e)
    BY <1>1
  <1>3. h = [k \in 0 .. Len(s) |-> IF k = 0 THEN m ELSE A!Copied(h[k - 1], s[k])]
    <2>1. ASSUME NEW k \in 0 .. Len(s)
          PROVE  h[k] = IF k = 0 THEN m ELSE A!Copied(h[k - 1], s[k])
      <3>1. k = 0 \/ (k = 1 /\ k - 1 = 0) \/ (k = 2 /\ k - 1 = 1) \/ (k = 3 /\ k - 1 = 2)
        BY <1>1
      <3> HIDE DEF h, s
      <3> QED BY <1>1, <1>2, <3>1
    <2> QED BY <2>1
  <1> DEFINE g == CHOOSE f : f = [k \in 0 .. Len(s) |-> IF k = 0 THEN m ELSE A!Copied(f[k - 1], s[k])]
  <1>4. A!AllCopied(m, s) = g[Len(s)]
    BY DEF A!AllCopied
  <1>5. g = [k \in 0 .. Len(s) |-> IF k = 0 THEN m ELSE A!Copied(g[k - 1], s[k])]
    <2> HIDE DEF h, s
    <2> QED BY <1>3, Zenon
  <1> HIDE DEF g, s
  <1>6. /\ g[0] = m /\ g[1] = A!Copied(g[0], s[1]) /\ g[2] = A!Copied(g[1], s[2])
        /\ g[3] = A!Copied(g[2], s[3])
    <2>1. /\ 0 \in 0 .. Len(s) /\ 1 \in 0 .. Len(s) /\ 2 \in 0 .. Len(s) /\ 3 \in 0 .. Len(s)
          /\ 1 - 1 = 0 /\ 2 - 1 = 1 /\ 3 - 1 = 2
      BY <1>1
    <2> QED BY <1>5, <2>1
  <1> QED BY <1>1, <1>4, <1>6 DEF s

(* Two runs copied one after the other. *)
LEMMA InTurnFacts ==
  ASSUME NEW m, DOMAIN m = Places, NEW result \in Int,
         NEW from0 \in Int, NEW nr0 \in Nat, Filled(m, from0, nr0),
         NEW from1 \in Int, NEW nr1 \in Nat, Filled(m, from1, nr1),
         \A i \in Area(from1, nr1) : i \in Places,
         \A i \in Area(result, nr0 + nr1) : i \in Places
  PROVE  LET r == A!Copied(A!Copied(m, A!Copy(result, from0, nr0)), A!Copy(result + nr0, from1, nr1))
         IN  Grown(m, r) /\ Filled(r, result, nr0 + nr1)
  <1> DEFINE m1 == A!Copied(m, A!Copy(result, from0, nr0))
             r == A!Copied(m1, A!Copy(result + nr0, from1, nr1))
  <1>1. /\ \A i \in Area(result, nr0) : i \in Places
        /\ \A i \in Area(result + nr0, nr1) : i \in Places
    BY DEF Area
  <1>2. Grown(m, m1) /\ Filled(m1, result, nr0)
    BY <1>1, CopiedFacts
  <1> HIDE DEF m1
  <1>3. DOMAIN m1 = Places /\ Filled(m1, from1, nr1)
    BY <1>2, GrownFilled DEF Grown
  <1> DEFINE to == result + nr0
  <1>4. to \in Int /\ \A i \in Area(to, nr1) : i \in Places
    BY <1>1
  <1>5. r = A!Copied(m1, A!Copy(to, from1, nr1))
    OBVIOUS
  <1> HIDE DEF to, r
  <1>6. Grown(m1, r) /\ Filled(r, to, nr1)
    BY <1>3, <1>4, <1>5, CopiedFacts
  <1>7. Filled(r, result, nr0)
    BY <1>1, <1>2, <1>6, GrownFilled
  <1>8. \A i \in Area(result, nr0 + nr1) : i \in Area(result, nr0) \/ i \in Area(to, nr1)
    BY DEF Area, to
  <1> QED BY <1>2, <1>6, <1>7, <1>8, GrownTwice DEF Filled, r, m1, to

-----------------------------------------------------------------------------
(* What an iteration of a merge takes. *)
LEMMA Compares ==
  ASSUME call \in ArrayCalls, NEW e \in Elements, NEW f \in Elements
  PROVE  Rank(e) \in Int /\ Rank(f) \in Int
  BY CallFacts DEF Elements, Rank

LEMMA TakenFacts ==
  ASSUME call \in ArrayCalls, merge \in MergeTasks,
         Filled(mem, merge.part0, Nr0(merge)), Filled(mem, merge.part1, Nr1(merge))
  PROVE  /\ A!Taken.part0 \in merge.part0 .. merge.end0
         /\ A!Taken.part1 \in merge.part1 .. merge.end1
         /\ A!Taken.part0 = merge.end0 => A!Taken.part1 # merge.end1
  <1> DEFINE p0 == merge.part0
             e0 == merge.end0
             p1 == merge.part1
             e1 == merge.end1
             k(i) == A!At(mem, i)
  <1>1. p0 \in Nat /\ e0 \in Nat /\ p1 \in Nat /\ e1 \in Nat /\ p0 < e0 /\ p1 < e1
    BY DEF MergeTasks
  <1>2. /\ \A i \in p0 .. e0 - 1 : k(i) \in Int
        /\ \A i \in p1 .. e1 - 1 : k(i) \in Int
    <2>1. /\ \A i \in p0 .. e0 - 1 : mem[i] \in Elements
          /\ \A i \in p1 .. e1 - 1 : mem[i] \in Elements
      BY <1>1 DEF Filled, Area, Nr0, Nr1
    <2>2. \A i : k(i) = Rank(mem[i])
      BY CallFacts
    <2> HIDE DEF k
    <2> QED BY <2>1, <2>2, Compares
  <1>3. CASE ~ call.block
    <2>1. A!Taken = A!ElementTaken
      BY <1>3 DEF A!Taken
    <2>2. \/ A!ElementTaken.part0 = p0 + 1 /\ A!ElementTaken.part1 = p1
          \/ A!ElementTaken.part0 = p0 /\ A!ElementTaken.part1 = p1 + 1
      BY DEF A!ElementTaken
    <2> HIDE DEF p0, p1, e0, e1
    <2>3. /\ A!ElementTaken.part0 \in p0 .. e0 /\ A!ElementTaken.part1 \in p1 .. e1
          /\ A!ElementTaken.part0 = e0 => A!ElementTaken.part1 # e1
      BY <1>1, <2>2
    <2> QED BY <2>1, <2>3 DEF p0, p1, e0, e1
  <1>4. CASE call.block
    <2> DEFINE P(p) == /\ \A i \in p0 .. p - 1 : k(i) <= k(p1)
                       /\ p < e0 => k(p) > k(p1)
               end0 == CHOOSE p \in p0 .. e0 : P(p)
               Q(p) == /\ \A i \in p1 .. p - 1 : k(end0) > k(i)
                       /\ p < e1 => k(end0) <= k(p)
               end1 == CHOOSE p \in p1 .. e1 : Q(p)
    <2>1. A!Taken = [part0 |-> end0, part1 |-> IF end0 = e0 THEN p1 ELSE end1]
      BY <1>4 DEF A!Taken, A!BlockTaken
    <2> HIDE DEF k, p0, p1, e0, e1
    <2>2. end0 \in p0 .. e0
      <3>1. \E p \in p0 .. e0 : P(p)
        <4> DEFINE stops == {i \in p0 .. e0 - 1 : ~ (k(i) <= k(p1))}
        <4>1. PICK p \in p0 .. e0 : /\ \A i \in p0 .. p - 1 : i \notin stops
                                    /\ p < e0 => p \in stops
          <5>1. p0 \in Nat /\ e0 \in Nat /\ p0 <= e0
            BY <1>1
          <5> HIDE DEF stops
          <5> QED BY <5>1, ScanUp
        <4>2. k(p1) \in Int
          BY <1>1, <1>2
        <4>3. \A i \in p0 .. p - 1 : k(i) <= k(p1)
          BY <1>1, <4>1
        <4>4. p < e0 => k(p) > k(p1)
          BY <1>1, <1>2, <4>1, <4>2
        <4> QED BY <4>3, <4>4
      <3> HIDE DEF P
      <3> QED BY <3>1
    <2> HIDE DEF end0
    <2>3. end0 # e0 => end1 \in p1 .. e1
      <3> SUFFICES ASSUME end0 # e0 PROVE end1 \in p1 .. e1
        OBVIOUS
      <3>1. k(end0) \in Int
        BY <1>1, <1>2, <2>2
      <3>2. \E p \in p1 .. e1 : Q(p)
        <4> DEFINE stops == {i \in p1 .. e1 - 1 : ~ (k(end0) > k(i))}
        <4>1. PICK p \in p1 .. e1 : /\ \A i \in p1 .. p - 1 : i \notin stops
                                    /\ p < e1 => p \in stops
          <5>1. p1 \in Nat /\ e1 \in Nat /\ p1 <= e1
            BY <1>1
          <5> HIDE DEF stops
          <5> QED BY <5>1, ScanUp
        <4>2. \A i \in p1 .. p - 1 : k(end0) > k(i)
          BY <1>1, <4>1
        <4>3. p < e1 => k(end0) <= k(p)
          BY <1>1, <1>2, <3>1, <4>1
        <4> QED BY <4>2, <4>3
      <3> HIDE DEF Q
      <3> QED BY <3>2
    <2> HIDE DEF end1
    <2>4. (IF end0 = e0 THEN p1 ELSE end1) \in p1 .. e1
      BY <1>1, <2>3
    <2>5. end0 = e0 => (IF end0 = e0 THEN p1 ELSE end1) # e1
      BY <1>1
    <2> QED BY <2>1, <2>2, <2>4, <2>5 DEF p0, p1, e0, e1
  <1> QED BY <1>3, <1>4

(* An element inserted in order among those before it. *)
LEMMA InsertedFacts ==
  ASSUME call \in ArrayCalls, NEW m, DOMAIN m = Places,
         NEW from \in Nat, NEW n \in Nat \ {0}, NEW x, m[x] \in Elements,
         Filled(m, from, n), \A i \in Area(from, n + 1) : i \in Places
  PROVE  /\ Grown(m, A!OutOfPlace(m, from, from + n, x))
         /\ Filled(A!OutOfPlace(m, from, from + n, x), from, n + 1)
  <1> DEFINE last == from + n
             e == m[x]
             P(p) == /\ \A i \in p .. last - 1 : A!key[e] < A!At(m, i)
                     /\ p > from => A!key[e] >= A!At(m, p - 1)
             p == CHOOSE q \in from .. last : P(q)
             r == A!OutOfPlace(m, from, last, x)
  <1>1. last \in Nat /\ from < last
    OBVIOUS
  <1>2. \A i \in from .. last - 1 : m[i] \in Elements
    BY DEF Filled, Area
  <1>3. /\ A!key[e] \in Int
        /\ \A i \in from .. last - 1 : A!At(m, i) \in Int
    <2>1. A!key[e] = Rank(e) /\ \A i : A!At(m, i) = Rank(m[i])
      BY CallFacts
    <2> HIDE DEF last
    <2> QED BY <1>2, <2>1, Compares
  <1>4. r = [i \in Places |-> CASE i = p -> e
                                [] i \in p + 1 .. last -> m[i - 1]
                                [] OTHER -> m[i]]
    BY DEF A!OutOfPlace, A!Inserted, A!Place
  <1> HIDE DEF last, e
  <1>5. p \in from .. last
    <2>1. \E q \in from .. last : P(q)
      <3> DEFINE stops == {i \in from .. last - 1 : ~ (A!key[e] < A!At(m, i))}
      <3>1. PICK q \in from .. last : /\ q = from \/ q - 1 \in stops
                                      /\ \A i \in q .. last - 1 : i \notin stops
        <4>1. from \in Nat /\ last \in Nat /\ from <= last
          BY <1>1
        <4> HIDE DEF stops
        <4> QED BY <4>1, ScanDown
      <3>2. \A i \in q .. last - 1 : A!key[e] < A!At(m, i)
        BY <1>1, <3>1
      <3>3. q > from => A!key[e] >= A!At(m, q - 1)
        BY <1>1, <1>3, <3>1
      <3> QED BY <3>2, <3>3
    <2> HIDE DEF P
    <2> QED BY <2>1
  <1> HIDE DEF p, r
  <1>6. ASSUME NEW i \in Places, m[i] \in Elements \/ i \in from .. last
        PROVE  r[i] \in Elements
    <2>1. CASE i = p
      BY <1>4, <2>1 DEF e
    <2>2. CASE i # p /\ i \in p + 1 .. last
      <3>1. i - 1 \in from .. last - 1
        BY <1>1, <1>5, <2>2
      <3>2. r[i] = m[i - 1]
        BY <1>4, <2>2
      <3> QED BY <1>2, <3>1, <3>2
    <2>3. CASE i # p /\ i \notin p + 1 .. last
      <3>1. r[i] = m[i]
        BY <1>4, <2>3
      <3>2. i \in from .. last => i \in from .. last - 1
        BY <1>1, <1>5, <2>3
      <3> QED BY <1>2, <1>6, <3>1, <3>2
    <2> QED BY <2>1, <2>2, <2>3
  <1>7. DOMAIN r = Places
    BY <1>4
  <1>8. \A i \in Area(from, n + 1) : i \in from .. last
    BY DEF Area, last
  <1> QED BY <1>6, <1>7, <1>8 DEF Grown, Filled, r, last

-----------------------------------------------------------------------------
(* What is kept while the memory fills. *)
LEMMA AwaitedKept ==
  ASSUME MergeOn, call' = call, sort' = sort, Grown(mem, mem'),
         \A i \in InHand : mem'[i] \in Elements \/ i \in InHand'
  PROVE  \A d \in 1 .. Len(sort) : sort[d].do = "merge" => Awaited(d)'
  <1> SUFFICES ASSUME NEW d \in 1 .. Len(sort), sort[d].do = "merge",
                      NEW i \in Area(sort[d].part1, Nr1(sort[d]))
               PROVE  \/ mem'[i] \in Elements \/ i \in InHand'
                      \/ \E e \in 1 .. d - 1 : i \in Out(sort[e])
    BY DEF Awaited, Elements, ArrNr, Area, Nr1, Out, Nr0
  <1>1. Awaited(d)
    BY DEF MergeOn
  <1>2. i \in Places
    <2>1. sort[d] \in Tasks /\ sort[d].do = "merge"
      BY DEF MergeOn
    <2> QED BY <2>1 DEF Tasks, SortTasks, MergeTasks
  <1>3. mem[i] \in Elements => mem'[i] \in Elements
    BY <1>2 DEF Grown
  <1> QED BY <1>1, <1>3 DEF Awaited

(* The same when the first call that waits is taken out to run. *)
LEMMA AwaitedNext ==
  ASSUME MergeOn, call' = call, sort # <<>>, sort' = Tail(sort), Grown(mem, mem'), InHand = {},
         \A i \in Out(Head(sort)) : mem'[i] \in Elements \/ i \in InHand'
  PROVE  /\ sort' \in Seq(Tasks)
         /\ \A d \in 1 .. Len(sort') : sort'[d].do = "merge" => Awaited(d)'
  <1>1. /\ sort \in Seq(Tasks) /\ Len(sort) \in Nat \ {0} /\ Head(sort) = sort[1]
        /\ sort' \in Seq(Tasks) /\ Len(sort') = Len(sort) - 1
        /\ \A d \in 1 .. Len(sort) - 1 : sort'[d] = sort[d + 1]
    BY DEF MergeOn
  <1> SUFFICES ASSUME NEW d \in 1 .. Len(sort'), sort'[d].do = "merge",
                      NEW i \in Area(sort'[d].part1, Nr1(sort'[d]))
               PROVE  \/ mem'[i] \in Elements \/ i \in InHand'
                      \/ \E e \in 1 .. d - 1 : i \in Out(sort'[e])
    <2>1. Elements' = Elements
      BY DEF Elements, ArrNr
    <2> QED BY <1>1, <2>1 DEF Awaited, Area, Nr1
  <1>2. d \in Nat /\ d + 1 \in 1 .. Len(sort) /\ sort'[d] = sort[d + 1]
    BY <1>1
  <1>3. Awaited(d + 1)
    BY <1>2 DEF MergeOn
  <1>4. i \in Places
    <2>1. sort[d + 1] \in Tasks /\ sort[d + 1].do = "merge"
      BY <1>1, <1>2
    <2> QED BY <1>2, <2>1 DEF Tasks, SortTasks, MergeTasks
  <1>5. mem[i] \in Elements => mem'[i] \in Elements
    BY <1>4 DEF Grown
  <1>6. mem[i] \in Elements \/ \E e \in 1 .. d : i \in Out(sort[e])
    BY <1>2, <1>3 DEF Awaited
  <1>7. ASSUME NEW e \in 1 .. d, i \in Out(sort[e])
        PROVE  \/ mem'[i] \in Elements \/ i \in InHand'
               \/ \E f \in 1 .. d - 1 : i \in Out(sort'[f])
    <2>1. CASE e = 1
      BY <1>1, <1>7, <2>1
    <2>2. CASE e # 1
      <3>1. e - 1 \in 1 .. d - 1 /\ e - 1 \in 1 .. Len(sort) - 1 /\ e - 1 + 1 = e
        BY <1>1, <1>2, <2>2
      <3>2. sort'[e - 1] = sort[e]
        BY <1>1, <3>1
      <3> QED BY <1>7, <3>1, <3>2
    <2> QED BY <2>1, <2>2
  <1> QED BY <1>5, <1>6, <1>7

-----------------------------------------------------------------------------
(* The steps of the merge sort. *)
LEMMA PushedFacts ==
  ASSUME NEW X, NEW a \in X, NEW b \in X, NEW c \in X, NEW q \in Seq(X)
  PROVE  LET s == <<a, b, c>> \o q
         IN  /\ s \in Seq(X) /\ Len(s) = Len(q) + 3
             /\ s[1] = a /\ s[2] = b /\ s[3] = c
             /\ \A i \in 1 .. Len(q) : s[i + 3] = q[i]
  OBVIOUS

(* The halves of what is to be sorted, and their merge, fit in its place.  *)
LEMMA SplitFacts ==
  ASSUME call \in ArrayCalls, NEW t \in SortTasks, t.nr > Threshold
  PROVE  LET u == A!Upper(t)
             l == A!Lower(t)
             m == A!Merge(t.result, l, u)
         IN  /\ u \in SortTasks /\ l \in SortTasks /\ m \in MergeTasks
             /\ Out(m) = Out(t) /\ Area(m.part1, Nr1(m)) = Out(u)
  <1> DEFINE r == t.result
             a == t.array
             n == t.nr
             h == n \div 2
             u == A!Upper(t)
             l == A!Lower(t)
             m == A!Merge(r, l, u)
  <1>1. /\ r \in Nat /\ a \in Nat /\ n \in Nat /\ t.do = "sort"
        /\ a + n <= ArrNr /\ (r + n <= a \/ a + n <= r)
        /\ \A i \in Area(r, n) : i \in Places
    BY DEF SortTasks
  <1>2. h \in Nat /\ 1 <= h /\ h < n /\ h <= n - h
    BY <1>1, CallFacts
  <1>3. /\ u = [do |-> "sort", result |-> r + h, array |-> a + h, nr |-> n - h]
        /\ l = [do |-> "sort", result |-> (a + n) - h, array |-> a, nr |-> h]
    <2>1. a + n - h = (a + n) - h
      BY <1>1, <1>2
    <2> QED BY <2>1 DEF A!Upper, A!Lower, A!Half, A!Sort
  <1>4. m = [do |-> "merge", result |-> r, part0 |-> (a + n) - h, end0 |-> a + n,
             part1 |-> r + h, end1 |-> r + n]
    <2>1. (a + n) - h + h = a + n /\ r + h + (n - h) = r + n
      BY <1>1, <1>2
    <2> HIDE DEF h, r, a, n, u, l
    <2> QED BY <1>3, <2>1 DEF A!Merge, m
  <1> HIDE DEF h, r, a, n, u, l, m
  <1>5. ArrNr \in Nat /\ \A i \in 0 .. ArrNr - 1 : i \in Places
    BY PlaceFacts
  <1>6. u \in SortTasks
    <2>1. \A i \in Area(r + h, n - h) : i \in Places
      BY <1>1, <1>2 DEF Area
    <2>2. /\ r + h \in Nat /\ a + h \in Nat /\ n - h \in Nat \ {0}
          /\ (a + h) + (n - h) <= ArrNr
          /\ (r + h) + (n - h) <= a + h \/ (a + h) + (n - h) <= r + h
      BY <1>1, <1>2, <1>5
    <2> QED BY <1>3, <2>1, <2>2 DEF SortTasks
  <1>7. l \in SortTasks
    <2>1. \A i \in Area((a + n) - h, h) : i \in Places
      BY <1>1, <1>2, <1>5 DEF Area
    <2>2. /\ (a + n) - h \in Nat /\ h \in Nat \ {0} /\ a + h <= ArrNr
          /\ a + h <= (a + n) - h
      BY <1>1, <1>2, <1>5
    <2> QED BY <1>1, <1>3, <2>1, <2>2 DEF SortTasks
  <1>8. Nr0(m) = h /\ Nr1(m) = n - h
    BY <1>1, <1>2, <1>4 DEF Nr0, Nr1
  <1>9. h + (n - h) = n
    BY <1>1, <1>2
  <1>10. Out(m) = Area(r, n) /\ Out(t) = Area(r, n) /\ Area(m.part1, Nr1(m)) = Out(u)
    BY <1>1, <1>3, <1>4, <1>8, <1>9 DEF Out, r, n
  <1>11. m \in MergeTasks
    <2>1. \A i \in Area(r + h, n - h) : i \in Places
      BY <1>1, <1>2 DEF Area
    <2>2. /\ (a + n) - h \in Nat /\ a + n \in Nat /\ r + h \in Nat /\ r + n \in Nat
          /\ (a + n) - h < a + n /\ r + h < r + n
      BY <1>1, <1>2
    <2>3. InShape(m)
      <3>1. r + n <= (a + n) - h \/ a + n <= r
        BY <1>1, <1>2
      <3>2. m.part1 = m.result + Nr0(m) /\ m.end1 = r + n /\ m.part0 = (a + n) - h
            /\ m.end0 = a + n /\ m.result = r
        BY <1>4, <1>8
      <3> QED BY <3>1, <3>2 DEF InShape
    <2>4. \A i \in Area(m.result, Nr0(m) + Nr1(m)) : i \in Places
      BY <1>1, <1>4, <1>8, <1>9
    <2>5. \A i \in Area(m.part1, Nr1(m)) : i \in Places
      BY <1>4, <1>8, <2>1
    <2>6. /\ m \in [do : {"merge"}, result : Nat, part0 : Nat, end0 : Nat, part1 : Nat, end1 : Nat]
          /\ m.part0 < m.end0 /\ m.end0 <= ArrNr /\ m.part1 < m.end1
      BY <1>1, <1>4, <2>2
    <2> QED BY <2>3, <2>4, <2>5, <2>6 DEF MergeTasks
  <1> QED BY <1>6, <1>7, <1>10, <1>11 DEF u, l, m, r

LEMMA MergeCallStep ==
  ASSUME SearchInv, A!MergeCall
  PROVE  MergeOn'
  <1> DEFINE n == ArrNr
             h == n \div 2
             u == A!Sort(Buffer, h, n - h)
             l == A!Sort(n - h, 0, h)
             m == A!Merge(0, l, u)
  <1>1. /\ call \in ArrayCalls /\ call' = call /\ pc' = "topdown"
        /\ mem = [i \in 0 .. n - 1 |-> i + 1] /\ n \in Nat /\ n > 1
    BY CallFacts DEF A!MergeCall, A!Called, SearchInv
  <1>2. n' = n /\ Buffer' = Buffer
    BY <1>1 DEF ArrNr, Buffer
  <1>3. h \in Nat /\ 1 <= h /\ h < n
    BY <1>1
  <1>4. /\ Buffer \in Nat /\ n <= Buffer /\ A!Array = 0 .. n - 1
        /\ Places = A!Array \cup Buffer .. (Buffer + (n - h)) - 1
        /\ \A i \in 0 .. n - 1 : i \in Places
    <2>1. Buffer + (n - h) - 1 = (Buffer + (n - h)) - 1
      BY <1>1, <1>3, PlaceFacts
    <2> QED BY <1>1, <2>1, PlaceFacts DEF Places
  <1>5. /\ mem' = [i \in A!Array \cup Buffer .. (Buffer + (n - h)) - 1 |->
                     IF i \in A!Array THEN mem[i] ELSE None]
        /\ sort' = <<u, l, m>>
    <2>1. Buffer + (n - h) - 1 = (Buffer + (n - h)) - 1
      BY <1>1, <1>3, <1>4
    <2> QED BY <1>1, <2>1, CallFacts DEF A!MergeCall, A!Sort, Buffer
  <1> HIDE DEF h
  <1>6. mem' = [i \in Places |-> IF i \in A!Array THEN mem[i] ELSE None]
    BY <1>4, <1>5
  <1>7. /\ u = [do |-> "sort", result |-> Buffer, array |-> h, nr |-> n - h]
        /\ l = [do |-> "sort", result |-> n - h, array |-> 0, nr |-> h]
    BY DEF A!Sort
  <1> HIDE DEF u, l
  <1>8. m = [do |-> "merge", result |-> 0, part0 |-> n - h, end0 |-> n,
             part1 |-> Buffer, end1 |-> Buffer + (n - h)]
    <2>1. n - h + h = n
      BY <1>1, <1>3
    <2> QED BY <1>7, <2>1 DEF A!Merge
  <1> HIDE DEF m, n
  <1>9. Places' = Places /\ Elements' = Elements /\ SortTasks' = SortTasks /\ MergeTasks' = MergeTasks
    BY <1>1, <1>2 DEF Places, A!Array, A!Nr, A!key, Elements, SortTasks, MergeTasks, InShape,
       Area, Nr0, Nr1, n
  <1>10. DOMAIN mem' = Places /\ \A i \in 0 .. n - 1 : mem'[i] \in Elements
    <2>1. \A i \in 0 .. n - 1 : mem'[i] = i + 1
      BY <1>1, <1>4, <1>6
    <2>2. \A i \in 0 .. n - 1 : i + 1 \in Elements
      BY <1>1 DEF Elements, n
    <2> QED BY <1>6, <2>1, <2>2
  <1>11. \A i \in Area(Buffer, n - h) : i \in Places
    BY <1>1, <1>3, <1>4 DEF Area
  <1>12. u \in SortTasks
    <2>1. Buffer \in Nat /\ h \in Nat /\ n - h \in Nat \ {0} /\ h + (n - h) <= n
          /\ h + (n - h) <= Buffer
      BY <1>1, <1>3, <1>4
    <2> QED BY <1>7, <1>11, <2>1 DEF SortTasks, n
  <1>13. l \in SortTasks
    <2>1. n - h \in Nat /\ 0 \in Nat /\ h \in Nat \ {0} /\ 0 + h <= n /\ 0 + h <= n - h
      BY <1>1, <1>3 DEF h
    <2>2. \A i \in Area(n - h, h) : i \in Places
      BY <1>1, <1>3, <1>4 DEF Area
    <2> QED BY <1>7, <2>1, <2>2 DEF SortTasks, n
  <1>14. Nr0(m) = h /\ Nr1(m) = n - h /\ h + (n - h) = n
    BY <1>1, <1>3, <1>4, <1>8 DEF Nr0, Nr1
  <1>15. m \in MergeTasks
    <2>1. \A i \in Area(m.result, Nr0(m) + Nr1(m)) : i \in Places
      BY <1>1, <1>4, <1>8, <1>14 DEF Area
    <2>2. \A i \in Area(m.part1, Nr1(m)) : i \in Places
      BY <1>8, <1>11, <1>14
    <2>3. InShape(m)
      BY <1>1, <1>3, <1>4, <1>8, <1>14 DEF InShape
    <2>4. /\ m \in [do : {"merge"}, result : Nat, part0 : Nat, end0 : Nat, part1 : Nat, end1 : Nat]
          /\ m.part0 < m.end0 /\ m.end0 <= n /\ m.part1 < m.end1
      BY <1>1, <1>3, <1>4, <1>8
    <2> QED BY <2>1, <2>2, <2>3, <2>4 DEF MergeTasks, n
  <1>16. sort' \in Seq(Tasks)
    BY <1>5, <1>12, <1>13, <1>15 DEF Tasks
  <1>17. ASSUME NEW d \in 1 .. Len(sort'), sort'[d].do = "merge"
         PROVE  Awaited(d)'
    <2>1. Len(sort') = 3 /\ sort'[1] = u /\ sort'[2] = l /\ sort'[3] = m
      BY <1>5
    <2>2. d = 3
      BY <1>7, <1>17, <2>1
    <2>3. Area(m.part1, Nr1(m)) = Out(u)
      BY <1>7, <1>8, <1>14 DEF Out
    <2>4. \A i \in Area(m.part1, Nr1(m)) : \E e \in 1 .. d - 1 : i \in Out(sort'[e])
      BY <2>1, <2>2, <2>3
    <2> QED BY <2>1, <2>2, <2>4 DEF Awaited, Area, Nr1, Out, Nr0
  <1>18. Filled(mem, 0, ArrNr)' /\ (DOMAIN mem = Places)'
    <2>1. \A i \in Area(0, n) : i \in 0 .. n - 1
      BY <1>1 DEF Area
    <2>2. \A i \in Area(0, n) : mem'[i] \in Elements
      BY <1>10, <2>1
    <2> QED BY <1>2, <1>9, <1>10, <2>2 DEF Filled, Area, n
  <1>19. sort' \in Seq(Tasks)'
    BY <1>9, <1>16 DEF Tasks
  <1> QED BY <1>1, <1>17, <1>18, <1>19 DEF MergeOn

LEMMA SameCall ==
  ASSUME call' = call
  PROVE  /\ ArrNr' = ArrNr /\ Places' = Places /\ Elements' = Elements
         /\ SortTasks' = SortTasks /\ MergeTasks' = MergeTasks /\ Tasks' = Tasks
  <1>1. ArrNr' = ArrNr /\ Places' = Places /\ Elements' = Elements
    BY DEF Places, Buffer, ArrNr, A!Array, A!Nr, A!key, Elements
  <1>2. SortTasks' = SortTasks /\ MergeTasks' = MergeTasks
    BY <1>1 DEF SortTasks, MergeTasks, InShape, Area, Nr0, Nr1
  <1> QED BY <1>1, <1>2 DEF Tasks

LEMMA SplitRunStep ==
  ASSUME call \in ArrayCalls, MergeOn, A!SplitRun
  PROVE  MergeOn'
  <1> DEFINE t == Head(sort)
             u == A!Upper(t)
             l == A!Lower(t)
             m == A!Merge(t.result, l, u)
             q == Tail(sort)
  <1>1. /\ pc = "topdown" /\ pc' = "topdown" /\ sort # <<>> /\ t.do = "sort" /\ t.nr > Threshold
        /\ sort' = <<u, l, m>> \o q
        /\ call' = call /\ mem' = mem
    BY DEF A!SplitRun, A!Doing
  <1> HIDE DEF u, l, m
  <1>2. sort \in Seq(Tasks)
    BY DEF MergeOn
  <1>3. /\ Len(sort) \in Nat \ {0} /\ t = sort[1] /\ t \in Tasks
        /\ q \in Seq(Tasks) /\ Len(q) = Len(sort) - 1
        /\ \A d \in 1 .. Len(sort) - 1 : q[d] = sort[d + 1]
    BY <1>1, <1>2
  <1> HIDE DEF t, q
  <1>4. t \in SortTasks
    BY <1>1, <1>3 DEF Tasks, MergeTasks
  <1>5. /\ u \in SortTasks /\ l \in SortTasks /\ m \in MergeTasks
        /\ Out(m) = Out(t) /\ Area(m.part1, Nr1(m)) = Out(u)
    BY <1>1, <1>4, SplitFacts DEF u, l, m
  <1>6. /\ sort' \in Seq(Tasks) /\ Len(sort') = Len(sort) + 2
        /\ sort'[1] = u /\ sort'[2] = l /\ sort'[3] = m
        /\ \A d \in 1 .. Len(sort) - 1 : sort'[d + 3] = sort[d + 1]
    <2>1. u \in Tasks /\ l \in Tasks /\ m \in Tasks
      BY <1>5 DEF Tasks
    <2> QED BY <1>1, <1>3, <2>1, PushedFacts
  <1>7. InHand = {}
    BY <1>1 DEF InHand
  <1>8. ASSUME NEW d \in 1 .. Len(sort'), sort'[d].do = "merge",
               NEW i \in Area(sort'[d].part1, Nr1(sort'[d]))
        PROVE  mem[i] \in Elements \/ \E e \in 1 .. d - 1 : i \in Out(sort'[e])
    <2>1. CASE d \in {1, 2}
      BY <1>5, <1>6, <1>8, <2>1 DEF SortTasks
    <2>2. CASE d = 3
      BY <1>5, <1>6, <1>8, <2>2
    <2>3. CASE d \notin {1, 2, 3}
      <3>1. d - 3 \in 1 .. Len(sort) - 1 /\ d - 3 + 1 = d - 2 /\ d - 3 + 3 = d
            /\ d - 2 \in 1 .. Len(sort)
        BY <1>3, <1>6, <2>3
      <3>2. sort'[d] = sort[d - 2]
        BY <1>6, <3>1
      <3>3. Awaited(d - 2)
        BY <1>8, <3>1, <3>2 DEF MergeOn
      <3>4. mem[i] \in Elements \/ \E e \in 1 .. d - 2 - 1 : i \in Out(sort[e])
        BY <1>7, <1>8, <3>2, <3>3 DEF Awaited
      <3>5. ASSUME NEW e \in 1 .. d - 2 - 1, i \in Out(sort[e])
            PROVE  \E f \in 1 .. d - 1 : i \in Out(sort'[f])
        <4>1. CASE e = 1
          <5>1. 3 \in 1 .. d - 1 /\ i \in Out(sort'[3])
            BY <1>3, <1>5, <1>6, <2>3, <3>5, <4>1
          <5> QED BY <5>1
        <4>2. CASE e # 1
          <5>1. e - 1 \in 1 .. Len(sort) - 1 /\ e - 1 + 1 = e /\ e - 1 + 3 = e + 2
                /\ e + 2 \in 1 .. d - 1
            BY <3>1, <4>2
          <5>2. sort'[e + 2] = sort[e]
            BY <1>6, <5>1
          <5> QED BY <3>5, <5>1, <5>2
        <4> QED BY <4>1, <4>2
      <3> QED BY <3>4, <3>5
    <2> QED BY <2>1, <2>2, <2>3
  <1>9. \A d \in 1 .. Len(sort') : sort'[d].do = "merge" => Awaited(d)'
    <2>1. \A d : Area(sort'[d].part1, Nr1(sort'[d])) = Area(sort[d].part1, Nr1(sort[d]))'
      BY DEF Area, Nr1
    <2>2. \A e : Out(sort'[e]) = Out(sort[e])'
      BY DEF Out, Area, Nr0, Nr1
    <2> QED BY <1>1, <1>8, <2>1, <2>2, SameCall DEF Awaited
  <1>10. (DOMAIN mem = Places)' /\ Filled(mem, 0, ArrNr)'
    BY <1>1, SameCall DEF MergeOn, Filled, Area
  <1> QED BY <1>1, <1>6, <1>9, <1>10, SameCall DEF MergeOn

LEMMA OopsortCallStep ==
  ASSUME call \in ArrayCalls, MergeOn, A!OopsortCall
  PROVE  MergeOn'
  <1> DEFINE t == Head(sort)
             r == t.result
             a == t.array
             n == t.nr
             m == A!Copied(mem, A!Copy(r, a, 1))
  <1>1. /\ pc = "topdown" /\ pc' = "oopsort" /\ sort # <<>> /\ t.do = "sort"
        /\ mem' = m /\ loop' = [result |-> r, array |-> a, nr |-> n, i |-> 1]
        /\ sort' = Tail(sort) /\ call' = call
    BY DEF A!OopsortCall, A!Doing
  <1>2. t \in SortTasks
    BY <1>1 DEF MergeOn, Tasks, MergeTasks
  <1> HIDE DEF t
  <1>3. /\ r \in Nat /\ a \in Nat /\ n \in Nat \ {0} /\ a + n <= ArrNr
        /\ \A i \in Area(r, n) : i \in Places
    BY <1>2 DEF SortTasks
  <1> HIDE DEF r, a, n
  <1>4. DOMAIN mem = Places /\ Filled(mem, 0, ArrNr) /\ ArrNr \in Nat
    BY PlaceFacts DEF MergeOn
  <1>5. Filled(mem, a, 1)
    BY <1>3, <1>4 DEF Filled, Area
  <1>6. Area(r, 1) \subseteq Area(r, n)
    BY <1>3 DEF Area
  <1>7. Grown(mem, m) /\ Filled(m, r, 1)
    BY <1>3, <1>4, <1>5, <1>6, CopiedFacts
  <1> HIDE DEF m
  <1>8. InHand = {} /\ InHand' = Area(r + 1, n - 1)
    BY <1>1 DEF InHand, Area
  <1>9. Out(t) = Area(r, n)
    BY <1>1 DEF Out, r, n
  <1>10. \A i \in Out(t) : mem'[i] \in Elements \/ i \in InHand'
    <2>1. \A i \in Area(r, n) : i \in Area(r, 1) \/ i \in Area(r + 1, n - 1)
      BY <1>3 DEF Area
    <2> QED BY <1>1, <1>7, <1>8, <1>9, <2>1 DEF Filled
  <1>11. /\ sort' \in Seq(Tasks)
         /\ \A d \in 1 .. Len(sort') : sort'[d].do = "merge" => Awaited(d)'
    BY <1>1, <1>7, <1>8, <1>10, AwaitedNext DEF t
  <1>12. (DOMAIN mem = Places)' /\ Filled(mem, 0, ArrNr)'
    <2>1. \A i \in Area(0, ArrNr) : i \in Places
      BY PlaceFacts DEF Area
    <2>2. DOMAIN m = Places /\ Filled(m, 0, ArrNr)
      BY <1>4, <1>7, <2>1, GrownFilled DEF Grown
    <2> QED BY <1>1, <2>2, SameCall DEF Filled, Area
  <1>13. Oopsorting'
    <2>1. /\ loop' \in [result : Nat, array : Nat, nr : Nat, i : Nat]
          /\ loop'.i \in 1 .. loop'.nr /\ loop'.array + loop'.nr <= ArrNr
      BY <1>1, <1>3
    <2>2. (\A i \in Area(loop.result, loop.nr) : i \in Places)'
      BY <1>1, <1>3, SameCall DEF Area
    <2>3. Filled(mem, loop.result, loop.i)'
      BY <1>1, <1>7, SameCall DEF Filled, Area
    <2> QED BY <1>1, <2>1, <2>2, <2>3, SameCall DEF Oopsorting
  <1> QED BY <1>1, <1>11, <1>12, <1>13, SameCall DEF MergeOn

LEMMA OopsortStep ==
  ASSUME call \in ArrayCalls, MergeOn, A!Oopsort
  PROVE  MergeOn' /\ pc' \in {"oopsort", "topdown"}
  <1> DEFINE r == loop.result
             a == loop.array
             n == loop.nr
             k == loop.i
             m == A!OutOfPlace(mem, r, r + k, a + k)
  <1>1. /\ pc = "oopsort" /\ call' = call /\ sort' = sort
        /\ IF k < n THEN mem' = m /\ loop' = [loop EXCEPT !.i = k + 1] /\ pc' = pc
                    ELSE pc' = "topdown" /\ mem' = mem
    BY DEF A!Oopsort
  <1>2. /\ Oopsorting /\ DOMAIN mem = Places /\ Filled(mem, 0, ArrNr) /\ sort \in Seq(Tasks)
        /\ ArrNr \in Nat /\ \A i \in Area(0, ArrNr) : i \in Places
    BY <1>1, PlaceFacts DEF MergeOn, Area
  <1>3. /\ loop \in [result : Nat, array : Nat, nr : Nat, i : Nat]
        /\ r \in Nat /\ a \in Nat /\ n \in Nat /\ k \in Nat \ {0} /\ k <= n /\ a + n <= ArrNr
        /\ (\A i \in Area(r, n) : i \in Places) /\ Filled(mem, r, k)
    BY <1>2 DEF Oopsorting
  <1>4. InHand = Area(r + k, n - k)
    BY <1>1 DEF InHand
  <1>5. CASE k < n
    <2>1. /\ mem' = m /\ pc' = "oopsort"
          /\ loop' = [result |-> r, array |-> a, nr |-> n, i |-> k + 1]
      BY <1>1, <1>3, <1>5
    <2> HIDE DEF r, a, n, k
    <2>2. Grown(mem, m) /\ Filled(m, r, k + 1)
      <3>1. mem[a + k] \in Elements
        BY <1>2, <1>3, <1>5 DEF Filled, Area
      <3>2. \A i \in Area(r, k + 1) : i \in Places
        BY <1>3, <1>5 DEF Area
      <3>3. a + k \in Nat
        BY <1>3
      <3> DEFINE x == a + k
      <3> HIDE DEF x
      <3>4. /\ Grown(mem, A!OutOfPlace(mem, r, r + k, x))
            /\ Filled(A!OutOfPlace(mem, r, r + k, x), r, k + 1)
        BY <1>2, <1>3, <3>1, <3>2, InsertedFacts DEF x
      <3> QED BY <3>4 DEF x
    <2> HIDE DEF m
    <2>3. InHand' = Area(r + (k + 1), n - (k + 1))
      BY <2>1 DEF InHand, Area
    <2>4. \A i \in InHand : mem'[i] \in Elements \/ i \in InHand'
      <3>1. \A i \in Area(r + k, n - k) :
              i \in Area(r, k + 1) \/ i \in Area(r + (k + 1), n - (k + 1))
        BY <1>3, <1>5 DEF Area
      <3> QED BY <1>4, <2>1, <2>2, <2>3, <3>1 DEF Filled
    <2>5. \A d \in 1 .. Len(sort) : sort[d].do = "merge" => Awaited(d)'
      BY <1>1, <2>1, <2>2, <2>4, AwaitedKept
    <2>6. (DOMAIN mem = Places)' /\ Filled(mem, 0, ArrNr)'
      <3>1. DOMAIN m = Places /\ Filled(m, 0, ArrNr)
        BY <1>2, <2>2, GrownFilled DEF Grown
      <3> QED BY <1>1, <2>1, <3>1, SameCall DEF Filled, Area
    <2>7. Oopsorting'
      <3>1. /\ loop' \in [result : Nat, array : Nat, nr : Nat, i : Nat]
            /\ loop'.i \in 1 .. loop'.nr /\ loop'.array + loop'.nr <= ArrNr
        BY <1>3, <1>5, <2>1
      <3>2. (\A i \in Area(loop.result, loop.nr) : i \in Places)'
        BY <1>1, <1>3, <2>1, SameCall DEF Area
      <3>3. Filled(mem, loop.result, loop.i)'
        BY <1>1, <2>1, <2>2, SameCall DEF Filled, Area
      <3> QED BY <1>1, <3>1, <3>2, <3>3, SameCall DEF Oopsorting
    <2> QED BY <1>1, <1>2, <2>1, <2>5, <2>6, <2>7, SameCall DEF MergeOn
  <1>6. CASE ~ (k < n)
    <2>1. mem' = mem /\ pc' = "topdown"
      BY <1>1, <1>6
    <2> HIDE DEF r, a, n, k
    <2>2. \A i \in InHand : FALSE
      BY <1>3, <1>4, <1>6 DEF Area
    <2>3. \A d \in 1 .. Len(sort) : sort[d].do = "merge" => Awaited(d)'
      BY <1>1, <1>2, <2>1, <2>2, AwaitedKept DEF Grown
    <2>4. (DOMAIN mem = Places)' /\ Filled(mem, 0, ArrNr)'
      BY <1>1, <1>2, <2>1, SameCall DEF Filled, Area
    <2> QED BY <1>1, <1>2, <2>1, <2>3, <2>4, SameCall DEF MergeOn
  <1> QED BY <1>5, <1>6

(* What a merge may copy as a whole, in one order or the other.            *)
LEMMA FullRunsFacts ==
  ASSUME NEW t
  PROVE  \/ A!FullRuns(t) = <<>>
         \/ A!FullRuns(t) = A!InTurn(t.result, t.part0, Nr0(t), t.part1, Nr1(t))
         \/ A!FullRuns(t) = A!InTurn(t.result, t.part1, Nr1(t), t.part0, Nr0(t))
  BY DEF A!FullRuns, Nr0, Nr1

LEMMA MergeTaskFacts ==
  ASSUME call \in ArrayCalls, NEW t \in MergeTasks
  PROVE  /\ t.result \in Nat /\ t.part0 \in Nat /\ t.end0 \in Nat /\ t.part1 \in Nat /\ t.end1 \in Nat
         /\ t.part0 < t.end0 /\ t.part1 < t.end1 /\ t.end0 <= ArrNr /\ ArrNr \in Nat
         /\ Nr0(t) = t.end0 - t.part0 /\ Nr1(t) = t.end1 - t.part1
         /\ Nr0(t) \in Nat \ {0} /\ Nr1(t) \in Nat \ {0}
         /\ \A i \in Area(t.result, Nr0(t) + Nr1(t)) : i \in Places
         /\ \A i \in Area(t.part0, Nr0(t)) : i \in Area(0, ArrNr) /\ i \in Places
         /\ \A i \in Area(t.part1, Nr1(t)) : i \in Places
         /\ InShape(t) /\ t.do = "merge"
  <1>1. ArrNr \in Nat /\ \A i \in 0 .. ArrNr - 1 : i \in Places
    BY PlaceFacts
  <1>2. /\ t.result \in Nat /\ t.part0 \in Nat /\ t.end0 \in Nat /\ t.part1 \in Nat /\ t.end1 \in Nat
        /\ t.part0 < t.end0 /\ t.part1 < t.end1 /\ t.end0 <= ArrNr /\ t.do = "merge"
        /\ \A i \in Area(t.result, Nr0(t) + Nr1(t)) : i \in Places
        /\ \A i \in Area(t.part1, Nr1(t)) : i \in Places
        /\ InShape(t)
    BY DEF MergeTasks
  <1>3. /\ Nr0(t) = t.end0 - t.part0 /\ Nr1(t) = t.end1 - t.part1
        /\ Nr0(t) \in Nat \ {0} /\ Nr1(t) \in Nat \ {0}
    BY <1>2 DEF Nr0, Nr1
  <1>4. \A i \in Area(t.part0, Nr0(t)) : i \in Area(0, ArrNr) /\ i \in Places
    BY <1>1, <1>2, <1>3 DEF Area
  <1> QED BY <1>1, <1>2, <1>3, <1>4

LEMMA MergePartsStep ==
  ASSUME call \in ArrayCalls, MergeOn, A!MergeParts
  PROVE  MergeOn' /\ pc' \in {"merge", "topdown"}
  <1> DEFINE t == Head(sort)
             copies == A!FullRuns(t)
             m == A!AllCopied(mem, copies)
  <1>1. /\ pc = "topdown" /\ sort # <<>> /\ t.do = "merge"
        /\ sort' = Tail(sort) /\ call' = call /\ loop' = loop
        /\ IF copies = <<>> THEN pc' = "merge" /\ merge' = t /\ mem' = mem
                            ELSE mem' = m /\ pc' = pc /\ merge' = merge
    BY DEF A!MergeParts, A!Doing
  <1> HIDE DEF copies, m
  <1>2. /\ DOMAIN mem = Places /\ Filled(mem, 0, ArrNr) /\ sort \in Seq(Tasks)
        /\ ArrNr \in Nat /\ \A i \in Area(0, ArrNr) : i \in Places
    BY PlaceFacts DEF MergeOn, Area
  <1>3. t \in MergeTasks /\ t = sort[1] /\ Len(sort) \in Nat \ {0}
    BY <1>1, <1>2 DEF Tasks, SortTasks
  <1>4. InHand = {}
    BY <1>1 DEF InHand
  <1>5. Awaited(1)
    BY <1>1, <1>3 DEF MergeOn
  <1> DEFINE n0 == Nr0(t)
             n1 == Nr1(t)
  <1>6. Filled(mem, t.part1, n1)
    BY <1>3, <1>4, <1>5 DEF Awaited, Filled
  <1> HIDE DEF t
  <1>7. /\ t.result \in Nat /\ t.part0 \in Nat /\ t.part1 \in Nat /\ n0 \in Nat /\ n1 \in Nat
        /\ \A i \in Area(t.result, n0 + n1) : i \in Places
        /\ \A i \in Area(t.part0, n0) : i \in Area(0, ArrNr) /\ i \in Places
        /\ \A i \in Area(t.part1, n1) : i \in Places
        /\ Out(t) = Area(t.result, n0 + n1)
    BY <1>3, MergeTaskFacts DEF Out
  <1>8. Filled(mem, t.part0, n0)
    BY <1>2, <1>7 DEF Filled
  <1> HIDE DEF n0, n1
  <1>9. /\ n0 + n1 = n1 + n0
        /\ t.result \in Int /\ t.part0 \in Int /\ t.part1 \in Int /\ DOMAIN mem = Places
        /\ \A i \in Area(t.result, n1 + n0) : i \in Places
        /\ \A i \in Area(t.part0, n0) : i \in Places
    BY <1>2, <1>7
  <1>10. copies # <<>> => Grown(mem, m) /\ Filled(m, t.result, n0 + n1)
    <2>1. CASE copies = A!InTurn(t.result, t.part0, n0, t.part1, n1)
      <3>1. m = A!Copied(A!Copied(mem, A!Copy(t.result, t.part0, n0)), A!Copy(t.result + n0, t.part1, n1))
        BY <2>1, TwoCopies DEF m, A!InTurn
      <3> QED BY <1>6, <1>7, <1>8, <1>9, <3>1, InTurnFacts, Zenon
    <2>2. CASE copies = A!InTurn(t.result, t.part1, n1, t.part0, n0)
      <3>1. m = A!Copied(A!Copied(mem, A!Copy(t.result, t.part1, n1)), A!Copy(t.result + n1, t.part0, n0))
        BY <2>2, TwoCopies DEF m, A!InTurn
      <3>2. Grown(mem, m) /\ Filled(m, t.result, n1 + n0)
        BY <1>6, <1>7, <1>8, <1>9, <3>1, InTurnFacts, Zenon
      <3> QED BY <1>9, <3>2
    <2> QED BY <2>1, <2>2, FullRunsFacts DEF copies, n0, n1
  <1>11. Grown(mem, mem')
    BY <1>1, <1>2, <1>10 DEF Grown
  <1>12. \A i \in Out(t) : mem'[i] \in Elements \/ i \in InHand'
    <2>1. CASE copies = <<>>
      <3>1. InHand' = Area(t.result, n0 + n1)
        BY <1>1, <2>1 DEF InHand, Area, Nr0, Nr1, n0, n1
      <3> QED BY <1>7, <3>1
    <2>2. CASE copies # <<>>
      BY <1>1, <1>7, <1>10, <2>2 DEF Filled
    <2> QED BY <2>1, <2>2
  <1>13. /\ sort' \in Seq(Tasks)
         /\ \A d \in 1 .. Len(sort') : sort'[d].do = "merge" => Awaited(d)'
    BY <1>1, <1>4, <1>11, <1>12, AwaitedNext DEF t
  <1>14. (DOMAIN mem = Places)' /\ Filled(mem, 0, ArrNr)'
    <2>1. DOMAIN mem' = Places /\ Filled(mem', 0, ArrNr)
      BY <1>2, <1>11, GrownFilled DEF Grown
    <2> QED BY <1>1, <2>1, SameCall DEF Filled, Area
  <1>15. pc' = "merge" => (merge \in MergeTasks)' /\ Filled(mem, merge.part1, Nr1(merge))'
    <2> SUFFICES ASSUME pc' = "merge" PROVE (merge \in MergeTasks)' /\ Filled(mem, merge.part1, Nr1(merge))'
      OBVIOUS
    <2>1. merge' = t /\ mem' = mem
      BY <1>1
    <2> QED BY <1>1, <1>3, <1>6, <2>1, SameCall DEF Filled, Area, Nr1, n1
  <1> QED BY <1>1, <1>13, <1>14, <1>15, SameCall DEF MergeOn

(* What an iteration of a merge copies: what it takes of both runs, then   *)
(* the rest of one when the other is exhausted.                            *)
Took0 == A!Taken.part0 - merge.part0
Took1 == A!Taken.part1 - merge.part1

Next0 == A!Copy(merge.result, merge.part0, Took0)
Next1 == A!Copy(merge.result + Took0, merge.part1, Took1)
Rest0 == A!Copy((merge.result + Took0) + Took1, A!Taken.part0, merge.end0 - A!Taken.part0)
Rest1 == A!Copy((merge.result + Took0) + Took1, A!Taken.part1, merge.end1 - A!Taken.part1)

LEMMA PartCopiesFacts ==
  ASSUME call \in ArrayCalls, merge \in MergeTasks,
         A!Taken.part0 \in merge.part0 .. merge.end0,
         A!Taken.part1 \in merge.part1 .. merge.end1,
         A!Taken.part0 = merge.end0 => A!Taken.part1 # merge.end1
  PROVE  A!PartCopies(A!Taken) =
           IF A!Taken.part0 = merge.end0 THEN <<Next0, Next1>> \o <<Rest1>>
           ELSE IF A!Taken.part1 = merge.end1 THEN <<Next0, Next1>> \o <<Rest0>>
           ELSE <<Next0, Next1>>
  <1>1. merge.result + Took0 + Took1 = (merge.result + Took0) + Took1
    <2>1. /\ merge.result \in Nat /\ merge.part0 \in Nat /\ merge.end0 \in Nat
          /\ merge.part1 \in Nat /\ merge.end1 \in Nat
      BY MergeTaskFacts
    <2>2. Took0 \in Int /\ Took1 \in Int
      BY <2>1 DEF Took0, Took1
    <2> QED BY <2>1, <2>2
  <1>2. <<Next0, Next1>> \o <<>> = <<Next0, Next1>>
    OBVIOUS
  <1>3. A!PartCopies(A!Taken) =
          A!InTurn(merge.result, merge.part0, Took0, merge.part1, Took1)
          \o CASE A!Taken.part0 = merge.end0 -> <<Rest1>>
               [] A!Taken.part1 = merge.end1 -> <<Rest0>>
               [] OTHER -> <<>>
    BY <1>1 DEF A!PartCopies, Took0, Took1, Rest0, Rest1
  <1>4. A!InTurn(merge.result, merge.part0, Took0, merge.part1, Took1) = <<Next0, Next1>>
    BY DEF A!InTurn, Next0, Next1
  <1>5. CASE A!Taken.part0 = merge.end0
    BY <1>3, <1>4, <1>5
  <1>6. CASE A!Taken.part0 # merge.end0 /\ A!Taken.part1 = merge.end1
    BY <1>3, <1>4, <1>6
  <1>7. CASE A!Taken.part0 # merge.end0 /\ A!Taken.part1 # merge.end1
    BY <1>2, <1>3, <1>4, <1>7
  <1> QED BY <1>5, <1>6, <1>7

LEMMA MergeRunsStep ==
  ASSUME call \in ArrayCalls, MergeOn, A!MergeRuns
  PROVE  MergeOn' /\ pc' \in {"merge", "topdown"}
  <1> DEFINE r == merge.result
             p0 == merge.part0
             e0 == merge.end0
             p1 == merge.part1
             e1 == merge.end1
             x0 == A!Taken.part0
             x1 == A!Taken.part1
             n0 == Took0
             n1 == Took1
             m == A!AllCopied(mem, A!PartCopies(A!Taken))
             ends == x0 = e0 \/ x1 = e1
  <1>1. /\ pc = "merge" /\ call' = call /\ loop' = loop /\ sort' = sort /\ mem' = m
        /\ IF ends THEN pc' = "topdown"
                   ELSE /\ pc' = "merge"
                        /\ merge' = [merge EXCEPT !.part0 = x0, !.part1 = x1,
                                     !.result = r + (x0 - p0) + (x1 - p1)]
    BY DEF A!MergeRuns
  <1>2. /\ DOMAIN mem = Places /\ Filled(mem, 0, ArrNr) /\ sort \in Seq(Tasks)
        /\ ArrNr \in Nat /\ \A i \in Area(0, ArrNr) : i \in Places
        /\ merge \in MergeTasks /\ Filled(mem, p1, Nr1(merge))
    BY <1>1, PlaceFacts DEF MergeOn, Area
  <1>3. /\ r \in Nat /\ p0 \in Nat /\ e0 \in Nat /\ p1 \in Nat /\ e1 \in Nat
        /\ p0 < e0 /\ p1 < e1 /\ e0 <= ArrNr
        /\ Nr0(merge) = e0 - p0 /\ Nr1(merge) = e1 - p1
        /\ \A i \in Area(r, (e0 - p0) + (e1 - p1)) : i \in Places
        /\ \A i \in Area(p0, e0 - p0) : i \in Area(0, ArrNr) /\ i \in Places
        /\ \A i \in Area(p1, e1 - p1) : i \in Places
        /\ InShape(merge)
    BY <1>2, MergeTaskFacts
  <1>4. Filled(mem, p0, e0 - p0) /\ Filled(mem, p1, e1 - p1)
    BY <1>2, <1>3 DEF Filled
  <1>5. x0 \in p0 .. e0 /\ x1 \in p1 .. e1 /\ (x0 = e0 => x1 # e1)
    BY <1>2, <1>3, <1>4, TakenFacts
  <1>6. n0 = x0 - p0 /\ n1 = x1 - p1
    BY DEF Took0, Took1
  <1>7. m = IF x0 = e0 THEN A!Copied(A!Copied(A!Copied(mem, Next0), Next1), Rest1)
            ELSE IF x1 = e1 THEN A!Copied(A!Copied(A!Copied(mem, Next0), Next1), Rest0)
            ELSE A!Copied(A!Copied(mem, Next0), Next1)
    <2> DEFINE copies == A!PartCopies(A!Taken)
    <2>1. copies = IF x0 = e0 THEN <<Next0, Next1>> \o <<Rest1>>
                   ELSE IF x1 = e1 THEN <<Next0, Next1>> \o <<Rest0>>
                   ELSE <<Next0, Next1>>
      BY <1>2, <1>5, PartCopiesFacts
    <2> HIDE DEF copies, x0, e0, x1, e1
    <2>2. /\ A!AllCopied(mem, <<Next0, Next1>>) = A!Copied(A!Copied(mem, Next0), Next1)
          /\ A!AllCopied(mem, <<Next0, Next1>> \o <<Rest0>>)
               = A!Copied(A!Copied(A!Copied(mem, Next0), Next1), Rest0)
          /\ A!AllCopied(mem, <<Next0, Next1>> \o <<Rest1>>)
               = A!Copied(A!Copied(A!Copied(mem, Next0), Next1), Rest1)
      BY TwoCopies, ThreeCopies
    <2>3. m = A!AllCopied(mem, copies)
      BY DEF copies
    <2> HIDE DEF m
    <2> QED BY <2>1, <2>2, <2>3, Zenon
  <1>8. /\ Next0 = A!Copy(r, p0, n0) /\ Next1 = A!Copy(r + n0, p1, n1)
        /\ Rest0 = A!Copy((r + n0) + n1, x0, e0 - x0)
        /\ Rest1 = A!Copy((r + n0) + n1, x1, e1 - x1)
    BY DEF Next0, Next1, Rest0, Rest1
  <1> HIDE DEF r, p0, e0, p1, e1, x0, x1, n0, n1, m
  <1>9. n0 \in Nat /\ n1 \in Nat /\ n0 <= e0 - p0 /\ n1 <= e1 - p1 /\ x0 \in Nat /\ x1 \in Nat
    BY <1>3, <1>5, <1>6
  <1> DEFINE m2 == A!Copied(A!Copied(mem, Next0), Next1)
             to == (r + n0) + n1
  <1>10. to \in Nat /\ to = r + (n0 + n1)
    BY <1>3, <1>9
  <1>11. Grown(mem, m2) /\ Filled(m2, r, n0 + n1)
    <2>1. Filled(mem, p0, n0) /\ Filled(mem, p1, n1)
      BY <1>3, <1>4, <1>9 DEF Filled, Area
    <2>2. \A i \in Area(p1, n1) : i \in Places
      BY <1>3, <1>9 DEF Area
    <2>3. \A i \in Area(r, n0 + n1) : i \in Places
      BY <1>3, <1>9 DEF Area
    <2>4. m2 = A!Copied(A!Copied(mem, A!Copy(r, p0, n0)), A!Copy(r + n0, p1, n1))
      BY <1>8 DEF m2
    <2>5. DOMAIN mem = Places /\ r \in Int /\ p0 \in Int /\ p1 \in Int
      BY <1>2, <1>3
    <2> HIDE DEF m2
    <2> QED BY <1>9, <2>1, <2>2, <2>3, <2>4, <2>5, InTurnFacts
  <1> HIDE DEF m2, to
  <1>12. DOMAIN m2 = Places
    BY <1>11 DEF Grown
  <1>13. ASSUME ends
         PROVE  Grown(mem, m) /\ Filled(m, r, (e0 - p0) + (e1 - p1))
    <2>1. CASE x0 = e0
      <3> DEFINE n == e1 - x1
      <3>1. m = A!Copied(m2, A!Copy(to, x1, n))
        BY <1>7, <1>8, <2>1 DEF m2, to
      <3>2. n \in Nat /\ (n0 + n1) + n = (e0 - p0) + (e1 - p1)
        BY <1>3, <1>5, <1>6, <2>1
      <3> HIDE DEF n
      <3>3. (\A i \in Area(x1, n) : i \in Area(p1, e1 - p1)) /\ \A i \in Area(x1, n) : i \in Places
        BY <1>3, <1>5 DEF Area, n
      <3>4. Filled(m2, x1, n)
        <4>1. Filled(mem, x1, n)
          BY <1>4, <3>3 DEF Filled
        <4> QED BY <1>9, <1>11, <3>2, <3>3, <4>1, GrownFilled
      <3>5. \A i \in Area(to, n) : i \in Area(r, (e0 - p0) + (e1 - p1))
        BY <1>3, <1>9, <1>10, <3>2 DEF Area
      <3>6. Grown(m2, m) /\ Filled(m, to, n)
        BY <1>3, <1>9, <1>10, <1>12, <3>1, <3>2, <3>4, <3>5, CopiedFacts
      <3>7. Filled(m, r, n0 + n1)
        <4>1. \A i \in Area(r, n0 + n1) : i \in Places
          BY <1>3, <1>9 DEF Area
        <4>2. r \in Int /\ n0 + n1 \in Int
          BY <1>3, <1>9
        <4> QED BY <1>11, <3>6, <4>1, <4>2, GrownFilled
      <3>8. \A i \in Area(r, (n0 + n1) + n) : i \in Area(r, n0 + n1) \/ i \in Area(to, n)
        BY <1>3, <1>9, <1>10, <3>2 DEF Area
      <3> QED BY <1>11, <3>2, <3>6, <3>7, <3>8, GrownTwice DEF Filled
    <2>2. CASE x0 # e0 /\ x1 = e1
      <3> DEFINE n == e0 - x0
      <3>1. m = A!Copied(m2, A!Copy(to, x0, n))
        BY <1>7, <1>8, <2>2 DEF m2, to
      <3>2. n \in Nat /\ (n0 + n1) + n = (e0 - p0) + (e1 - p1)
        BY <1>3, <1>5, <1>6, <2>2
      <3> HIDE DEF n
      <3>3. (\A i \in Area(x0, n) : i \in Area(p0, e0 - p0)) /\ \A i \in Area(x0, n) : i \in Places
        BY <1>3, <1>5 DEF Area, n
      <3>4. Filled(m2, x0, n)
        <4>1. Filled(mem, x0, n)
          BY <1>4, <3>3 DEF Filled
        <4> QED BY <1>9, <1>11, <3>2, <3>3, <4>1, GrownFilled
      <3>5. \A i \in Area(to, n) : i \in Area(r, (e0 - p0) + (e1 - p1))
        BY <1>3, <1>9, <1>10, <3>2 DEF Area
      <3>6. Grown(m2, m) /\ Filled(m, to, n)
        BY <1>3, <1>9, <1>10, <1>12, <3>1, <3>2, <3>4, <3>5, CopiedFacts
      <3>7. Filled(m, r, n0 + n1)
        <4>1. \A i \in Area(r, n0 + n1) : i \in Places
          BY <1>3, <1>9 DEF Area
        <4>2. r \in Int /\ n0 + n1 \in Int
          BY <1>3, <1>9
        <4> QED BY <1>11, <3>6, <4>1, <4>2, GrownFilled
      <3>8. \A i \in Area(r, (n0 + n1) + n) : i \in Area(r, n0 + n1) \/ i \in Area(to, n)
        BY <1>3, <1>9, <1>10, <3>2 DEF Area
      <3> QED BY <1>11, <3>2, <3>6, <3>7, <3>8, GrownTwice DEF Filled
    <2> QED BY <1>13, <2>1, <2>2
  <1>14. ~ ends => m = m2
    BY <1>7 DEF m2
  <1>15. Grown(mem, m)
    BY <1>11, <1>13, <1>14
  <1>16. InHand = Area(r, (e0 - p0) + (e1 - p1))
    BY <1>1, <1>3 DEF InHand, r
  <1> DEFINE next == [do |-> "merge", result |-> to, part0 |-> x0, end0 |-> e0,
                      part1 |-> x1, end1 |-> e1]
  <1>17. ASSUME ~ ends
         PROVE  /\ pc' = "merge" /\ merge' = next /\ next \in MergeTasks
                /\ Nr0(next) = e0 - x0 /\ Nr1(next) = e1 - x1
    <2>1. pc' = "merge" /\ merge' = [merge EXCEPT !.part0 = x0, !.part1 = x1, !.result = to]
      <3>1. r + (x0 - p0) + (x1 - p1) = to
        BY <1>3, <1>6, <1>9 DEF to
      <3> QED BY <1>1, <1>17, <3>1
    <2>2. merge \in [do : {"merge"}, result : Nat, part0 : Nat, end0 : Nat, part1 : Nat, end1 : Nat]
      BY <1>2 DEF MergeTasks
    <2>3. merge' = next
      BY <2>1, <2>2 DEF e0, e1
    <2>4. Nr0(next) = e0 - x0 /\ Nr1(next) = e1 - x1
      BY DEF Nr0, Nr1
    <2>5. x0 < e0 /\ x1 < e1
      BY <1>3, <1>5, <1>17
    <2>6. \A i \in Area(to, (e0 - x0) + (e1 - x1)) : i \in Places
      BY <1>3, <1>5, <1>6, <1>10 DEF Area
    <2>7. \A i \in Area(x1, e1 - x1) : i \in Places
      BY <1>3, <1>5 DEF Area
    <2>8. InShape(next)
      <3>1. \/ p1 = r + (e0 - p0) /\ (e1 <= p0 \/ e0 <= r)
            \/ p0 = r + (e1 - p1) /\ (e0 <= p1 \/ e1 <= r)
        BY <1>3 DEF InShape, r, p0, e0, p1, e1
      <3>2. \/ x1 = to + (e0 - x0) /\ (e1 <= x0 \/ e0 <= to)
            \/ x0 = to + (e1 - x1) /\ (e0 <= x1 \/ e1 <= to)
        BY <1>3, <1>5, <1>6, <1>9, <1>10, <3>1
      <3> QED BY <2>4, <3>2 DEF InShape
    <2>9. next \in MergeTasks
      BY <1>3, <1>9, <1>10, <2>4, <2>5, <2>6, <2>7, <2>8 DEF MergeTasks
    <2> QED BY <2>1, <2>3, <2>4, <2>9
  <1> HIDE DEF next
  <1>18. \A i \in InHand : mem'[i] \in Elements \/ i \in InHand'
    <2>1. CASE ends
      BY <1>1, <1>13, <1>16, <2>1 DEF Filled
    <2>2. CASE ~ ends
      <3>1. InHand' = Area(to, (e0 - x0) + (e1 - x1))
        <4>1. InHand' = Area(next.result, Nr0(next) + Nr1(next))
          BY <1>17, <2>2 DEF InHand, Area, Nr0, Nr1
        <4> QED BY <1>17, <2>2, <4>1 DEF next
      <3>2. \A i \in Area(r, (e0 - p0) + (e1 - p1)) :
              i \in Area(r, n0 + n1) \/ i \in Area(to, (e0 - x0) + (e1 - x1))
        BY <1>3, <1>5, <1>6, <1>10 DEF Area
      <3> QED BY <1>1, <1>11, <1>14, <1>16, <2>2, <3>1, <3>2 DEF Filled
    <2> QED BY <2>1, <2>2
  <1>19. \A d \in 1 .. Len(sort) : sort[d].do = "merge" => Awaited(d)'
    BY <1>1, <1>15, <1>18, AwaitedKept
  <1>20. (DOMAIN mem = Places)' /\ Filled(mem, 0, ArrNr)'
    <2>1. DOMAIN m = Places /\ Filled(m, 0, ArrNr)
      BY <1>2, <1>15, GrownFilled DEF Grown
    <2> QED BY <1>1, <2>1, SameCall DEF Filled, Area
  <1>21. pc' = "merge" => (merge \in MergeTasks)' /\ Filled(mem, merge.part1, Nr1(merge))'
    <2> SUFFICES ASSUME ~ ends PROVE (merge \in MergeTasks)' /\ Filled(mem, merge.part1, Nr1(merge))'
      BY <1>1
    <2>1. merge' = next /\ next \in MergeTasks /\ Nr1(next) = e1 - x1 /\ next.part1 = x1
      BY <1>17 DEF next
    <2>2. \A i \in Area(x1, e1 - x1) : i \in Area(p1, e1 - p1) /\ i \in Places
      BY <1>3, <1>5 DEF Area
    <2>3. Filled(m, x1, e1 - x1)
      <3>1. Filled(mem, x1, e1 - x1)
        BY <1>4, <2>2 DEF Filled
      <3>2. x1 \in Int /\ e1 - x1 \in Int
        BY <1>3, <1>9
      <3> QED BY <1>15, <2>2, <3>1, <3>2, GrownFilled
    <2> QED BY <1>1, <2>1, <2>3, SameCall DEF Filled, Area, Nr1
  <1>22. pc' \in {"merge", "topdown"}
    BY <1>1
  <1> QED BY <1>1, <1>2, <1>19, <1>20, <1>21, <1>22, SameCall DEF MergeOn

(* A step of the merge sort, or of anything else. *)
LEMMA NoMergeSteps ==
  ASSUME A!Next, pc' \in {"topdown", "oopsort", "merge"}
  PROVE  A!MergeCall \/ A!SplitRun \/ A!OopsortCall \/ A!Oopsort \/ A!MergeParts \/ A!MergeRuns
  <1> USE DEF A!Return, A!Enter
  <1>1. ~ A!SortOne /\ ~ A!BisectCall /\ ~ A!Bisect
    BY DEF A!SortOne, A!BisectCall, A!Bisect
  <1>2. ~ A!BubbleCall /\ ~ A!Bubble /\ ~ A!SelectCall /\ ~ A!Select
    BY DEF A!BubbleCall, A!Bubble, A!SelectCall, A!Select
  <1>3. ~ A!InsertCall /\ ~ A!Insert /\ ~ A!QuickCall /\ ~ A!QuickReturn
    BY DEF A!InsertCall, A!Insert, A!QuickCall, A!QuickReturn
  <1>4. ~ A!HoareCall /\ ~ A!Hoare
    BY DEF A!HoareCall, A!Hoare, A!Partition, A!Recurse
  <1>5. ~ A!DijkstraCall /\ ~ A!Dijkstra /\ ~ A!DijkstraEnds
    BY DEF A!DijkstraCall, A!Dijkstra, A!DijkstraEnds, A!Partition, A!Recurse
  <1>6. ~ A!BentleyCall /\ ~ A!Bentley /\ ~ A!BentleyEnds
    BY DEF A!BentleyCall, A!Bentley, A!BentleyEnds, A!Partition, A!Recurse
  <1>7. ~ A!MergeFails /\ ~ A!MergeDone
    BY DEF A!MergeFails, A!MergeDone
  <1> QED BY <1>1, <1>2, <1>3, <1>4, <1>5, <1>6, <1>7 DEF A!Next

LEMMA MergeStep ==
  ASSUME SearchInv, MergeInv, A!Next
  PROVE  MergeInv'
  <1> SUFFICES ASSUME pc' \in {"topdown", "oopsort", "merge"} PROVE MergeOn'
    BY DEF MergeInv
  <1>1. call \in ArrayCalls
    BY DEF SearchInv
  <1>2. CASE A!MergeCall
    BY <1>2, MergeCallStep
  <1>3. CASE A!SplitRun \/ A!OopsortCall \/ A!MergeParts
    <2>1. MergeOn
      BY <1>3 DEF MergeInv, A!SplitRun, A!OopsortCall, A!MergeParts, A!Doing
    <2> QED BY <1>1, <1>3, <2>1, SplitRunStep, OopsortCallStep, MergePartsStep
  <1>4. CASE A!Oopsort \/ A!MergeRuns
    <2>1. MergeOn
      BY <1>4 DEF MergeInv, A!Oopsort, A!MergeRuns
    <2> QED BY <1>1, <1>4, <2>1, OopsortStep, MergeRunsStep
  <1> QED BY <1>2, <1>3, <1>4, NoMergeSteps

-----------------------------------------------------------------------------
(* What the places of the runs make of the copies. *)
Harmless(c) == c.to <= c.from \/ c.to >= c.from + c.n

LEMMA RunsHarmless ==
  ASSUME call \in ArrayCalls, NEW t \in MergeTasks, NEW n0 \in 0 .. Nr0(t), NEW n1 \in 0 .. Nr1(t)
  PROVE  /\ Harmless(A!Copy(t.result, t.part0, n0))
         /\ Harmless(A!Copy(t.result + n0, t.part1, n1))
         /\ n0 = Nr0(t) =>
              Harmless(A!Copy((t.result + n0) + n1, t.part1 + n1, t.end1 - (t.part1 + n1)))
         /\ n1 = Nr1(t) =>
              Harmless(A!Copy((t.result + n0) + n1, t.part0 + n0, t.end0 - (t.part0 + n0)))
         /\ Harmless(A!Copy(t.result, t.part1, Nr1(t)))
         /\ Harmless(A!Copy(t.result + Nr1(t), t.part0, Nr0(t)))
  <1> DEFINE r == t.result
             p0 == t.part0
             e0 == t.end0
             p1 == t.part1
             e1 == t.end1
  <1>1. /\ r \in Nat /\ p0 \in Nat /\ e0 \in Nat /\ p1 \in Nat /\ e1 \in Nat
        /\ p0 < e0 /\ p1 < e1 /\ Nr0(t) = e0 - p0 /\ Nr1(t) = e1 - p1
        /\ InShape(t)
    BY MergeTaskFacts
  <1>2. \/ p1 = r + (e0 - p0) /\ (e1 <= p0 \/ e0 <= r)
        \/ p0 = r + (e1 - p1) /\ (e0 <= p1 \/ e1 <= r)
    BY <1>1 DEF InShape
  <1>3. \A to, from, n : Harmless(A!Copy(to, from, n)) <=> to <= from \/ to >= from + n
    BY DEF Harmless, A!Copy
  <1> HIDE DEF r, p0, e0, p1, e1
  <1>4. (r <= p0 \/ r >= p0 + n0) /\ (r + n0 <= p1 \/ r + n0 >= p1 + n1)
    BY <1>1, <1>2
  <1>5. n0 = Nr0(t) =>
          \/ (r + n0) + n1 <= p1 + n1
          \/ (r + n0) + n1 >= (p1 + n1) + (e1 - (p1 + n1))
    BY <1>1, <1>2
  <1>6. n1 = Nr1(t) =>
          \/ (r + n0) + n1 <= p0 + n0
          \/ (r + n0) + n1 >= (p0 + n0) + (e0 - (p0 + n0))
    BY <1>1, <1>2
  <1>7. /\ r <= p1 \/ r >= p1 + Nr1(t)
        /\ r + Nr1(t) <= p0 \/ r + Nr1(t) >= p0 + Nr0(t)
    BY <1>1, <1>2
  <1> QED BY <1>3, <1>4, <1>5, <1>6, <1>7 DEF r, p0, e0, p1, e1

LEMMA CopiesFacts ==
  ASSUME call \in ArrayCalls, MergeInv
  PROVE  A!CopiesHarmless
  <1> DEFINE copies == A!CopiesAhead
  <1> SUFFICES \A i \in DOMAIN copies : Harmless(copies[i])
    BY DEF A!CopiesHarmless, Harmless
  <1>1. CASE A!Doing("merge")
    <2> DEFINE t == Head(sort)
    <2>1. copies = A!FullRuns(t)
      BY <1>1 DEF A!CopiesAhead, A!Doing
    <2>2. MergeOn /\ sort # <<>> /\ t.do = "merge"
      BY <1>1 DEF A!Doing, MergeInv
    <2>3. t \in MergeTasks
      BY <2>2 DEF MergeOn, Tasks, SortTasks
    <2> HIDE DEF t
    <2>4. Nr0(t) \in 0 .. Nr0(t) /\ Nr1(t) \in 0 .. Nr1(t)
      BY <2>3, MergeTaskFacts
    <2>5. /\ Harmless(A!Copy(t.result, t.part0, Nr0(t)))
          /\ Harmless(A!Copy(t.result + Nr0(t), t.part1, Nr1(t)))
          /\ Harmless(A!Copy(t.result, t.part1, Nr1(t)))
          /\ Harmless(A!Copy(t.result + Nr1(t), t.part0, Nr0(t)))
      BY <2>3, <2>4, RunsHarmless
    <2>6. \A c, d : Harmless(c) /\ Harmless(d) => \A i \in DOMAIN <<c, d>> : Harmless(<<c, d>>[i])
      OBVIOUS
    <2> HIDE DEF copies
    <2> QED BY <2>1, <2>5, <2>6, FullRunsFacts DEF A!InTurn
  <1>2. CASE pc = "merge"
    <2> DEFINE n0 == Took0
               n1 == Took1
               x0 == A!Taken.part0
               x1 == A!Taken.part1
               p0 == merge.part0
               p1 == merge.part1
    <2>1. copies = A!PartCopies(A!Taken)
      BY <1>2 DEF A!CopiesAhead, A!Doing
    <2>2. /\ merge \in MergeTasks /\ Filled(mem, 0, ArrNr) /\ Filled(mem, p1, Nr1(merge))
      BY <1>2 DEF MergeInv, MergeOn
    <2>3. Filled(mem, p0, Nr0(merge))
      BY <2>2, MergeTaskFacts DEF Filled
    <2>4. /\ x0 \in p0 .. merge.end0 /\ x1 \in p1 .. merge.end1
          /\ x0 = merge.end0 => x1 # merge.end1
      BY <2>2, <2>3, TakenFacts
    <2>5. copies = IF x0 = merge.end0 THEN <<Next0, Next1>> \o <<Rest1>>
                   ELSE IF x1 = merge.end1 THEN <<Next0, Next1>> \o <<Rest0>>
                   ELSE <<Next0, Next1>>
      BY <2>1, <2>2, <2>4, PartCopiesFacts
    <2> HIDE DEF copies, x0, x1, p0, p1
    <2>6. n0 = x0 - p0 /\ n1 = x1 - p1
      BY DEF Took0, Took1, x0, x1, p0, p1
    <2>7. /\ Next0 = A!Copy(merge.result, p0, n0) /\ Next1 = A!Copy(merge.result + n0, p1, n1)
          /\ Rest0 = A!Copy((merge.result + n0) + n1, x0, merge.end0 - x0)
          /\ Rest1 = A!Copy((merge.result + n0) + n1, x1, merge.end1 - x1)
      BY DEF Next0, Next1, Rest0, Rest1, x0, x1, p0, p1
    <2> HIDE DEF n0, n1
    <2>8. /\ n0 \in 0 .. Nr0(merge) /\ n1 \in 0 .. Nr1(merge)
          /\ x0 = p0 + n0 /\ x1 = p1 + n1
          /\ x0 = merge.end0 => n0 = Nr0(merge)
          /\ x1 = merge.end1 => n1 = Nr1(merge)
      BY <2>2, <2>4, <2>6, MergeTaskFacts DEF p0, p1
    <2>9. /\ Harmless(Next0) /\ Harmless(Next1)
          /\ x0 = merge.end0 => Harmless(Rest1)
          /\ x1 = merge.end1 => Harmless(Rest0)
      BY <2>2, <2>7, <2>8, RunsHarmless DEF p0, p1
    <2>10. \A c, d : Harmless(c) /\ Harmless(d) => \A i \in DOMAIN <<c, d>> : Harmless(<<c, d>>[i])
      OBVIOUS
    <2>11. \A c, d, e : Harmless(c) /\ Harmless(d) /\ Harmless(e) =>
             \A i \in DOMAIN (<<c, d>> \o <<e>>) : Harmless((<<c, d>> \o <<e>>)[i])
      <3> TAKE c, d, e
      <3> DEFINE s == <<c, d>> \o <<e>>
      <3>1. DOMAIN s = 1 .. 3 /\ s[1] = c /\ s[2] = d /\ s[3] = e
        OBVIOUS
      <3> HIDE DEF s
      <3>2. \A i \in 1 .. 3 : i = 1 \/ i = 2 \/ i = 3
        OBVIOUS
      <3>3. Harmless(c) /\ Harmless(d) /\ Harmless(e) => \A i \in DOMAIN s : Harmless(s[i])
        BY <3>1, <3>2
      <3> QED BY <3>3 DEF s
    <2> QED BY <2>5, <2>9, <2>10, <2>11
  <1>3. CASE ~ A!Doing("merge") /\ pc # "merge"
    BY <1>3 DEF A!CopiesAhead
  <1> QED BY <1>1, <1>2, <1>3

-----------------------------------------------------------------------------
(* The invariant: when an array is sorted or searched, all that is above.  *)
ArraysInv == kind = "array" => SearchInv /\ QuickInv /\ MergeInv

LEMMA ArraysInit == Init => ArraysInv
  <1> SUFFICES ASSUME Init, kind = "array" PROVE SearchInv /\ QuickInv /\ MergeInv
    BY DEF ArraysInv
  <1>1. A!Init
    BY DEF Init
  <1>2. SearchInv
    BY <1>1 DEF A!Init, SearchInv, A!SearchSound
  <1>3. call.sort \in A!QuickSorts => pc = "call" /\ sort = <<>> /\ pc # call.sort
    BY <1>1 DEF A!Init, A!QuickSorts
  <1>4. MergeInv
    BY <1>1 DEF A!Init, MergeInv
  <1> QED BY <1>2, <1>3, <1>4 DEF QuickInv

LEMMA ArraysStep == ArraysInv /\ [Next]_<<vars, kind>> => ArraysInv'
  <1> SUFFICES ASSUME ArraysInv, [Next]_<<vars, kind>>, kind' = "array"
               PROVE  SearchInv' /\ QuickInv' /\ MergeInv'
    BY DEF ArraysInv
  <1>1. CASE UNCHANGED <<vars, kind>>
    <2>1. /\ SearchInv /\ QuickInv /\ MergeInv
          /\ call' = call /\ mem' = mem /\ pc' = pc /\ loop' = loop /\ sort' = sort
          /\ merge' = merge
      BY <1>1 DEF ArraysInv, vars
    <2>2. SearchInv'
      BY <2>1 DEF SearchInv, Narrowing, ArrNr, A!SearchSound, A!At, A!Array, A!Nr, A!key
    <2>3. QuickOn => QuickOn'
      BY <2>1 DEF QuickOn, WithinArray, Halved, Size, Partitioning, HoarePart, DijkstraPart,
         BentleyPart, Rank, ArrNr, A!Array, A!Nr, A!key
    <2>4. MergeOn => MergeOn'
      <3>1. \A d : Awaited(d) => Awaited(d)'
        BY <2>1 DEF Awaited, InHand, Area, Out, Nr0, Nr1, Elements, ArrNr
      <3> QED BY <2>1, <3>1, SameCall DEF MergeOn, Oopsorting, Filled, Area, Nr1
    <2> QED BY <2>1, <2>2, <2>3, <2>4 DEF QuickInv, A!QuickSorts, MergeInv
  <1>2. CASE Next
    <2>1. SearchInv /\ QuickInv /\ MergeInv /\ A!Next
      BY <1>2 DEF Next, ArraysInv
    <2> QED BY <2>1, SearchStep, QuickStep, MergeStep
  <1> QED BY <1>1, <1>2

(* The bisection of a sorted array finds an element that equals the key    *)
(* when there is one, and nothing otherwise, whatever the length, the keys *)
(* and the key to find (stroll_array_bisect_search()).                     *)
THEOREM SearchAlwaysSound == Spec => []SearchSound
  <1>1. ArraysInv => SearchSound
    BY DEF ArraysInv, SearchInv, SearchSound
  <1> QED BY <1>1, ArraysInit, ArraysStep, PTL DEF Spec

(* A quick sort of an array never suspends more calls than the binary      *)
(* logarithm of its length over the threshold, with any of the partitions, *)
(* whatever the keys and so the pivots (src/src/array.c:954).              *)
THEOREM StacksAlwaysShallow == Spec => []StackShallow
  <1>1. ArraysInv => StackShallow
    <2> SUFFICES ASSUME ArraysInv, kind = "array", call.sort \in A!QuickSorts, sort # <<>>
                 PROVE  A!Two[Len(sort) - 1] * (Threshold + 1) <= A!Nr
      BY DEF StackShallow, A!StackShallow
    <2>1. QuickOn /\ call \in ArrayCalls
      BY DEF ArraysInv, QuickInv, SearchInv
    <2>2. Two[Len(sort) - 1] * (Threshold + 1) <= ArrNr
      BY <2>1 DEF QuickOn, Halved
    <2>3. A!Two = Two
      BY DEF A!Two, Two, Powers!Two
    <2> QED BY <2>1, <2>2, <2>3, CallFacts
  <1> QED BY <1>1, ArraysInit, ArraysStep, PTL DEF Spec

(* Whatever the length of an array, its keys and the runs that they make,  *)
(* memcpy() never gets from the merge sort an area that overlaps one after *)
(* it: each merge finds its second run, or its first, at the end of where  *)
(* they both go and the other one apart, and leaves them so until one of   *)
(* them is exhausted (stroll_array_merge_part_runs()).                     *)
THEOREM CopiesAlwaysHarmless == Spec => []CopiesHarmless
  <1>1. ArraysInv => CopiesHarmless
    BY CopiesFacts DEF ArraysInv, SearchInv, CopiesHarmless
  <1> QED BY <1>1, ArraysInit, ArraysStep, PTL DEF Spec

=============================================================================
