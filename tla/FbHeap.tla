------------------------------- MODULE FbHeap -------------------------------
(***************************************************************************)
(* The fixed array binary heap of src/src/fbheap.c.                        *)
(*                                                                         *)
(* The heap lives in an array where the children of index i are 2i+1 and   *)
(* 2i+2.  Steps are the iterations of the loops of the code, so that every *)
(* state in which compare() is called, or in which an element is stored    *)
(* twice or only in a local variable, is a state of the model.             *)
(***************************************************************************)
EXTENDS ArrayHeap

VARIABLES
  root,     \* root of the subtree being worked on
  depth     \* levels left to stroll_fbheap_siftup()

vars == <<cnt, array, pc, call, elem, index, root, depth, nr, out>>

-----------------------------------------------------------------------------

INSTANCE Pow2 WITH W <- 32   \* unsigned int

Parent(i) == (i - 1) \div 2
LeftChild(i) == 2 * i + 1
RightChild(i) == 2 * i + 2

(* stroll_fbheap_index_depth(), on the indices of the array. *)
IndexDepth(i) == CHOOSE d \in 0 .. Nr : Two[d] <= i + 1 /\ i + 1 < Two[d + 1]

(* stroll_fbheap_elder_index(): the ancestor of i that is offset levels up. *)
ElderIndex(i, offset) == (i - Two[offset] + 1) \div Two[offset]

-----------------------------------------------------------------------------

Init ==
  /\ cnt = 0
  /\ array = Empty
  /\ pc = "idle"
  /\ call = "none"
  /\ elem = None /\ out = None
  /\ index = 0 /\ root = 0 /\ depth = 0 /\ nr = 0

(* The call in progress returns, its local variables go. *)
Return ==
  /\ pc' = "idle"
  /\ call' = "none"
  /\ elem' = None
  /\ index' = 0 /\ root' = 0 /\ depth' = 0 /\ nr' = 0

(* stroll_fbheap_insert(): the element is to be placed at or above the     *)
(* first free position.  The heap holds distinct elements.                 *)
Insert(e) ==
  /\ pc = "idle"
  /\ cnt < Nr
  /\ e \notin Content
  /\ pc' = "rise"
  /\ call' = "insert"
  /\ elem' = e
  /\ index' = cnt
  /\ cnt' = cnt + 1
  /\ out' = None
  /\ UNCHANGED <<array, root, depth, nr>>

(* The condition of the loop of _stroll_fbheap_insert(). *)
MustRiseBelowFirst == index > 1 /\ Key[elem] < Key[array[Parent(index)]]

MustRise == index # 0 /\ Key[elem] < Key[array[Parent(index)]]

(* One of its iterations: the parent moves down. *)
Rise ==
  /\ pc = "rise"
  /\ MustRise
  /\ array' = [array EXCEPT ![index] = array[Parent(index)]]
  /\ index' = Parent(index)
  /\ UNCHANGED <<cnt, pc, call, elem, root, depth, nr, out>>

(* Its end: the element is stored. *)
RiseEnds ==
  /\ pc = "rise"
  /\ ~MustRise
  /\ array' = [array EXCEPT ![index] = elem]
  /\ Return
  /\ UNCHANGED <<cnt, out>>

(* stroll_fbheap_extract(): the root is returned, the last element has to  *)
(* find its place, unless it was the only one.                             *)
Extract ==
  /\ pc = "idle"
  /\ cnt > 0
  /\ out' = array[0]
  /\ cnt' = cnt - 1
  /\ array' = [array EXCEPT ![cnt - 1] = None]
  /\ IF cnt = 1
     THEN UNCHANGED <<pc, call, elem, index, root, nr>>
     ELSE /\ pc' = "descend"
          /\ call' = "extract"
          /\ nr' = cnt - 1
          /\ elem' = array[cnt - 1]
          /\ index' = 0
          /\ root' = 0
  /\ UNCHANGED depth

(* stroll_fbheap_build() on an array the client filled with count distinct *)
(* elements: subtrees are made heaps from the last inner node to the root. *)
Build(count, content) ==
  /\ pc = "idle"
  /\ array' = [i \in 0 .. Nr - 1 |-> IF i < count THEN content[i] ELSE None]
  /\ IF count = 1
     THEN /\ cnt' = count
          /\ UNCHANGED <<pc, call, elem, index, root, nr>>
     ELSE /\ pc' = "descend"
          /\ call' = "build"
          /\ nr' = count
          /\ root' = count \div 2 - 1
          /\ index' = root'
          /\ elem' = content[root']
          /\ UNCHANGED cnt
  /\ out' = None
  /\ UNCHANGED depth

(* The child that stroll_fbheap_find_min() follows, the left one if equal. *)
LargestChild ==
  IF Key[array[LeftChild(index)]] >= Key[array[RightChild(index)]]
  THEN LeftChild(index)
  ELSE RightChild(index)

SmallestChild ==
  IF Key[array[LeftChild(index)]] <= Key[array[RightChild(index)]]
  THEN LeftChild(index)
  ELSE RightChild(index)

(* The leaf it ends on, once there is no right child. *)
Leaf == IF LeftChild(index) < nr THEN LeftChild(index) ELSE index

(* Its first loop: down the path of smallest children, to a leaf of the    *)
(* first nr elements.                                                      *)
Descend ==
  /\ pc = "descend"
  /\ RightChild(index) < nr
  /\ index' = SmallestChild
  /\ UNCHANGED <<cnt, array, pc, call, elem, root, depth, nr, out>>

DescendEnds ==
  /\ pc = "descend"
  /\ RightChild(index) >= nr
  /\ index' = Leaf
  /\ pc' = "climb"
  /\ UNCHANGED <<cnt, array, call, elem, root, depth, nr, out>>

(* The condition of its second loop. *)
MustClimb == Key[elem] < Key[array[index]]

(* Up this path, to the lowest element that the one to place does not      *)
(* precede.                                                                *)
Climb ==
  /\ pc = "climb"
  /\ MustClimb
  /\ index' = Parent(index)
  /\ UNCHANGED <<cnt, array, pc, call, elem, root, depth, nr, out>>

(* Levels between the root being worked on and the place that was found. *)
PathLength == IndexDepth(index) - IndexDepth(root)

(* Its end; stroll_fbheap_siftup() is entered unless build() finds the     *)
(* element at its place.                                                   *)
ClimbEnds ==
  /\ pc = "climb"
  /\ ~MustClimb
  /\ depth' = PathLength
  /\ pc' = IF call = "build" /\ index = root THEN "placed" ELSE "sift"
  /\ UNCHANGED <<cnt, array, call, elem, index, root, nr, out>>

(* One iteration of stroll_fbheap_siftup(): elements of the path move up   *)
(* by one level, from the root of the subtree.                             *)
Sift ==
  LET elder == ElderIndex(index, depth - 1) IN
  /\ pc = "sift"
  /\ depth > 0
  /\ array' = [array EXCEPT ![Parent(elder)] = array[elder]]
  /\ depth' = depth - 1
  /\ UNCHANGED <<cnt, pc, call, elem, index, root, nr, out>>

(* Its end: the element is stored. *)
SiftEnds ==
  /\ pc = "sift"
  /\ depth = 0
  /\ array' = [array EXCEPT ![index] = elem]
  /\ pc' = "placed"
  /\ UNCHANGED <<cnt, call, elem, index, root, depth, nr, out>>

(* extract() returns; build() goes on with the previous subtree, if any,   *)
(* and sets the count of elements before it returns.                       *)
Placed ==
  /\ pc = "placed"
  /\ IF call = "build" /\ root # 0
     THEN /\ root' = root - 1
          /\ index' = root - 1
          /\ elem' = array[root - 1]
          /\ pc' = "descend"
          /\ UNCHANGED <<cnt, call, depth, nr>>
     ELSE /\ cnt' = IF call = "build" THEN nr ELSE cnt
          /\ Return
  /\ UNCHANGED <<array, out>>

(* stroll_fbheap_clear(). *)
Clear ==
  /\ pc = "idle"
  /\ cnt' = 0
  /\ array' = Empty
  /\ out' = None
  /\ UNCHANGED <<pc, call, elem, index, root, depth, nr>>

(* The client fills the array of an empty heap before it builds one: of    *)
(* another heap nothing would be left anyway.                             *)
Call ==
  \/ \E e \in Elems : Insert(e)
  \/ Extract
  \/ cnt = 0 /\ \E content \in Fillings : Build(Cardinality(DOMAIN content), content)
  \/ Clear

Run == Rise \/ RiseEnds \/ Descend \/ DescendEnds \/ Climb \/ ClimbEnds
         \/ Sift \/ SiftEnds \/ Placed

Next == Call \/ Run

Spec == Init /\ [][Next]_vars

-----------------------------------------------------------------------------

(* Every variable keeps the type of the local or field it models. *)
TypeOK ==
  /\ cnt \in 0 .. Nr
  /\ array \in [0 .. Nr - 1 -> Elems \cup {None}]
  /\ pc \in {"idle", "rise", "descend", "climb", "sift", "placed"}
  /\ call \in {"none", "insert", "extract", "build"}
  /\ elem \in Elems \cup {None} /\ out \in Elems \cup {None}
  /\ index \in 0 .. Nr - 1 /\ root \in 0 .. Nr - 1
  /\ depth \in 0 .. Nr
  /\ nr \in 0 .. Nr

(* Between calls no element precedes its parent; while an element is being *)
(* placed below the root of a subtree, nothing else of that subtree does,  *)
(* which the order in which build() visits subtrees provides.              *)
HeapOrder ==
  LET ordered(i) == Key[array[Parent(i)]] <= Key[array[i]] IN
  /\ pc = "idle" => \A i \in 1 .. cnt - 1 : ordered(i)
  /\ pc \in {"descend", "climb"} =>
       \A i \in 1 .. nr - 1 :
         Parent(i) > root \/ (call = "extract" /\ Parent(i) = 0) => ordered(i)

(* The position whose content was moved elsewhere, or is about to be       *)
(* overwritten: the element it stored is found in elem or at its parent.   *)
Hole ==
  CASE pc = "rise" -> index
    [] pc \in {"descend", "climb"} -> root
    [] pc = "sift" -> ElderIndex(index, depth)
    [] OTHER -> Nr

(* What a position holds once the element to place is put in the hole. *)
At(i) == IF i = Hole THEN elem ELSE array[i]

(* Between calls and in the middle of every loop the positions in use hold *)
(* as many distinct elements: shifting along a path neither loses nor      *)
(* duplicates an element.                                                  *)
NothingLost ==
  /\ TypeOK
  /\ \A i \in 0 .. Used - 1 : At(i) \in Elems
  /\ \A i, j \in 0 .. Used - 1 : i # j => At(i) # At(j)

(* The queue the array stands for: an element enters it when its insertion *)
(* returns and leaves it when its extraction is called.                    *)
Queued == {At(i) : i \in 0 .. Used - 1} \ IF call = "insert" THEN {elem} ELSE {}

=============================================================================
