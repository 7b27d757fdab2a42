-------------------------- MODULE ArrayHeapsProofs --------------------------
(***************************************************************************)
(* Proofs about the heaps that live in an array, for any number of         *)
(* elements, any keys, and any width of the words of the reverse bits.     *)
(***************************************************************************)
EXTENDS MCArrayHeaps, NatFacts

-----------------------------------------------------------------------------
(* The binary heap: positions, their parents and their elders.             *)

LEMMA FbFamily ==
  ASSUME NEW i \in Nat
  PROVE  /\ B!LeftChild(i) \in Nat /\ B!RightChild(i) \in Nat
         /\ B!LeftChild(i) = B!RightChild(i) - 1 /\ i < B!LeftChild(i)
         /\ B!Parent(B!LeftChild(i)) = i /\ B!Parent(B!RightChild(i)) = i
         /\ i # 0 => /\ B!Parent(i) \in Nat /\ B!Parent(i) < i
                     /\ i = B!LeftChild(B!Parent(i)) \/ i = B!RightChild(B!Parent(i))
  BY DEF B!Parent, B!LeftChild, B!RightChild

(* This instance has its own name for powers of two. *)
LEMMA FbTwo == B!Two = Two
  BY DEF B!Two, Two, Powers!Two

(* An elder is a parent's parent, as many times as it is levels up.  What  *)
(* would be the parent of the root is -1, and so are its elders.           *)
LEMMA FbElder ==
  ASSUME NEW i \in Nat, NEW k \in Nat
  PROVE  /\ B!ElderIndex(i, k) \in Int /\ B!ElderIndex(i, k) >= -1
         /\ B!ElderIndex(i, 0) = i
         /\ B!ElderIndex(i, k + 1) = B!Parent(B!ElderIndex(i, k))
         /\ i # 0 => B!ElderIndex(i, k + 1) = B!ElderIndex(B!Parent(i), k)
  <1>1. \A n \in Nat, j \in Nat : B!ElderIndex(n, j) = (n + 1) \div Two[j] - 1
    <2> SUFFICES ASSUME NEW n \in Nat, NEW j \in Nat
                 PROVE  B!ElderIndex(n, j) = (n + 1) \div Two[j] - 1
      OBVIOUS
    <2> DEFINE m == Two[j]
    <2>1. m \in Nat \ {0} /\ B!ElderIndex(n, j) = (n - m + 1) \div m
      BY TwoFacts, FbTwo DEF B!ElderIndex
    <2> HIDE DEF m
    <2>2. (n - m + 1) \div m = (n + 1) \div m - 1
      BY <2>1, Z3
    <2> QED BY <2>1, <2>2 DEF m
  <1>2. Two[k] \in Nat \ {0} /\ Two[0] = 1
    BY TwoFacts
  <1>3. (i + 1) \div Two[k] \in Nat
    BY <1>2, Z3
  <1>4. B!ElderIndex(i, 0) = i
    BY <1>1, <1>2
  <1>5. B!ElderIndex(i, k + 1) = B!Parent(B!ElderIndex(i, k))
    <2>1. ((i + 1) \div Two[k]) \div 2 = (i + 1) \div Two[k + 1]
      BY HalfOfQuotient
    <2>2. \A q \in Nat : (q - 1 - 1) \div 2 = q \div 2 - 1
      OBVIOUS
    <2> QED BY <1>1, <1>3, <2>1, <2>2 DEF B!Parent
  <1>6. ASSUME i # 0 PROVE B!ElderIndex(i, k + 1) = B!ElderIndex(B!Parent(i), k)
    <2>1. B!Parent(i) \in Nat /\ B!Parent(i) + 1 = (i + 1) \div 2
      BY <1>6 DEF B!Parent
    <2>2. ((i + 1) \div 2) \div Two[k] = (i + 1) \div Two[k + 1]
      BY HalfOfQuotient
    <2> QED BY <1>1, <2>1, <2>2
  <1> QED BY <1>1, <1>3, <1>4, <1>5, <1>6

(* The farther the elder, the lower its position. *)
LEMMA FbElderBelow ==
  ASSUME NEW i \in Nat
  PROVE  \A k \in Nat : /\ B!ElderIndex(i, k) <= i
                        /\ B!ElderIndex(i, k) >= 0 => \A j \in 0 .. k - 1 :
                             B!ElderIndex(i, j) > B!ElderIndex(i, k)
  <1> DEFINE E(k) == B!ElderIndex(i, k)
             T == {k \in Nat : /\ E(k) <= i
                               /\ E(k) >= 0 => \A j \in 0 .. k - 1 : E(j) > E(k)}
  <1>1. 0 \in T
    BY FbElder
  <1>2. ASSUME NEW k \in Nat, k \in T PROVE k + 1 \in T
    <2>1. E(k) \in Int /\ E(k) >= -1 /\ E(k + 1) = B!Parent(E(k))
      BY FbElder
    <2>2. E(k + 1) <= E(k) /\ (E(k + 1) >= 0 => E(k) > E(k + 1) /\ E(k) >= 0)
      BY <2>1 DEF B!Parent
    <2>3. \A j \in 0 .. k : E(j) \in Int
      BY FbElder
    <2>4. \A j \in 0 .. (k + 1) - 1 : j = k \/ j \in 0 .. k - 1
      OBVIOUS
    <2> HIDE DEF E
    <2>5. E(k + 1) \in Int
      BY <2>1 DEF B!Parent
    <2> QED BY <1>2, <2>1, <2>2, <2>3, <2>4, <2>5
  <1> HIDE DEF T
  <1>3. Nat \subseteq T
    BY <1>1, <1>2, NatSet
  <1> QED BY <1>3 DEF T

(* The depth of a position is the one power of two it lies above. *)
FbAtDepth(i, d) == Two[d] <= i + 1 /\ i + 1 < Two[d + 1]

LEMMA FbDepth ==
  ASSUME NEW i \in 0 .. Nr - 1
  PROVE  /\ B!IndexDepth(i) \in 0 .. Nr /\ FbAtDepth(i, B!IndexDepth(i))
         /\ \A d \in Nat : FbAtDepth(i, d) => d = B!IndexDepth(i)
  <1> USE NrAssumption
  <1> DEFINE T == {d \in Nat : i + 1 < Two[d + 1]}
  <1>1. i \in Nat /\ i \in T
    BY TwoExceeds
  <1>2. PICK d \in T : \A e \in T : d <= e
    <2>1. T \in SUBSET Nat /\ T # {}
      BY <1>1
    <2> HIDE DEF T
    <2> QED BY <2>1, LeastElement
  <1>3. d \in 0 .. Nr
    BY <1>1, <1>2
  <1>4. Two[d] <= i + 1
    <2>1. CASE d = 0
      BY <2>1, TwoFacts
    <2>2. CASE d # 0
      <3>1. d - 1 \in Nat /\ d - 1 + 1 = d /\ ~(d <= d - 1)
        BY <1>3, <2>2
      <3>2. d - 1 \notin T
        <4> HIDE DEF T
        <4> QED BY <1>2, <3>1
      <3>3. Two[d] \in Nat
        BY <1>3, TwoFacts
      <3> QED BY <1>1, <3>1, <3>2, <3>3
    <2> QED BY <2>1, <2>2
  <1>5. \E e \in 0 .. Nr : Two[e] <= i + 1 /\ i + 1 < Two[e + 1]
    BY <1>2, <1>3, <1>4
  <1>6. B!IndexDepth(i) \in 0 .. Nr /\ FbAtDepth(i, B!IndexDepth(i))
    BY <1>5, FbTwo, Zenon DEF B!IndexDepth, FbAtDepth
  <1>7. ASSUME NEW a \in Nat, NEW b \in Nat, FbAtDepth(i, a), FbAtDepth(i, b) PROVE ~(a < b)
    <2>1. Two[a] \in Nat /\ Two[b] \in Nat /\ Two[a + 1] = 2 * Two[a] /\ Two[b + 1] = 2 * Two[b]
      BY TwoFacts
    <2> QED BY <1>7, <2>1, TwoGrows DEF FbAtDepth
  <1>8. ASSUME NEW a \in Nat, FbAtDepth(i, a) PROVE a = B!IndexDepth(i)
    BY <1>6, <1>7, <1>8
  <1> QED BY <1>6, <1>8

(* An ancestor lies as many levels up as its depth is less. *)
LEMMA FbLevels ==
  ASSUME NEW i \in 0 .. Nr - 1
  PROVE  \A j \in Nat : B!ElderIndex(i, j) >= 0 =>
           B!IndexDepth(i) - B!IndexDepth(B!ElderIndex(i, j)) = j
  <1> USE NrAssumption
  <1>1. ASSUME NEW x \in 0 .. Nr - 1, x # 0
        PROVE  B!Parent(x) \in 0 .. Nr - 1 /\ B!IndexDepth(B!Parent(x)) = B!IndexDepth(x) - 1
    <2> DEFINE d == B!IndexDepth(x)
               p == B!Parent(x)
    <2>1. d \in 0 .. Nr /\ FbAtDepth(x, d)
      BY FbDepth
    <2>2. p \in 0 .. Nr - 1 /\ p + 1 = (x + 1) \div 2
      BY <1>1 DEF B!Parent
    <2>3. d # 0
      BY <1>1, <2>1, TwoFacts DEF FbAtDepth
    <2>4. d - 1 \in Nat /\ d - 1 + 1 = d
      BY <2>1, <2>3
    <2>5. Two[d] = 2 * Two[d - 1] /\ Two[d + 1] = 2 * Two[d] /\ Two[d - 1] \in Nat
      BY <2>1, <2>4, TwoFacts
    <2> HIDE DEF d, p
    <2>6. FbAtDepth(p, d - 1)
      BY <2>1, <2>2, <2>4, <2>5 DEF FbAtDepth
    <2>7. d - 1 = B!IndexDepth(p)
      BY <2>2, <2>4, <2>6, FbDepth
    <2> QED BY <2>2, <2>7 DEF d, p
  <1> DEFINE E(j) == B!ElderIndex(i, j)
             T == {j \in Nat : E(j) >= 0 =>
                     E(j) \in 0 .. Nr - 1 /\ B!IndexDepth(i) - B!IndexDepth(E(j)) = j}
  <1>2. 0 \in T
    <2>1. i \in Nat
      OBVIOUS
    <2>2. E(0) = i
      BY <2>1, FbElder
    <2>3. B!IndexDepth(i) \in Int
      BY FbDepth
    <2> HIDE DEF E
    <2> QED BY <2>2, <2>3
  <1>3. ASSUME NEW j \in Nat, j \in T PROVE j + 1 \in T
    <2> SUFFICES ASSUME E(j + 1) >= 0
                 PROVE  /\ E(j + 1) \in 0 .. Nr - 1
                        /\ B!IndexDepth(i) - B!IndexDepth(E(j + 1)) = j + 1
      OBVIOUS
    <2>1. E(j) \in Int /\ E(j + 1) = B!Parent(E(j))
      BY FbElder
    <2>2. E(j) >= 0 /\ E(j) # 0
      BY <2>1 DEF B!Parent
    <2>3. E(j) \in 0 .. Nr - 1 /\ B!IndexDepth(i) - B!IndexDepth(E(j)) = j
      BY <1>3, <2>2
    <2>4. B!IndexDepth(i) \in Int /\ B!IndexDepth(E(j)) \in Int
      BY <2>3, FbDepth
    <2> HIDE DEF E
    <2> QED BY <1>1, <2>1, <2>2, <2>3, <2>4
  <1> HIDE DEF T
  <1>4. Nat \subseteq T
    BY <1>2, <1>3, NatSet
  <1> QED BY <1>4 DEF T

-----------------------------------------------------------------------------
(* The binary heap: its invariant, phase by phase. *)

FbElderOf(j) == B!ElderIndex(index, j)

FbInOrder(i) == Key[array[B!Parent(i)]] <= Key[array[i]]

(* What the call in progress works on. *)
FbControl ==
  /\ pc = "idle" => call = "none"
  /\ pc = "rise" => call = "insert" /\ elem \in Elems /\ index < cnt /\ out = None
  /\ pc \in {"descend", "climb", "sift", "placed"} =>
       /\ index < nr /\ root < nr
       /\ (call = "extract" /\ root = 0 /\ nr = cnt) \/ call = "build"
  /\ pc \in {"descend", "climb", "sift"} => elem \in Elems
  /\ pc \in {"descend", "climb"} =>
       /\ \E j \in Nat : FbElderOf(j) = root
       /\ array[root] \in Elems
       /\ call = "build" => array[root] = elem
  /\ pc = "sift" => FbElderOf(depth) >= root

(* While an element rises, the position that it leaves holds an element    *)
(* that is not to be compared: its children are in order with its parent.  *)
FbRiseOrder ==
  /\ \A i \in 1 .. cnt - 1 : i # index /\ B!Parent(i) # index => FbInOrder(i)
  /\ \A i \in 1 .. cnt - 1 : B!Parent(i) = index =>
       /\ Key[elem] <= Key[array[i]]
       /\ index # 0 => Key[array[B!Parent(index)]] <= Key[array[i]]

(* Below the root of the subtree being worked on, elements are in order.   *)
FbBelowRoot ==
  \A i \in 1 .. nr - 1 :
    B!Parent(i) > root \/ (call = "extract" /\ B!Parent(i) = 0) => FbInOrder(i)

FbAboveKids == \A i \in 1 .. nr - 1 : B!Parent(i) = index => Key[elem] <= Key[array[i]]

(* Nor, on the path of smallest children, is an element by its sibling.    *)
FbDescendOrder ==
  /\ FbBelowRoot
  /\ \A j \in Nat, i \in 1 .. nr - 1 :
       FbElderOf(j) > root /\ B!Parent(i) = FbElderOf(j + 1) =>
         Key[array[FbElderOf(j)]] <= Key[array[i]]
  /\ Key[array[root]] <= Key[elem]

(* Elements of the path that are still to move up are not preceded by the  *)
(* one to place, and the hole between them splits no pair out of order.    *)
FbSiftOrder ==
  LET hole == FbElderOf(depth) IN
  /\ \A i \in 1 .. nr - 1 :
       i # hole /\ B!Parent(i) # hole /\ B!Parent(i) >= root => FbInOrder(i)
  /\ hole # root =>
       /\ Key[array[B!Parent(hole)]] <= Key[elem]
       /\ \A i \in 1 .. nr - 1 :
            B!Parent(i) = hole => Key[array[B!Parent(hole)]] <= Key[array[i]]
  /\ \A j \in 0 .. depth - 1 :
       /\ Key[array[FbElderOf(j)]] <= Key[elem]
       /\ \A i \in 1 .. nr - 1 :
            B!Parent(i) = FbElderOf(j + 1) => Key[array[FbElderOf(j)]] <= Key[array[i]]

FbOrder ==
  /\ pc = "idle" => \A i \in 1 .. cnt - 1 : FbInOrder(i)
  /\ pc = "rise" => FbRiseOrder
  /\ pc \in {"descend", "climb"} => FbDescendOrder
  /\ pc \in {"climb", "sift"} => FbAboveKids
  /\ pc = "sift" => FbSiftOrder
  /\ pc = "placed" => \A i \in 1 .. nr - 1 : B!Parent(i) >= root => FbInOrder(i)

FbInv == B!NothingLost /\ FbControl /\ FbOrder

-----------------------------------------------------------------------------

(* Elements in use can be compared, but for what the hole holds. *)
LEMMA FbItems ==
  ASSUME FbInv
  PROVE  /\ B!TypeOK
         /\ \A x \in Elems : Key[x] \in Int
         /\ \A i \in 0 .. B!Used - 1 : i # B!Hole => array[i] \in Elems
         /\ pc = "idle" => \A i \in 0 .. cnt - 1 : array[i] \in Elems
         /\ pc = "rise" => \A i \in 0 .. cnt - 1 : i # index => array[i] \in Elems
         /\ pc \in {"descend", "climb", "placed"} => \A i \in 0 .. nr - 1 : array[i] \in Elems
         /\ pc = "sift" => \A i \in 0 .. nr - 1 : i # FbElderOf(depth) => array[i] \in Elems
  <1>1. B!TypeOK
    BY DEF FbInv, B!NothingLost
  <1>2. \A x \in Elems : Key[x] \in Int
    BY KeyAssumption
  <1>3. ASSUME NEW i \in 0 .. B!Used - 1, i # B!Hole PROVE array[i] \in Elems
    BY <1>3 DEF FbInv, B!NothingLost, B!At
  <1>4. ASSUME pc = "idle", NEW i \in 0 .. cnt - 1 PROVE array[i] \in Elems
    <2>1. B!Used = cnt /\ B!Hole = Nr /\ i # Nr
      BY <1>1, <1>4, NrAssumption DEF FbInv, FbControl, B!TypeOK, B!Used, B!Hole
    <2> QED BY <1>3, <1>4, <2>1
  <1>5. ASSUME pc = "rise", NEW i \in 0 .. cnt - 1, i # index PROVE array[i] \in Elems
    <2>1. B!Used = cnt /\ B!Hole = index
      BY <1>5 DEF FbInv, FbControl, B!Used, B!Hole
    <2> QED BY <1>3, <1>5, <2>1
  <1>6. ASSUME pc \in {"descend", "climb", "sift", "placed"} PROVE B!Used = nr
    BY <1>6 DEF FbInv, FbControl, B!Used
  <1>7. ASSUME pc \in {"descend", "climb", "placed"}, NEW i \in 0 .. nr - 1 PROVE array[i] \in Elems
    <2>1. CASE pc \in {"descend", "climb"}
      <3>1. array[root] \in Elems /\ B!Hole = root
        BY <2>1 DEF FbInv, FbControl, B!Hole
      <3> QED BY <1>3, <1>6, <1>7, <3>1
    <2>2. CASE pc = "placed"
      <3>1. B!Hole = Nr /\ i # Nr
        BY <1>1, <2>2, NrAssumption DEF B!TypeOK, B!Hole
      <3> QED BY <1>3, <1>6, <1>7, <3>1
    <2> QED BY <1>7, <2>1, <2>2
  <1>8. ASSUME pc = "sift", NEW i \in 0 .. nr - 1, i # FbElderOf(depth) PROVE array[i] \in Elems
    <2>1. B!Hole = FbElderOf(depth)
      BY <1>8 DEF B!Hole, FbElderOf
    <2> QED BY <1>3, <1>6, <1>8, <2>1
  <1> QED BY <1>1, <1>2, <1>3, <1>4, <1>5, <1>7, <1>8

(* The root of a heap comes first. *)
LEMMA FbRootLeast ==
  ASSUME FbInv, pc = "idle"
  PROVE  \A i \in 0 .. cnt - 1 : Key[array[0]] <= Key[array[i]]
  <1> DEFINE Bad == {i \in 0 .. cnt - 1 : ~(Key[array[0]] <= Key[array[i]])}
  <1> SUFFICES ASSUME Bad # {} PROVE FALSE
    OBVIOUS
  <1>1. cnt \in Nat
    BY FbItems, NrAssumption DEF B!TypeOK
  <1>2. PICK i \in Bad : \A j \in Bad : i <= j
    <2>1. Bad \subseteq Nat
      BY <1>1
    <2> HIDE DEF Bad
    <2> QED BY <2>1, LeastElement
  <1>3. \A k \in 0 .. cnt - 1 : Key[array[k]] \in Int
    BY FbItems
  <1>4. i \in 1 .. cnt - 1 /\ i \in Nat /\ 0 \in 0 .. cnt - 1
    BY <1>1, <1>2, <1>3
  <1>5. B!Parent(i) \in 0 .. cnt - 1 /\ B!Parent(i) < i
    BY <1>1, <1>4 DEF B!Parent
  <1>6. Key[array[0]] <= Key[array[B!Parent(i)]]
    <2>1. B!Parent(i) \notin Bad
      <3> HIDE DEF Bad
      <3> QED BY <1>2, <1>4, <1>5
    <2> QED BY <1>5, <2>1
  <1>7. Key[array[B!Parent(i)]] <= Key[array[i]]
    BY <1>4 DEF FbInv, FbOrder, FbInOrder
  <1>8. Key[array[0]] <= Key[array[i]]
    BY <1>3, <1>4, <1>5, <1>6, <1>7
  <1> QED BY <1>2, <1>8

LEMMA FbInit ==
  B!Init => FbInv
  <1> SUFFICES ASSUME B!Init PROVE FbInv
    OBVIOUS
  <1> USE NrAssumption DEF B!Init, B!Empty
  <1>1. B!TypeOK
    BY DEF B!TypeOK
  <1>2. B!NothingLost
    BY <1>1 DEF B!NothingLost, B!Used
  <1>3. FbControl /\ FbOrder
    BY DEF FbControl, FbOrder
  <1> QED BY <1>2, <1>3 DEF FbInv

LEMMA FbInsertStep ==
  ASSUME FbInv, NEW e \in Elems, B!Insert(e)
  PROVE  FbInv'
  <1> USE NrAssumption
  <1> USE DEF B!Insert
  <1>1. B!TypeOK /\ FbControl /\ \A i \in 0 .. cnt - 1 : array[i] \in Elems
    BY FbItems DEF FbInv
  <1>2. B!TypeOK'
    BY <1>1 DEF B!TypeOK
  <1>3. \A i \in 0 .. cnt - 1 : B!At(i) = array[i] /\ B!At(i)' = array[i]
    BY <1>1 DEF B!At, B!Hole, B!TypeOK
  <1>4. B!Used = cnt /\ B!Used' = cnt + 1 /\ \A i \in Nat : i = cnt => B!At(i)' = e
    BY <1>1 DEF B!Used, FbControl, B!At, B!Hole
  <1>5. \A i \in 0 .. cnt - 1 : e # array[i]
    BY DEF B!Content
  <1>6. B!NothingLost'
    <2>1. cnt \in Nat
      BY <1>1 DEF B!TypeOK
    <2>2. \A i \in 0 .. (cnt + 1) - 1 : i = cnt \/ i \in 0 .. cnt - 1
      BY <2>1
    <2>3. \A i, j \in 0 .. cnt - 1 : i # j => array[i] # array[j]
      BY <1>3, <1>4 DEF FbInv, B!NothingLost
    <2> HIDE DEF B!Insert
    <2>4. \A i \in 0 .. (cnt + 1) - 1 : B!At(i)' \in Elems
      BY <1>1, <1>3, <1>4, <2>2
    <2>5. \A i, j \in 0 .. (cnt + 1) - 1 : i # j => B!At(i)' # B!At(j)'
      BY <1>3, <1>4, <1>5, <2>2, <2>3, SMTT(30)
    <2> QED BY <1>2, <1>4, <2>4, <2>5 DEF B!NothingLost
  <1>7. FbControl'
    BY <1>1 DEF FbControl, B!TypeOK
  <1>8. FbRiseOrder'
    <2>1. \A i \in 1 .. cnt' - 1 : i # index' => FbInOrder(i)
      BY <1>1 DEF FbInv, FbOrder, B!TypeOK
    <2>2. \A i \in 1 .. cnt' - 1 : B!Parent(i) # index'
      BY <1>1 DEF B!TypeOK, B!Parent
    <2> QED BY <2>1, <2>2 DEF FbRiseOrder, FbInOrder, B!Parent
  <1>9. FbOrder'
    BY <1>8 DEF FbOrder
  <1> QED BY <1>6, <1>7, <1>9 DEF FbInv

FbHeld == {B!At(i) : i \in 0 .. B!Used - 1}

(* A step that exchanges what two positions stand for, or that changes     *)
(* nothing of it, loses nothing.                                           *)
LEMMA FbSwap ==
  ASSUME B!NothingLost, B!TypeOK', B!Used' = B!Used,
         NEW a \in 0 .. B!Used - 1, NEW b \in 0 .. B!Used - 1,
         \A i \in 0 .. B!Used - 1 :
           B!At(i)' = IF i = a THEN B!At(b) ELSE IF i = b THEN B!At(a) ELSE B!At(i)
  PROVE  B!NothingLost' /\ FbHeld' = FbHeld
  <1> DEFINE U == 0 .. B!Used - 1
             F(i) == B!At(i)
             G(i) == B!At(i)'
  <1>1. \A i \in U : F(i) \in Elems
    BY DEF B!NothingLost
  <1>2. \A i, j \in U : i # j => F(i) # F(j)
    BY DEF B!NothingLost
  <1>3. \A i \in U : G(i) = IF i = a THEN F(b) ELSE IF i = b THEN F(a) ELSE F(i)
    OBVIOUS
  <1>4. FbHeld = {F(i) : i \in U} /\ FbHeld' = {G(i) : i \in U}
    BY DEF FbHeld
  <1>5. a \in U /\ b \in U
    OBVIOUS
  <1>6. SUFFICES /\ \A i \in U : G(i) \in Elems
                 /\ \A i, j \in U : i # j => G(i) # G(j)
                 /\ {F(i) : i \in U} = {G(i) : i \in U}
    BY <1>4 DEF B!NothingLost
  <1> HIDE DEF F, G, U
  <1>7. \A i \in U : G(i) \in Elems
    BY <1>1, <1>3, <1>5
  <1>8. \A i, j \in U : i # j => G(i) # G(j)
    BY <1>2, <1>3, <1>5
  <1>9. {F(i) : i \in U} = {G(i) : i \in U}
    <2>1. \A i \in U : \E j \in U : G(i) = F(j)
      BY <1>3, <1>5
    <2>2. \A i \in U : \E j \in U : F(i) = G(j)
      BY <1>3, <1>5
    <2> QED BY <2>1, <2>2
  <1> QED BY <1>7, <1>8, <1>9

LEMMA FbKept ==
  ASSUME B!NothingLost, B!TypeOK', B!Used' = B!Used,
         \A i \in 0 .. B!Used - 1 : B!At(i)' = B!At(i)
  PROVE  B!NothingLost' /\ FbHeld' = FbHeld
  BY DEF B!NothingLost, FbHeld

LEMMA FbRiseStep ==
  ASSUME FbInv, B!Rise
  PROVE  FbInv' /\ FbHeld' = FbHeld
  <1> USE NrAssumption
  <1> DEFINE p == B!Parent(index)
  <1>1. /\ B!TypeOK /\ pc = "rise" /\ call = "insert" /\ elem \in Elems
        /\ index \in 0 .. cnt - 1 /\ index # 0 /\ out = None
    BY FbItems DEF FbInv, FbControl, B!Rise, B!MustRise, B!TypeOK
  <1>2. /\ p \in 0 .. cnt - 1 /\ p < index
        /\ Key[elem] < Key[array[p]]
        /\ array' = [array EXCEPT ![index] = array[p]]
        /\ index' = p
        /\ UNCHANGED <<cnt, pc, call, elem, root, depth, nr, out>>
    BY <1>1 DEF B!Rise, B!MustRise, B!Parent, B!TypeOK
  <1> HIDE DEF p
  <1>3. \A i \in 0 .. cnt - 1 : i # index => array[i] \in Elems
    BY <1>1, FbItems
  <1>4. B!TypeOK'
    BY <1>1, <1>2, <1>3 DEF B!TypeOK
  <1>5. \A i \in 0 .. cnt - 1 : array'[i] = IF i = index THEN array[p] ELSE array[i]
    BY <1>1, <1>2 DEF B!TypeOK
  <1>6. B!NothingLost' /\ FbHeld' = FbHeld
    <2>1. B!Used = cnt /\ B!Used' = cnt
      BY <1>1, <1>2 DEF B!Used
    <2>2. \A i \in 0 .. cnt - 1 : B!At(i) = IF i = index THEN elem ELSE array[i]
      BY <1>1 DEF B!At, B!Hole
    <2>3. \A i \in 0 .. cnt - 1 : B!At(i)' = IF i = p THEN elem ELSE array'[i]
      BY <1>1, <1>2 DEF B!At, B!Hole
    <2>4. PICK a \in 0 .. cnt - 1, b \in 0 .. cnt - 1 : a = index /\ b = p
      BY <1>1, <1>2
    <2>5. \A i \in 0 .. cnt - 1 :
            B!At(i)' = IF i = a THEN B!At(b) ELSE IF i = b THEN B!At(a) ELSE B!At(i)
      BY <1>1, <1>2, <1>5, <2>2, <2>3, <2>4
    <2>6. B!NothingLost
      BY DEF FbInv
    <2>7. a \in 0 .. B!Used - 1 /\ b \in 0 .. B!Used - 1 /\ B!Used' = B!Used
      BY <2>1, <2>4
    <2>8. \A i \in 0 .. B!Used - 1 :
            B!At(i)' = IF i = a THEN B!At(b) ELSE IF i = b THEN B!At(a) ELSE B!At(i)
      BY <2>1, <2>5
    <2> QED BY <1>4, <2>6, <2>7, <2>8, FbSwap
  <1>7. FbControl'
    BY <1>1, <1>2 DEF FbControl, B!TypeOK
  <1>8. FbRiseOrder'
    <2>1. FbRiseOrder
      BY <1>1 DEF FbInv, FbOrder
    <2>2. \A i \in 1 .. cnt - 1 : B!Parent(i) \in 0 .. cnt - 1 /\ B!Parent(i) < i /\ i \in 0 .. cnt - 1
      BY <1>1 DEF B!Parent, B!TypeOK
    <2>3. p \in 0 .. cnt - 1 /\ p # index /\ B!Parent(index) = p
      BY <1>2 DEF p
    <2>4. \A i \in 0 .. cnt - 1 : i # index => Key[array[i]] \in Int
      BY <1>3, FbItems
    <2>5. \A i \in 1 .. cnt - 1 : i # index /\ B!Parent(i) # index =>
            Key[array[B!Parent(i)]] <= Key[array[i]]
      BY <2>1 DEF FbRiseOrder, FbInOrder
    <2>6. \A i \in 1 .. cnt - 1 : B!Parent(i) = index => Key[array[p]] <= Key[array[i]]
      BY <1>1, <2>1, <2>3 DEF FbRiseOrder
    <2>7. ASSUME NEW i \in 1 .. cnt - 1, i # p, B!Parent(i) # p
          PROVE  Key[array'[B!Parent(i)]] <= Key[array'[i]]
      <3>1. CASE B!Parent(i) = index
        <4>1. i # index /\ array'[i] = array[i] /\ array'[B!Parent(i)] = array[p]
          BY <1>1, <1>5, <2>2, <3>1
        <4> QED BY <2>6, <3>1, <4>1
      <3>2. CASE B!Parent(i) # index
        <4>1. i # index
          BY <2>3, <2>7
        <4>2. array'[i] = array[i] /\ array'[B!Parent(i)] = array[B!Parent(i)]
          BY <1>5, <2>2, <3>2, <4>1
        <4> QED BY <2>5, <2>7, <3>2, <4>1, <4>2
      <3> QED BY <3>1, <3>2
    <2>8. ASSUME NEW i \in 1 .. cnt - 1, B!Parent(i) = p PROVE Key[elem] <= Key[array'[i]]
      <3>0. Key[elem] \in Int /\ Key[array[p]] \in Int
        BY <1>1, <2>3, <2>4, FbItems
      <3>1. CASE i = index
        BY <1>2, <1>5, <2>2, <3>0, <3>1
      <3>2. CASE i # index
        <4>1. Key[array[p]] <= Key[array[i]]
          BY <2>3, <2>5, <2>8, <3>2
        <4>2. array'[i] = array[i] /\ Key[array[i]] \in Int
          BY <1>5, <2>2, <2>4, <3>2
        <4> QED BY <1>2, <3>0, <4>1, <4>2
      <3> QED BY <3>1, <3>2
    <2>9. ASSUME NEW i \in 1 .. cnt - 1, B!Parent(i) = p, p # 0
          PROVE  Key[array'[B!Parent(p)]] <= Key[array'[i]]
      <3>1. p \in 1 .. cnt - 1 /\ B!Parent(p) \in 0 .. cnt - 1 /\ B!Parent(p) < p /\ p < index
        BY <1>2, <2>2, <2>9
      <3>2. Key[array[B!Parent(p)]] <= Key[array[p]] /\ array'[B!Parent(p)] = array[B!Parent(p)]
        BY <1>1, <1>5, <2>5, <3>1
      <3>3. CASE i = index
        BY <1>5, <2>2, <3>2, <3>3
      <3>4. CASE i # index
        <4>1. Key[array[p]] <= Key[array[i]] /\ array'[i] = array[i]
          BY <1>5, <2>2, <2>3, <2>5, <2>9, <3>4
        <4>2. Key[array[p]] \in Int /\ Key[array[i]] \in Int /\ Key[array[B!Parent(p)]] \in Int
          BY <1>1, <2>2, <2>3, <2>4, <3>1, <3>4
        <4> QED BY <3>2, <4>1, <4>2
      <3> QED BY <3>3, <3>4
    <2>10. cnt' = cnt /\ elem' = elem /\ index' = p
      BY <1>2
    <2> QED BY <2>7, <2>8, <2>9, <2>10 DEF FbRiseOrder, FbInOrder, B!Parent
  <1>9. FbOrder'
    BY <1>1, <1>2, <1>8 DEF FbOrder
  <1> QED BY <1>6, <1>7, <1>9 DEF FbInv

LEMMA FbRiseEndsStep ==
  ASSUME FbInv, B!RiseEnds
  PROVE  FbInv' /\ FbHeld' = FbHeld
  <1> USE NrAssumption
  <1>1. /\ B!TypeOK /\ pc = "rise" /\ call = "insert" /\ elem \in Elems
        /\ index \in 0 .. cnt - 1
    BY FbItems DEF FbInv, FbControl, B!RiseEnds, B!TypeOK
  <1>2. /\ array' = [array EXCEPT ![index] = elem]
        /\ pc' = "idle" /\ call' = "none" /\ cnt' = cnt
        /\ ~B!MustRise
    BY DEF B!RiseEnds, B!Return
  <1>3. B!TypeOK'
    BY <1>1, <1>2 DEF B!TypeOK, B!RiseEnds, B!Return
  <1>4. \A i \in 0 .. cnt - 1 : array'[i] = IF i = index THEN elem ELSE array[i]
    BY <1>1, <1>2 DEF B!TypeOK
  <1>5. B!NothingLost' /\ FbHeld' = FbHeld
    <2>1. B!Used = cnt /\ B!Used' = cnt
      BY <1>1, <1>2 DEF B!Used
    <2>2. \A i \in 0 .. cnt - 1 : B!At(i)' = B!At(i)
      BY <1>1, <1>2, <1>4 DEF B!At, B!Hole, B!TypeOK
    <2>3. B!NothingLost
      BY DEF FbInv
    <2> QED BY <1>3, <2>1, <2>2, <2>3, FbKept
  <1>6. FbControl'
    BY <1>2 DEF FbControl
  <1>7. FbRiseOrder
    BY <1>1 DEF FbInv, FbOrder
  <1>8. ASSUME NEW i \in 1 .. cnt - 1 PROVE Key[array'[B!Parent(i)]] <= Key[array'[i]]
    <2>1. B!Parent(i) \in 0 .. cnt - 1 /\ B!Parent(i) < i /\ i \in 0 .. cnt - 1
      BY <1>1 DEF B!Parent, B!TypeOK
    <2>2. \A k \in 0 .. cnt - 1 : Key[array'[k]] \in Int
      BY <1>1, <1>4, FbItems
    <2>3. CASE i = index
      <3>1. ~(Key[elem] < Key[array[B!Parent(i)]])
        BY <1>2, <2>1, <2>3 DEF B!MustRise
      <3>2. array'[i] = elem /\ array'[B!Parent(i)] = array[B!Parent(i)]
        BY <1>4, <2>1, <2>3
      <3>3. Key[elem] \in Int /\ Key[array[B!Parent(i)]] \in Int
        BY <2>1, <2>2, <3>2
      <3> QED BY <3>1, <3>2, <3>3
    <2>4. CASE B!Parent(i) = index
      BY <1>4, <1>7, <2>1, <2>4 DEF FbRiseOrder
    <2>5. CASE i # index /\ B!Parent(i) # index
      BY <1>4, <1>7, <2>1, <2>5 DEF FbRiseOrder, FbInOrder
    <2> QED BY <2>3, <2>4, <2>5
  <1>9. FbOrder'
    BY <1>2, <1>8 DEF FbOrder, FbInOrder, B!Parent
  <1> QED BY <1>5, <1>6, <1>9 DEF FbInv

LEMMA FbExtractStep ==
  ASSUME FbInv, B!Extract
  PROVE  FbInv' /\ cnt > 0 /\ out' = array[0] /\ FbHeld' = FbHeld \ {array[0]}
  <1> USE NrAssumption
  <1>1. /\ B!TypeOK /\ pc = "idle" /\ call = "none" /\ cnt \in 1 .. Nr
        /\ \A i \in 0 .. cnt - 1 : array[i] \in Elems
    BY FbItems DEF FbInv, FbControl, B!Extract, B!TypeOK
  <1>2. /\ out' = array[0] /\ cnt' = cnt - 1
        /\ array' = [array EXCEPT ![cnt - 1] = None]
        /\ cnt = 1 => UNCHANGED <<pc, call, elem, index, root, nr>>
        /\ cnt # 1 => /\ pc' = "descend" /\ call' = "extract" /\ nr' = cnt - 1
                      /\ elem' = array[cnt - 1] /\ index' = 0 /\ root' = 0
        /\ depth' = depth
    BY DEF B!Extract
  <1>3. B!TypeOK'
    <2>1. cnt - 1 \in 0 .. Nr - 1 /\ 0 \in 0 .. cnt - 1 /\ cnt - 1 \in 0 .. cnt - 1
      BY <1>1
    <2> QED BY <1>1, <1>2, <2>1 DEF B!TypeOK
  <1>4. \A i \in 0 .. cnt - 2 : array'[i] = array[i]
    BY <1>1, <1>2 DEF B!TypeOK
  <1>5. B!Used = cnt /\ B!Used' = cnt - 1
    BY <1>1, <1>2 DEF B!Used
  <1>6. \A i \in 0 .. cnt - 1 : B!At(i) = array[i]
    BY <1>1 DEF B!At, B!Hole
  <1>7. \A i \in 0 .. cnt - 2 : B!At(i)' = IF i = 0 THEN array[cnt - 1] ELSE array[i]
    <2>1. CASE cnt = 1
      BY <2>1
    <2>2. CASE cnt # 1
      BY <1>1, <1>2, <1>4, <2>2 DEF B!At, B!Hole
    <2> QED BY <2>1, <2>2
  <1>8. \A i, j \in 0 .. cnt - 1 : i # j => array[i] # array[j]
    BY <1>5, <1>6 DEF FbInv, B!NothingLost
  <1>9. B!NothingLost'
    <2>1. \A i \in 0 .. cnt - 2 : B!At(i)' \in Elems
      BY <1>1, <1>7
    <2>2. \A i, j \in 0 .. cnt - 2 : i # j => B!At(i)' # B!At(j)'
      BY <1>1, <1>7, <1>8
    <2>3. (cnt - 1) - 1 = cnt - 2
      BY <1>1
    <2> QED BY <1>3, <1>5, <2>1, <2>2, <2>3 DEF B!NothingLost
  <1>10. FbHeld' = FbHeld \ {array[0]}
    <2> DEFINE F(i) == B!At(i)
               G(i) == B!At(i)'
    <2>1. FbHeld = {F(i) : i \in 0 .. cnt - 1}
      BY <1>5 DEF FbHeld
    <2>2. FbHeld' = {G(i) : i \in 0 .. cnt - 2}
      <3>1. (cnt - 1) - 1 = cnt - 2
        BY <1>1
      <3> QED BY <1>5, <3>1 DEF FbHeld
    <2>3. \A i \in 0 .. cnt - 1 : F(i) = array[i]
      BY <1>6
    <2>4. \A i \in 0 .. cnt - 2 : G(i) = IF i = 0 THEN array[cnt - 1] ELSE array[i]
      BY <1>7
    <2> HIDE DEF F, G
    <2>5. \A i \in 0 .. cnt - 2 : \E j \in 0 .. cnt - 1 : j # 0 /\ G(i) = F(j)
      <3> TAKE i \in 0 .. cnt - 2
      <3>1. CASE i = 0
        <4>1. cnt - 1 \in 0 .. cnt - 1 /\ cnt - 1 # 0
          BY <1>1, <3>1
        <4> QED BY <2>3, <2>4, <3>1, <4>1
      <3>2. CASE i # 0
        <4>1. i \in 0 .. cnt - 1
          BY <1>1
        <4> QED BY <2>3, <2>4, <3>2, <4>1
      <3> QED BY <3>1, <3>2
    <2>6. \A j \in 0 .. cnt - 1 : j # 0 => \E i \in 0 .. cnt - 2 : F(j) = G(i)
      <3> TAKE j \in 0 .. cnt - 1
      <3> HAVE j # 0
      <3>1. CASE j = cnt - 1
        <4>1. 0 \in 0 .. cnt - 2
          BY <1>1, <3>1
        <4> QED BY <2>3, <2>4, <3>1, <4>1
      <3>2. CASE j # cnt - 1
        <4>1. j \in 0 .. cnt - 2
          BY <1>1, <3>2
        <4> QED BY <2>3, <2>4, <3>2, <4>1
      <3> QED BY <3>1, <3>2
    <2>7. \A j \in 0 .. cnt - 1 : F(j) = array[0] <=> j = 0
      BY <1>1, <1>8, <2>3
    <2> QED BY <2>1, <2>2, <2>5, <2>6, <2>7
  <1>11. FbControl'
    <2>1. CASE cnt = 1
      BY <1>1, <1>2, <2>1 DEF FbControl
    <2>2. CASE cnt # 1
      <3>1. FbElderOf(0)' = 0
        BY <1>2, <2>2, FbElder DEF FbElderOf
      <3>2. array'[0] \in Elems
        BY <1>1, <1>4, <2>2
      <3> QED BY <1>1, <1>2, <2>2, <3>1, <3>2 DEF FbControl
    <2> QED BY <2>1, <2>2
  <1>12. FbOrder'
    <2>1. CASE cnt = 1
      BY <1>1, <1>2, <2>1 DEF FbOrder
    <2>2. CASE cnt # 1
      <3>1. ASSUME NEW i \in 1 .. (cnt - 1) - 1 PROVE FbInOrder(i)'
        <4>1. B!Parent(i) \in 0 .. cnt - 2 /\ i \in 0 .. cnt - 2 /\ i \in 1 .. cnt - 1
          BY <1>1 DEF B!Parent
        <4>2. Key[array[B!Parent(i)]] <= Key[array[i]]
          BY <1>1, <4>1 DEF FbInv, FbOrder, FbInOrder
        <4> QED BY <1>4, <4>1, <4>2 DEF FbInOrder, B!Parent
      <3>2. \A j \in Nat : ~(FbElderOf(j)' > root')
        <4> TAKE j \in Nat
        <4>1. B!ElderIndex(0, j) <= 0 /\ B!ElderIndex(0, j) \in Int
          BY FbElderBelow, FbElder
        <4>2. FbElderOf(j)' = B!ElderIndex(0, j)
          BY <1>2, <2>2 DEF FbElderOf, B!ElderIndex
        <4> QED BY <1>2, <2>2, <4>1, <4>2
      <3>3. Key[array'[root']] <= Key[elem']
        <4>1. 0 \in 0 .. cnt - 2 /\ cnt - 1 \in 0 .. cnt - 1
          BY <1>1, <2>2
        <4>2. Key[array[0]] <= Key[array[cnt - 1]]
          BY <1>1, <4>1, FbRootLeast
        <4> QED BY <1>2, <1>4, <2>2, <4>1, <4>2
      <3>4. FbDescendOrder'
        BY <1>2, <2>2, <3>1, <3>2, <3>3 DEF FbDescendOrder, FbBelowRoot
      <3> QED BY <1>2, <2>2, <3>4 DEF FbOrder
    <2> QED BY <2>1, <2>2
  <1>13. cnt > 0
    BY <1>1
  <1> QED BY <1>2, <1>9, <1>10, <1>11, <1>12, <1>13 DEF FbInv

(* What the client fills the array with. *)
LEMMA FbFilling ==
  ASSUME NEW content \in B!Fillings
  PROVE  LET count == B!Cardinality(DOMAIN content)
         IN  /\ count \in 1 .. Nr
             /\ content \in [0 .. count - 1 -> Elems]
             /\ \A i, j \in 0 .. count - 1 : i # j => content[i] # content[j]
  <1> USE NrAssumption
  <1>1. PICK n \in 1 .. Nr : content \in B!Injection(0 .. n - 1, Elems)
    BY DEF B!Fillings
  <1>2. content \in [0 .. n - 1 -> Elems] /\ \A i, j \in 0 .. n - 1 : i # j => content[i] # content[j]
    BY <1>1 DEF B!Injection, B!IsInjective
  <1>3. Cardinality(0 .. n - 1) = n
    BY FS_Interval
  <1>4. B!Cardinality(0 .. n - 1) = Cardinality(0 .. n - 1)
    BY DEF B!Cardinality, Cardinality
  <1>5. DOMAIN content = 0 .. n - 1
    BY <1>2
  <1> QED BY <1>2, <1>3, <1>4, <1>5

LEMMA FbBuildStep ==
  ASSUME FbInv, NEW content \in B!Fillings, cnt = 0, B!Build(B!Cardinality(DOMAIN content), content)
  PROVE  FbInv'
  <1> USE NrAssumption
  <1> DEFINE count == B!Cardinality(DOMAIN content)
  <1>1. /\ count \in 1 .. Nr
        /\ content \in [0 .. count - 1 -> Elems]
        /\ \A i, j \in 0 .. count - 1 : i # j => content[i] # content[j]
    BY FbFilling
  <1>2. /\ pc = "idle"
        /\ array' = [i \in 0 .. Nr - 1 |-> IF i < count THEN content[i] ELSE None]
        /\ count = 1 => cnt' = count /\ UNCHANGED <<pc, call, elem, index, root, nr>>
        /\ count # 1 => /\ pc' = "descend" /\ call' = "build" /\ nr' = count
                        /\ root' = count \div 2 - 1 /\ index' = root'
                        /\ elem' = content[root'] /\ cnt' = cnt
        /\ out' = None /\ depth' = depth
    BY DEF B!Build
  <1> HIDE DEF count
  <1>3. B!TypeOK /\ call = "none"
    BY <1>2, FbItems DEF FbInv, FbControl
  <1>4. \A i \in 0 .. count - 1 : array'[i] = content[i]
    BY <1>1, <1>2
  <1>5. count # 1 => count \div 2 - 1 \in 0 .. count - 1
    BY <1>1
  <1>6. B!TypeOK'
    <2>1. array' \in [0 .. Nr - 1 -> Elems \cup {None}]
      BY <1>1, <1>2
    <2>2. CASE count = 1
      BY <1>1, <1>2, <1>3, <2>1, <2>2 DEF B!TypeOK
    <2>3. CASE count # 1
      <3>1. content[count \div 2 - 1] \in Elems
        BY <1>1, <1>5, <2>3
      <3> QED BY <1>1, <1>2, <1>3, <1>5, <2>1, <2>3, <3>1 DEF B!TypeOK
    <2> QED BY <2>2, <2>3
  <1>7. B!Used' = count /\ \A i \in 0 .. count - 1 : B!At(i)' = content[i]
    <2>1. CASE count = 1
      BY <1>1, <1>2, <1>3, <1>4, <2>1 DEF B!Used, B!At, B!Hole, B!TypeOK
    <2>2. CASE count # 1
      BY <1>2, <1>4, <2>2 DEF B!Used, B!At, B!Hole
    <2> QED BY <2>1, <2>2
  <1>8. B!NothingLost'
    <2>1. \A i \in 0 .. count - 1 : B!At(i)' \in Elems
      BY <1>1, <1>7
    <2>2. \A i, j \in 0 .. count - 1 : i # j => B!At(i)' # B!At(j)'
      BY <1>1, <1>7
    <2> QED BY <1>6, <1>7, <2>1, <2>2 DEF B!NothingLost
  <1>9. FbControl'
    <2>1. CASE count = 1
      BY <1>2, <1>3, <2>1 DEF FbControl
    <2>2. CASE count # 1
      <3>1. content[count \div 2 - 1] \in Elems /\ array'[root'] = elem' /\ elem' = content[root']
        BY <1>1, <1>2, <1>4, <1>5, <2>2
      <3>2. root' \in Nat /\ index' = root' /\ root' < count
        BY <1>1, <1>2, <1>5, <2>2
      <3>3. FbElderOf(0)' = root'
        BY <3>2, FbElder DEF FbElderOf
      <3> QED BY <1>2, <2>2, <3>1, <3>2, <3>3 DEF FbControl
    <2> QED BY <2>1, <2>2
  <1>10. FbOrder'
    <2>1. CASE count = 1
      BY <1>2, <1>3, <2>1 DEF FbOrder
    <2>2. CASE count # 1
      <3>1. \A i \in 1 .. count - 1 : ~(B!Parent(i) > count \div 2 - 1)
        BY <1>1 DEF B!Parent
      <3>2. \A j \in Nat : ~(FbElderOf(j)' > root')
        <4> TAKE j \in Nat
        <4>1. root' \in Nat /\ index' = root'
          BY <1>1, <1>2, <1>5, <2>2
        <4>2. B!ElderIndex(index', j) <= index' /\ B!ElderIndex(index', j) \in Int
          BY <4>1, FbElderBelow, FbElder
        <4> QED BY <4>1, <4>2 DEF FbElderOf
      <3>3. Key[array'[root']] <= Key[elem']
        <4>1. array'[root'] = elem' /\ elem' \in Elems
          BY <1>1, <1>2, <1>4, <1>5, <2>2
        <4>2. Key[elem'] \in Int
          BY <4>1, FbItems
        <4> QED BY <4>1, <4>2
      <3>4. FbDescendOrder'
        BY <1>2, <2>2, <3>1, <3>2, <3>3 DEF FbDescendOrder, FbBelowRoot, B!Parent
      <3> QED BY <1>2, <2>2, <3>4 DEF FbOrder
    <2> QED BY <2>1, <2>2
  <1> QED BY <1>8, <1>9, <1>10 DEF FbInv

LEMMA FbClearStep ==
  ASSUME FbInv, B!Clear
  PROVE  FbInv'
  <1> USE NrAssumption
  <1> USE DEF B!Clear, B!Empty
  <1>1. B!TypeOK /\ call = "none"
    BY FbItems DEF FbInv, FbControl
  <1>2. B!TypeOK'
    BY <1>1 DEF B!TypeOK
  <1>3. B!NothingLost'
    BY <1>1, <1>2 DEF B!NothingLost, B!Used
  <1>4. FbControl' /\ FbOrder'
    BY <1>1 DEF FbControl, FbOrder
  <1> QED BY <1>3, <1>4 DEF FbInv

(* What holds while the path of smallest children is followed. *)
LEMMA FbOnPath ==
  ASSUME FbInv, pc \in {"descend", "climb"}
  PROVE  /\ B!TypeOK /\ elem \in Elems /\ index \in 0 .. nr - 1 /\ root \in 0 .. nr - 1
         /\ root <= index
         /\ call \in {"extract", "build"} /\ nr \in 1 .. Nr
         /\ \A j \in Nat : FbElderOf(j) \in Int /\ FbElderOf(j) <= index
         /\ FbElderOf(0) = index
         /\ FbDescendOrder
  <1>1. B!TypeOK
    BY FbItems
  <1>2. /\ index < nr /\ root < nr /\ elem \in Elems /\ call \in {"extract", "build"}
        /\ FbDescendOrder
    BY DEF FbInv, FbControl, FbOrder
  <1>3. \A j \in Nat : FbElderOf(j) \in Int /\ FbElderOf(j) <= index
    <2>1. index \in Nat
      BY <1>1, NrAssumption DEF B!TypeOK
    <2>2. \A j \in Nat : B!ElderIndex(index, j) <= index
      BY <2>1, FbElderBelow
    <2>3. \A j \in Nat : B!ElderIndex(index, j) \in Int
      BY <2>1, FbElder
    <2> QED BY <2>2, <2>3 DEF FbElderOf
  <1>4. FbElderOf(0) = index
    BY <1>1, NrAssumption, FbElder DEF B!TypeOK, FbElderOf
  <1>5. root <= index
    BY <1>3 DEF FbInv, FbControl
  <1>6. index \in 0 .. nr - 1 /\ root \in 0 .. nr - 1 /\ nr \in 1 .. Nr
    BY <1>1, <1>2, NrAssumption DEF B!TypeOK
  <1> QED BY <1>1, <1>2, <1>3, <1>4, <1>5, <1>6

(* One more step down the path. *)
LEMMA FbDown ==
  ASSUME NEW i \in Nat, NEW c \in Nat, c # 0, B!Parent(c) = i
  PROVE  \A j \in Nat : B!ElderIndex(c, j + 1) = B!ElderIndex(i, j)
  BY FbElder

LEMMA FbDescendStep ==
  ASSUME FbInv, B!Descend
  PROVE  FbInv' /\ FbHeld' = FbHeld
  <1> USE NrAssumption
  <1>1. /\ pc = "descend" /\ B!RightChild(index) < nr /\ index' = B!SmallestChild
        /\ UNCHANGED <<cnt, array, pc, call, elem, root, depth, nr, out>>
    BY DEF B!Descend
  <1>2. /\ B!TypeOK /\ elem \in Elems /\ index \in 0 .. nr - 1 /\ root \in 0 .. nr - 1
        /\ root <= index /\ nr \in 1 .. Nr /\ FbDescendOrder
    BY <1>1, FbOnPath
  <1> DEFINE l == B!LeftChild(index)
             r == B!RightChild(index)
  <1>3. /\ l \in 1 .. nr - 1 /\ r \in 1 .. nr - 1 /\ index < l /\ index < r
        /\ B!Parent(l) = index /\ B!Parent(r) = index
        /\ \A i \in 1 .. nr - 1 : B!Parent(i) = index => i = l \/ i = r
    <2>1. index \in Nat /\ nr \in Nat
      BY <1>2
    <2>2. l \in Nat /\ r \in Nat /\ l = r - 1 /\ index < l /\ B!Parent(l) = index /\ B!Parent(r) = index
      BY <2>1, FbFamily
    <2>3. \A i \in 1 .. nr - 1 : B!Parent(i) = index => i = l \/ i = r
      BY <2>1, FbFamily
    <2> HIDE DEF l, r
    <2>4. r < nr
      BY <1>1 DEF r
    <2> QED BY <2>1, <2>2, <2>3, <2>4
  <1>4. \A i \in 0 .. nr - 1 : Key[array[i]] \in Int
    BY <1>1, FbItems
  <1>5. /\ index' \in {l, r}
        /\ \A i \in 1 .. nr - 1 : B!Parent(i) = index => Key[array[index']] <= Key[array[i]]
    <2>1. index' = IF Key[array[l]] <= Key[array[r]] THEN l ELSE r
      BY <1>1 DEF B!SmallestChild
    <2> HIDE DEF l, r
    <2>2. Key[array[l]] \in Int /\ Key[array[r]] \in Int
      BY <1>3, <1>4
    <2> QED BY <1>3, <2>1, <2>2
  <1>6. /\ index' \in 1 .. nr - 1 /\ index < index' /\ B!Parent(index') = index
        /\ index' \in Nat /\ index \in Nat /\ index' # 0
    <2> HIDE DEF l, r
    <2> QED BY <1>2, <1>3, <1>5
  <1> HIDE DEF l, r
  <1>7. \A j \in Nat : FbElderOf(j + 1)' = FbElderOf(j)
    BY <1>6, FbDown DEF FbElderOf
  <1>8. FbElderOf(0)' = index'
    BY <1>6, FbElder DEF FbElderOf
  <1>9. B!TypeOK'
    BY <1>1, <1>2, <1>6 DEF B!TypeOK
  <1>10. B!NothingLost' /\ FbHeld' = FbHeld
    <2>1. B!Used' = B!Used /\ \A i \in 0 .. B!Used - 1 : B!At(i)' = B!At(i)
      BY <1>1 DEF B!Used, B!At, B!Hole
    <2> QED BY <1>9, <2>1, FbKept DEF FbInv
  <1>11. FbControl'
    <2>1. PICK j \in Nat : FbElderOf(j) = root
      BY <1>1 DEF FbInv, FbControl
    <2>2. j + 1 \in Nat /\ FbElderOf(j + 1)' = root'
      BY <1>1, <1>7, <2>1
    <2>3. FbControl
      BY DEF FbInv
    <2>4. index' < nr
      BY <1>2, <1>6
    <2> QED BY <1>1, <2>2, <2>3, <2>4 DEF FbControl
  <1>12. FbDescendOrder'
    <2>1. FbBelowRoot'
      BY <1>1, <1>2 DEF FbDescendOrder, FbBelowRoot, FbInOrder, B!Parent
    <2>2. ASSUME NEW j \in Nat, NEW i \in 1 .. nr - 1,
                 FbElderOf(j)' > root, B!Parent(i) = FbElderOf(j + 1)'
          PROVE  Key[array[FbElderOf(j)']] <= Key[array[i]]
      <3>1. CASE j = 0
        <4>1. FbElderOf(1)' = index
          BY <1>1, <1>7, FbOnPath
        <4> QED BY <1>5, <1>8, <2>2, <3>1, <4>1
      <3>2. CASE j # 0
        <4>1. j - 1 \in Nat /\ j - 1 + 1 = j
          BY <3>2
        <4>2. FbElderOf(j)' = FbElderOf(j - 1) /\ FbElderOf(j + 1)' = FbElderOf(j)
          BY <1>7, <4>1
        <4> QED BY <1>2, <2>2, <4>1, <4>2 DEF FbDescendOrder
      <3> QED BY <3>1, <3>2
    <2>3. Key[array[root]] <= Key[elem]
      BY <1>2 DEF FbDescendOrder
    <2> QED BY <1>1, <2>1, <2>2, <2>3 DEF FbDescendOrder, B!Parent
  <1>13. FbOrder'
    BY <1>1, <1>12 DEF FbOrder
  <1> QED BY <1>10, <1>11, <1>13 DEF FbInv

LEMMA FbDescendEndsStep ==
  ASSUME FbInv, B!DescendEnds
  PROVE  FbInv' /\ FbHeld' = FbHeld
  <1> USE NrAssumption
  <1>1. /\ pc = "descend" /\ ~(B!RightChild(index) < nr) /\ index' = B!Leaf /\ pc' = "climb"
        /\ UNCHANGED <<cnt, array, call, elem, root, depth, nr, out>>
    <2>1. /\ pc = "descend" /\ B!RightChild(index) >= nr /\ index' = B!Leaf /\ pc' = "climb"
          /\ UNCHANGED <<cnt, array, call, elem, root, depth, nr, out>>
      BY DEF B!DescendEnds
    <2>2. B!RightChild(index) \in Int /\ nr \in Int
      BY FbItems DEF B!RightChild, B!TypeOK
    <2> QED BY <2>1, <2>2
  <1>2. /\ B!TypeOK /\ elem \in Elems /\ index \in 0 .. nr - 1 /\ root \in 0 .. nr - 1
        /\ root <= index /\ nr \in 1 .. Nr /\ FbDescendOrder
    BY <1>1, FbOnPath
  <1> DEFINE l == B!LeftChild(index)
  <1>3. /\ l \in Nat /\ index < l /\ B!Parent(l) = index /\ ~(l + 1 < nr)
        /\ \A i \in 1 .. nr - 1 : B!Parent(i) = index => i = l
    <2>1. index \in Nat /\ nr \in Nat
      BY <1>2
    <2>2. /\ B!LeftChild(index) \in Nat /\ B!RightChild(index) \in Nat
          /\ B!LeftChild(index) = B!RightChild(index) - 1 /\ index < B!LeftChild(index)
          /\ B!Parent(B!LeftChild(index)) = index
      BY <2>1, FbFamily
    <2>3. \A i \in 1 .. nr - 1 : B!Parent(i) = index =>
            i = B!LeftChild(index) \/ i = B!RightChild(index)
      BY <2>1, FbFamily
    <2> QED BY <1>1, <2>1, <2>2, <2>3
  <1>4. \A i \in 0 .. nr - 1 : Key[array[i]] \in Int
    BY <1>1, FbItems
  <1>5. \/ index' = l /\ l \in 1 .. nr - 1
        \/ index' = index /\ \A i \in 1 .. nr - 1 : B!Parent(i) # index
    <2>1. index' = IF l < nr THEN l ELSE index
      BY <1>1 DEF B!Leaf
    <2> HIDE DEF l
    <2> QED BY <1>2, <1>3, <2>1
  <1> HIDE DEF l
  <1>6. index' \in 0 .. nr - 1
    BY <1>2, <1>5
  <1>7. B!TypeOK'
    BY <1>1, <1>2, <1>6 DEF B!TypeOK
  <1>8. B!NothingLost' /\ FbHeld' = FbHeld
    <2>1. B!Used' = B!Used /\ \A i \in 0 .. B!Used - 1 : B!At(i)' = B!At(i)
      BY <1>1 DEF B!Used, B!At, B!Hole
    <2> QED BY <1>7, <2>1, FbKept DEF FbInv
  <1>9. PICK j0 \in Nat : FbElderOf(j0) = root
    BY <1>1 DEF FbInv, FbControl
  <1>10. FbAboveKids'
    <2> SUFFICES ASSUME NEW i \in 1 .. nr - 1, B!Parent(i) = index' PROVE FALSE
      BY <1>1 DEF FbAboveKids, B!Parent
    <2>1. CASE index' = index /\ \A k \in 1 .. nr - 1 : B!Parent(k) # index
      BY <2>1
    <2>2. CASE index' = l /\ l \in 1 .. nr - 1
      <3>1. B!Parent(i) < i
        BY DEF B!Parent
      <3> QED BY <1>2, <1>3, <2>2, <3>1
    <2> QED BY <1>5, <2>1, <2>2
  <1>11. (\E j \in Nat : FbElderOf(j)' = root) /\ FbDescendOrder'
    <2>1. FbBelowRoot'
      BY <1>1, <1>2 DEF FbDescendOrder, FbBelowRoot, FbInOrder, B!Parent
    <2>2. Key[array[root]] <= Key[elem]
      BY <1>2 DEF FbDescendOrder
    <2>3. CASE index' = index
      <3>1. \A j \in Nat : FbElderOf(j)' = FbElderOf(j)
        BY <2>3 DEF FbElderOf, B!ElderIndex
      <3>2. \A j \in Nat, i \in 1 .. nr - 1 :
              FbElderOf(j)' > root /\ B!Parent(i) = FbElderOf(j + 1)' =>
                Key[array[FbElderOf(j)']] <= Key[array[i]]
        BY <1>2, <3>1 DEF FbDescendOrder
      <3>3. FbDescendOrder'
        BY <1>1, <2>1, <2>2, <3>2 DEF FbDescendOrder, B!Parent
      <3> QED BY <1>9, <3>1, <3>3
    <2>4. CASE index' = l /\ l \in 1 .. nr - 1
      <3>1. index' \in Nat /\ index \in Nat /\ index' # 0 /\ B!Parent(index') = index
        BY <1>2, <1>3, <2>4
      <3>2. \A j \in Nat : FbElderOf(j + 1)' = FbElderOf(j)
        BY <3>1, FbDown DEF FbElderOf
      <3>3. FbElderOf(0)' = index'
        BY <3>1, FbElder DEF FbElderOf
      <3>4. ASSUME NEW j \in Nat, NEW i \in 1 .. nr - 1,
                   FbElderOf(j)' > root, B!Parent(i) = FbElderOf(j + 1)'
            PROVE  Key[array[FbElderOf(j)']] <= Key[array[i]]
        <4>1. CASE j = 0
          <5>1. FbElderOf(1)' = index
            BY <1>1, <3>2, FbOnPath
          <5>2. i = index'
            BY <1>3, <2>4, <3>4, <4>1, <5>1
          <5>3. Key[array[i]] \in Int
            BY <1>4
          <5> QED BY <3>3, <4>1, <5>2, <5>3
        <4>2. CASE j # 0
          <5>1. j - 1 \in Nat /\ j - 1 + 1 = j
            BY <4>2
          <5>2. FbElderOf(j)' = FbElderOf(j - 1) /\ FbElderOf(j + 1)' = FbElderOf(j)
            BY <3>2, <5>1
          <5> QED BY <1>2, <3>4, <5>1, <5>2 DEF FbDescendOrder
        <4> QED BY <4>1, <4>2
      <3>5. FbDescendOrder'
        BY <1>1, <2>1, <2>2, <3>4 DEF FbDescendOrder, B!Parent
      <3>6. j0 + 1 \in Nat /\ FbElderOf(j0 + 1)' = root
        BY <1>9, <3>2
      <3> QED BY <3>5, <3>6
    <2> QED BY <1>5, <2>3, <2>4
  <1>12. FbControl'
    <2>1. FbControl
      BY DEF FbInv
    <2>2. index' < nr
      BY <1>2, <1>6
    <2> QED BY <1>1, <1>11, <2>1, <2>2 DEF FbControl
  <1>13. FbOrder'
    BY <1>1, <1>10, <1>11 DEF FbOrder
  <1> QED BY <1>8, <1>12, <1>13 DEF FbInv

(* The root is never climbed beyond: it does not precede the element. *)
LEMMA FbClimbStep ==
  ASSUME FbInv, B!Climb
  PROVE  FbInv' /\ FbHeld' = FbHeld
  <1> USE NrAssumption
  <1>1. /\ pc = "climb" /\ Key[elem] < Key[array[index]] /\ index' = B!Parent(index)
        /\ UNCHANGED <<cnt, array, pc, call, elem, root, depth, nr, out>>
    BY DEF B!Climb, B!MustClimb
  <1>2. /\ B!TypeOK /\ elem \in Elems /\ index \in 0 .. nr - 1 /\ root \in 0 .. nr - 1
        /\ root <= index /\ nr \in 1 .. Nr /\ FbDescendOrder
        /\ FbElderOf(0) = index
    BY <1>1, FbOnPath
  <1>3. \A i \in 0 .. nr - 1 : Key[array[i]] \in Int
    BY <1>1, FbItems
  <1>4. Key[elem] \in Int /\ Key[array[root]] \in Int /\ Key[array[index]] \in Int
    BY <1>2, <1>3, FbItems
  <1>5. index # root
    BY <1>1, <1>2, <1>4 DEF FbDescendOrder
  <1>6. /\ index \in Nat /\ index' \in Nat /\ index # 0 /\ index' < index
        /\ index > root
    BY <1>1, <1>2, <1>5 DEF B!Parent
  <1>7. \A j \in Nat : FbElderOf(j)' = FbElderOf(j + 1)
    BY <1>1, <1>6, FbElder DEF FbElderOf
  <1>8. B!TypeOK' /\ index' < nr
    BY <1>1, <1>2, <1>6 DEF B!TypeOK
  <1>9. B!NothingLost' /\ FbHeld' = FbHeld
    <2>1. B!Used' = B!Used /\ \A i \in 0 .. B!Used - 1 : B!At(i)' = B!At(i)
      BY <1>1 DEF B!Used, B!At, B!Hole
    <2> QED BY <1>8, <2>1, FbKept DEF FbInv
  <1>10. \E j \in Nat : FbElderOf(j)' = root
    <2>1. PICK j \in Nat : FbElderOf(j) = root
      BY <1>1 DEF FbInv, FbControl
    <2>2. j # 0
      BY <1>2, <1>5, <2>1
    <2>3. j - 1 \in Nat /\ j - 1 + 1 = j
      BY <2>2
    <2>4. FbElderOf(j - 1)' = FbElderOf(j)
      BY <1>7, <2>3
    <2> QED BY <2>1, <2>3, <2>4
  <1>11. FbControl'
    <2>1. FbControl
      BY DEF FbInv
    <2> QED BY <1>1, <1>8, <1>10, <2>1 DEF FbControl
  <1>12. FbAboveKids'
    <2> SUFFICES ASSUME NEW i \in 1 .. nr - 1, B!Parent(i) = index'
                 PROVE  Key[elem] <= Key[array[i]]
      BY <1>1 DEF FbAboveKids, B!Parent
    <2>1. FbElderOf(0 + 1) = index'
      BY <1>1, <1>6, FbElder DEF FbElderOf
    <2>2. Key[array[index]] <= Key[array[i]]
      BY <1>2, <1>6, <2>1 DEF FbDescendOrder
    <2>3. Key[array[i]] \in Int
      BY <1>3
    <2> QED BY <1>1, <1>4, <2>2, <2>3
  <1>13. FbDescendOrder'
    <2>1. FbBelowRoot'
      BY <1>1, <1>2 DEF FbDescendOrder, FbBelowRoot, FbInOrder, B!Parent
    <2>2. ASSUME NEW j \in Nat, NEW i \in 1 .. nr - 1,
                 FbElderOf(j)' > root, B!Parent(i) = FbElderOf(j + 1)'
          PROVE  Key[array[FbElderOf(j)']] <= Key[array[i]]
      <3>1. j + 1 \in Nat
        OBVIOUS
      <3> QED BY <1>2, <1>7, <2>2, <3>1 DEF FbDescendOrder
    <2>3. Key[array[root]] <= Key[elem]
      BY <1>2 DEF FbDescendOrder
    <2> QED BY <1>1, <2>1, <2>2, <2>3 DEF FbDescendOrder, B!Parent
  <1>14. FbOrder'
    BY <1>1, <1>12, <1>13 DEF FbOrder
  <1> QED BY <1>9, <1>11, <1>14 DEF FbInv

(* Where the climb ends is as many levels below the root of the subtree as *)
(* stroll_fbheap_siftup() is told.                                         *)
LEMMA FbPath ==
  ASSUME FbInv, pc = "climb"
  PROVE  /\ B!PathLength \in 0 .. Nr /\ FbElderOf(B!PathLength) = root
         /\ \A j \in 0 .. B!PathLength - 1 : FbElderOf(j) > root
  <1> USE NrAssumption
  <1>1. /\ B!TypeOK /\ index \in 0 .. nr - 1 /\ root \in 0 .. nr - 1 /\ nr \in 1 .. Nr
    BY FbOnPath
  <1>2. index \in 0 .. Nr - 1 /\ root \in 0 .. Nr - 1 /\ index \in Nat
    BY <1>1
  <1>3. PICK j \in Nat : FbElderOf(j) = root
    BY DEF FbInv, FbControl
  <1>4. FbElderOf(j) >= 0
    BY <1>2, <1>3
  <1>5. B!PathLength = j
    BY <1>2, <1>3, <1>4, FbLevels DEF B!PathLength, FbElderOf
  <1>6. B!IndexDepth(index) \in 0 .. Nr /\ B!IndexDepth(root) \in 0 .. Nr
    BY <1>2, FbDepth
  <1>7. B!PathLength \in 0 .. Nr
    <2>1. j = B!IndexDepth(index) - B!IndexDepth(root)
      BY <1>5 DEF B!PathLength
    <2> QED BY <1>3, <1>5, <1>6, <2>1
  <1>8. \A k \in 0 .. j - 1 : FbElderOf(k) > root
    <2>1. \A k \in 0 .. j - 1 : B!ElderIndex(index, k) > B!ElderIndex(index, j)
      BY <1>2, <1>4, FbElderBelow DEF FbElderOf
    <2> QED BY <1>3, <2>1 DEF FbElderOf
  <1> QED BY <1>3, <1>5, <1>7, <1>8

LEMMA FbClimbEndsStep ==
  ASSUME FbInv, B!ClimbEnds
  PROVE  FbInv' /\ FbHeld' = FbHeld
  <1> USE NrAssumption
  <1>1. /\ pc = "climb" /\ ~(Key[elem] < Key[array[index]])
        /\ depth' = B!PathLength
        /\ pc' = IF call = "build" /\ index = root THEN "placed" ELSE "sift"
        /\ UNCHANGED <<cnt, array, call, elem, index, root, nr, out>>
    BY DEF B!ClimbEnds, B!MustClimb
  <1>2. /\ B!TypeOK /\ elem \in Elems /\ index \in 0 .. nr - 1 /\ root \in 0 .. nr - 1
        /\ root <= index /\ nr \in 1 .. Nr /\ FbDescendOrder
        /\ FbElderOf(0) = index /\ index \in Nat
        /\ call \in {"extract", "build"}
    BY <1>1, FbOnPath
  <1>3. /\ B!PathLength \in 0 .. Nr /\ FbElderOf(B!PathLength) = root
        /\ \A j \in 0 .. B!PathLength - 1 : FbElderOf(j) > root
    BY <1>1, FbPath
  <1>4. \A i \in 0 .. nr - 1 : Key[array[i]] \in Int
    BY <1>1, FbItems
  <1>5. Key[elem] \in Int /\ Key[array[index]] <= Key[elem]
    <2>1. Key[elem] \in Int /\ Key[array[index]] \in Int
      BY <1>2, <1>4, FbItems
    <2> QED BY <1>1, <2>1
  <1>6. FbAboveKids /\ FbControl
    BY <1>1 DEF FbInv, FbOrder
  <1>7. FbElderOf(depth)' = root /\ \A j \in Nat : FbElderOf(j)' = FbElderOf(j)
    BY <1>1, <1>3 DEF FbElderOf, B!ElderIndex
  <1>8. B!TypeOK'
    BY <1>1, <1>2, <1>3 DEF B!TypeOK
  <1>9. B!NothingLost' /\ FbHeld' = FbHeld
    <2>1. B!Used' = B!Used
      BY <1>1 DEF B!Used
    <2>2. \A i \in 0 .. B!Used - 1 : B!At(i)' = B!At(i)
      <3>1. CASE pc' = "sift"
        <4>1. B!Hole' = root /\ B!Hole = root
          BY <1>1, <1>7, <3>1 DEF B!Hole, FbElderOf
        <4> QED BY <1>1, <4>1 DEF B!At
      <3>2. CASE pc' = "placed"
        <4>1. B!Hole' = Nr /\ B!Hole = root /\ array[root] = elem
          BY <1>1, <1>6, <3>2 DEF B!Hole, FbControl
        <4>2. \A i \in 0 .. B!Used - 1 : i # Nr
          BY <1>2 DEF B!Used, B!TypeOK
        <4> QED BY <1>1, <4>1, <4>2 DEF B!At
      <3> QED BY <1>1, <3>1, <3>2
    <2> QED BY <1>8, <2>1, <2>2, FbKept DEF FbInv
  <1>10. FbControl'
    <2>1. FbElderOf(depth)' >= root'
      BY <1>1, <1>2, <1>7
    <2> QED BY <1>1, <1>6, <2>1 DEF FbControl
  <1>11. FbAboveKids'
    BY <1>1, <1>6 DEF FbAboveKids, B!Parent
  <1>12. ASSUME NEW i \in 1 .. nr - 1, B!Parent(i) > root PROVE FbInOrder(i)
    BY <1>2, <1>12 DEF FbDescendOrder, FbBelowRoot
  <1>13. ASSUME pc' = "sift" PROVE FbSiftOrder'
    <2>1. ASSUME NEW i \in 1 .. nr - 1, B!Parent(i) # root, B!Parent(i) >= root
          PROVE  Key[array[B!Parent(i)]] <= Key[array[i]]
      <3>1. B!Parent(i) > root
        BY <1>2, <2>1 DEF B!Parent
      <3> QED BY <1>12, <3>1 DEF FbInOrder
    <2> DEFINE L == B!PathLength
    <2>2. \A j \in Nat : j < L => Key[array[FbElderOf(j)]] <= Key[elem]
      <3> DEFINE T == {j \in Nat : j < L =>
                         /\ FbElderOf(j) \in 0 .. nr - 1
                         /\ Key[array[FbElderOf(j)]] <= Key[elem]}
      <3>1. 0 \in T
        BY <1>2, <1>5
      <3>2. ASSUME NEW j \in Nat, j \in T PROVE j + 1 \in T
        <4> SUFFICES ASSUME j + 1 < L
                     PROVE  /\ FbElderOf(j + 1) \in 0 .. nr - 1
                            /\ Key[array[FbElderOf(j + 1)]] <= Key[elem]
          OBVIOUS
        <4>1. L \in Int /\ j < L /\ j \in 0 .. L - 1 /\ j + 1 \in 0 .. L - 1
          BY <1>3
        <4>2. FbElderOf(j) \in 0 .. nr - 1 /\ Key[array[FbElderOf(j)]] <= Key[elem]
          BY <3>2, <4>1
        <4>3. FbElderOf(j) > root /\ FbElderOf(j + 1) > root
          BY <1>3, <4>1
        <4>4. FbElderOf(j + 1) = B!Parent(FbElderOf(j))
          BY <1>2, FbElder DEF FbElderOf
        <4>5. FbElderOf(j + 1) \in 0 .. nr - 1 /\ FbElderOf(j) \in 1 .. nr - 1
          BY <1>2, <4>2, <4>3, <4>4 DEF B!Parent
        <4>6. Key[array[FbElderOf(j + 1)]] <= Key[array[FbElderOf(j)]]
          BY <1>12, <4>3, <4>4, <4>5 DEF FbInOrder
        <4>7. Key[array[FbElderOf(j + 1)]] \in Int /\ Key[array[FbElderOf(j)]] \in Int
          BY <1>4, <4>2, <4>5
        <4> QED BY <1>5, <4>2, <4>5, <4>6, <4>7
      <3> HIDE DEF T
      <3>3. Nat \subseteq T
        BY <3>1, <3>2, NatSet
      <3> QED BY <3>3 DEF T
    <2>3. \A j \in 0 .. L - 1, i \in 1 .. nr - 1 :
            B!Parent(i) = FbElderOf(j + 1) => Key[array[FbElderOf(j)]] <= Key[array[i]]
      BY <1>2, <1>3 DEF FbDescendOrder
    <2>4. \A j \in 0 .. L - 1 : j \in Nat /\ j < L
      BY <1>3
    <2> HIDE DEF L
    <2>5. \A j \in 0 .. L - 1 : Key[array[FbElderOf(j)]] <= Key[elem]
      BY <2>2, <2>4
    <2>6. depth' = L /\ FbElderOf(depth)' = root
      BY <1>1, <1>7 DEF L
    <2>7. \A j \in 0 .. L - 1 : FbElderOf(j)' = FbElderOf(j) /\ FbElderOf(j + 1)' = FbElderOf(j + 1)
      BY <1>7, <2>4
    <2>8. array' = array /\ elem' = elem /\ nr' = nr /\ root' = root
      BY <1>1
    <2> QED BY <2>1, <2>3, <2>5, <2>6, <2>7, <2>8 DEF FbSiftOrder, FbInOrder, B!Parent
  <1>14. ASSUME pc' = "placed", NEW i \in 1 .. nr - 1, B!Parent(i) >= root
         PROVE  FbInOrder(i)
    <2>1. index = root /\ array[root] = elem
      BY <1>1, <1>6, <1>14 DEF FbControl
    <2>2. CASE B!Parent(i) = root
      BY <1>6, <2>1, <2>2 DEF FbAboveKids, FbInOrder
    <2>3. CASE B!Parent(i) # root
      <3>1. B!Parent(i) > root
        BY <1>2, <1>14, <2>3 DEF B!Parent
      <3> QED BY <1>12, <3>1
    <2> QED BY <2>2, <2>3
  <1>15. FbOrder'
    <2>1. pc' = "placed" => \A i \in 1 .. nr' - 1 : B!Parent(i) >= root' => FbInOrder(i)'
      BY <1>1, <1>14 DEF FbInOrder, B!Parent
    <2>2. pc' \in {"placed", "sift"}
      BY <1>1
    <2> QED BY <1>11, <1>13, <2>1, <2>2 DEF FbOrder, B!Parent
  <1> QED BY <1>9, <1>10, <1>15 DEF FbInv

(* What holds while elements of the path move up. *)
LEMMA FbSifting ==
  ASSUME FbInv, pc = "sift"
  PROVE  /\ B!TypeOK /\ elem \in Elems /\ index \in 0 .. nr - 1 /\ root \in 0 .. nr - 1
         /\ nr \in 1 .. Nr /\ depth \in Nat
         /\ FbElderOf(depth) \in 0 .. nr - 1 /\ FbElderOf(depth) >= root
         /\ FbElderOf(depth) <= index
         /\ \A j \in 0 .. depth - 1 : /\ FbElderOf(j) \in 1 .. nr - 1
                                      /\ FbElderOf(j) > FbElderOf(depth)
         /\ \A j \in 0 .. depth - 1 : FbElderOf(j + 1) = B!Parent(FbElderOf(j))
         /\ FbElderOf(0) = index
         /\ FbSiftOrder /\ FbAboveKids /\ FbControl
         /\ B!Hole = FbElderOf(depth) /\ B!Used = nr
  <1> USE NrAssumption
  <1>1. B!TypeOK /\ FbControl /\ FbSiftOrder /\ FbAboveKids
    BY FbItems DEF FbInv, FbOrder
  <1>2. /\ elem \in Elems /\ index \in 0 .. nr - 1 /\ root \in 0 .. nr - 1
        /\ nr \in 1 .. Nr /\ depth \in Nat /\ FbElderOf(depth) >= root /\ index \in Nat
    BY <1>1 DEF FbControl, B!TypeOK
  <1>3. \A j \in Nat : FbElderOf(j) \in Int /\ FbElderOf(j + 1) = B!Parent(FbElderOf(j))
    BY <1>2, FbElder DEF FbElderOf
  <1>4. \A j \in Nat : FbElderOf(j) <= index
    BY <1>2, FbElderBelow DEF FbElderOf
  <1>5. FbElderOf(0) = index
    BY <1>2, FbElder DEF FbElderOf
  <1>6. FbElderOf(depth) \in 0 .. nr - 1
    BY <1>2, <1>3, <1>4
  <1>7. \A j \in 0 .. depth - 1 : FbElderOf(j) > FbElderOf(depth)
    BY <1>2, <1>6, FbElderBelow DEF FbElderOf
  <1>8. \A j \in 0 .. depth - 1 : FbElderOf(j) \in 1 .. nr - 1
    <2> TAKE j \in 0 .. depth - 1
    <2>1. j \in Nat
      BY <1>2
    <2> QED BY <1>2, <1>3, <1>4, <1>6, <1>7, <2>1
  <1>9. \A j \in 0 .. depth - 1 : FbElderOf(j + 1) = B!Parent(FbElderOf(j))
    BY <1>2, <1>3
  <1>10. B!Hole = FbElderOf(depth) /\ B!Used = nr
    BY <1>1 DEF B!Hole, FbElderOf, B!Used, FbControl
  <1> QED BY <1>1, <1>2, <1>4, <1>5, <1>6, <1>7, <1>8, <1>9, <1>10

LEMMA FbSiftStep ==
  ASSUME FbInv, B!Sift
  PROVE  FbInv' /\ FbHeld' = FbHeld
  <1> USE NrAssumption
  <1>1. /\ pc = "sift" /\ depth > 0
        /\ array' = [array EXCEPT ![B!Parent(FbElderOf(depth - 1))] = array[FbElderOf(depth - 1)]]
        /\ depth' = depth - 1
        /\ UNCHANGED <<cnt, pc, call, elem, index, root, nr, out>>
    BY DEF B!Sift, FbElderOf
  <1>2. /\ B!TypeOK /\ elem \in Elems /\ index \in 0 .. nr - 1 /\ root \in 0 .. nr - 1
        /\ nr \in 1 .. Nr /\ depth \in Nat
        /\ FbElderOf(depth) \in 0 .. nr - 1 /\ FbElderOf(depth) >= root
        /\ FbElderOf(depth) <= index
        /\ \A j \in 0 .. depth - 1 : /\ FbElderOf(j) \in 1 .. nr - 1
                                     /\ FbElderOf(j) > FbElderOf(depth)
        /\ \A j \in 0 .. depth - 1 : FbElderOf(j + 1) = B!Parent(FbElderOf(j))
        /\ FbElderOf(0) = index
        /\ FbSiftOrder /\ FbAboveKids /\ FbControl
        /\ B!Hole = FbElderOf(depth) /\ B!Used = nr
    BY <1>1, FbSifting
  <1>3. PICK h \in 0 .. nr - 1, g \in 1 .. nr - 1 :
          h = FbElderOf(depth) /\ g = FbElderOf(depth - 1)
    <2>1. depth - 1 \in 0 .. depth - 1
      BY <1>1, <1>2
    <2> QED BY <1>2, <2>1
  <1>4. B!Parent(g) = h /\ g > h /\ h >= root
    <2>1. depth - 1 \in 0 .. depth - 1 /\ depth - 1 + 1 = depth
      BY <1>1, <1>2
    <2> QED BY <1>2, <1>3, <2>1
  <1>5. array' = [array EXCEPT ![h] = array[g]]
    BY <1>1, <1>3, <1>4
  <1>6. \A j \in Nat : FbElderOf(j)' = FbElderOf(j)
    BY <1>1 DEF FbElderOf, B!ElderIndex
  <1>7. FbElderOf(depth)' = g
    BY <1>1, <1>3 DEF FbElderOf, B!ElderIndex
  <1>8. \A i \in 0 .. nr - 1 : i # h => array[i] \in Elems /\ Key[array[i]] \in Int
    BY <1>1, <1>3, FbItems
  <1>9. \A i \in 0 .. nr - 1 : array'[i] = IF i = h THEN array[g] ELSE array[i]
    BY <1>2, <1>5 DEF B!TypeOK
  <1>10. Key[elem] \in Int
    BY <1>2, FbItems
  <1>11. B!TypeOK'
    <2>1. array[g] \in Elems
      BY <1>4, <1>8
    <2> QED BY <1>1, <1>2, <1>5, <2>1 DEF B!TypeOK
  <1>12. B!NothingLost' /\ FbHeld' = FbHeld
    <2>1. B!Used' = B!Used
      BY <1>1 DEF B!Used
    <2>2. B!Hole' = g
      BY <1>1, <1>7 DEF B!Hole, FbElderOf
    <2>3. h \in 0 .. B!Used - 1 /\ g \in 0 .. B!Used - 1
      BY <1>2
    <2>4. \A i \in 0 .. B!Used - 1 :
            B!At(i)' = IF i = h THEN B!At(g) ELSE IF i = g THEN B!At(h) ELSE B!At(i)
      <3> TAKE i \in 0 .. B!Used - 1
      <3>1. B!At(i)' = IF i = g THEN elem ELSE array'[i]
        BY <1>1, <2>2 DEF B!At
      <3>2. B!At(g) = array[g] /\ B!At(h) = elem /\ B!At(i) = IF i = h THEN elem ELSE array[i]
        BY <1>2, <1>3, <1>4 DEF B!At
      <3> QED BY <1>2, <1>4, <1>9, <3>1, <3>2
    <2>5. B!NothingLost
      BY DEF FbInv
    <2> QED BY <1>11, <2>1, <2>3, <2>4, <2>5, FbSwap
  <1>13. FbControl'
    <2>1. FbElderOf(depth)' >= root
      BY <1>2, <1>4, <1>7
    <2> QED BY <1>1, <1>2, <2>1 DEF FbControl
  <1>14. \A i \in 1 .. nr - 1 : B!Parent(i) \in 0 .. nr - 1 /\ B!Parent(i) < i /\ i \in 0 .. nr - 1
    BY <1>2 DEF B!Parent
  <1>15. FbAboveKids'
    <2> SUFFICES ASSUME NEW i \in 1 .. nr - 1, B!Parent(i) = index PROVE Key[elem] <= Key[array'[i]]
      BY <1>1 DEF FbAboveKids, B!Parent
    <2>1. i # h
      BY <1>2, <1>3, <1>14
    <2> QED BY <1>2, <1>9, <1>14, <2>1 DEF FbAboveKids
  <1>16. /\ \A i \in 1 .. nr - 1 :
              i # h /\ B!Parent(i) # h /\ B!Parent(i) >= root =>
                Key[array[B!Parent(i)]] <= Key[array[i]]
         /\ h # root => /\ Key[array[B!Parent(h)]] <= Key[elem]
                        /\ \A i \in 1 .. nr - 1 :
                             B!Parent(i) = h => Key[array[B!Parent(h)]] <= Key[array[i]]
         /\ \A j \in 0 .. depth - 1 :
              /\ Key[array[FbElderOf(j)]] <= Key[elem]
              /\ \A i \in 1 .. nr - 1 :
                   B!Parent(i) = FbElderOf(j + 1) => Key[array[FbElderOf(j)]] <= Key[array[i]]
    BY <1>2, <1>3 DEF FbSiftOrder, FbInOrder
  <1>17. /\ Key[array[g]] <= Key[elem]
         /\ \A i \in 1 .. nr - 1 : B!Parent(i) = h => Key[array[g]] <= Key[array[i]]
    <2>1. depth - 1 \in 0 .. depth - 1 /\ depth - 1 + 1 = depth
      BY <1>1, <1>2
    <2> QED BY <1>3, <1>16, <2>1
  <1>18. ASSUME NEW i \in 1 .. nr - 1, i # g, B!Parent(i) # g, B!Parent(i) >= root
         PROVE  Key[array'[B!Parent(i)]] <= Key[array'[i]]
    <2>1. CASE i = h
      <3>1. h # root
        BY <1>2, <1>14, <1>18, <2>1
      <3>2. Key[array[B!Parent(h)]] <= Key[array[g]]
        BY <1>4, <1>16, <3>1
      <3>3. array'[i] = array[g] /\ array'[B!Parent(i)] = array[B!Parent(h)]
        BY <1>9, <1>14, <2>1
      <3> QED BY <3>2, <3>3
    <2>2. CASE B!Parent(i) = h
      <3>1. array'[B!Parent(i)] = array[g] /\ array'[i] = array[i]
        BY <1>9, <1>14, <2>2
      <3> QED BY <1>17, <2>2, <3>1
    <2>3. CASE i # h /\ B!Parent(i) # h
      BY <1>9, <1>14, <1>16, <1>18, <2>3
    <2> QED BY <2>1, <2>2, <2>3
  <1>19. /\ Key[array'[B!Parent(g)]] <= Key[elem]
         /\ \A i \in 1 .. nr - 1 : B!Parent(i) = g => Key[array'[B!Parent(g)]] <= Key[array'[i]]
    <2>1. array'[B!Parent(g)] = array[g]
      BY <1>4, <1>9
    <2>2. ASSUME NEW i \in 1 .. nr - 1, B!Parent(i) = g PROVE Key[array[g]] <= Key[array'[i]]
      <3>1. i # h /\ B!Parent(i) # h /\ B!Parent(i) >= root
        BY <1>2, <1>4, <1>14, <2>2
      <3>2. array'[i] = array[i]
        BY <1>9, <1>14, <3>1
      <3> QED BY <1>16, <2>2, <3>1, <3>2
    <2> QED BY <1>17, <2>1, <2>2
  <1>20. ASSUME NEW j \in 0 .. (depth - 1) - 1
         PROVE  /\ Key[array'[FbElderOf(j)]] <= Key[elem]
                /\ \A i \in 1 .. nr - 1 :
                     B!Parent(i) = FbElderOf(j + 1) => Key[array'[FbElderOf(j)]] <= Key[array'[i]]
    <2>1. j \in 0 .. depth - 1 /\ j + 1 \in 0 .. depth - 1
      BY <1>2
    <2>2. FbElderOf(j) \in 1 .. nr - 1 /\ FbElderOf(j) > h /\ FbElderOf(j + 1) > h
      BY <1>2, <1>3, <2>1
    <2>3. FbElderOf(j) \in 0 .. nr - 1 /\ FbElderOf(j) # h
      BY <1>2, <2>2
    <2>4. array'[FbElderOf(j)] = array[FbElderOf(j)]
      BY <1>9, <2>3
    <2>5. \A i \in 1 .. nr - 1 : B!Parent(i) = FbElderOf(j + 1) => array'[i] = array[i]
      <3> TAKE i \in 1 .. nr - 1
      <3> HAVE B!Parent(i) = FbElderOf(j + 1)
      <3>1. i # h
        BY <1>14, <2>2
      <3> QED BY <1>9, <1>14, <3>1
    <2> QED BY <1>16, <2>1, <2>4, <2>5
  <1>21. FbSiftOrder'
    <2>1. FbElderOf(depth)' = g /\ depth' = depth - 1 /\ nr' = nr /\ root' = root /\ elem' = elem
      BY <1>1, <1>7
    <2>2. \A j \in 0 .. (depth - 1) - 1 :
            FbElderOf(j)' = FbElderOf(j) /\ FbElderOf(j + 1)' = FbElderOf(j + 1)
      BY <1>2, <1>6
    <2> QED BY <1>18, <1>19, <1>20, <2>1, <2>2 DEF FbSiftOrder, FbInOrder, B!Parent
  <1>22. FbOrder'
    BY <1>1, <1>15, <1>21 DEF FbOrder
  <1> QED BY <1>12, <1>13, <1>22 DEF FbInv

LEMMA FbSiftEndsStep ==
  ASSUME FbInv, B!SiftEnds
  PROVE  FbInv' /\ FbHeld' = FbHeld
  <1> USE NrAssumption
  <1>1. /\ pc = "sift" /\ depth = 0
        /\ array' = [array EXCEPT ![index] = elem]
        /\ pc' = "placed"
        /\ UNCHANGED <<cnt, call, elem, index, root, depth, nr, out>>
    BY DEF B!SiftEnds
  <1>2. /\ B!TypeOK /\ elem \in Elems /\ index \in 0 .. nr - 1 /\ root \in 0 .. nr - 1
        /\ nr \in 1 .. Nr /\ FbElderOf(0) = index
        /\ FbSiftOrder /\ FbAboveKids /\ FbControl
        /\ B!Hole = index /\ B!Used = nr
    BY <1>1, FbSifting
  <1>3. \A i \in 0 .. nr - 1 : array'[i] = IF i = index THEN elem ELSE array[i]
    BY <1>1, <1>2 DEF B!TypeOK
  <1>4. B!TypeOK'
    BY <1>1, <1>2 DEF B!TypeOK
  <1>5. B!NothingLost' /\ FbHeld' = FbHeld
    <2>1. B!Used' = B!Used /\ B!Hole' = Nr
      BY <1>1 DEF B!Used, B!Hole
    <2>2. \A i \in 0 .. B!Used - 1 : B!At(i)' = B!At(i)
      <3> TAKE i \in 0 .. B!Used - 1
      <3>1. i \in 0 .. nr - 1 /\ i # Nr
        BY <1>2
      <3> QED BY <1>1, <1>2, <1>3, <2>1, <3>1 DEF B!At
    <2> QED BY <1>4, <2>1, <2>2, FbKept DEF FbInv
  <1>6. FbControl'
    BY <1>1, <1>2 DEF FbControl
  <1>7. ASSUME NEW i \in 1 .. nr - 1, B!Parent(i) >= root
        PROVE  Key[array'[B!Parent(i)]] <= Key[array'[i]]
    <2>1. B!Parent(i) \in 0 .. nr - 1 /\ B!Parent(i) < i /\ i \in 0 .. nr - 1
      BY <1>2 DEF B!Parent
    <2>2. FbElderOf(depth) = index
      BY <1>1, <1>2
    <2>3. CASE i = index
      <3>1. index # root
        BY <1>2, <1>7, <2>1, <2>3
      <3>2. Key[array[B!Parent(index)]] <= Key[elem]
        BY <1>2, <2>2, <3>1 DEF FbSiftOrder
      <3> QED BY <1>3, <2>1, <2>3, <3>2
    <2>4. CASE B!Parent(i) = index
      BY <1>2, <1>3, <2>1, <2>4 DEF FbAboveKids
    <2>5. CASE i # index /\ B!Parent(i) # index
      BY <1>2, <1>3, <1>7, <2>1, <2>2, <2>5 DEF FbSiftOrder, FbInOrder
    <2> QED BY <2>3, <2>4, <2>5
  <1>8. FbOrder'
    BY <1>1, <1>7 DEF FbOrder, FbInOrder, B!Parent
  <1> QED BY <1>5, <1>6, <1>8 DEF FbInv

LEMMA FbPlacedStep ==
  ASSUME FbInv, B!Placed
  PROVE  FbInv' /\ FbHeld' = FbHeld
  <1> USE NrAssumption
  <1>1. /\ pc = "placed" /\ array' = array /\ out' = out
        /\ call = "build" /\ root # 0 =>
             /\ root' = root - 1 /\ index' = root - 1 /\ elem' = array[root - 1]
             /\ pc' = "descend" /\ UNCHANGED <<cnt, call, depth, nr>>
        /\ ~(call = "build" /\ root # 0) =>
             /\ cnt' = IF call = "build" THEN nr ELSE cnt
             /\ B!Return
    BY DEF B!Placed
  <1>2. /\ B!TypeOK /\ FbControl /\ root \in 0 .. nr - 1 /\ nr \in 1 .. Nr
        /\ (call = "extract" /\ root = 0 /\ nr = cnt) \/ call = "build"
        /\ B!Used = nr
    BY <1>1, FbItems DEF FbInv, FbControl, B!TypeOK, B!Used
  <1>3. \A i \in 0 .. nr - 1 : array[i] \in Elems /\ Key[array[i]] \in Int
    BY <1>1, FbItems
  <1>4. \A i \in 1 .. nr - 1 : B!Parent(i) >= root => FbInOrder(i)
    BY <1>1 DEF FbInv, FbOrder
  <1>5. B!Hole = Nr /\ \A i \in 0 .. nr - 1 : i # Nr
    BY <1>1, <1>2 DEF B!Hole
  <1>6. CASE call = "build" /\ root # 0
    <2>1. /\ root' = root - 1 /\ index' = root - 1 /\ elem' = array[root - 1]
          /\ pc' = "descend" /\ UNCHANGED <<cnt, call, depth, nr, array, out>>
      BY <1>1, <1>6
    <2>2. root - 1 \in 0 .. nr - 1 /\ elem' \in Elems /\ root' \in Nat /\ index' = root'
      BY <1>2, <1>3, <1>6, <2>1
    <2>3. B!TypeOK'
      BY <1>2, <2>1, <2>2 DEF B!TypeOK
    <2>4. B!NothingLost' /\ FbHeld' = FbHeld
      <3>1. B!Used' = B!Used /\ B!Hole' = root'
        BY <2>1 DEF B!Used, B!Hole
      <3>2. \A i \in 0 .. B!Used - 1 : B!At(i)' = B!At(i)
        BY <1>2, <1>5, <2>1, <3>1 DEF B!At
      <3> QED BY <2>3, <3>1, <3>2, FbKept DEF FbInv
    <2>5. FbElderOf(0)' = root'
      BY <2>2, FbElder DEF FbElderOf
    <2>6. FbControl'
      BY <1>2, <1>3, <1>6, <2>1, <2>2, <2>5 DEF FbControl
    <2>7. FbBelowRoot'
      <3>1. \A i \in 1 .. nr - 1 : B!Parent(i) > root - 1 => B!Parent(i) >= root
        BY <1>2 DEF B!Parent
      <3> QED BY <1>4, <1>6, <2>1, <3>1 DEF FbBelowRoot, FbInOrder, B!Parent
    <2>8. \A j \in Nat : ~(FbElderOf(j)' > root')
      <3> TAKE j \in Nat
      <3>1. B!ElderIndex(index', j) <= index' /\ B!ElderIndex(index', j) \in Int
        BY <2>2, FbElderBelow, FbElder
      <3> QED BY <2>2, <3>1 DEF FbElderOf
    <2>9. Key[array'[root']] <= Key[elem']
      BY <1>3, <2>1, <2>2
    <2>10. FbDescendOrder'
      BY <2>7, <2>8, <2>9 DEF FbDescendOrder
    <2>11. FbOrder'
      BY <2>1, <2>10 DEF FbOrder
    <2> QED BY <2>4, <2>6, <2>11 DEF FbInv
  <1>7. CASE ~(call = "build" /\ root # 0)
    <2>1. /\ root = 0 /\ cnt' = nr /\ pc' = "idle" /\ call' = "none" /\ array' = array
      BY <1>1, <1>2, <1>7 DEF B!Return
    <2>2. B!TypeOK'
      BY <1>1, <1>2, <1>7, <2>1 DEF B!TypeOK, B!Return
    <2>3. B!NothingLost' /\ FbHeld' = FbHeld
      <3>1. B!Used' = B!Used /\ B!Hole' = Nr
        BY <1>2, <2>1 DEF B!Used, B!Hole
      <3>2. \A i \in 0 .. B!Used - 1 : B!At(i)' = B!At(i)
        BY <1>2, <1>5, <2>1, <3>1 DEF B!At
      <3> QED BY <2>2, <3>1, <3>2, FbKept DEF FbInv
    <2>4. FbControl'
      BY <2>1 DEF FbControl
    <2>5. \A i \in 1 .. nr - 1 : FbInOrder(i)
      <3>1. \A i \in 1 .. nr - 1 : B!Parent(i) >= 0
        BY <1>2 DEF B!Parent
      <3> QED BY <1>4, <2>1, <3>1
    <2>6. FbOrder'
      BY <2>1, <2>5 DEF FbOrder, FbInOrder, B!Parent
    <2> QED BY <2>3, <2>4, <2>6 DEF FbInv
  <1> QED BY <1>6, <1>7

LEMMA FbRunStep ==
  ASSUME FbInv, B!Run
  PROVE  FbInv' /\ FbHeld' = FbHeld
  BY FbRiseStep, FbRiseEndsStep, FbDescendStep, FbDescendEndsStep, FbClimbStep, FbClimbEndsStep,
     FbSiftStep, FbSiftEndsStep, FbPlacedStep DEF B!Run

LEMMA FbStep ==
  ASSUME FbInv, B!Next
  PROVE  FbInv'
  <1>1. ASSUME NEW e \in Elems, B!Insert(e) PROVE FbInv'
    BY <1>1, FbInsertStep
  <1>2. CASE B!Extract
    BY <1>2, FbExtractStep
  <1>3. ASSUME cnt = 0, NEW content \in B!Fillings,
               B!Build(B!Cardinality(DOMAIN content), content)
        PROVE  FbInv'
    BY <1>3, FbBuildStep
  <1>4. CASE B!Clear
    BY <1>4, FbClearStep
  <1>5. CASE B!Run
    BY <1>5, FbRunStep
  <1> QED BY <1>1, <1>2, <1>3, <1>4, <1>5 DEF B!Next, B!Call

(* As many positions as distinct elements. *)
LEMMA DistinctCount ==
  ASSUME NEW n \in Nat, NEW T, NEW f \in [0 .. n - 1 -> T],
         \A i, j \in 0 .. n - 1 : i # j => f[i] # f[j],
         \A x \in T : \E i \in 0 .. n - 1 : f[i] = x
  PROVE  IsFiniteSet(T) /\ Cardinality(T) = n
  <1>1. f \in Surjection(0 .. n - 1, T)
    BY DEF Surjection
  <1>2. f \in Injection(0 .. n - 1, T)
    BY DEF Injection, IsInjective
  <1>3. IsFiniteSet(0 .. n - 1) /\ Cardinality(0 .. n - 1) = n
    BY FS_Interval
  <1> QED BY <1>1, <1>2, <1>3, FS_Surjection

(* The elements of the heap, and those of the queue it stands for. *)
FbCounted ==
  /\ FbHeld \subseteq Elems /\ IsFiniteSet(FbHeld) /\ Cardinality(FbHeld) <= Nr
  /\ B!Queued = FbHeld \ IF call = "insert" THEN {elem} ELSE {}
  /\ call = "insert" => elem \in FbHeld

LEMMA FbQueue ==
  FbInv => FbCounted
  <1> SUFFICES ASSUME FbInv PROVE FbCounted
    OBVIOUS
  <1> USE NrAssumption
  <1>1. B!TypeOK /\ FbControl
    BY FbItems DEF FbInv
  <1>2. B!Used \in 0 .. Nr
    BY <1>1 DEF B!TypeOK, B!Used
  <1> DEFINE f == [i \in 0 .. B!Used - 1 |-> B!At(i)]
  <1>3. f \in [0 .. B!Used - 1 -> FbHeld] /\ \A x \in FbHeld : \E i \in 0 .. B!Used - 1 : f[i] = x
    BY DEF FbHeld
  <1>4. \A i, j \in 0 .. B!Used - 1 : i # j => f[i] # f[j]
    BY DEF FbInv, B!NothingLost
  <1> HIDE DEF f
  <1>5. IsFiniteSet(FbHeld) /\ Cardinality(FbHeld) = B!Used
    <2>1. B!Used \in Nat
      BY <1>2
    <2> QED BY <1>3, <1>4, <2>1, DistinctCount
  <1>6. FbHeld \subseteq Elems
    BY DEF FbHeld, FbInv, B!NothingLost
  <1>7. ASSUME call = "insert" PROVE elem \in FbHeld
    <2>1. pc = "rise"
      BY <1>1, <1>7 DEF FbControl, B!TypeOK
    <2>2. index \in 0 .. B!Used - 1 /\ B!At(index) = elem
      BY <1>1, <1>7, <2>1 DEF FbControl, B!TypeOK, B!Used, B!At, B!Hole
    <2> QED BY <2>2 DEF FbHeld
  <1>8. B!Queued = FbHeld \ IF call = "insert" THEN {elem} ELSE {}
    BY DEF B!Queued, FbHeld
  <1>9. Cardinality(FbHeld) <= Nr
    BY <1>2, <1>5
  <1> QED BY <1>5, <1>6, <1>7, <1>8, <1>9 DEF FbCounted

LEMMA FbQueueNext ==
  FbInv' => FbCounted'
  <1>1. FbInv => FbCounted
    BY FbQueue
  <1> QED BY <1>1, PTL

LEMMA QueueCardinality == \A T : Queue!Cardinality(T) = Cardinality(T)
  BY DEF Queue!Cardinality, Cardinality

(* A call that only adds elements to be placed later, or that empties or   *)
(* fills the heap, loads the queue; an element enters it when it has       *)
(* risen; the root, which no element precedes, leaves it at once.          *)
LEMMA FbQueueStep ==
  ASSUME FbInv, kind = "fb", kind' = "fb", B!Next
  PROVE  [Queue!Next]_(Queue!vars)
  <1> DEFINE C == IF kind = "fb" THEN B!Queued ELSE W!Queued
  <1>1. FbInv' /\ FbCounted /\ FbCounted'
    BY FbStep, FbQueue, FbQueueNext
  <1>2. C = B!Queued /\ C' = B!Queued'
    OBVIOUS
  <1> HIDE DEF C
  <1>3. ASSUME out' = None PROVE Queue!Load
    <2>1. C' \subseteq FbHeld'
      BY <1>1, <1>2 DEF FbCounted
    <2>2. C' \subseteq Elems /\ Cardinality(C') <= Nr
      <3>1. IsFiniteSet(C') /\ Cardinality(C') <= Cardinality(FbHeld')
        BY <1>1, <2>1, FS_Subset DEF FbCounted
      <3>2. Cardinality(C') \in Nat /\ Cardinality(FbHeld') \in Nat /\ Nr \in Nat
        BY <1>1, <3>1, FS_CardinalityType, NrAssumption DEF FbCounted
      <3>3. Cardinality(FbHeld') <= Nr
        BY <1>1 DEF FbCounted
      <3> QED BY <1>1, <2>1, <3>1, <3>2, <3>3 DEF FbCounted
    <2>3. Queue!Cardinality(C') <= Nr
      BY <2>2, QueueCardinality
    <2> QED BY <1>3, <2>2, <2>3 DEF Queue!Load, C
  <1>4. CASE \E e \in Elems : B!Insert(e)
    BY <1>3, <1>4 DEF B!Insert, Queue!Next
  <1>5. CASE B!Clear
    BY <1>3, <1>5 DEF B!Clear, Queue!Next
  <1>6. ASSUME NEW content \in B!Fillings, B!Build(B!Cardinality(DOMAIN content), content)
        PROVE  Queue!Next
    BY <1>3, <1>6 DEF B!Build, Queue!Next
  <1>7. CASE B!Extract
    <2>1. /\ cnt > 0 /\ out' = array[0] /\ FbHeld' = FbHeld \ {array[0]}
          /\ pc = "idle" /\ call = "none"
      BY <1>7, FbExtractStep DEF B!Extract, FbInv, FbControl
    <2>2. call' # "insert"
      BY <1>7, <2>1 DEF B!Extract
    <2>3. C = FbHeld /\ C' = C \ {array[0]}
      BY <1>1, <1>2, <2>1, <2>2 DEF FbCounted
    <2>4. FbHeld = {array[i] : i \in 0 .. cnt - 1}
      <3>1. B!Used = cnt /\ \A i \in 0 .. cnt - 1 : B!At(i) = array[i]
        BY <2>1, FbItems, NrAssumption DEF B!Used, B!At, B!Hole, B!TypeOK
      <3> QED BY <3>1 DEF FbHeld
    <2>5. array[0] \in C /\ \A x \in C : Key[array[0]] <= Key[x]
      <3>1. 0 \in 0 .. cnt - 1
        BY <2>1, FbItems DEF B!TypeOK
      <3>2. \A i \in 0 .. cnt - 1 : Key[array[0]] <= Key[array[i]]
        BY <2>1, FbRootLeast
      <3> QED BY <2>3, <2>4, <3>1, <3>2
    <2>6. array[0] \in Queue!Least(C)
      BY <2>5 DEF Queue!Least
    <2>7. Queue!Extract
      BY <2>1, <2>3, <2>6 DEF Queue!Extract, C
    <2> QED BY <2>7 DEF Queue!Next
  <1>8. CASE B!RiseEnds
    <2>1. call = "insert" /\ call' = "none" /\ out = None /\ out' = None /\ FbHeld' = FbHeld
      BY <1>8, FbRiseEndsStep DEF B!RiseEnds, B!Return, FbInv, FbControl
    <2>2. C = FbHeld \ {elem} /\ C' = FbHeld /\ elem \in FbHeld /\ FbHeld \subseteq Elems
      BY <1>1, <1>2, <2>1 DEF FbCounted
    <2>3. Cardinality(C) < Nr
      <3>1. Cardinality(C) = Cardinality(FbHeld) - 1 /\ Cardinality(FbHeld) \in Nat
        BY <1>1, <2>2, FS_RemoveElement, FS_CardinalityType DEF FbCounted
      <3>2. Cardinality(FbHeld) <= Nr /\ Nr \in Nat
        BY <1>1, NrAssumption DEF FbCounted
      <3> QED BY <3>1, <3>2
    <2>4. Queue!Cardinality(C) < Nr /\ elem \in Elems \ C /\ C' = C \cup {elem}
      BY <2>2, <2>3, QueueCardinality
    <2>5. Queue!Insert
      BY <2>1, <2>4 DEF Queue!Insert, C
    <2> QED BY <2>5 DEF Queue!Next
  <1>9. CASE B!Run /\ ~B!RiseEnds
    <2>1. FbHeld' = FbHeld
      BY <1>9, FbRunStep
    <2>2. out' = out
      BY <1>9 DEF B!Run, B!Rise, B!Descend, B!DescendEnds, B!Climb, B!ClimbEnds,
                  B!Sift, B!SiftEnds, B!Placed
    <2>3. \/ call = "insert" /\ call' = "insert" /\ elem' = elem
          \/ call # "insert" /\ call' # "insert"
      <3>1. CASE B!Rise
        BY <3>1 DEF B!Rise, FbInv, FbControl
      <3>2. pc \in {"descend", "climb", "sift", "placed"} => call # "insert"
        BY DEF FbInv, FbControl
      <3>3. CASE B!Descend \/ B!DescendEnds \/ B!Climb \/ B!ClimbEnds \/ B!Sift \/ B!SiftEnds
        BY <3>2, <3>3 DEF B!Descend, B!DescendEnds, B!Climb, B!ClimbEnds, B!Sift, B!SiftEnds
      <3>4. CASE B!Placed
        BY <3>2, <3>4 DEF B!Placed, B!Return
      <3> QED BY <1>9, <3>1, <3>3, <3>4 DEF B!Run
    <2>4. C' = C
      BY <1>1, <1>2, <2>1, <2>3 DEF FbCounted
    <2> QED BY <2>2, <2>4 DEF Queue!vars, C
  <1> QED BY <1>4, <1>5, <1>6, <1>7, <1>8, <1>9 DEF B!Next, B!Call

-----------------------------------------------------------------------------
(* The weak heap: nodes and their distinguished ancestors. *)

LEMMA FwTwo == W!Two = Two
  BY DEF W!Two, Two, Powers!Two

LEMMA FwParent ==
  ASSUME NEW i \in Nat
  PROVE  /\ W!Parent(i) \in Nat /\ W!Parent(i) <= i
         /\ i # 0 => W!Parent(i) < i
  BY DEF W!Parent

LEMMA FwHalf ==
  ASSUME NEW i \in Nat
  PROVE  /\ i = 2 * W!Parent(i) + (i % 2) /\ i % 2 \in {0, 1}
         /\ \A j \in Nat : j <= i => W!Parent(j) <= W!Parent(i)
  BY DEF W!Parent

FwGoesOn(i, r, n) == i \div Two[n] # 0 /\ W!IsLeftChild(i \div Two[n], r)

FwStops(i, r, n) == ~FwGoesOn(i, r, n) /\ \A m \in 0 .. n - 1 : FwGoesOn(i, r, m)

LEMMA FwStop ==
  ASSUME NEW i \in Nat, NEW r
  PROVE  /\ \E n \in 0 .. i : FwStops(i, r, n)
         /\ \A n \in 0 .. i : FwStops(i, r, n) => W!DAncestor(i, r) = W!Parent(i \div Two[n])
  <1> DEFINE T == {n \in Nat : ~FwGoesOn(i, r, n)}
  <1>1. i \in T
    <2>1. i < Two[i] /\ Two[i] \in Nat \ {0}
      BY TwoExceeds, TwoFacts
    <2>2. i \div Two[i] = 0
      BY <2>1, Z3
    <2> QED BY <2>2 DEF FwGoesOn
  <1>2. PICK n \in T : \A m \in T : n <= m
    <2>1. T \subseteq Nat /\ T # {}
      BY <1>1
    <2> HIDE DEF T
    <2> QED BY <2>1, LeastElement
  <1>3. n \in 0 .. i /\ n \in Nat
    BY <1>1, <1>2
  <1>4. FwStops(i, r, n)
    <2>1. ASSUME NEW m \in 0 .. n - 1 PROVE FwGoesOn(i, r, m)
      <3>1. m \in Nat /\ ~(n <= m)
        BY <1>3
      <3> QED BY <1>2, <3>1
    <2> QED BY <1>2, <2>1 DEF FwStops
  <1>5. ASSUME NEW a \in 0 .. i, NEW b \in 0 .. i, FwStops(i, r, a), FwStops(i, r, b) PROVE a = b
    <2>1. ~(a < b) /\ ~(b < a)
      BY <1>5 DEF FwStops
    <2> QED BY <2>1
  <1>6. ASSUME NEW a \in 0 .. i, FwStops(i, r, a)
        PROVE  W!DAncestor(i, r) = W!Parent(i \div Two[a])
    <2> DEFINE met == CHOOSE b \in 0 .. i : FwStops(i, r, b)
    <2>1. met \in 0 .. i /\ FwStops(i, r, met)
      BY <1>6, Zenon
    <2>2. W!DAncestor(i, r) = W!Parent(i \div Two[met])
      BY FwTwo, Zenon DEF W!DAncestor, FwStops, FwGoesOn
    <2> HIDE DEF met
    <2>3. met = a
      BY <1>5, <1>6, <2>1
    <2> QED BY <2>2, <2>3
  <1> QED BY <1>3, <1>4, <1>6

(* The distinguished ancestor of a left child is its parent's. *)
LEMMA FwClimbs ==
  ASSUME NEW i \in Nat, NEW r
  PROVE  W!DAncestor(i, r) = IF i # 0 /\ W!IsLeftChild(i, r)
                             THEN W!DAncestor(W!Parent(i), r)
                             ELSE W!Parent(i)
  <1>1. i \div Two[0] = i
    BY TwoFacts
  <1>2. CASE ~(i # 0 /\ W!IsLeftChild(i, r))
    <2>1. FwStops(i, r, 0) /\ 0 \in 0 .. i
      BY <1>1, <1>2 DEF FwStops, FwGoesOn
    <2> QED BY <1>1, <1>2, <2>1, FwStop
  <1>3. CASE i # 0 /\ W!IsLeftChild(i, r)
    <2> DEFINE k == W!Parent(i)
    <2>1. k \in Nat /\ k + 1 <= i /\ k = i \div 2
      BY <1>3, FwParent DEF W!Parent
    <2>2. \A n \in Nat : i \div Two[n + 1] = k \div Two[n]
      BY <2>1, HalfOfQuotient
    <2> HIDE DEF k
    <2>3. PICK n \in 0 .. k : FwStops(k, r, n)
      BY <2>1, FwStop
    <2>4. FwGoesOn(i, r, 0) /\ \A m \in Nat : FwGoesOn(i, r, m + 1) <=> FwGoesOn(k, r, m)
      BY <1>1, <1>3, <2>2 DEF FwGoesOn
    <2>5. FwStops(i, r, n + 1) /\ n + 1 \in 0 .. i
      <3>1. ASSUME NEW m \in 0 .. (n + 1) - 1 PROVE FwGoesOn(i, r, m)
        <4>1. CASE m = 0
          BY <2>4, <4>1
        <4>2. CASE m # 0
          <5>1. m - 1 \in 0 .. n - 1 /\ m - 1 \in Nat /\ m - 1 + 1 = m
            BY <4>2
          <5>2. FwGoesOn(k, r, m - 1)
            BY <2>3, <5>1 DEF FwStops
          <5>3. FwGoesOn(i, r, m - 1 + 1)
            BY <2>4, <5>1, <5>2
          <5> QED BY <5>1, <5>3
        <4> QED BY <4>1, <4>2
      <3>2. ~FwGoesOn(i, r, n + 1)
        <4>1. n \in Nat
          OBVIOUS
        <4> QED BY <2>3, <2>4, <4>1 DEF FwStops
      <3> QED BY <2>1, <3>1, <3>2 DEF FwStops
    <2>6. W!DAncestor(i, r) = W!Parent(i \div Two[n + 1])
      BY <2>5, FwStop
    <2>7. W!DAncestor(k, r) = W!Parent(k \div Two[n])
      BY <2>1, <2>3, FwStop
    <2>8. n \in Nat
      OBVIOUS
    <2> QED BY <1>3, <2>2, <2>6, <2>7, <2>8 DEF k
  <1> QED BY <1>2, <1>3

(* It lies above, and depends on the bits above only. *)
LEMMA FwAbove ==
  ASSUME NEW r
  PROVE  \A i \in Nat : /\ W!DAncestor(i, r) \in Nat /\ W!DAncestor(i, r) <= i
                        /\ i # 0 => W!DAncestor(i, r) < i
  <1> DEFINE D(i) == W!DAncestor(i, r)
             T == {n \in Nat : \A i \in 0 .. n : D(i) \in Nat /\ D(i) <= i /\ (i # 0 => D(i) < i)}
  <1>1. \A i \in Nat : /\ W!Parent(i) \in Nat /\ W!Parent(i) <= i
                       /\ i # 0 => W!Parent(i) < i
    BY FwParent
  <1>2. \A i \in Nat : D(i) = W!Parent(i) \/ (i # 0 /\ D(i) = D(W!Parent(i)))
    BY FwClimbs
  <1> HIDE DEF D
  <1>3. 0 \in T
    BY <1>1, <1>2
  <1>4. ASSUME NEW n \in Nat, n \in T PROVE n + 1 \in T
    <2> DEFINE i == n + 1
    <2>1. i \in Nat /\ W!Parent(i) \in 0 .. n /\ W!Parent(i) \in Nat
      BY <1>1
    <2>2. D(i) \in Nat /\ D(i) <= i /\ (i # 0 => D(i) < i)
      BY <1>2, <1>4, <2>1
    <2> QED BY <1>4, <2>2
  <1> HIDE DEF T
  <1>5. Nat \subseteq T
    BY <1>3, <1>4, NatSet
  <1> QED BY <1>5 DEF T, D

LEMMA FwAgree ==
  ASSUME NEW r, NEW s, NEW n \in Nat,
         \A k \in 1 .. n : s[W!Parent(k)] = r[W!Parent(k)]
  PROVE  \A i \in 0 .. n : W!DAncestor(i, s) = W!DAncestor(i, r)
  <1> DEFINE T == {i \in Nat : \A k \in 0 .. i : k <= n => W!DAncestor(k, s) = W!DAncestor(k, r)}
  <1>1. 0 \in T
    BY FwClimbs
  <1>2. ASSUME NEW i \in Nat, i \in T PROVE i + 1 \in T
    <2> SUFFICES ASSUME i + 1 <= n PROVE W!DAncestor(i + 1, s) = W!DAncestor(i + 1, r)
      BY <1>2
    <2>1. i + 1 \in Nat /\ i + 1 # 0
      OBVIOUS
    <2>2. W!Parent(i + 1) \in 0 .. i /\ W!Parent(i + 1) <= n
      BY <2>1, FwParent
    <2>3. W!DAncestor(W!Parent(i + 1), s) = W!DAncestor(W!Parent(i + 1), r)
      BY <1>2, <2>2
    <2>4. W!IsLeftChild(i + 1, s) <=> W!IsLeftChild(i + 1, r)
      <3>1. i + 1 \in 1 .. n
        OBVIOUS
      <3> QED BY <3>1 DEF W!IsLeftChild
    <2>5. /\ W!DAncestor(i + 1, r) = IF i + 1 # 0 /\ W!IsLeftChild(i + 1, r)
                                     THEN W!DAncestor(W!Parent(i + 1), r)
                                     ELSE W!Parent(i + 1)
          /\ W!DAncestor(i + 1, s) = IF i + 1 # 0 /\ W!IsLeftChild(i + 1, s)
                                     THEN W!DAncestor(W!Parent(i + 1), s)
                                     ELSE W!Parent(i + 1)
      BY <2>1, FwClimbs
    <2> QED BY <2>3, <2>4, <2>5
  <1> HIDE DEF T
  <1>3. Nat \subseteq T
    BY <1>1, <1>2, NatSet
  <1> QED BY <1>3 DEF T

(* Toggling the bit of x exchanges its subtrees: x and its distinguished   *)
(* ancestor are exchanged as the distinguished ancestors of what is below. *)
FwExchanged(d, e, x, a) ==
  \/ d = x /\ e = a
  \/ d = a /\ e \in {a, x}
  \/ d \notin {a, x} /\ e = d

FwToggled(r, s, x) ==
  /\ \A i \in 0 .. x : W!DAncestor(i, s) = W!DAncestor(i, r)
  /\ \A i \in 0 .. Nr - 1 :
       FwExchanged(W!DAncestor(i, r), W!DAncestor(i, s), x, W!DAncestor(x, r))

LEMMA FwToggle ==
  ASSUME NEW r \in [0 .. Nr - 1 -> {0, 1}], NEW x \in 1 .. Nr - 1,
         NEW s, s = [r EXCEPT ![x] = 1 - @]
  PROVE  FwToggled(r, s, x)
  <1> USE NrAssumption
  <1> DEFINE D(i) == W!DAncestor(i, r)
             E(i) == W!DAncestor(i, s)
             a == D(x)
  <1>1. \A k \in 0 .. Nr - 1 : s[k] = IF k = x THEN 1 - r[x] ELSE r[k]
    OBVIOUS
  <1>2. \A k \in 0 .. Nr - 1 : r[k] \in {0, 1}
    OBVIOUS
  <1>3. \A i \in 0 .. x : E(i) = D(i)
    <2>1. \A k \in 1 .. x : s[W!Parent(k)] = r[W!Parent(k)]
      <3> TAKE k \in 1 .. x
      <3>1. k \in Nat /\ k # 0
        OBVIOUS
      <3>2. W!Parent(k) \in Nat /\ W!Parent(k) < k
        BY <3>1, FwParent
      <3>3. W!Parent(k) \in 0 .. Nr - 1 /\ W!Parent(k) # x
        BY <3>2
      <3> QED BY <1>1, <3>3
    <2>2. x \in Nat
      OBVIOUS
    <2> QED BY <2>1, <2>2, FwAgree, ZenonT(30)
  <1>4. a \in Nat /\ a < x /\ E(x) = a
    <2>1. x \in Nat /\ x # 0
      OBVIOUS
    <2>2. a \in Nat /\ a < x
      BY <2>1, FwAbove, Zenon
    <2> HIDE DEF D, E
    <2> QED BY <1>3, <2>2
  <1>5. \A i \in Nat : /\ D(i) = IF i # 0 /\ W!IsLeftChild(i, r) THEN D(W!Parent(i)) ELSE W!Parent(i)
                       /\ E(i) = IF i # 0 /\ W!IsLeftChild(i, s) THEN E(W!Parent(i)) ELSE W!Parent(i)
    BY FwClimbs
  <1> DEFINE G(i) == FwExchanged(D(i), E(i), x, a)
             T == {n \in Nat : \A i \in 0 .. n : i <= Nr - 1 => G(i)}
  <1>6. 0 \in T
    <2>1. W!Parent(0) = 0
      BY DEF W!Parent
    <2>2. D(0) = 0 /\ E(0) = 0
      BY <1>5, <2>1
    <2> HIDE DEF D, E
    <2> QED BY <1>4, <2>2 DEF FwExchanged
  <1>7. ASSUME NEW n \in Nat, n \in T PROVE n + 1 \in T
    <2> DEFINE i == n + 1
    <2>0. SUFFICES ASSUME i <= Nr - 1 PROVE G(i)
      <3> HIDE DEF G
      <3> QED BY <1>7
    <2>1. i \in 1 .. Nr - 1 /\ i \in Nat /\ i # 0
      BY <2>0
    <2> HIDE DEF i
    <2> DEFINE p == W!Parent(i)
    <2>2. p \in 0 .. n /\ p \in 0 .. Nr - 1 /\ i % 2 \in {0, 1}
      <3>1. p \in Nat /\ p < i
        BY <2>1, FwParent
      <3>2. i % 2 \in {0, 1}
        BY <2>1
      <3> HIDE DEF p
      <3> QED BY <2>0, <3>1, <3>2 DEF i
    <2>3. /\ D(i) = IF i % 2 = r[p] THEN D(p) ELSE p
          /\ E(i) = IF i % 2 = s[p] THEN E(p) ELSE p
      BY <1>5, <2>1 DEF W!IsLeftChild
    <2> HIDE DEF p
    <2>4. G(p)
      <3>1. p <= Nr - 1
        BY <2>2
      <3> HIDE DEF G
      <3> QED BY <1>7, <2>2, <3>1
    <2>5. CASE p = x
      <3>1. D(p) = a /\ E(p) = a
        BY <1>4, <2>5
      <3>2. s[p] = 1 - r[p] /\ r[p] \in {0, 1}
        BY <1>1, <1>2, <2>2, <2>5
      <3>3. (i % 2 = r[p]) <=> ~(i % 2 = s[p])
        BY <2>2, <3>2
      <3> HIDE DEF D, E
      <3>4. CASE i % 2 = r[p]
        <4>1. D(i) = a /\ E(i) = x
          BY <2>3, <2>5, <3>1, <3>3, <3>4
        <4> QED BY <4>1 DEF FwExchanged
      <3>5. CASE ~(i % 2 = r[p])
        <4>1. D(i) = x /\ E(i) = a
          BY <2>3, <2>5, <3>1, <3>3, <3>5
        <4> QED BY <4>1 DEF FwExchanged
      <3> QED BY <3>4, <3>5
    <2>6. CASE p # x
      <3>1. s[p] = r[p]
        BY <1>1, <2>2, <2>6
      <3> HIDE DEF D, E, a
      <3>2. CASE i % 2 = r[p]
        <4>1. D(i) = D(p) /\ E(i) = E(p)
          BY <2>3, <3>1, <3>2
        <4> QED BY <2>4, <4>1
      <3>3. CASE ~(i % 2 = r[p])
        <4>1. D(i) = p /\ E(i) = p
          BY <2>3, <3>1, <3>3
        <4> QED BY <2>6, <4>1 DEF FwExchanged
      <3> QED BY <3>2, <3>3
    <2> QED BY <2>5, <2>6
  <1> HIDE DEF T, G
  <1>8. Nat \subseteq T
    BY <1>6, <1>7, NatSet
  <1>9. \A i \in 0 .. Nr - 1 : G(i)
    BY <1>8 DEF T
  <1> QED BY <1>3, <1>9 DEF G, FwToggled

(* The left spine: those whose distinguished ancestor is the root.         *)
FwOnSpine(i, r) == i # 0 /\ W!DAncestor(i, r) = 0

LEMMA FwSpineUp ==
  ASSUME NEW r, NEW i \in Nat, FwOnSpine(i, r), i # 1
  PROVE  /\ W!Parent(i) \in Nat /\ W!Parent(i) # 0 /\ W!Parent(i) < i
         /\ FwOnSpine(W!Parent(i), r) /\ i = W!LeftChild(W!Parent(i), r)
  <1>1. W!Parent(i) \in Nat /\ W!Parent(i) # 0 /\ W!Parent(i) < i
    BY DEF FwOnSpine, W!Parent
  <1>2. W!IsLeftChild(i, r) /\ W!DAncestor(W!Parent(i), r) = 0
    BY <1>1, FwClimbs DEF FwOnSpine
  <1>3. i = 2 * W!Parent(i) + (i % 2)
    BY FwHalf
  <1> QED BY <1>1, <1>2, <1>3 DEF FwOnSpine, W!IsLeftChild, W!LeftChild

(* It has one node a level. *)
LEMMA FwSpineChain ==
  ASSUME NEW r
  PROVE  \A x \in Nat, i \in Nat :
           FwOnSpine(x, r) /\ FwOnSpine(i, r) /\ i < x => i <= W!Parent(x)
  <1> DEFINE G(x) == \A i \in Nat : FwOnSpine(x, r) /\ FwOnSpine(i, r) /\ i < x => i <= W!Parent(x)
             T == {n \in Nat : \A x \in 0 .. n : G(x)}
  <1>1. 0 \in T
    OBVIOUS
  <1>2. ASSUME NEW n \in Nat, n \in T PROVE n + 1 \in T
    <2> SUFFICES ASSUME NEW i \in Nat, FwOnSpine(n + 1, r), FwOnSpine(i, r), i < n + 1
                 PROVE  i <= W!Parent(n + 1)
      BY <1>2
    <2> DEFINE x == n + 1
               p == W!Parent(x)
               q == W!Parent(i)
    <2>1. x \in Nat /\ x # 0 /\ i # 0 /\ x # 1
      BY DEF FwOnSpine
    <2> HIDE DEF x
    <2>2. /\ p \in Nat /\ p # 0 /\ p < x /\ FwOnSpine(p, r) /\ x = W!LeftChild(p, r)
      BY <2>1, FwSpineUp DEF x
    <2>3. CASE i = 1
      BY <2>2, <2>3 DEF x
    <2>4. CASE i # 1
      <3>1. /\ q \in Nat /\ q # 0 /\ q < i /\ FwOnSpine(q, r) /\ i = W!LeftChild(q, r)
        BY <2>4, FwSpineUp
      <3>2. q <= p
        BY <2>1, FwHalf DEF x
      <3> HIDE DEF p, q
      <3>3. q # p
        BY <2>2, <3>1 DEF x
      <3>4. q <= W!Parent(p)
        <4>1. p \in 0 .. n
          BY <2>2 DEF x
        <4>2. G(p)
          BY <1>2, <4>1
        <4> QED BY <2>2, <3>1, <3>2, <3>3, <4>2
      <3>5. CASE p = 1
        BY <3>1, <3>2, <3>3, <3>5
      <3>6. CASE p # 1
        <4> DEFINE pp == W!Parent(p)
        <4>1. pp \in Nat /\ p = W!LeftChild(pp, r) /\ p = 2 * pp + (p % 2) /\ p % 2 \in {0, 1}
          BY <2>2, <3>6, FwSpineUp, FwHalf
        <4>2. i = 2 * q + (i % 2) /\ i % 2 \in {0, 1}
          BY FwHalf DEF q
        <4> HIDE DEF pp
        <4>3. CASE q = pp
          <5>1. i = p
            BY <3>1, <4>1, <4>3
          <5> QED BY <2>2, <5>1 DEF p, x
        <4>4. CASE q < pp
          <5>1. i < p
            <6>1. i % 2 <= 1 /\ p % 2 >= 0
              BY <4>1, <4>2
            <6> QED BY <2>2, <3>1, <4>1, <4>2, <4>4, <6>1
          <5> QED BY <2>2, <5>1 DEF p, x
        <4> QED BY <3>1, <3>4, <4>1, <4>3, <4>4 DEF pp
      <3> QED BY <3>5, <3>6
    <2> QED BY <2>3, <2>4
  <1> HIDE DEF T
  <1>3. Nat \subseteq T
    BY <1>1, <1>2, NatSet
  <1> QED BY <1>3 DEF T

(* Shifting the lowest bit set out of an index leads to the distinguished  *)
(* ancestor in a tree where no bit is set.                                 *)
FwLowestBit(i, n) == i % Two[n] = 0 /\ (i \div Two[n]) % 2 = 1

LEMMA FwEven ==
  ASSUME NEW i \in Nat, NEW k \in Nat, i = 2 * k, NEW n \in Nat
  PROVE  FwLowestBit(i, n + 1) <=> FwLowestBit(k, n)
  <1>1. Two[n] \in Nat \ {0} /\ Two[n + 1] = 2 * Two[n]
    BY TwoFacts
  <1>2. i \div 2 = k
    OBVIOUS
  <1>3. (i \div 2) \div Two[n] = i \div Two[n + 1]
    BY HalfOfQuotient
  <1>4. i % Two[n + 1] = 2 * (k % Two[n])
    <2> DEFINE m == Two[n]
               q == k \div m
               r == k % m
    <2>1. m \in Nat \ {0}
      BY <1>1
    <2> HIDE DEF m
    <2>2. q \in Int /\ r \in 0 .. m - 1 /\ k = m * q + r
      BY <2>1, Z3
    <2> HIDE DEF q, r
    <2>3. 2 * m \in Nat \ {0} /\ 2 * r \in 0 .. 2 * m - 1
      BY <2>1, <2>2
    <2>4. i = (2 * m) * q + 2 * r
      BY <2>1, <2>2, Z3
    <2>5. i % (2 * m) = 2 * r
      BY <2>2, <2>3, <2>4, Quotient
    <2> QED BY <1>1, <2>5 DEF m, r
  <1>5. k % Two[n] \in Int
    BY <1>1, Z3
  <1> QED BY <1>2, <1>3, <1>4, <1>5 DEF FwLowestBit

LEMMA FwOdd ==
  ASSUME NEW i \in Nat, i % 2 = 1
  PROVE  /\ FwLowestBit(i, 0)
         /\ \A n \in Nat : n # 0 => ~FwLowestBit(i, n)
  <1>1. FwLowestBit(i, 0)
    BY TwoFacts DEF FwLowestBit
  <1>2. ASSUME NEW n \in Nat, n # 0, FwLowestBit(i, n) PROVE FALSE
    <2>1. n - 1 \in Nat /\ n - 1 + 1 = n
      BY <1>2
    <2> DEFINE m == Two[n - 1]
    <2>2. m \in Nat \ {0} /\ Two[n] = 2 * m
      BY <2>1, TwoFacts
    <2> HIDE DEF m
    <2>3. i % (2 * m) = 0
      BY <1>2, <2>2 DEF FwLowestBit
    <2>4. i = (2 * m) * (i \div (2 * m))
      BY <2>2, <2>3, Z3
    <2> DEFINE q == i \div (2 * m)
    <2>5. q \in Int
      BY <2>2, Z3
    <2>6. i = 2 * (m * q)
      BY <2>2, <2>4, <2>5, Z3
    <2> HIDE DEF q
    <2>7. m * q \in Int
      BY <2>2, <2>5
    <2> QED BY <1>2, <2>6, <2>7
  <1> QED BY <1>1, <1>2

LEMMA FwLowest ==
  \A i \in Nat : i # 0 =>
    \E n \in 0 .. i : FwLowestBit(i, n) /\ \A m \in Nat : FwLowestBit(i, m) => m = n
  <1> DEFINE G(i) == i # 0 => \E n \in 0 .. i : /\ FwLowestBit(i, n)
                                                /\ \A m \in Nat : FwLowestBit(i, m) => m = n
             T == {n \in Nat : \A i \in 0 .. n : G(i)}
  <1>1. 0 \in T
    OBVIOUS
  <1>2. ASSUME NEW j \in Nat, j \in T PROVE j + 1 \in T
    <2> DEFINE i == j + 1
    <2>1. i \in Nat /\ i # 0
      OBVIOUS
    <2>2. CASE i % 2 = 1
      <3> HIDE DEF i
      <3>1. FwLowestBit(i, 0) /\ (\A m \in Nat : m # 0 => ~FwLowestBit(i, m)) /\ 0 \in 0 .. i
        BY <2>1, <2>2, FwOdd
      <3>2. G(i)
        BY <3>1
      <3> HIDE DEF G
      <3> QED BY <1>2, <3>2 DEF i
    <2>3. CASE i % 2 # 1
      <3> DEFINE k == i \div 2
      <3>1. i = 2 * k /\ k \in 0 .. j /\ k \in Nat /\ k # 0 /\ k + 1 <= i
        BY <2>3
      <3> HIDE DEF i, k
      <3>2. G(k)
        <4> HIDE DEF G
        <4> QED BY <1>2, <3>1
      <3>3. PICK n \in 0 .. k : FwLowestBit(k, n) /\ \A m \in Nat : FwLowestBit(k, m) => m = n
        BY <3>1, <3>2
      <3>4. n \in Nat /\ n + 1 \in 0 .. i /\ FwLowestBit(i, n + 1)
        BY <2>1, <3>1, <3>3, FwEven
      <3>5. ASSUME NEW m \in Nat, FwLowestBit(i, m) PROVE m = n + 1
        <4>1. m # 0
          <5>1. i % Two[0] = 0 /\ (i \div Two[0]) = i
            BY <2>1, TwoFacts
          <5> QED BY <2>3, <3>5, <5>1 DEF FwLowestBit
        <4>2. m - 1 \in Nat /\ m - 1 + 1 = m
          BY <4>1
        <4>3. FwLowestBit(k, m - 1)
          BY <2>1, <3>1, <3>5, <4>2, FwEven
        <4>4. m - 1 = n
          BY <3>3, <4>2, <4>3
        <4> QED BY <3>4, <4>2, <4>4
      <3>6. G(i)
        BY <3>4, <3>5
      <3> HIDE DEF G
      <3> QED BY <1>2, <3>6 DEF i
    <2> QED BY <2>2, <2>3
  <1> HIDE DEF T
  <1>3. Nat \subseteq T
    BY <1>1, <1>2, NatSet
  <1> QED BY <1>3 DEF T

LEMMA FwFastIs ==
  ASSUME NEW i \in Nat, i # 0, NEW n \in Nat, FwLowestBit(i, n)
  PROVE  W!FastDAncestor(i) = i \div Two[n + 1]
  <1> DEFINE ctz == CHOOSE m \in 0 .. i : FwLowestBit(i, m)
  <1>1. PICK m \in 0 .. i : FwLowestBit(i, m) /\ \A k \in Nat : FwLowestBit(i, k) => k = m
    BY FwLowest
  <1>2. ctz \in 0 .. i /\ FwLowestBit(i, ctz)
    BY <1>1, Zenon
  <1>3. W!FastDAncestor(i) = i \div Two[ctz + 1]
    BY FwTwo, Zenon DEF W!FastDAncestor, FwLowestBit
  <1> HIDE DEF ctz
  <1>4. ctz \in Nat
    BY <1>2
  <1>5. ctz = n
    BY <1>1, <1>2, <1>4
  <1> QED BY <1>3, <1>5

LEMMA FwFast ==
  ASSUME NEW r, NEW count \in Nat, \A k \in 0 .. count - 1 : r[k] = 0
  PROVE  \A i \in Nat : i # 0 /\ i < count => W!FastDAncestor(i) = W!DAncestor(i, r)
  <1> DEFINE G(i) == i # 0 /\ i < count => W!FastDAncestor(i) = W!DAncestor(i, r)
             T == {n \in Nat : \A i \in 0 .. n : G(i)}
  <1>1. 0 \in T
    OBVIOUS
  <1>2. ASSUME NEW j \in Nat, j \in T PROVE j + 1 \in T
    <2> DEFINE i == j + 1
    <2>1. i \in Nat /\ i # 0
      OBVIOUS
    <2>2. G(i)
      <3> SUFFICES ASSUME i < count PROVE W!FastDAncestor(i) = W!DAncestor(i, r)
        OBVIOUS
      <3> DEFINE k == i \div 2
      <3>1. k \in Nat /\ k < i /\ k \in 0 .. j /\ W!Parent(i) = k /\ k \in 0 .. count - 1
        BY DEF W!Parent
      <3>2. i % 2 \in {0, 1} /\ (i % 2 = 0 => i = 2 * k /\ k # 0)
        OBVIOUS
      <3> HIDE DEF i
      <3>3. W!DAncestor(i, r) = IF i % 2 = 0 THEN W!DAncestor(k, r) ELSE k
        <4>1. r[k] = 0
          BY <3>1
        <4> HIDE DEF k
        <4> QED BY <2>1, <3>1, <4>1, FwClimbs DEF W!IsLeftChild
      <3>4. CASE i % 2 = 1
        <4>1. FwLowestBit(i, 0)
          BY <2>1, <3>4, FwOdd
        <4>2. W!FastDAncestor(i) = i \div Two[0 + 1]
          BY <2>1, <4>1, FwFastIs
        <4>3. Two[0 + 1] = 2
          BY TwoFacts
        <4> QED BY <3>3, <3>4, <4>2, <4>3
      <3>5. CASE i % 2 = 0
        <4>1. PICK n \in 0 .. k : FwLowestBit(k, n)
          BY <3>1, <3>2, <3>5, FwLowest
        <4>2. n \in Nat /\ n + 1 \in Nat /\ FwLowestBit(i, n + 1)
          BY <2>1, <3>1, <3>2, <3>5, <4>1, FwEven
        <4>3. W!FastDAncestor(i) = i \div Two[n + 1 + 1]
          BY <2>1, <4>2, FwFastIs
        <4>4. W!FastDAncestor(k) = k \div Two[n + 1]
          BY <3>1, <3>2, <3>5, <4>1, <4>2, FwFastIs
        <4>5. i \div Two[n + 1 + 1] = k \div Two[n + 1]
          BY <2>1, <4>2, HalfOfQuotient
        <4>6. G(k)
          <5> HIDE DEF G
          <5> QED BY <1>2, <3>1
        <4> HIDE DEF k
        <4> QED BY <3>1, <3>2, <3>3, <3>5, <4>3, <4>4, <4>5, <4>6
      <3> QED BY <3>2, <3>4, <3>5
    <2> HIDE DEF G
    <2> QED BY <1>2, <2>2
  <1> HIDE DEF T
  <1>3. Nat \subseteq T
    BY <1>1, <1>2, NatSet
  <1> QED BY <1>3 DEF T

-----------------------------------------------------------------------------
(* The weak heap: its invariant. *)

FwD(i) == W!DAncestor(i, rbits)

FwInOrder(i) == Key[array[FwD(i)]] <= Key[array[i]]

(* What the call in progress works on. *)
FwInserting ==
  /\ pc \in {"search", "join"}
  /\ index \in 1 .. cnt - 1 /\ danc < cnt /\ elem \in Elems /\ out = None
  /\ \E i \in 0 .. cnt - 1 : array[i] = elem
  /\ pc = "search" => FwD(danc) = FwD(index)
  /\ pc = "join" => danc = FwD(index)

(* The left spine of the right child of the root: the nodes whose          *)
(* distinguished ancestor is the root.                                     *)
FwExtracting ==
  /\ pc \in {"spine", "join"}
  /\ nr = cnt /\ nr >= 1 /\ danc < nr
  /\ pc = "spine" => IF danc = 0 THEN index \in {0, 1}
                     ELSE FwD(danc) = 0 /\ index = W!LeftChild(danc, rbits)
  /\ pc = "join" => index \in 1 .. nr - 1 /\ FwD(index) = 0 /\ danc = 0

FwBuilding ==
  /\ pc = "join"
  /\ index \in 1 .. nr - 1
  /\ danc = FwD(index)

FwControl ==
  /\ pc = "idle" <=> call = "none"
  /\ call = "insert" => FwInserting
  /\ call = "extract" => FwExtracting
  /\ call = "build" => FwBuilding

FwInv == W!NothingLost /\ FwControl /\ W!WeakHeapOrder /\ W!ShortcutSound

(* The first n positions hold as many elements. *)
FwHolds(n) ==
  /\ \A i \in 0 .. n - 1 : array[i] \in Elems
  /\ \A i, j \in 0 .. n - 1 : i # j => array[i] # array[j]

FwHeld == {array[i] : i \in 0 .. W!Used - 1}

LEMMA FwNextD ==
  \A i : FwD(i)' = W!DAncestor(i, rbits')
  BY DEF FwD, W!DAncestor, W!IsLeftChild

(* What a join does: the node is in order with its distinguished ancestor, *)
(* and those that were stay so, but for the ancestor itself.               *)
LEMMA FwJoin ==
  ASSUME W!TypeOK, NEW n \in 0 .. Nr, FwHolds(n), index \in 1 .. n - 1,
         danc = FwD(index), W!JoinMin
  PROVE  /\ array' \in [0 .. Nr - 1 -> Elems \cup {None}]
         /\ rbits' \in [0 .. Nr - 1 -> {0, 1}]
         /\ danc \in Nat /\ danc < index
         /\ \A i \in 0 .. index : FwD(i)' = FwD(i)
         /\ FwHolds(n)'
         /\ {array'[i] : i \in 0 .. n - 1} = {array[i] : i \in 0 .. n - 1}
         /\ \A i \in 1 .. n - 1 :
              (i = index \/ FwInOrder(i)) /\ (i # danc \/ W!Ordered) => FwInOrder(i)'
  <1> USE NrAssumption
  <1>1. PICK x \in 1 .. n - 1, a \in Nat : x = index /\ a = danc /\ a < x /\ x \in Nat
    <2>1. index \in Nat /\ index # 0
      OBVIOUS
    <2>2. FwD(index) \in Nat /\ FwD(index) < index
      BY <2>1, FwAbove DEF FwD
    <2> QED BY <2>1, <2>2
  <1>2. a \in 0 .. n - 1 /\ x \in 0 .. n - 1 /\ x \in 1 .. Nr - 1 /\ a # x /\ a = FwD(x)
    BY <1>1
  <1>3. rbits \in [0 .. Nr - 1 -> {0, 1}] /\ array \in [0 .. Nr - 1 -> Elems \cup {None}]
    BY DEF W!TypeOK
  <1>4. \A e \in Elems : Key[e] \in Int
    BY KeyAssumption
  <1>5. \A i \in 0 .. n - 1 : array[i] \in Elems /\ Key[array[i]] \in Int
    BY <1>4 DEF FwHolds
  <1>6. CASE W!Ordered
    <2>1. array' = array /\ rbits' = rbits
      BY <1>6 DEF W!JoinMin
    <2>2. \A i \in Nat : FwD(i)' = FwD(i)
      BY <2>1 DEF FwD, W!DAncestor, W!IsLeftChild
    <2>3. Key[array[FwD(x)]] <= Key[array[x]]
      BY <1>1, <1>2, <1>6 DEF W!Ordered
    <2>4. \A i \in 1 .. n - 1 : i = index \/ FwInOrder(i) => FwInOrder(i)'
      BY <1>1, <2>1, <2>2, <2>3 DEF FwInOrder
    <2>5. \A i \in 0 .. index : FwD(i)' = FwD(i)
      BY <2>2
    <2> QED BY <1>1, <1>3, <2>1, <2>4, <2>5 DEF FwHolds
  <1>7. CASE ~W!Ordered
    <2>1. /\ array' = [array EXCEPT ![a] = array[x], ![x] = array[a]]
          /\ rbits' = [rbits EXCEPT ![x] = 1 - @]
      BY <1>1, <1>7 DEF W!JoinMin, W!Exchanged, W!Toggled
    <2>2. \A i \in 0 .. n - 1 :
            array'[i] = IF i = a THEN array[x] ELSE IF i = x THEN array[a] ELSE array[i]
      BY <1>2, <1>3, <2>1
    <2>3. Key[array[x]] < Key[array[a]]
      <3>1. ~(Key[array[a]] <= Key[array[x]])
        BY <1>1, <1>7 DEF W!Ordered
      <3> QED BY <1>2, <1>5, <3>1
    <2>4. array' \in [0 .. Nr - 1 -> Elems \cup {None}] /\ rbits' \in [0 .. Nr - 1 -> {0, 1}]
      <3>1. rbits[x] \in {0, 1} /\ array[x] \in Elems /\ array[a] \in Elems
        BY <1>2, <1>3, <1>5
      <3>2. 1 - rbits[x] \in {0, 1}
        BY <3>1
      <3> QED BY <1>2, <1>3, <2>1, <3>1, <3>2
    <2>5. FwHolds(n)'
      <3>1. \A i \in 0 .. n - 1 : array'[i] \in Elems
        BY <1>2, <1>5, <2>2
      <3>2. \A i, j \in 0 .. n - 1 : i # j => array'[i] # array'[j]
        BY <1>2, <2>2 DEF FwHolds
      <3> QED BY <3>1, <3>2 DEF FwHolds
    <2>6. {array'[i] : i \in 0 .. n - 1} = {array[i] : i \in 0 .. n - 1}
      <3>1. \A i \in 0 .. n - 1 : \E j \in 0 .. n - 1 : array'[i] = array[j]
        BY <1>2, <2>2
      <3>2. \A i \in 0 .. n - 1 : \E j \in 0 .. n - 1 : array[i] = array'[j]
        BY <1>2, <2>2
      <3> QED BY <3>1, <3>2
    <2>7. /\ \A i \in 0 .. x : FwD(i)' = FwD(i)
          /\ \A i \in 0 .. Nr - 1 : FwExchanged(FwD(i), FwD(i)', x, a)
      <3>1. rbits' = [rbits EXCEPT ![x] = 1 - @]
        BY <2>1
      <3>2. FwToggled(rbits, rbits', x)
        BY <1>2, <1>3, <3>1, FwToggle
      <3>3. \A i \in Nat : FwD(i)' = W!DAncestor(i, rbits')
        BY FwNextD
      <3>4. \A i \in 0 .. Nr - 1 : i \in Nat
        OBVIOUS
      <3>5. \A i \in 0 .. x : i \in Nat
        OBVIOUS
      <3> QED BY <1>2, <3>2, <3>3, <3>4, <3>5 DEF FwToggled, FwD
    <2>8. ASSUME NEW i \in 1 .. n - 1, i = x \/ FwInOrder(i), i # a PROVE FwInOrder(i)'
      <3> DEFINE d == FwD(i)
                 e == FwD(i)'
      <3>1. d \in 0 .. n - 1 /\ d < i
        <4>1. i \in Nat /\ i # 0
          OBVIOUS
        <4>2. d \in Nat /\ d < i
          BY <4>1, FwAbove DEF FwD
        <4> HIDE DEF d
        <4> QED BY <4>2
      <3>2. FwExchanged(d, e, x, a) /\ i \in 0 .. n - 1
        <4>1. i \in 0 .. Nr - 1
          OBVIOUS
        <4> QED BY <2>7, <4>1
      <3>3. (i = x => d = a /\ e = a) /\ (i # x => Key[array[d]] <= Key[array[i]])
        <4>1. i = x => d = a /\ e = a
          BY <1>1, <1>2, <2>7
        <4>2. i # x => Key[array[d]] <= Key[array[i]]
          BY <2>8 DEF FwInOrder
        <4> QED BY <4>1, <4>2
      <3> HIDE DEF d, e
      <3>4. Key[array'[e]] <= Key[array'[i]]
        <4>1. Key[array[x]] \in Int /\ Key[array[a]] \in Int /\ Key[array[i]] \in Int
              /\ Key[array[d]] \in Int
          BY <1>2, <1>5, <3>1, <3>2
        <4>2. CASE i = x
          <5>1. array'[e] = array[x] /\ array'[i] = array[a]
            BY <1>2, <2>2, <3>3, <4>2
          <5> QED BY <2>3, <4>1, <5>1
        <4>3. CASE i # x
          <5>1. array'[i] = array[i]
            BY <2>2, <2>8, <3>2, <4>3
          <5>2. CASE d = x /\ e = a
            <6>1. array'[e] = array[x]
              BY <1>2, <2>2, <5>2
            <6> QED BY <3>3, <4>3, <5>1, <5>2, <6>1
          <5>3. CASE d = a /\ e \in {a, x}
            <6>1. array'[e] \in {array[x], array[a]}
              BY <1>2, <2>2, <5>3
            <6> QED BY <2>3, <3>3, <4>1, <4>3, <5>1, <5>3, <6>1
          <5>4. CASE d \notin {a, x} /\ e = d
            <6>1. array'[e] = array[d]
              BY <2>2, <3>1, <5>4
            <6> QED BY <3>3, <4>3, <5>1, <6>1
          <5> QED BY <3>2, <5>2, <5>3, <5>4 DEF FwExchanged
        <4> QED BY <4>2, <4>3
      <3> QED BY <3>4 DEF FwInOrder, e
    <2>9. \A i \in 1 .. n - 1 :
            (i = index \/ FwInOrder(i)) /\ (i # danc \/ W!Ordered) => FwInOrder(i)'
      BY <1>1, <1>7, <2>8
    <2>10. \A i \in 0 .. index : FwD(i)' = FwD(i)
      BY <1>1, <2>7
    <2> QED BY <1>1, <2>4, <2>5, <2>6, <2>9, <2>10
  <1> QED BY <1>6, <1>7

(* The weak heap order, call by call. *)
FwOrdered ==
  /\ call = "none" => \A i \in 1 .. cnt - 1 : FwInOrder(i)
  /\ call = "insert" => \A i \in 1 .. cnt - 1 : i # index => FwInOrder(i)
  /\ call = "extract" => \A i \in 1 .. nr - 1 :
       FwD(i) # 0 \/ (pc = "join" /\ i > index) => FwInOrder(i)
  /\ call = "build" => \A i \in 1 .. nr - 1 : i > index => FwInOrder(i)

LEMMA FwOrderIs ==
  W!TypeOK /\ FwControl => (W!WeakHeapOrder <=> FwOrdered)
  <1> SUFFICES ASSUME W!TypeOK, FwControl PROVE W!WeakHeapOrder <=> FwOrdered
    OBVIOUS
  <1> USE NrAssumption
  <1>1. call \in {"none", "insert", "extract", "build"} /\ index \in Int
    BY DEF W!TypeOK
  <1>2. CASE call = "none"
    BY <1>2 DEF W!WeakHeapOrder, FwOrdered, W!Unjoined, W!Used, FwInOrder, FwD
  <1>3. CASE call = "insert"
    BY <1>3 DEF W!WeakHeapOrder, FwOrdered, W!Unjoined, W!Used, FwInOrder, FwD
  <1>4. CASE call = "extract"
    <2>1. W!Used = nr /\ nr \in Nat
      BY <1>4 DEF W!Used, FwControl, FwExtracting, W!TypeOK
    <2>2. \A i \in 1 .. nr - 1 : i \in W!Unjoined <=> ~(FwD(i) # 0 \/ (pc = "join" /\ i > index))
      BY <1>1, <1>4, <2>1 DEF W!Unjoined, FwD
    <2> QED BY <1>4, <2>1, <2>2 DEF W!WeakHeapOrder, FwOrdered, FwInOrder, FwD
  <1>5. CASE call = "build"
    <2>1. W!Used = nr /\ nr \in Nat
      BY <1>5 DEF W!Used, W!TypeOK
    <2>2. \A i \in 1 .. nr - 1 : i \in W!Unjoined <=> ~(i > index)
      BY <1>1, <1>5, <2>1 DEF W!Unjoined
    <2> QED BY <1>5, <2>1, <2>2 DEF W!WeakHeapOrder, FwOrdered, FwInOrder, FwD
  <1> QED BY <1>1, <1>2, <1>3, <1>4, <1>5

LEMMA FwOrderIsNext ==
  W!TypeOK' /\ FwControl' => (W!WeakHeapOrder' <=> FwOrdered')
  <1>1. W!TypeOK /\ FwControl => (W!WeakHeapOrder <=> FwOrdered)
    BY FwOrderIs
  <1> QED BY <1>1, PTL

LEMMA FwState ==
  ASSUME FwInv
  PROVE  /\ W!TypeOK /\ FwControl /\ FwOrdered /\ FwHolds(W!Used) /\ W!Used \in 0 .. Nr
         /\ \A e \in Elems : Key[e] \in Int
         /\ \A i \in 0 .. W!Used - 1 : Key[array[i]] \in Int
         /\ call # "build" => W!Used = cnt
         /\ call = "build" => W!Used = nr
  <1> USE NrAssumption
  <1>1. W!TypeOK /\ FwControl
    BY DEF FwInv, W!NothingLost
  <1>2. FwOrdered
    BY <1>1, FwOrderIs DEF FwInv
  <1>3. FwHolds(W!Used)
    BY DEF FwInv, W!NothingLost, FwHolds
  <1>4. W!Used \in 0 .. Nr
    BY <1>1 DEF W!TypeOK, W!Used
  <1>5. \A e \in Elems : Key[e] \in Int
    BY KeyAssumption
  <1>6. \A i \in 0 .. W!Used - 1 : Key[array[i]] \in Int
    BY <1>3, <1>5 DEF FwHolds
  <1> QED BY <1>1, <1>2, <1>3, <1>4, <1>5, <1>6 DEF W!Used

(* A state is sound that has all of this. *)
LEMMA FwSound ==
  ASSUME W!TypeOK', FwControl', FwOrdered', FwHolds(W!Used)', W!ShortcutSound'
  PROVE  FwInv'
  <1>1. W!WeakHeapOrder'
    BY FwOrderIsNext
  <1>2. W!NothingLost'
    BY DEF W!NothingLost, FwHolds
  <1> QED BY <1>1, <1>2 DEF FwInv

(* The root comes first. *)
LEMMA FwRootLeast ==
  ASSUME FwInv, call = "none"
  PROVE  \A i \in 0 .. cnt - 1 : Key[array[0]] <= Key[array[i]]
  <1> DEFINE Bad == {i \in 0 .. cnt - 1 : ~(Key[array[0]] <= Key[array[i]])}
  <1> SUFFICES ASSUME Bad # {} PROVE FALSE
    OBVIOUS
  <1>1. cnt \in Nat
    BY FwState, NrAssumption DEF W!TypeOK
  <1>2. PICK i \in Bad : \A j \in Bad : i <= j
    <2>1. Bad \subseteq Nat
      BY <1>1
    <2> HIDE DEF Bad
    <2> QED BY <2>1, LeastElement
  <1>3. \A k \in 0 .. cnt - 1 : Key[array[k]] \in Int
    BY FwState
  <1>4. i \in 1 .. cnt - 1 /\ i \in Nat /\ i # 0 /\ 0 \in 0 .. cnt - 1
    BY <1>1, <1>2, <1>3
  <1>5. FwD(i) \in 0 .. cnt - 1 /\ FwD(i) < i
    <2>1. FwD(i) \in Nat /\ FwD(i) < i
      BY <1>4, FwAbove DEF FwD
    <2> QED BY <1>1, <1>4, <2>1
  <1>6. Key[array[0]] <= Key[array[FwD(i)]]
    <2>1. FwD(i) \notin Bad
      <3> HIDE DEF Bad
      <3> QED BY <1>2, <1>4, <1>5
    <2> QED BY <1>5, <2>1
  <1>7. Key[array[FwD(i)]] <= Key[array[i]]
    BY <1>4, FwState DEF FwOrdered, FwInOrder
  <1>8. Key[array[0]] <= Key[array[i]]
    BY <1>3, <1>4, <1>5, <1>6, <1>7
  <1> QED BY <1>2, <1>8

LEMMA FwInit ==
  W!Init => FwInv
  <1> SUFFICES ASSUME W!Init PROVE FwInv
    OBVIOUS
  <1> USE NrAssumption
  <1>1. W!TypeOK
    BY DEF W!Init, W!Empty, W!TypeOK
  <1>2. W!NothingLost
    BY <1>1 DEF W!Init, W!NothingLost, W!Used
  <1>3. FwControl /\ W!ShortcutSound
    BY DEF W!Init, FwControl, W!ShortcutSound
  <1>4. FwOrdered
    BY DEF W!Init, FwOrdered
  <1> QED BY <1>1, <1>2, <1>3, <1>4, FwOrderIs DEF FwInv

LEMMA FwInsertStep ==
  ASSUME FwInv, NEW e \in Elems, W!Insert(e)
  PROVE  FwInv'
  <1> USE NrAssumption
  <1>1. /\ pc = "idle" /\ cnt < Nr /\ e \notin W!Content
        /\ cnt' = cnt + 1
        /\ array' = [array EXCEPT ![cnt] = e]
        /\ rbits' = [i \in 0 .. Nr - 1 |->
                       IF i = cnt \/ (cnt % 2 = 0 /\ i = W!Parent(cnt)) THEN 0 ELSE rbits[i]]
        /\ cnt = 0 => UNCHANGED <<pc, call, elem, index, danc>>
        /\ cnt # 0 => /\ pc' = "search" /\ call' = "insert" /\ elem' = e
                      /\ index' = cnt /\ danc' = cnt
        /\ out' = None /\ nr' = nr
    BY DEF W!Insert
  <1>2. /\ W!TypeOK /\ call = "none" /\ W!Used = cnt /\ FwOrdered /\ FwHolds(cnt)
        /\ cnt \in 0 .. Nr - 1 /\ cnt \in Nat
    BY <1>1, FwState DEF FwControl, W!TypeOK
  <1>3. \A i \in 0 .. cnt : array'[i] = IF i = cnt THEN e ELSE array[i]
    BY <1>1, <1>2 DEF W!TypeOK
  <1>4. W!TypeOK'
    <2>1. array' \in [0 .. Nr - 1 -> Elems \cup {None}] /\ rbits' \in [0 .. Nr - 1 -> {0, 1}]
      BY <1>1, <1>2 DEF W!TypeOK
    <2> QED BY <1>1, <1>2, <2>1 DEF W!TypeOK
  <1>5. \A i \in 0 .. cnt - 1 : FwD(i)' = FwD(i)
    <2>1. CASE cnt = 0
      BY <2>1
    <2>2. CASE cnt # 0
      <3>1. ASSUME NEW k \in 1 .. cnt - 1 PROVE rbits'[W!Parent(k)] = rbits[W!Parent(k)]
        <4>1. W!Parent(k) \in 0 .. Nr - 1 /\ W!Parent(k) # cnt
          BY <1>2 DEF W!Parent
        <4>2. ~(cnt % 2 = 0 /\ W!Parent(k) = W!Parent(cnt))
          BY <1>2 DEF W!Parent
        <4> QED BY <1>1, <4>1, <4>2
      <3>2. cnt - 1 \in Nat
        BY <1>2, <2>2
      <3>3. \A i \in 0 .. cnt - 1 : W!DAncestor(i, rbits') = W!DAncestor(i, rbits)
        BY <3>1, <3>2, FwAgree
      <3> QED BY <3>3, FwNextD DEF FwD
    <2> QED BY <2>1, <2>2
  <1>6. ASSUME NEW i \in 1 .. cnt - 1 PROVE FwInOrder(i)'
    <2>1. FwD(i) \in 0 .. cnt - 1 /\ i \in 0 .. cnt - 1
      <3>1. i \in Nat /\ i # 0
        OBVIOUS
      <3>2. FwD(i) \in Nat /\ FwD(i) < i
        BY <3>1, FwAbove DEF FwD
      <3> QED BY <1>2, <3>2
    <2>2. FwInOrder(i)
      BY <1>2 DEF FwOrdered
    <2>3. array'[i] = array[i] /\ array'[FwD(i)] = array[FwD(i)] /\ FwD(i)' = FwD(i)
      BY <1>2, <1>3, <1>5, <2>1
    <2> QED BY <2>2, <2>3 DEF FwInOrder
  <1>8. FwHolds(W!Used)'
    <2>1. W!Used' = cnt + 1
      BY <1>1, <1>2 DEF W!Used
    <2>2. \A i \in 0 .. (cnt + 1) - 1 : array'[i] = IF i = cnt THEN e ELSE array[i]
      BY <1>2, <1>3
    <2>3. \A i \in 0 .. cnt - 1 : array[i] \in Elems /\ array[i] # e
      BY <1>1, <1>2 DEF W!Content, FwHolds
    <2>4. \A i, j \in 0 .. cnt - 1 : i # j => array[i] # array[j]
      BY <1>2 DEF FwHolds
    <2>5. \A i \in 0 .. (cnt + 1) - 1 : i = cnt \/ i \in 0 .. cnt - 1
      BY <1>2
    <2>6. \A i \in 0 .. (cnt + 1) - 1 : array'[i] \in Elems
      BY <2>2, <2>3, <2>5
    <2>7. \A i, j \in 0 .. (cnt + 1) - 1 : i # j => array'[i] # array'[j]
      BY <2>2, <2>3, <2>4, <2>5
    <2> QED BY <2>1, <2>6, <2>7 DEF FwHolds
  <1>9. CASE cnt = 0
    <2>1. FwControl' /\ W!ShortcutSound'
      BY <1>1, <1>2, <1>9 DEF FwControl, W!ShortcutSound
    <2>2. FwOrdered'
      BY <1>1, <1>2, <1>9 DEF FwOrdered
    <2> QED BY <1>4, <1>8, <2>1, <2>2, FwSound
  <1>10. CASE cnt # 0
    <2>1. /\ pc' = "search" /\ call' = "insert" /\ elem' = e
          /\ index' = cnt /\ danc' = cnt /\ out' = None /\ cnt' = cnt + 1
      BY <1>1, <1>10
    <2>2. FwInserting'
      <3>1. FwD(danc)' = FwD(index)'
        BY <2>1, FwNextD DEF FwD, W!DAncestor, W!IsLeftChild
      <3>2. cnt \in 0 .. cnt' - 1 /\ array'[cnt] = e /\ cnt \in 1 .. cnt' - 1 /\ cnt < cnt'
        BY <1>2, <1>3, <1>10, <2>1
      <3> QED BY <2>1, <3>1, <3>2 DEF FwInserting
    <2>3. FwControl' /\ W!ShortcutSound'
      BY <2>1, <2>2 DEF FwControl, W!ShortcutSound
    <2>4. FwOrdered'
      <3>1. \A i \in 1 .. cnt' - 1 : i # index' => i \in 1 .. cnt - 1
        BY <1>2, <2>1
      <3> QED BY <1>6, <2>1, <3>1 DEF FwOrdered
    <2> QED BY <1>4, <1>8, <2>3, <2>4, FwSound
  <1> QED BY <1>9, <1>10

LEMMA FwSearchStep ==
  ASSUME FwInv, W!Search \/ W!SearchEnds
  PROVE  FwInv' /\ FwHeld' = FwHeld
  <1> USE NrAssumption
  <1>1. /\ pc = "search" /\ danc' = W!Parent(danc)
        /\ pc' = IF W!IsLeftChild(danc, rbits) THEN "search" ELSE "join"
        /\ UNCHANGED <<cnt, array, rbits, call, elem, index, nr, out>>
    BY DEF W!Search, W!SearchEnds
  <1>2. W!TypeOK /\ FwControl /\ FwOrdered /\ FwHolds(W!Used)
    BY FwState
  <1>3. call = "insert" /\ FwInserting /\ danc \in Nat
    BY <1>1, <1>2 DEF FwControl, FwInserting, FwExtracting, FwBuilding, W!TypeOK
  <1>4. W!Parent(danc) \in Nat /\ W!Parent(danc) <= danc
    BY <1>3, FwParent
  <1>5. W!TypeOK'
    BY <1>1, <1>2, <1>3, <1>4 DEF W!TypeOK
  <1>6. IF W!IsLeftChild(danc, rbits) THEN FwD(W!Parent(danc)) = FwD(index)
        ELSE W!Parent(danc) = FwD(index)
    <2>1. FwD(danc) = FwD(index)
      BY <1>1, <1>3 DEF FwInserting
    <2>2. FwD(danc) = IF danc # 0 /\ W!IsLeftChild(danc, rbits)
                      THEN FwD(W!Parent(danc)) ELSE W!Parent(danc)
      BY <1>3, FwClimbs DEF FwD
    <2>3. danc = 0 => W!Parent(danc) = danc
      BY DEF W!Parent
    <2> QED BY <2>1, <2>2, <2>3
  <1>7. FwD(danc)' = FwD(W!Parent(danc)) /\ \A i : FwD(i)' = FwD(i)
    BY <1>1 DEF FwD, W!DAncestor, W!IsLeftChild
  <1>8. FwD(index)' = FwD(index)
    BY <1>1 DEF FwD, W!DAncestor, W!IsLeftChild
  <1>9. FwInserting'
    <2>1. danc' < cnt'
      BY <1>1, <1>2, <1>3, <1>4 DEF FwInserting, W!TypeOK
    <2> QED BY <1>1, <1>3, <1>6, <1>7, <1>8, <2>1 DEF FwInserting
  <1>10. FwControl' /\ W!ShortcutSound'
    BY <1>1, <1>3, <1>9 DEF FwControl, W!ShortcutSound
  <1>11. FwOrdered'
    BY <1>1, <1>2, <1>3, <1>7 DEF FwOrdered, FwInOrder
  <1>12. FwHolds(W!Used)' /\ FwHeld' = FwHeld
    BY <1>1, <1>2 DEF FwHolds, FwHeld, W!Used
  <1> QED BY <1>5, <1>10, <1>11, <1>12, FwSound

LEMMA FwInsertJoinStep ==
  ASSUME FwInv, W!InsertJoin
  PROVE  FwInv' /\ FwHeld' = FwHeld
  <1> USE NrAssumption
  <1>1. /\ pc = "join" /\ call = "insert" /\ W!JoinMin
        /\ IF W!Ordered \/ danc = 0 THEN W!Return
           ELSE pc' = "search" /\ index' = danc /\ UNCHANGED <<call, elem, danc, nr>>
        /\ UNCHANGED <<cnt, out>>
    BY DEF W!InsertJoin, W!InsertEnds
  <1>2. /\ W!TypeOK /\ FwControl /\ FwOrdered /\ FwHolds(cnt) /\ W!Used = cnt /\ cnt \in 0 .. Nr
    BY <1>1, FwState
  <1>3. FwInserting /\ index \in 1 .. cnt - 1 /\ danc = FwD(index) /\ elem \in Elems /\ out = None
    BY <1>1, <1>2 DEF FwControl, FwInserting
  <1>4. PICK n \in 0 .. Nr : n = cnt
    BY <1>2
  <1>5. /\ array' \in [0 .. Nr - 1 -> Elems \cup {None}]
        /\ rbits' \in [0 .. Nr - 1 -> {0, 1}]
        /\ danc \in Nat /\ danc < index
        /\ \A i \in 0 .. index : FwD(i)' = FwD(i)
        /\ FwHolds(n)'
        /\ {array'[i] : i \in 0 .. n - 1} = {array[i] : i \in 0 .. n - 1}
        /\ \A i \in 1 .. n - 1 :
             (i = index \/ FwInOrder(i)) /\ (i # danc \/ W!Ordered) => FwInOrder(i)'
    <2>1. FwHolds(n) /\ index \in 1 .. n - 1
      BY <1>2, <1>3, <1>4
    <2> QED BY <1>1, <1>2, <1>3, <2>1, FwJoin
  <1>6. \A i \in 1 .. n - 1 : i = index \/ FwInOrder(i)
    BY <1>1, <1>2, <1>4 DEF FwOrdered
  <1>7. W!TypeOK'
    BY <1>1, <1>2, <1>3, <1>5 DEF W!TypeOK, W!Return
  <1>8. FwHolds(W!Used)' /\ FwHeld' = FwHeld
    <2>1. W!Used' = n
      BY <1>1, <1>4 DEF W!Used, W!Return
    <2>2. FwHeld = {array[i] : i \in 0 .. n - 1} /\ FwHeld' = {array'[i] : i \in 0 .. n - 1}
      BY <1>2, <1>4, <2>1 DEF FwHeld
    <2> QED BY <1>5, <2>1, <2>2 DEF FwHolds
  <1>9. CASE W!Ordered \/ danc = 0
    <2>1. pc' = "idle" /\ call' = "none" /\ cnt' = n
      BY <1>1, <1>4, <1>9 DEF W!Return
    <2>2. FwControl' /\ W!ShortcutSound'
      BY <2>1 DEF FwControl, W!ShortcutSound
    <2>3. \A i \in 1 .. n - 1 : FwInOrder(i)'
      BY <1>5, <1>6, <1>9
    <2>4. FwOrdered'
      BY <2>1, <2>3 DEF FwOrdered
    <2> QED BY <1>7, <1>8, <2>2, <2>4, FwSound
  <1>10. CASE ~(W!Ordered \/ danc = 0)
    <2>1. /\ pc' = "search" /\ call' = "insert" /\ index' = danc /\ danc' = danc /\ elem' = elem
          /\ cnt' = n /\ out' = None
      BY <1>1, <1>3, <1>4, <1>10
    <2>2. FwInserting'
      <3>1. danc \in 1 .. n - 1 /\ danc < n
        BY <1>3, <1>4, <1>5, <1>10
      <3>2. \E i \in 0 .. n - 1 : array'[i] = elem
        <4>1. elem \in {array[i] : i \in 0 .. n - 1}
          BY <1>3, <1>4 DEF FwInserting
        <4>2. elem \in {array'[i] : i \in 0 .. n - 1}
          BY <1>5, <4>1
        <4> QED BY <4>2
      <3>3. FwD(danc)' = FwD(index)'
        BY <2>1, FwNextD DEF FwD, W!DAncestor, W!IsLeftChild
      <3> QED BY <1>3, <2>1, <3>1, <3>2, <3>3 DEF FwInserting
    <2>3. FwControl' /\ W!ShortcutSound'
      BY <2>1, <2>2 DEF FwControl, W!ShortcutSound
    <2>4. FwOrdered'
      BY <1>5, <1>6, <2>1 DEF FwOrdered
    <2> QED BY <1>7, <1>8, <2>3, <2>4, FwSound
  <1> QED BY <1>9, <1>10

LEMMA FwExtractStep ==
  ASSUME FwInv, W!Extract
  PROVE  FwInv' /\ cnt > 0 /\ out' = array[0] /\ FwHeld' = FwHeld \ {array[0]}
  <1> USE NrAssumption
  <1>1. /\ pc = "idle" /\ cnt > 0 /\ out' = array[0] /\ cnt' = cnt - 1
        /\ array' = [array EXCEPT ![0] = array[cnt - 1], ![cnt - 1] = None]
        /\ cnt = 1 => UNCHANGED <<pc, call, index, danc, nr>>
        /\ cnt # 1 => /\ pc' = "spine" /\ call' = "extract" /\ nr' = cnt - 1 /\ danc' = 0
                      /\ index' = W!RightChild(0, rbits)
        /\ UNCHANGED <<rbits, elem>>
    BY DEF W!Extract
  <1>2. /\ W!TypeOK /\ call = "none" /\ W!Used = cnt /\ FwOrdered /\ FwHolds(cnt)
        /\ cnt \in 1 .. Nr
    BY <1>1, FwState DEF FwControl, W!TypeOK
  <1>3. \A i \in 0 .. cnt - 1 : array[i] \in Elems
    BY <1>2 DEF FwHolds
  <1>4. \A i, j \in 0 .. cnt - 1 : i # j => array[i] # array[j]
    BY <1>2 DEF FwHolds
  <1>5. \A i \in 0 .. cnt - 2 : array'[i] = IF i = 0 THEN array[cnt - 1] ELSE array[i]
    BY <1>1, <1>2 DEF W!TypeOK
  <1>6. rbits[0] \in {0, 1} /\ rbits' = rbits
    BY <1>1, <1>2 DEF W!TypeOK
  <1>7. W!RightChild(0, rbits) \in {0, 1}
    BY <1>6 DEF W!RightChild
  <1>8. W!TypeOK'
    <2>1. array[cnt - 1] \in Elems /\ array[0] \in Elems
      BY <1>2, <1>3
    <2>2. array' \in [0 .. Nr - 1 -> Elems \cup {None}]
      BY <1>1, <1>2, <2>1 DEF W!TypeOK
    <2> QED BY <1>1, <1>2, <1>7, <2>1, <2>2 DEF W!TypeOK
  <1>9. W!Used' = cnt - 1 /\ (cnt - 1) - 1 = cnt - 2
    BY <1>1, <1>2 DEF W!Used
  <1>10. FwHolds(W!Used)'
    <2>1. \A i \in 0 .. cnt - 2 : array'[i] \in Elems
      BY <1>2, <1>3, <1>5
    <2>2. \A i, j \in 0 .. cnt - 2 : i # j => array'[i] # array'[j]
      BY <1>2, <1>4, <1>5
    <2> QED BY <1>9, <2>1, <2>2 DEF FwHolds
  <1>11. FwHeld' = FwHeld \ {array[0]}
    <2>1. FwHeld = {array[i] : i \in 0 .. cnt - 1} /\ FwHeld' = {array'[i] : i \in 0 .. cnt - 2}
      BY <1>2, <1>9 DEF FwHeld
    <2>2. \A i \in 0 .. cnt - 2 : \E j \in 0 .. cnt - 1 : j # 0 /\ array'[i] = array[j]
      <3> TAKE i \in 0 .. cnt - 2
      <3>1. CASE i = 0
        <4>1. cnt - 1 \in 0 .. cnt - 1 /\ cnt - 1 # 0
          BY <1>2, <3>1
        <4> QED BY <1>5, <3>1, <4>1
      <3>2. CASE i # 0
        <4>1. i \in 0 .. cnt - 1
          BY <1>2
        <4> QED BY <1>5, <3>2, <4>1
      <3> QED BY <3>1, <3>2
    <2>3. \A j \in 0 .. cnt - 1 : j # 0 => \E i \in 0 .. cnt - 2 : array[j] = array'[i]
      <3> TAKE j \in 0 .. cnt - 1
      <3> HAVE j # 0
      <3>1. CASE j = cnt - 1
        <4>1. 0 \in 0 .. cnt - 2
          BY <1>2, <3>1
        <4> QED BY <1>5, <3>1, <4>1
      <3>2. CASE j # cnt - 1
        <4>1. j \in 0 .. cnt - 2
          BY <1>2, <3>2
        <4> QED BY <1>5, <3>2, <4>1
      <3> QED BY <3>1, <3>2
    <2>4. \A j \in 0 .. cnt - 1 : array[j] = array[0] <=> j = 0
      BY <1>2, <1>4
    <2> QED BY <2>1, <2>2, <2>3, <2>4
  <1>12. CASE cnt = 1
    <2>1. FwControl' /\ W!ShortcutSound'
      BY <1>1, <1>2, <1>12 DEF FwControl, W!ShortcutSound
    <2>2. FwOrdered'
      BY <1>1, <1>2, <1>12 DEF FwOrdered
    <2>3. FwInv'
      BY <1>8, <1>10, <2>1, <2>2, FwSound
    <2> QED BY <1>1, <1>11, <2>3
  <1>13. CASE cnt # 1
    <2>1. /\ pc' = "spine" /\ call' = "extract" /\ nr' = cnt - 1 /\ danc' = 0
          /\ index' \in {0, 1} /\ cnt' = cnt - 1
      BY <1>1, <1>7, <1>13
    <2>2. FwExtracting'
      BY <1>2, <1>13, <2>1 DEF FwExtracting
    <2>3. FwControl' /\ W!ShortcutSound'
      BY <2>1, <2>2 DEF FwControl, W!ShortcutSound
    <2>4. ASSUME NEW i \in 1 .. (cnt - 1) - 1, FwD(i) # 0 PROVE FwInOrder(i)'
      <3>1. i \in Nat /\ i # 0 /\ i \in 0 .. cnt - 2 /\ i \in 1 .. cnt - 1
        BY <1>2
      <3>2. FwD(i) \in Nat /\ FwD(i) < i
        BY <3>1, FwAbove DEF FwD
      <3>3. FwD(i) \in 0 .. cnt - 2
        BY <1>2, <3>1, <3>2
      <3>4. array'[i] = array[i] /\ array'[FwD(i)] = array[FwD(i)]
        BY <1>5, <2>4, <3>1, <3>3
      <3>5. FwInOrder(i)
        BY <1>2, <3>1 DEF FwOrdered
      <3>6. FwD(i)' = FwD(i)
        BY <1>6 DEF FwD, W!DAncestor, W!IsLeftChild
      <3> QED BY <3>4, <3>5, <3>6 DEF FwInOrder
    <2>5. \A i : FwD(i)' = FwD(i)
      BY <1>6 DEF FwD, W!DAncestor, W!IsLeftChild
    <2>6. FwOrdered'
      BY <2>1, <2>4, <2>5 DEF FwOrdered
    <2>7. FwInv'
      BY <1>8, <1>10, <2>3, <2>6, FwSound
    <2> QED BY <1>1, <1>11, <2>7
  <1> QED BY <1>12, <1>13

LEMMA FwSpineStep ==
  ASSUME FwInv, W!Spine
  PROVE  FwInv' /\ FwHeld' = FwHeld
  <1> USE NrAssumption
  <1>1. /\ pc = "spine" /\ index < nr /\ danc' = index /\ index' = W!LeftChild(index, rbits)
        /\ UNCHANGED <<cnt, array, rbits, pc, call, elem, nr, out>>
    BY DEF W!Spine
  <1>2. W!TypeOK /\ FwControl /\ FwOrdered /\ FwHolds(W!Used)
    BY FwState
  <1>3. call = "extract" /\ FwExtracting /\ index \in Nat /\ nr \in 0 .. Nr /\ danc \in Nat
    BY <1>1, <1>2 DEF FwControl, FwInserting, FwExtracting, FwBuilding, W!TypeOK
  <1>4. \A i : FwD(i)' = FwD(i)
    BY <1>1 DEF FwD, W!DAncestor, W!IsLeftChild
  <1>5. rbits[index] \in {0, 1} /\ rbits \in [0 .. Nr - 1 -> {0, 1}]
    <2>1. index \in 0 .. Nr - 1
      BY <1>1, <1>3
    <2> QED BY <1>2, <2>1 DEF W!TypeOK
  <1>6. W!TypeOK'
    <2>1. index' \in 0 .. 2 * Nr /\ danc' \in 0 .. Nr - 1
      BY <1>1, <1>3, <1>5 DEF W!LeftChild
    <2> QED BY <1>1, <1>2, <2>1 DEF W!TypeOK
  <1>7. IF danc' = 0 THEN index' \in {0, 1}
        ELSE FwD(danc') = 0 /\ index' = W!LeftChild(danc', rbits)
    <2>1. CASE index = 0
      BY <1>1, <1>5, <2>1 DEF W!LeftChild
    <2>2. CASE index # 0
      <3>1. FwD(index) = 0
        <4>1. CASE danc = 0
          <5>1. index = 1
            BY <1>1, <1>3, <2>2, <4>1 DEF FwExtracting
          <5>2. FwD(1) \in Nat /\ FwD(1) < 1
            BY FwAbove DEF FwD
          <5> QED BY <5>1, <5>2
        <4>2. CASE danc # 0
          <5>1. FwD(danc) = 0 /\ index = 2 * danc + rbits[danc]
            BY <1>1, <1>3, <4>2 DEF FwExtracting, W!LeftChild
          <5>2. danc \in 0 .. Nr - 1 /\ rbits[danc] \in {0, 1}
            BY <1>2, <1>5 DEF W!TypeOK
          <5>3. W!Parent(index) = danc /\ index % 2 = rbits[danc]
            BY <1>3, <5>1, <5>2 DEF W!Parent
          <5>4. W!IsLeftChild(index, rbits)
            BY <5>3 DEF W!IsLeftChild
          <5>5. FwD(index) = FwD(danc)
            BY <1>3, <2>2, <5>3, <5>4, FwClimbs DEF FwD
          <5> QED BY <5>1, <5>5
        <4> QED BY <4>1, <4>2
      <3> QED BY <1>1, <2>2, <3>1
    <2> QED BY <2>1, <2>2
  <1>8. FwExtracting'
    <2>1. danc' < nr' /\ nr' = cnt' /\ nr' >= 1 /\ pc' = "spine"
      BY <1>1, <1>3 DEF FwExtracting
    <2>2. IF danc' = 0 THEN index' \in {0, 1}
          ELSE FwD(danc)' = 0 /\ index' = W!LeftChild(danc, rbits)'
      <3>1. FwD(danc)' = FwD(danc')
        BY <1>1 DEF FwD, W!DAncestor, W!IsLeftChild
      <3> QED BY <1>1, <1>7, <3>1 DEF W!LeftChild
    <2> QED BY <2>1, <2>2 DEF FwExtracting
  <1>9. FwControl' /\ W!ShortcutSound'
    BY <1>1, <1>3, <1>8 DEF FwControl, W!ShortcutSound
  <1>10. FwOrdered'
    BY <1>1, <1>2, <1>3, <1>4 DEF FwOrdered, FwInOrder
  <1>11. FwHolds(W!Used)' /\ FwHeld' = FwHeld
    BY <1>1, <1>2 DEF FwHolds, FwHeld, W!Used
  <1> QED BY <1>6, <1>9, <1>10, <1>11, FwSound

(* The last node of the spine was met: all of them are above it.           *)
LEMMA FwSpineLast ==
  ASSUME FwInv, pc = "spine", index >= nr, danc # 0
  PROVE  \A i \in 1 .. nr - 1 : FwD(i) = 0 => i <= danc
  <1> USE NrAssumption
  <1>1. W!TypeOK /\ FwControl
    BY FwState
  <1>2. /\ FwExtracting /\ danc \in Nat /\ danc # 0 /\ nr \in Nat /\ index \in Nat
        /\ FwD(danc) = 0 /\ index = W!LeftChild(danc, rbits)
    BY <1>1 DEF FwControl, FwInserting, FwExtracting, FwBuilding, W!TypeOK
  <1> DEFINE Late == {i \in 1 .. nr - 1 : FwD(i) = 0 /\ ~(i <= danc)}
  <1> SUFFICES ASSUME Late # {} PROVE FALSE
    OBVIOUS
  <1>3. PICK i \in Late : \A j \in Late : i <= j
    <2>1. Late \subseteq Nat
      BY <1>2
    <2> HIDE DEF Late
    <2> QED BY <2>1, LeastElement
  <1>4. /\ i \in 1 .. nr - 1 /\ i \in Nat /\ i # 0 /\ i # 1 /\ danc < i
        /\ FwOnSpine(i, rbits) /\ FwOnSpine(danc, rbits)
    BY <1>2, <1>3 DEF FwOnSpine, FwD
  <1>5. /\ W!Parent(i) \in Nat /\ W!Parent(i) # 0 /\ W!Parent(i) < i
        /\ FwOnSpine(W!Parent(i), rbits) /\ i = W!LeftChild(W!Parent(i), rbits)
    BY <1>4, FwSpineUp
  <1>6. danc <= W!Parent(i)
    BY <1>2, <1>4, FwSpineChain
  <1>7. W!Parent(i) \notin Late
    <2>1. ~(i <= W!Parent(i))
      BY <1>4, <1>5
    <2> HIDE DEF Late
    <2> QED BY <1>3, <2>1
  <1>8. W!Parent(i) <= danc
    <2>1. W!Parent(i) \in 1 .. nr - 1 /\ FwD(W!Parent(i)) = 0
      BY <1>2, <1>4, <1>5 DEF FwOnSpine, FwD
    <2> QED BY <1>7, <2>1
  <1>9. i = index
    <2>1. W!Parent(i) = danc
      BY <1>2, <1>5, <1>6, <1>8
    <2> QED BY <1>2, <1>5, <2>1
  <1> QED BY <1>2, <1>4, <1>9

LEMMA FwSpineEndsStep ==
  ASSUME FwInv, W!SpineEnds
  PROVE  FwInv' /\ FwHeld' = FwHeld
  <1> USE NrAssumption
  <1>1. /\ pc = "spine" /\ index >= nr
        /\ danc = 0 => W!Return
        /\ danc # 0 => pc' = "join" /\ index' = danc /\ danc' = 0 /\ UNCHANGED <<call, elem, nr>>
        /\ UNCHANGED <<cnt, array, rbits, out>>
    BY DEF W!SpineEnds
  <1>2. W!TypeOK /\ FwControl /\ FwOrdered /\ FwHolds(W!Used)
    BY FwState
  <1>3. /\ call = "extract" /\ FwExtracting /\ nr = cnt /\ nr \in 1 .. Nr
        /\ danc \in 0 .. nr - 1
    BY <1>1, <1>2 DEF FwControl, FwInserting, FwExtracting, FwBuilding, W!TypeOK
  <1>4. \A i : FwD(i)' = FwD(i)
    BY <1>1 DEF FwD, W!DAncestor, W!IsLeftChild
  <1>5. W!TypeOK'
    BY <1>1, <1>2, <1>3 DEF W!TypeOK, W!Return
  <1>6. FwHolds(W!Used)' /\ FwHeld' = FwHeld
    <2>1. W!Used' = W!Used
      BY <1>1, <1>3 DEF W!Used, W!Return
    <2> QED BY <1>1, <1>2, <2>1 DEF FwHolds, FwHeld
  <1>7. CASE danc = 0
    <2>1. pc' = "idle" /\ call' = "none"
      BY <1>1, <1>7 DEF W!Return
    <2>2. nr = 1
      BY <1>1, <1>2, <1>3, <1>7 DEF FwExtracting, W!TypeOK
    <2>3. FwControl' /\ W!ShortcutSound'
      BY <2>1 DEF FwControl, W!ShortcutSound
    <2>4. FwOrdered'
      BY <1>1, <1>3, <2>1, <2>2 DEF FwOrdered
    <2> QED BY <1>5, <1>6, <2>3, <2>4, FwSound
  <1>8. CASE danc # 0
    <2>1. /\ pc' = "join" /\ call' = "extract" /\ index' = danc /\ danc' = 0
          /\ nr' = nr /\ cnt' = cnt
      BY <1>1, <1>3, <1>8
    <2>2. FwD(index)' = FwD(danc)
      BY <1>1, <1>8 DEF FwD, W!DAncestor, W!IsLeftChild
    <2>3. FwExtracting'
      BY <1>1, <1>3, <1>8, <2>1, <2>2 DEF FwExtracting
    <2>4. FwControl' /\ W!ShortcutSound'
      BY <2>1, <2>3 DEF FwControl, W!ShortcutSound
    <2>5. ASSUME NEW i \in 1 .. nr - 1, FwD(i) # 0 \/ i > danc PROVE FwInOrder(i)
      <3>1. FwD(i) = 0 => ~(i > danc)
        <4>1. FwD(i) = 0 => i <= danc
          BY <1>1, <1>8, FwSpineLast
        <4> QED BY <1>3, <4>1
      <3> QED BY <1>2, <1>3, <2>5, <3>1 DEF FwOrdered
    <2>6. FwOrdered'
      BY <1>1, <1>4, <2>1, <2>5 DEF FwOrdered, FwInOrder
    <2> QED BY <1>5, <1>6, <2>4, <2>6, FwSound
  <1> QED BY <1>7, <1>8

LEMMA FwExtractJoinStep ==
  ASSUME FwInv, W!ExtractJoin
  PROVE  FwInv' /\ FwHeld' = FwHeld
  <1> USE NrAssumption
  <1>1. /\ pc = "join" /\ call = "extract" /\ W!JoinMin
        /\ W!Parent(index) = 0 => W!Return
        /\ W!Parent(index) # 0 => index' = W!Parent(index) /\ UNCHANGED <<pc, call, elem, danc, nr>>
        /\ UNCHANGED <<cnt, out>>
    BY DEF W!ExtractJoin
  <1>2. /\ W!TypeOK /\ FwControl /\ FwOrdered /\ FwHolds(cnt) /\ W!Used = cnt /\ cnt \in 0 .. Nr
    BY <1>1, FwState
  <1>3. /\ FwExtracting /\ nr = cnt /\ nr \in 1 .. Nr /\ index \in 1 .. nr - 1
        /\ FwD(index) = 0 /\ danc = 0 /\ index \in Nat /\ index # 0
    BY <1>1, <1>2 DEF FwControl, FwExtracting, W!TypeOK
  <1>4. PICK n \in 0 .. Nr : n = cnt
    BY <1>2
  <1>5. /\ array' \in [0 .. Nr - 1 -> Elems \cup {None}]
        /\ rbits' \in [0 .. Nr - 1 -> {0, 1}]
        /\ \A i \in 0 .. index : FwD(i)' = FwD(i)
        /\ FwHolds(n)'
        /\ {array'[i] : i \in 0 .. n - 1} = {array[i] : i \in 0 .. n - 1}
        /\ \A i \in 1 .. n - 1 :
             (i = index \/ FwInOrder(i)) /\ (i # danc \/ W!Ordered) => FwInOrder(i)'
    <2>1. FwHolds(n) /\ index \in 1 .. n - 1 /\ danc = FwD(index)
      BY <1>2, <1>3, <1>4
    <2> QED BY <1>1, <1>2, <2>1, FwJoin
  <1>6. W!Parent(index) \in Nat /\ W!Parent(index) < index
    BY <1>3, FwParent
  <1>7. W!TypeOK'
    BY <1>1, <1>2, <1>3, <1>5, <1>6 DEF W!TypeOK, W!Return
  <1>8. FwHolds(W!Used)' /\ FwHeld' = FwHeld
    <2>1. W!Used' = n
      BY <1>1, <1>4 DEF W!Used, W!Return
    <2>2. FwHeld = {array[i] : i \in 0 .. n - 1} /\ FwHeld' = {array'[i] : i \in 0 .. n - 1}
      BY <1>2, <1>4, <2>1 DEF FwHeld
    <2> QED BY <1>5, <2>1, <2>2 DEF FwHolds
  <1>9. ASSUME NEW i \in 1 .. n - 1, i = index \/ i > index \/ FwD(i) # 0 PROVE FwInOrder(i)'
    <2>1. i = index \/ FwInOrder(i)
      BY <1>1, <1>2, <1>3, <1>4, <1>9 DEF FwOrdered
    <2>2. i # danc
      BY <1>3
    <2> QED BY <1>5, <2>1, <2>2
  <1>10. CASE W!Parent(index) = 0
    <2>1. pc' = "idle" /\ call' = "none" /\ cnt' = n
      BY <1>1, <1>4, <1>10 DEF W!Return
    <2>2. FwControl' /\ W!ShortcutSound'
      BY <2>1 DEF FwControl, W!ShortcutSound
    <2>3. index = 1
      BY <1>3, <1>10 DEF W!Parent
    <2>4. \A i \in 1 .. n - 1 : i = index \/ i > index
      BY <2>3
    <2>5. FwOrdered'
      BY <1>9, <2>1, <2>4 DEF FwOrdered
    <2> QED BY <1>7, <1>8, <2>2, <2>5, FwSound
  <1>11. CASE W!Parent(index) # 0
    <2>1. /\ index' = W!Parent(index) /\ pc' = "join" /\ call' = "extract" /\ danc' = 0
          /\ nr' = n /\ cnt' = n
      BY <1>1, <1>3, <1>4, <1>11
    <2>2. FwOnSpine(index, rbits) /\ index # 1
      BY <1>3, <1>11 DEF FwOnSpine, FwD, W!Parent
    <2>3. FwD(W!Parent(index)) = 0
      BY <1>3, <2>2, FwSpineUp DEF FwOnSpine, FwD
    <2>4. FwD(index)' = 0
      <3>1. W!Parent(index) \in 0 .. index
        BY <1>3, <1>6
      <3>2. \A i \in 0 .. index : W!DAncestor(i, rbits') = FwD(i)
        BY <1>5, FwNextD
      <3>3. FwD(index)' = W!DAncestor(W!Parent(index), rbits')
        BY <2>1 DEF FwD, W!DAncestor, W!IsLeftChild
      <3> QED BY <2>3, <3>1, <3>2, <3>3
    <2>5. FwExtracting'
      <3>1. index' \in 1 .. n - 1
        BY <1>3, <1>4, <1>6, <1>11, <2>1
      <3>2. n >= 1
        BY <1>3, <1>4
      <3> QED BY <2>1, <2>4, <3>1, <3>2 DEF FwExtracting
    <2>6. FwControl' /\ W!ShortcutSound'
      BY <2>1, <2>5 DEF FwControl, W!ShortcutSound
    <2>7. ASSUME NEW i \in 1 .. n - 1, FwD(i)' # 0 \/ i > index' PROVE FwInOrder(i)'
      <3>1. CASE i < index
        <4>1. i \in 0 .. index /\ i \in Nat /\ i # 0
          BY <1>3, <3>1
        <4>2. FwD(i)' = FwD(i)
          BY <1>5, <4>1
        <4>3. FwD(i) # 0
          <5> SUFFICES ASSUME FwD(i) = 0 PROVE FALSE
            OBVIOUS
          <5>1. FwOnSpine(i, rbits)
            BY <4>1 DEF FwOnSpine, FwD
          <5>2. i <= W!Parent(index)
            BY <1>3, <2>2, <3>1, <4>1, <5>1, FwSpineChain
          <5> QED BY <1>6, <2>1, <2>7, <4>1, <4>2, <5>2
        <4> QED BY <1>9, <4>3
      <3>2. CASE ~(i < index)
        <4>1. i = index \/ i > index
          BY <1>3, <3>2
        <4> QED BY <1>9, <4>1
      <3> QED BY <3>1, <3>2
    <2>8. FwOrdered'
      BY <2>1, <2>7 DEF FwOrdered
    <2> QED BY <1>7, <1>8, <2>6, <2>8, FwSound
  <1> QED BY <1>10, <1>11

(* The contents that build() is called with: count distinct elements.      *)
LEMMA FwFilling ==
  ASSUME NEW content \in W!Fillings
  PROVE  LET count == W!Cardinality(DOMAIN content)
         IN  /\ count \in 1 .. Nr
             /\ content \in [0 .. count - 1 -> Elems]
             /\ \A i, j \in 0 .. count - 1 : i # j => content[i] # content[j]
  <1> USE NrAssumption
  <1>1. PICK n \in 1 .. Nr : content \in W!Injection(0 .. n - 1, Elems)
    BY DEF W!Fillings
  <1>2. content \in [0 .. n - 1 -> Elems] /\ \A i, j \in 0 .. n - 1 : i # j => content[i] # content[j]
    BY <1>1 DEF W!Injection, W!IsInjective
  <1>3. Cardinality(0 .. n - 1) = n
    BY FS_Interval
  <1>4. W!Cardinality(0 .. n - 1) = Cardinality(0 .. n - 1)
    BY DEF W!Cardinality, Cardinality
  <1>5. DOMAIN content = 0 .. n - 1
    BY <1>2
  <1> QED BY <1>2, <1>3, <1>4, <1>5

(* The words that build() clears hold the bits of all the elements.        *)
LEMMA FwCleared ==
  ASSUME W!TypeOK, NEW count \in 1 .. Nr
  PROVE  /\ W!BitsCleared(count) \in [0 .. Nr - 1 -> {0, 1}]
         /\ \A k \in 0 .. count - 1 : W!BitsCleared(count)[k] = 0
  <1> USE NrAssumption
  <1>1. WordBits \in Nat /\ WordBits # 0
    BY WordBitsAssumption DEF W!WordAssumption
  <1>2. ASSUME NEW k \in 0 .. count - 1 PROVE k \div WordBits <= (count - 1) \div WordBits
    <2>1. k \in Nat /\ count - 1 \in Nat /\ k <= count - 1
      OBVIOUS
    <2> DEFINE a == k \div WordBits
               b == (count - 1) \div WordBits
    <2>2. a \in Int /\ b \in Int /\ WordBits * a <= k /\ count - 1 < WordBits * (b + 1)
      BY <1>1, <2>1
    <2> HIDE DEF a, b
    <2>3. WordBits * a < WordBits * (b + 1)
      BY <1>1, <2>1, <2>2
    <2>4. a < b + 1
      BY <1>1, <2>2, <2>3
    <2>5. a <= b
      BY <2>2, <2>4
    <2> QED BY <2>5 DEF a, b
  <1>3. rbits \in [0 .. Nr - 1 -> {0, 1}]
    BY DEF W!TypeOK
  <1> QED BY <1>2, <1>3 DEF W!BitsCleared

LEMMA FwBuildStep ==
  ASSUME FwInv, NEW content \in W!Fillings, cnt = 0, W!Build(W!Cardinality(DOMAIN content), content)
  PROVE  FwInv'
  <1> USE NrAssumption
  <1> DEFINE count == W!Cardinality(DOMAIN content)
  <1>1. /\ count \in 1 .. Nr
        /\ content \in [0 .. count - 1 -> Elems]
        /\ \A i, j \in 0 .. count - 1 : i # j => content[i] # content[j]
    BY FwFilling
  <1>2. /\ pc = "idle"
        /\ array' = [i \in 0 .. Nr - 1 |-> IF i < count THEN content[i] ELSE None]
        /\ count = 1 => cnt' = count /\ UNCHANGED <<rbits, pc, call, index, danc, nr>>
        /\ count # 1 => /\ rbits' = W!BitsCleared(count)
                        /\ pc' = "join" /\ call' = "build" /\ nr' = count
                        /\ index' = count - 1 /\ danc' = W!FastDAncestor(count - 1) /\ cnt' = cnt
        /\ out' = None /\ elem' = elem
    BY DEF W!Build
  <1> HIDE DEF count
  <1>3. W!TypeOK /\ FwControl /\ call = "none"
    BY <1>2, FwState DEF FwControl
  <1>4. \A i \in 0 .. count - 1 : array'[i] = content[i]
    BY <1>1, <1>2
  <1>5. array' \in [0 .. Nr - 1 -> Elems \cup {None}]
    BY <1>1, <1>2
  <1>6. W!Used' = count
    BY <1>2, <1>3 DEF W!Used
  <1>7. FwHolds(W!Used)'
    <2>1. \A i \in 0 .. count - 1 : array'[i] \in Elems
      BY <1>1, <1>4
    <2>2. \A i, j \in 0 .. count - 1 : i # j => array'[i] # array'[j]
      BY <1>1, <1>4
    <2> QED BY <1>6, <2>1, <2>2 DEF FwHolds
  <1>8. CASE count = 1
    <2>1. W!TypeOK'
      BY <1>1, <1>2, <1>3, <1>5, <1>8 DEF W!TypeOK
    <2>2. FwControl' /\ W!ShortcutSound'
      BY <1>2, <1>3, <1>8 DEF FwControl, W!ShortcutSound
    <2>3. FwOrdered'
      BY <1>2, <1>3, <1>8 DEF FwOrdered
    <2> QED BY <1>7, <2>1, <2>2, <2>3, FwSound
  <1>9. CASE count # 1
    <2>1. /\ rbits' \in [0 .. Nr - 1 -> {0, 1}]
          /\ \A k \in 0 .. count - 1 : rbits'[k] = 0
      BY <1>1, <1>2, <1>3, <1>9, FwCleared
    <2>2. count \in Nat
      BY <1>1
    <2>3. \A i \in Nat : i # 0 /\ i < count => W!FastDAncestor(i) = W!DAncestor(i, rbits')
      BY <2>1, <2>2, FwFast
    <2>4. count - 1 \in Nat /\ count - 1 # 0 /\ count - 1 < count
      BY <1>1, <1>9
    <2>5. danc' = W!DAncestor(count - 1, rbits')
      BY <1>2, <1>9, <2>3, <2>4
    <2>6. danc' \in Nat /\ danc' < count - 1
      BY <1>1, <2>1, <2>4, <2>5, FwAbove
    <2>7. FwD(index)' = danc'
      <3>1. FwD(index)' = W!DAncestor(index', rbits')
        BY DEF FwD, W!DAncestor, W!IsLeftChild
      <3> QED BY <1>2, <1>9, <2>5, <3>1
    <2>8. W!TypeOK'
      BY <1>1, <1>2, <1>3, <1>5, <1>9, <2>1, <2>4, <2>6 DEF W!TypeOK
    <2>9. FwControl'
      <3>1. FwBuilding'
        BY <1>2, <1>9, <2>2, <2>4, <2>7 DEF FwBuilding
      <3> QED BY <1>2, <1>9, <3>1 DEF FwControl
    <2>10. W!ShortcutSound'
      <3>1. \A i \in 1 .. count - 1 : W!FastDAncestor(i) = W!DAncestor(i, rbits')
        BY <2>2, <2>3
      <3>2. \A i \in 1 .. index' : FwD(i)' = W!FastDAncestor(i)
        BY <1>2, <1>9, <3>1, FwNextD
      <3> QED BY <3>2 DEF W!ShortcutSound, FwD
    <2>11. FwOrdered'
      BY <1>2, <1>9, <2>4 DEF FwOrdered
    <2> QED BY <1>7, <2>8, <2>9, <2>10, <2>11, FwSound
  <1> QED BY <1>8, <1>9

LEMMA FwBuildJoinStep ==
  ASSUME FwInv, W!BuildJoin
  PROVE  /\ FwInv' /\ out' = out /\ FwHeld' = FwHeld
         /\ elem' = elem \/ call' = "none"
  <1> USE NrAssumption
  <1>1. /\ pc = "join" /\ call = "build" /\ W!JoinMin
        /\ index = 1 => cnt' = nr /\ W!Return
        /\ index # 1 => /\ index' = index - 1 /\ danc' = W!FastDAncestor(index - 1)
                        /\ UNCHANGED <<cnt, pc, call, elem, nr>>
        /\ UNCHANGED out
    BY DEF W!BuildJoin
  <1>2. W!TypeOK /\ FwControl /\ FwOrdered /\ FwHolds(nr) /\ W!Used = nr /\ nr \in 0 .. Nr
    BY <1>1, FwState DEF W!TypeOK
  <1>3. /\ FwBuilding /\ index \in 1 .. nr - 1 /\ danc = FwD(index)
        /\ index \in Nat /\ index # 0 /\ nr \in Nat
    BY <1>1, <1>2 DEF FwControl, FwBuilding
  <1>4. PICK n \in 0 .. Nr : n = nr
    BY <1>2
  <1>5. /\ array' \in [0 .. Nr - 1 -> Elems \cup {None}]
        /\ rbits' \in [0 .. Nr - 1 -> {0, 1}]
        /\ danc \in Nat /\ danc < index
        /\ \A i \in 0 .. index : FwD(i)' = FwD(i)
        /\ FwHolds(n)'
        /\ {array'[i] : i \in 0 .. n - 1} = {array[i] : i \in 0 .. n - 1}
        /\ \A i \in 1 .. n - 1 :
             (i = index \/ FwInOrder(i)) /\ (i # danc \/ W!Ordered) => FwInOrder(i)'
    <2>1. FwHolds(n) /\ index \in 1 .. n - 1
      BY <1>2, <1>3, <1>4
    <2> QED BY <1>1, <1>2, <1>3, <2>1, FwJoin
  <1>6. FwHolds(W!Used)' /\ FwHeld' = FwHeld
    <2>1. W!Used' = n
      BY <1>1, <1>4 DEF W!Used, W!Return
    <2>2. FwHeld = {array[i] : i \in 0 .. n - 1} /\ FwHeld' = {array'[i] : i \in 0 .. n - 1}
      BY <1>2, <1>4, <2>1 DEF FwHeld
    <2> QED BY <1>5, <2>1, <2>2 DEF FwHolds
  <1>7. ASSUME NEW i \in 1 .. n - 1, i = index \/ i > index PROVE FwInOrder(i)'
    <2>1. i = index \/ FwInOrder(i)
      BY <1>1, <1>2, <1>3, <1>4, <1>7 DEF FwOrdered
    <2>2. i # danc
      BY <1>3, <1>5, <1>7
    <2> QED BY <1>5, <2>1, <2>2
  <1>8. CASE index = 1
    <2>1. pc' = "idle" /\ call' = "none" /\ cnt' = n
      BY <1>1, <1>4, <1>8 DEF W!Return
    <2>2. W!TypeOK'
      BY <1>1, <1>2, <1>5, <1>8 DEF W!TypeOK, W!Return
    <2>3. FwControl' /\ W!ShortcutSound'
      BY <2>1 DEF FwControl, W!ShortcutSound
    <2>4. \A i \in 1 .. n - 1 : i = index \/ i > index
      BY <1>8
    <2>5. FwOrdered'
      BY <1>7, <2>1, <2>4 DEF FwOrdered
    <2> QED BY <1>1, <1>6, <2>1, <2>2, <2>3, <2>5, FwSound
  <1>9. CASE index # 1
    <2>1. /\ index' = index - 1 /\ pc' = "join" /\ call' = "build"
          /\ nr' = n /\ cnt' = cnt /\ elem' = elem
          /\ danc' = W!FastDAncestor(index - 1)
      BY <1>1, <1>4, <1>9
    <2>2. index - 1 \in 1 .. n - 1 /\ index - 1 \in Nat /\ index - 1 # 0 /\ index - 1 \in 0 .. index
      BY <1>3, <1>4, <1>9
    <2>3. \A i \in 1 .. index : W!FastDAncestor(i) = FwD(i)
      BY <1>1 DEF FwInv, W!ShortcutSound, FwD
    <2>4. \A i \in 1 .. index - 1 : i \in 1 .. index /\ i \in 0 .. index
      BY <1>3
    <2>5. \A i \in 1 .. index - 1 : FwD(i)' = W!FastDAncestor(i)
      BY <1>5, <2>3, <2>4
    <2>6. FwD(index)' = W!DAncestor(index - 1, rbits')
      BY <2>1 DEF FwD, W!DAncestor, W!IsLeftChild
    <2>7. W!DAncestor(index - 1, rbits') = W!FastDAncestor(index - 1)
      <3>1. index - 1 \in 1 .. index - 1
        BY <2>2
      <3>2. \A i \in 1 .. index - 1 : W!DAncestor(i, rbits') = W!FastDAncestor(i)
        BY <2>5, FwNextD
      <3> QED BY <3>1, <3>2
    <2>8. danc' \in Nat /\ danc' < index - 1
      BY <2>1, <2>2, <2>7, FwAbove
    <2>9. W!TypeOK'
      BY <1>1, <1>2, <1>4, <1>5, <2>1, <2>2, <2>8 DEF W!TypeOK
    <2>10. FwControl'
      <3>1. FwBuilding'
        BY <1>4, <2>1, <2>2, <2>6, <2>7 DEF FwBuilding
      <3> QED BY <2>1, <3>1 DEF FwControl
    <2>11. W!ShortcutSound'
      BY <2>1, <2>5 DEF W!ShortcutSound, FwD
    <2>12. ASSUME NEW i \in 1 .. n - 1, i > index - 1 PROVE FwInOrder(i)'
      <3>1. i = index \/ i > index
        BY <1>3, <2>12
      <3> QED BY <1>7, <3>1
    <2>13. FwOrdered'
      BY <2>1, <2>12 DEF FwOrdered
    <2> QED BY <1>1, <1>6, <2>1, <2>9, <2>10, <2>11, <2>13, FwSound
  <1> QED BY <1>8, <1>9

LEMMA FwEmptyStep ==
  ASSUME FwInv, W!Clear \/ W!Reinit
  PROVE  FwInv'
  <1> USE NrAssumption
  <1>1. /\ pc = "idle" /\ cnt' = 0 /\ array' = [i \in 0 .. Nr - 1 |-> None]
        /\ rbits' = rbits \/ rbits' \in [0 .. Nr - 1 -> {0, 1}]
        /\ out' = None /\ UNCHANGED <<pc, call, elem, index, danc, nr>>
    BY DEF W!Clear, W!Reinit, W!Empty
  <1>2. W!TypeOK /\ FwControl /\ call = "none"
    BY <1>1, FwState DEF FwControl
  <1>3. W!TypeOK'
    BY <1>1, <1>2 DEF W!TypeOK
  <1>4. W!Used' = 0
    BY <1>1, <1>2 DEF W!Used
  <1>5. FwHolds(W!Used)'
    BY <1>4 DEF FwHolds
  <1>6. FwControl' /\ W!ShortcutSound'
    BY <1>1, <1>2 DEF FwControl, W!ShortcutSound
  <1>7. FwOrdered'
    BY <1>1, <1>2 DEF FwOrdered
  <1> QED BY <1>3, <1>5, <1>6, <1>7, FwSound

(* A step of a call in progress loses no element.                          *)
LEMMA FwRunStep ==
  ASSUME FwInv, W!Run
  PROVE  FwInv'
  BY FwSearchStep, FwInsertJoinStep, FwSpineStep, FwSpineEndsStep, FwExtractJoinStep,
     FwBuildJoinStep DEF W!Run

LEMMA FwStep ==
  ASSUME FwInv, W!Next
  PROVE  FwInv'
  <1>1. CASE W!Run
    BY <1>1, FwRunStep
  <1>2. ASSUME NEW e \in Elems, W!Insert(e) PROVE FwInv'
    BY <1>2, FwInsertStep
  <1>3. CASE W!Extract
    BY <1>3, FwExtractStep
  <1>4. ASSUME cnt = 0, NEW content \in W!Fillings, W!Build(W!Cardinality(DOMAIN content), content)
        PROVE  FwInv'
    BY <1>4, FwBuildStep
  <1>5. CASE W!Clear \/ W!Reinit
    BY <1>5, FwEmptyStep
  <1> QED BY <1>1, <1>2, <1>3, <1>4, <1>5 DEF W!Next, W!Call

(* The elements of the weak heap, and those of the queue it stands for.    *)
FwCounted ==
  /\ FwHeld \subseteq Elems /\ IsFiniteSet(FwHeld) /\ Cardinality(FwHeld) <= Nr
  /\ W!Queued = FwHeld \ IF call = "insert" THEN {elem} ELSE {}
  /\ call = "insert" => elem \in FwHeld

LEMMA FwQueue ==
  FwInv => FwCounted
  <1> SUFFICES ASSUME FwInv PROVE FwCounted
    OBVIOUS
  <1> USE NrAssumption
  <1>1. FwControl /\ FwHolds(W!Used) /\ W!Used \in 0 .. Nr /\ (call = "insert" => W!Used = cnt)
    BY FwState
  <1> DEFINE f == [i \in 0 .. W!Used - 1 |-> array[i]]
  <1>2. f \in [0 .. W!Used - 1 -> FwHeld] /\ \A x \in FwHeld : \E i \in 0 .. W!Used - 1 : f[i] = x
    BY DEF FwHeld
  <1>3. \A i, j \in 0 .. W!Used - 1 : i # j => f[i] # f[j]
    BY <1>1 DEF FwHolds
  <1> HIDE DEF f
  <1>4. IsFiniteSet(FwHeld) /\ Cardinality(FwHeld) = W!Used
    <2>1. W!Used \in Nat
      BY <1>1
    <2> QED BY <1>2, <1>3, <2>1, DistinctCount
  <1>5. FwHeld \subseteq Elems
    BY <1>1 DEF FwHeld, FwHolds
  <1>6. ASSUME call = "insert" PROVE elem \in FwHeld
    BY <1>1, <1>6 DEF FwControl, FwInserting, FwHeld
  <1>7. W!Queued = FwHeld \ IF call = "insert" THEN {elem} ELSE {}
    BY DEF W!Queued, FwHeld
  <1>8. Cardinality(FwHeld) <= Nr
    BY <1>1, <1>4
  <1> QED BY <1>4, <1>5, <1>6, <1>7, <1>8 DEF FwCounted

LEMMA FwQueueNext ==
  FwInv' => FwCounted'
  <1>1. FwInv => FwCounted
    BY FwQueue
  <1> QED BY <1>1, PTL

(* The same of a weak heap as of a binary heap: an element enters the      *)
(* queue when its last join returns.                                       *)
LEMMA FwQueueStep ==
  ASSUME FwInv, kind = "fw", kind' = "fw", W!Next
  PROVE  [Queue!Next]_(Queue!vars)
  <1> DEFINE C == IF kind = "fb" THEN B!Queued ELSE W!Queued
  <1>1. FwInv' /\ FwCounted /\ FwCounted'
    BY FwStep, FwQueue, FwQueueNext
  <1>2. C = W!Queued /\ C' = W!Queued'
    OBVIOUS
  <1> HIDE DEF C
  <1>3. ASSUME out' = None PROVE Queue!Load
    <2>1. C' \subseteq FwHeld'
      BY <1>1, <1>2 DEF FwCounted
    <2>2. C' \subseteq Elems /\ Cardinality(C') <= Nr
      <3>1. IsFiniteSet(C') /\ Cardinality(C') <= Cardinality(FwHeld')
        BY <1>1, <2>1, FS_Subset DEF FwCounted
      <3>2. Cardinality(C') \in Nat /\ Cardinality(FwHeld') \in Nat /\ Nr \in Nat
        BY <1>1, <3>1, FS_CardinalityType, NrAssumption DEF FwCounted
      <3>3. Cardinality(FwHeld') <= Nr
        BY <1>1 DEF FwCounted
      <3> QED BY <1>1, <2>1, <3>1, <3>2, <3>3 DEF FwCounted
    <2>3. Queue!Cardinality(C') <= Nr
      BY <2>2, QueueCardinality
    <2> QED BY <1>3, <2>2, <2>3 DEF Queue!Load, C
  <1>4. CASE \E e \in Elems : W!Insert(e)
    BY <1>3, <1>4 DEF W!Insert, Queue!Next
  <1>5. CASE W!Clear \/ W!Reinit
    BY <1>3, <1>5 DEF W!Clear, W!Reinit, Queue!Next
  <1>6. ASSUME NEW content \in W!Fillings, W!Build(W!Cardinality(DOMAIN content), content)
        PROVE  Queue!Next
    BY <1>3, <1>6 DEF W!Build, Queue!Next
  <1>7. CASE W!Extract
    <2>1. /\ cnt > 0 /\ out' = array[0] /\ FwHeld' = FwHeld \ {array[0]}
          /\ pc = "idle" /\ call = "none"
      BY <1>7, FwExtractStep, FwState DEF W!Extract, FwControl
    <2>2. call' # "insert"
      BY <1>7, <2>1 DEF W!Extract
    <2>3. C = FwHeld /\ C' = C \ {array[0]}
      BY <1>1, <1>2, <2>1, <2>2 DEF FwCounted
    <2>4. FwHeld = {array[i] : i \in 0 .. cnt - 1}
      <3>1. W!Used = cnt
        BY <2>1 DEF W!Used
      <3> QED BY <3>1 DEF FwHeld
    <2>5. array[0] \in C /\ \A x \in C : Key[array[0]] <= Key[x]
      <3>1. 0 \in 0 .. cnt - 1
        BY <2>1, FwState DEF W!TypeOK
      <3>2. \A i \in 0 .. cnt - 1 : Key[array[0]] <= Key[array[i]]
        BY <2>1, FwRootLeast
      <3> QED BY <2>3, <2>4, <3>1, <3>2
    <2>6. array[0] \in Queue!Least(C)
      BY <2>5 DEF Queue!Least
    <2>7. Queue!Extract
      BY <2>1, <2>3, <2>6 DEF Queue!Extract, C
    <2> QED BY <2>7 DEF Queue!Next
  <1>8. CASE W!InsertJoin /\ W!InsertEnds
    <2>1. call = "insert" /\ call' = "none" /\ out' = None /\ FwHeld' = FwHeld
      <3>1. call = "insert" /\ call' = "none" /\ out' = out
        BY <1>8 DEF W!InsertJoin, W!Return
      <3>2. out = None
        BY <3>1, FwState DEF FwControl, FwInserting
      <3> QED BY <1>8, <3>1, <3>2, FwInsertJoinStep
    <2>2. C = FwHeld \ {elem} /\ C' = FwHeld /\ elem \in FwHeld /\ FwHeld \subseteq Elems
      BY <1>1, <1>2, <2>1 DEF FwCounted
    <2>3. Cardinality(C) < Nr
      <3>1. Cardinality(C) = Cardinality(FwHeld) - 1 /\ Cardinality(FwHeld) \in Nat
        BY <1>1, <2>2, FS_RemoveElement, FS_CardinalityType DEF FwCounted
      <3>2. Cardinality(FwHeld) <= Nr /\ Nr \in Nat
        BY <1>1, NrAssumption DEF FwCounted
      <3> QED BY <3>1, <3>2
    <2>4. Queue!Cardinality(C) < Nr /\ elem \in Elems \ C /\ C' = C \cup {elem}
      BY <2>2, <2>3, QueueCardinality
    <2>5. Queue!Insert
      BY <2>1, <2>4 DEF Queue!Insert, C
    <2> QED BY <2>5 DEF Queue!Next
  <1>9. CASE W!Run /\ ~(W!InsertJoin /\ W!InsertEnds)
    <2>1. FwHeld' = FwHeld
      BY <1>9, FwSearchStep, FwInsertJoinStep, FwSpineStep, FwSpineEndsStep, FwExtractJoinStep,
         FwBuildJoinStep DEF W!Run
    <2>2. out' = out
      BY <1>9 DEF W!Run, W!Search, W!SearchEnds, W!InsertJoin, W!Spine, W!SpineEnds,
                  W!ExtractJoin, W!BuildJoin
    <2>3. \/ call = "insert" /\ call' = "insert" /\ elem' = elem
          \/ call # "insert" /\ call' # "insert"
      <3>1. CASE W!Search \/ W!SearchEnds
        BY <3>1 DEF W!Search, W!SearchEnds
      <3>2. CASE W!InsertJoin
        BY <1>9, <3>2 DEF W!InsertJoin
      <3>3. pc = "spine" => call # "insert"
        BY FwState DEF FwControl, FwInserting
      <3>4. CASE W!Spine \/ W!SpineEnds
        BY <3>3, <3>4 DEF W!Spine, W!SpineEnds, W!Return
      <3>5. CASE W!ExtractJoin \/ W!BuildJoin
        BY <3>5 DEF W!ExtractJoin, W!BuildJoin, W!Return
      <3> QED BY <1>9, <3>1, <3>2, <3>4, <3>5 DEF W!Run
    <2>4. C' = C
      BY <1>1, <1>2, <2>1, <2>3 DEF FwCounted
    <2> QED BY <2>2, <2>4 DEF Queue!vars, C
  <1> QED BY <1>4, <1>5, <1>6, <1>7, <1>8, <1>9 DEF W!Next, W!Call

-----------------------------------------------------------------------------
(* Both heaps, every call of a client, for every size and every keys.      *)

HeapInv ==
  /\ kind \in {"fb", "fw"}
  /\ kind = "fb" => FbInv
  /\ kind = "fw" => FwInv

(* Nothing moves: the heap, whichever it is, keeps its invariant.          *)
LEMMA HeapStutter ==
  ASSUME HeapInv, UNCHANGED allVars
  PROVE  HeapInv'
  <1>1. /\ kind' = kind /\ cnt' = cnt /\ array' = array /\ pc' = pc /\ call' = call
        /\ elem' = elem /\ index' = index /\ nr' = nr /\ out' = out /\ root' = root
        /\ depth' = depth /\ rbits' = rbits /\ danc' = danc
    BY DEF allVars
  <1>2. B!NothingLost' = B!NothingLost
    BY <1>1 DEF B!NothingLost, B!TypeOK, B!Used, B!At, B!Hole
  <1>3. FbControl' = FbControl
    BY <1>1 DEF FbControl, FbElderOf
  <1>4. FbOrder' = FbOrder
    <2>1. FbRiseOrder' = FbRiseOrder
      BY <1>1 DEF FbRiseOrder, FbInOrder
    <2>2. FbDescendOrder' = FbDescendOrder
      BY <1>1 DEF FbDescendOrder, FbBelowRoot, FbInOrder, FbElderOf
    <2>3. FbAboveKids' = FbAboveKids
      BY <1>1 DEF FbAboveKids
    <2>4. FbSiftOrder' = FbSiftOrder
      BY <1>1 DEF FbSiftOrder, FbInOrder, FbElderOf
    <2> QED BY <1>1, <2>1, <2>2, <2>3, <2>4 DEF FbOrder, FbInOrder
  <1>5. W!NothingLost' = W!NothingLost
    BY <1>1 DEF W!NothingLost, W!TypeOK, W!Used
  <1>6. \A i : FwD(i)' = FwD(i)
    BY <1>1 DEF FwD, W!DAncestor, W!IsLeftChild
  <1>7. FwControl' = FwControl
    <2>1. FwD(index)' = FwD(index) /\ FwD(danc)' = FwD(danc)
      BY <1>1 DEF FwD, W!DAncestor, W!IsLeftChild
    <2>2. FwInserting' = FwInserting
      BY <1>1, <2>1 DEF FwInserting
    <2>3. FwExtracting' = FwExtracting
      BY <1>1, <2>1 DEF FwExtracting, W!LeftChild
    <2>4. FwBuilding' = FwBuilding
      BY <1>1, <2>1 DEF FwBuilding
    <2> QED BY <1>1, <2>2, <2>3, <2>4 DEF FwControl
  <1>8. FwOrdered' = FwOrdered
    BY <1>1, <1>6 DEF FwOrdered, FwInOrder
  <1>9. W!ShortcutSound' = W!ShortcutSound
    BY <1>1, <1>6 DEF W!ShortcutSound, FwD
  <1>10. ASSUME FwInv PROVE FwInv'
    <2>1. W!NothingLost /\ FwControl /\ FwOrdered /\ W!ShortcutSound /\ FwHolds(W!Used)
      BY <1>10, FwState DEF FwInv
    <2>2. W!TypeOK' /\ FwHolds(W!Used)'
      BY <1>1, <2>1 DEF W!NothingLost, W!TypeOK, FwHolds, W!Used
    <2> QED BY <1>7, <1>8, <1>9, <2>1, <2>2, FwSound
  <1>11. FbInv' = FbInv
    BY <1>2, <1>3, <1>4 DEF FbInv
  <1> QED BY <1>1, <1>10, <1>11 DEF HeapInv

LEMMA HeapInit ==
  ASSUME Init
  PROVE  HeapInv
  <1>1. ASSUME kind = "fb", B!Init PROVE HeapInv
    BY <1>1, FbInit DEF HeapInv
  <1>2. ASSUME kind = "fw", W!Init PROVE HeapInv
    BY <1>2, FwInit DEF HeapInv
  <1> QED BY <1>1, <1>2 DEF Init

LEMMA HeapStep ==
  ASSUME HeapInv, [Next]_allVars
  PROVE  HeapInv'
  <1>1. CASE OfFb(B!Next)
    <2>1. kind = "fb" /\ kind' = "fb" /\ B!Next /\ FbInv
      BY <1>1 DEF OfFb, HeapInv
    <2>2. FbInv'
      BY <2>1, FbStep
    <2> QED BY <2>1, <2>2 DEF HeapInv
  <1>2. CASE OfFw(W!Next)
    <2>1. kind = "fw" /\ kind' = "fw" /\ W!Next /\ FwInv
      BY <1>2 DEF OfFw, HeapInv
    <2>2. FwInv'
      BY <2>1, FwStep
    <2> QED BY <2>1, <2>2 DEF HeapInv
  <1> QED BY <1>1, <1>2, HeapStutter DEF Next

LEMMA HeapAlways == Spec => []HeapInv
  <1>1. Init => HeapInv
    BY HeapInit
  <1>2. HeapInv /\ [Next]_allVars => HeapInv'
    BY HeapStep
  <1> QED BY <1>1, <1>2, PTL DEF Spec

(* In a binary heap of any size, whatever insert(), extract() and build()  *)
(* are in the middle of, no element precedes its parent but for the one    *)
(* being placed: the order that fbheap.c's loops suspend and restore.      *)
THEOREM HeapOrderAlways == Spec => []HeapOrder
  <1>1. HeapInv => HeapOrder
    <2> SUFFICES ASSUME FbInv PROVE B!HeapOrder
      BY DEF HeapInv, HeapOrder
    <2>1. FbOrder
      BY DEF FbInv
    <2> QED BY <2>1 DEF B!HeapOrder, FbOrder, FbDescendOrder, FbBelowRoot, FbInOrder
  <1> QED BY <1>1, HeapAlways, PTL

(* In a weak heap of any size, whatever its reverse bits were when it was  *)
(* created, no element precedes its distinguished ancestor between calls,  *)
(* and between two joins of fwheap.c only the nodes still to be joined do. *)
THEOREM WeakHeapOrderAlways == Spec => []WeakHeapOrder
  <1>1. HeapInv => WeakHeapOrder
    BY DEF HeapInv, WeakHeapOrder, FwInv
  <1> QED BY <1>1, HeapAlways, PTL

(* stroll_fwheap_build() may compute ancestors from the index alone: the   *)
(* bits it has toggled so far are those of nodes already joined, and none  *)
(* of them is on the way up from the nodes to come.                        *)
THEOREM ShortcutAlwaysSound == Spec => []ShortcutSound
  <1>1. HeapInv => ShortcutSound
    BY DEF HeapInv, ShortcutSound, FwInv
  <1> QED BY <1>1, HeapAlways, PTL

(* No loop of both heaps loses or duplicates an element, and no index or   *)
(* count leaves the array.                                                 *)
THEOREM HeapsLoseNothing == Spec => []NothingLost
  <1>1. HeapInv => NothingLost
    BY DEF HeapInv, NothingLost, FbInv, FwInv
  <1> QED BY <1>1, HeapAlways, PTL

(* Both heaps are bounded priority queues: extract() returns an element    *)
(* that none precedes and takes no other out, an insertion adds its        *)
(* element only, and what a call moves meanwhile is nobody's concern.      *)
THEOREM HeapsAreQueues == Spec => QueueSpec
  <1> DEFINE C == IF kind = "fb" THEN B!Queued ELSE W!Queued
  <1>1. Init => Queue!Init
    <2>1. ASSUME kind = "fb", B!Init PROVE Queue!Init
      <3>1. cnt = 0 /\ pc = "idle" /\ call = "none" /\ out = None
        BY <2>1 DEF B!Init
      <3>2. B!Queued = {}
        BY <3>1 DEF B!Queued, B!Used
      <3> QED BY <2>1, <3>1, <3>2 DEF Queue!Init
    <2>2. ASSUME kind = "fw", W!Init PROVE Queue!Init
      <3>1. cnt = 0 /\ pc = "idle" /\ call = "none" /\ out = None
        BY <2>2 DEF W!Init
      <3>2. W!Queued = {}
        BY <3>1 DEF W!Queued, W!Used
      <3> QED BY <2>2, <3>1, <3>2 DEF Queue!Init
    <2> QED BY <2>1, <2>2 DEF Init
  <1>2. HeapInv /\ [Next]_allVars => [Queue!Next]_(Queue!vars)
    <2> SUFFICES ASSUME HeapInv, [Next]_allVars PROVE [Queue!Next]_(Queue!vars)
      OBVIOUS
    <2>1. CASE OfFb(B!Next)
      <3>1. kind = "fb" /\ kind' = "fb" /\ B!Next /\ FbInv
        BY <2>1 DEF OfFb, HeapInv
      <3> QED BY <3>1, FbQueueStep
    <2>2. CASE OfFw(W!Next)
      <3>1. kind = "fw" /\ kind' = "fw" /\ W!Next /\ FwInv
        BY <2>2 DEF OfFw, HeapInv
      <3> QED BY <3>1, FwQueueStep
    <2>3. CASE UNCHANGED allVars
      <3>1. /\ kind' = kind /\ cnt' = cnt /\ array' = array /\ pc' = pc /\ call' = call
            /\ elem' = elem /\ index' = index /\ nr' = nr /\ out' = out /\ root' = root
            /\ depth' = depth /\ rbits' = rbits /\ danc' = danc
        BY <2>3 DEF allVars
      <3>2. B!Queued' = B!Queued /\ W!Queued' = W!Queued
        BY <3>1 DEF B!Queued, B!Used, B!At, B!Hole, W!Queued, W!Used
      <3> QED BY <3>1, <3>2 DEF Queue!vars
    <2> QED BY <2>1, <2>2, <2>3 DEF Next
  <1> QED BY <1>1, <1>2, HeapAlways, PTL DEF Spec, QueueSpec, Queue!Spec

=============================================================================
