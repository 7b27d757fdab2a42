------------------------------- MODULE FwHeap -------------------------------
(***************************************************************************)
(* The fixed array weak heap of src/src/fwheap.c.                          *)
(*                                                                         *)
(* A weak heap is a binary tree where an element precedes those of its     *)
(* right subtree only.  A reverse bit per node tells which of its two      *)
(* children is the left one, so that subtrees are exchanged by toggling a  *)
(* bit.  The bits come from malloc() and are initialised lazily, as        *)
(* elements come in.                                                       *)
(*                                                                         *)
(* Steps are the iterations of the loops of the code, so that every state  *)
(* in which compare() is called is a state of the model.                   *)
(***************************************************************************)
EXTENDS ArrayHeap

CONSTANT
  WordBits  (* Bits of the words that the reverse bits are packed into.    *)

WordAssumption == WordBits \in Nat \ {0}

VARIABLES
  rbits,    \* the reverse bits (rbits)
  danc      \* didx or danc: the distinguished ancestor of the next join

vars == <<cnt, array, rbits, pc, call, elem, index, danc, nr, out>>

-----------------------------------------------------------------------------

INSTANCE Pow2 WITH W <- 32   \* unsigned int

Parent(i) == i \div 2
LeftChild(i, r) == 2 * i + r[i]
RightChild(i, r) == 2 * i + 1 - r[i]

(* stroll_fwheap_isleft_child(). *)
IsLeftChild(i, r) == i % 2 = r[Parent(i)]

(* stroll_fwheap_dancestor(): the parent of the first right child met on   *)
(* the way up.                                                             *)
DAncestor(i, r) ==
  LET goesOn(n) == i \div Two[n] # 0 /\ IsLeftChild(i \div Two[n], r)
      met == CHOOSE n \in 0 .. i : ~goesOn(n) /\ \A m \in 0 .. n - 1 : goesOn(m)
  IN  Parent(i \div Two[met])

(* stroll_fwheap_fast_dancestor(): shifts the lowest bit set out. *)
FastDAncestorShort(i) ==
  LET ctz == CHOOSE n \in 0 .. i : i % Two[n] = 0 /\ (i \div Two[n]) % 2 = 1
  IN  IF i = 1 THEN 0 ELSE i \div Two[ctz]

FastDAncestor(i) ==
  LET ctz == CHOOSE n \in 0 .. i : i % Two[n] = 0 /\ (i \div Two[n]) % 2 = 1
  IN  i \div Two[ctz + 1]

-----------------------------------------------------------------------------

(* malloc() returns whatever bits it likes. *)
Init ==
  /\ cnt = 0
  /\ array = Empty
  /\ rbits \in [0 .. Nr - 1 -> {0, 1}]
  /\ pc = "idle"
  /\ call = "none"
  /\ elem = None /\ out = None
  /\ index = 0 /\ danc = 0 /\ nr = 0

(* The call in progress returns, its local variables go. *)
Return ==
  /\ pc' = "idle"
  /\ call' = "none"
  /\ elem' = None
  /\ index' = 0 /\ danc' = 0 /\ nr' = 0

(* stroll_fwheap_insert(), up to the search of the first distinguished     *)
(* ancestor.  A leaf that is the only child of its parent is made a left   *)
(* child.  The heap holds distinct elements.                               *)
Insert(e) ==
  /\ pc = "idle"
  /\ cnt < Nr
  /\ e \notin Content
  /\ cnt' = cnt + 1
  /\ array' = [array EXCEPT ![cnt] = e]
  /\ rbits' = [i \in 0 .. Nr - 1 |->
                 IF i = cnt \/ (cnt % 2 = 0 /\ i = Parent(cnt)) THEN 0 ELSE rbits[i]]
  /\ IF cnt = 0
     THEN UNCHANGED <<pc, call, elem, index, danc>>
     ELSE /\ pc' = "search"
          /\ call' = "insert"
          /\ elem' = e
          /\ index' = cnt
          /\ danc' = cnt
  /\ out' = None
  /\ UNCHANGED nr

(* One iteration of stroll_fwheap_dancestor(). *)
Search ==
  /\ pc = "search"
  /\ IsLeftChild(danc, rbits)
  /\ danc' = Parent(danc)
  /\ UNCHANGED <<cnt, array, rbits, pc, call, elem, index, nr, out>>

SearchEnds ==
  /\ pc = "search"
  /\ ~IsLeftChild(danc, rbits)
  /\ danc' = Parent(danc)
  /\ pc' = "join"
  /\ UNCHANGED <<cnt, array, rbits, call, elem, index, nr, out>>

(* stroll_fwheap_join_min(): a child that precedes its distinguished       *)
(* ancestor is exchanged with it, and its own subtrees with one another.   *)
Ordered == Key[array[danc]] <= Key[array[index]]

ExchangedHalfWay == [array EXCEPT ![danc] = array[index]]

Exchanged == [array EXCEPT ![danc] = array[index], ![index] = array[danc]]

Toggled == [rbits EXCEPT ![index] = 1 - @]

JoinMin ==
  /\ array' = IF Ordered THEN array ELSE Exchanged
  /\ rbits' = IF Ordered THEN rbits ELSE Toggled

(* The loop of insert() is over. *)
InsertEndsInOrder == Ordered

InsertEnds == Ordered \/ danc = 0

(* insert(): goes on from the ancestor as long as elements are exchanged. *)
InsertJoin ==
  /\ pc = "join"
  /\ call = "insert"
  /\ JoinMin
  /\ IF InsertEnds
     THEN Return
     ELSE /\ pc' = "search"
          /\ index' = danc
          /\ UNCHANGED <<call, elem, danc, nr>>
  /\ UNCHANGED <<cnt, out>>

(* stroll_fwheap_extract(): the root is returned and the last element      *)
(* takes its place, unless it was the only one.                            *)
Extract ==
  /\ pc = "idle"
  /\ cnt > 0
  /\ out' = array[0]
  /\ cnt' = cnt - 1
  /\ array' = [array EXCEPT ![0] = array[cnt - 1], ![cnt - 1] = None]
  /\ IF cnt = 1
     THEN UNCHANGED <<pc, call, index, danc, nr>>
     ELSE /\ pc' = "spine"
          /\ call' = "extract"
          /\ nr' = cnt - 1
          /\ danc' = 0
          /\ index' = RightChild(0, rbits)
  /\ UNCHANGED <<rbits, elem>>

(* stroll_fwheap_last_child(): down the left spine of the root's right     *)
(* subtree.                                                                *)
Spine ==
  /\ pc = "spine"
  /\ index < nr
  /\ danc' = index
  /\ index' = LeftChild(index, rbits)
  /\ UNCHANGED <<cnt, array, rbits, pc, call, elem, nr, out>>

(* The joins start from the last node of the spine, if there is one. *)
SpineEnds ==
  /\ pc = "spine"
  /\ index >= nr
  /\ IF danc = 0
     THEN Return
     ELSE /\ pc' = "join"
          /\ index' = danc
          /\ danc' = 0
          /\ UNCHANGED <<call, elem, nr>>
  /\ UNCHANGED <<cnt, array, rbits, out>>

(* extract(): every node of the spine is joined with the root. *)
ExtractJoin ==
  /\ pc = "join"
  /\ call = "extract"
  /\ JoinMin
  /\ IF Parent(index) = 0
     THEN Return
     ELSE /\ index' = Parent(index)
          /\ UNCHANGED <<pc, call, elem, danc, nr>>
  /\ UNCHANGED <<cnt, out>>

(* The words that hold the reverse bits of count elements are cleared. *)
BitsKept(count) == rbits

BitsCleared(count) ==
  [i \in 0 .. Nr - 1 |-> IF i \div WordBits <= (count - 1) \div WordBits
                         THEN 0
                         ELSE rbits[i]]

(* stroll_fwheap_build() on an array the client filled with count distinct *)
(* elements: nodes are joined with their distinguished ancestor, the last  *)
(* one first.  The reverse bits of a single element are left alone.        *)
Build(count, content) ==
  /\ pc = "idle"
  /\ array' = [i \in 0 .. Nr - 1 |-> IF i < count THEN content[i] ELSE None]
  /\ IF count = 1
     THEN /\ cnt' = count
          /\ UNCHANGED <<rbits, pc, call, index, danc, nr>>
     ELSE /\ rbits' = BitsCleared(count)
          /\ pc' = "join"
          /\ call' = "build"
          /\ nr' = count
          /\ index' = count - 1
          /\ danc' = FastDAncestor(count - 1)
          /\ UNCHANGED cnt
  /\ out' = None
  /\ UNCHANGED elem

BuildJoin ==
  /\ pc = "join"
  /\ call = "build"
  /\ JoinMin
  /\ IF index = 1
     THEN cnt' = nr /\ Return
     ELSE /\ index' = index - 1
          /\ danc' = FastDAncestor(index - 1)
          /\ UNCHANGED <<cnt, pc, call, elem, nr>>
  /\ UNCHANGED out

(* stroll_fwheap_clear(). *)
Clear ==
  /\ pc = "idle"
  /\ cnt' = 0
  /\ array' = Empty
  /\ out' = None
  /\ UNCHANGED <<rbits, pc, call, elem, index, danc, nr>>

(* stroll_fwheap_fini(), then stroll_fwheap_init() on the same array. *)
Reinit ==
  /\ pc = "idle"
  /\ cnt' = 0
  /\ array' = Empty
  /\ rbits' \in [0 .. Nr - 1 -> {0, 1}]
  /\ out' = None
  /\ UNCHANGED <<pc, call, elem, index, danc, nr>>

(* The client fills the array of an empty heap before it builds one: of    *)
(* another heap nothing would be left but reverse bits, and clear()     *)
(* leaves them too.                                                        *)
Call ==
  \/ \E e \in Elems : Insert(e)
  \/ Extract
  \/ cnt = 0 /\ \E content \in Fillings : Build(Cardinality(DOMAIN content), content)
  \/ Clear
  \/ Reinit

Run == Search \/ SearchEnds \/ InsertJoin \/ Spine \/ SpineEnds \/ ExtractJoin
         \/ BuildJoin

Next == Call \/ Run

Spec == Init /\ [][Next]_vars

-----------------------------------------------------------------------------

(* Every variable keeps the type of the local or field it models. *)
TypeOK ==
  /\ cnt \in 0 .. Nr
  /\ array \in [0 .. Nr - 1 -> Elems \cup {None}]
  /\ rbits \in [0 .. Nr - 1 -> {0, 1}]
  /\ pc \in {"idle", "search", "join", "spine"}
  /\ call \in {"none", "insert", "extract", "build"}
  /\ elem \in Elems \cup {None} /\ out \in Elems \cup {None}
  /\ index \in 0 .. 2 * Nr /\ danc \in 0 .. Nr - 1
  /\ nr \in 0 .. Nr

(* The nodes the call in progress has not joined yet with their            *)
(* distinguished ancestor.                                                 *)
Unjoined ==
  CASE call = "insert" -> {index}
    [] call = "build" -> 1 .. index
    [] call = "extract" ->
         {i \in 1 .. nr - 1 : DAncestor(i, rbits) = 0 /\ (pc = "join" => i <= index)}
    [] OTHER -> {}

(* Between calls no element precedes its distinguished ancestor; between   *)
(* two joins only the nodes still to be joined may.  Toggling a bit of a   *)
(* node changes the ancestors of everything below it.                      *)
WeakHeapOrder ==
  \A i \in (1 .. Used - 1) \ Unjoined :
    Key[array[DAncestor(i, rbits)]] <= Key[array[i]]

(* build() is entitled to its shortcut: toggling bits from the last node   *)
(* up does not change the distinguished ancestors of those to come.        *)
ShortcutSound ==
  call = "build" =>
    \A i \in 1 .. index : FastDAncestor(i) = DAncestor(i, rbits)

(* Exchanging elements neither loses nor duplicates one, and no position   *)
(* in use is uninitialised.                                                *)
NothingLost ==
  /\ TypeOK
  /\ \A i \in 0 .. Used - 1 : array[i] \in Elems
  /\ \A i, j \in 0 .. Used - 1 : i # j => array[i] # array[j]

(* "Root has no ancestor...": stroll_fwheap_dancestor() and stroll_fwheap_ *)
(* isleft_child() assert that they are never applied to the root.          *)
RootHasNoAncestor == pc = "search" => danc # 0

(* The queue the array stands for: an element enters it when its insertion *)
(* returns and leaves it when its extraction is called.                    *)
Queued ==
  {array[i] : i \in 0 .. Used - 1} \ IF call = "insert" THEN {elem} ELSE {}

=============================================================================
