---------------------------- MODULE MCArrayHeaps ----------------------------
(***************************************************************************)
(* Small instances of both heaps that live in an array.  A behaviour is    *)
(* that of a client of one of them; the variables of the other stay put.   *)
(***************************************************************************)
EXTENDS ArrayHeap

CONSTANT WordBits

VARIABLES
  kind,         \* "fb" or "fw"
  root, depth,  \* those of FbHeap
  rbits, danc   \* those of FwHeap

B == INSTANCE FbHeap
W == INSTANCE FwHeap

ASSUME WordBitsAssumption == W!WordAssumption

allVars == <<kind, cnt, array, pc, call, elem, index, nr, out, root, depth, rbits, danc>>

(* Elements are small integers, two of which share a key. *)
MCElems == 1 .. Nr
MCKey == [e \in MCElems |-> IF e = 2 THEN 1 ELSE e]

Init ==
  \/ kind = "fb" /\ B!Init /\ rbits = <<>> /\ danc = 0
  \/ kind = "fw" /\ W!Init /\ root = 0 /\ depth = 0

OfFb(Action) == kind = "fb" /\ Action /\ UNCHANGED <<kind, rbits, danc>>
OfFw(Action) == kind = "fw" /\ Action /\ UNCHANGED <<kind, root, depth>>

Next == OfFb(B!Next) \/ OfFw(W!Next)

(* A call runs to its return. *)
Spec == Init /\ [][Next]_allVars /\ WF_allVars(OfFb(B!Run) \/ OfFw(W!Run))

-----------------------------------------------------------------------------

(* In a binary heap no element precedes its parent between calls, nor,     *)
(* while an element is being placed below the root of a subtree, in the    *)
(* rest of that subtree.                                                   *)
HeapOrder == kind = "fb" => B!HeapOrder

(* In a weak heap no element precedes its distinguished ancestor between   *)
(* calls; between two joins only the nodes still to be joined may.         *)
WeakHeapOrder == kind = "fw" => W!WeakHeapOrder

(* A weak heap is built along distinguished ancestors computed from the    *)
(* index alone: the reverse bits toggled so far never make them wrong.     *)
ShortcutSound == kind = "fw" => W!ShortcutSound

(* In both heaps, in the middle of every loop as between calls, the        *)
(* positions in use hold as many distinct elements, the one in hand        *)
(* counted where it is to go.                                              *)
NothingLost == IF kind = "fb" THEN B!NothingLost ELSE W!NothingLost

(* "Root has no ancestor...": stroll_fwheap_dancestor() and stroll_fwheap_ *)
(* isleft_child() assert that they are never applied to the root.          *)
RootHasNoAncestor == kind = "fw" => W!RootHasNoAncestor

Queue ==
  INSTANCE PQueue WITH content <- IF kind = "fb" THEN B!Queued ELSE W!Queued,
                       key <- Key,
                       Capacity <- Nr

(* Both heaps implement a bounded priority queue. *)
QueueSpec == Queue!Spec

(* Every call of both heaps returns. *)
CallsReturn == pc # "idle" ~> pc = "idle"

=============================================================================
