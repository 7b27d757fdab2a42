------------------------------ MODULE MCLists -------------------------------
(***************************************************************************)
(* A client of one kind of list.  Nodes, and lists but for the buckets of  *)
(* hashed lists, are interchangeable: the calls, and the invariants, treat *)
(* them all alike.                                                         *)
(***************************************************************************)
EXTENDS ListClient, TLC

CONSTANTS Null, Bits

VARIABLES
  kind,   \* "dlist", "slist" or "hlist"
  loop    \* that of Hlist

D == INSTANCE Dlist
S == INSTANCE Slist
Buckets == 0 .. 2^Bits - 1

H == INSTANCE Hlist WITH Heads <- Buckets

ASSUME NullAssumption == Null \notin Nodes
ASSUME BucketsAssumption == Buckets \cap Nodes = {} /\ Wild \notin Buckets

Init ==
  \/ kind = "dlist" /\ D!Init /\ loop = Null
  \/ kind = "slist" /\ S!Init /\ loop = Null
  \/ kind = "hlist" /\ H!Init

Next ==
  /\ \/ kind = "dlist" /\ D!Next /\ UNCHANGED loop
     \/ kind = "slist" /\ S!Next /\ UNCHANGED loop
     \/ kind = "hlist" /\ H!Next
  /\ UNCHANGED kind

Spec == Init /\ [][Next]_<<vars, kind, loop>>

NodeAndHeadSymmetry == Permutations(Nodes) \cup Permutations(Heads)

-----------------------------------------------------------------------------

(* Each doubly linked list is a ring, in both directions, of exactly the   *)
(* nodes that the calls made so far put there, in that order, however      *)
(* portions of it went from one place to another.                          *)
RingsSound == kind = "dlist" => D!RingsSound

(* Each singly linked list chains exactly the nodes that the calls made so *)
(* far put there, in that order, and its tail is the last one, or its own  *)
(* head, whichever call took or brought the last node.                     *)
ChainsSound == kind = "slist" => S!ChainsSound

(* Each bucket of a hash table chains exactly the nodes that the calls     *)
(* made so far put there, in that order, each pointing back to what leads  *)
(* to it, and a loop over the buckets gets each of them once, although the *)
(* client may take out the one that it is given.                           *)
HashChainsSound == kind = "hlist" => H!HashChainsSound

=============================================================================
