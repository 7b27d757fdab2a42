----------------------------- MODULE ListClient -----------------------------
(***************************************************************************)
(* The client of the lists of the library, of either kind: it owns nodes,  *)
(* each in one list at a time, and portions that it withdraws and embeds   *)
(* elsewhere.                                                              *)
(***************************************************************************)
EXTENDS Integers, Sequences, Functions

CONSTANTS
  Heads,   (* The lists, each standing for its head too.                   *)
  Nodes,   (* The nodes that the client puts in them.                      *)
  Wild     (* The pointers of a node that is in no list and that was not   *)
           (* initialised: where it was last, if anywhere.                 *)

ASSUME AddressAssumption == Heads \cap Nodes = {} /\ Wild \notin Heads \cup Nodes

VARIABLES
  mem,     \* the fields of heads and nodes
  lists,   \* what the client has put in each list, in order
  hand     \* the portion that it has withdrawn, in order

vars == <<mem, lists, hand>>

InLists == UNION {Range(lists[h]) : h \in Heads}
Free(n) == n \notin InLists \cup Range(hand)

(* The places of a list, its head being both before and after its nodes. *)
Places(h) == 0 .. Len(lists[h])
At(h, i) == IF i \in 1 .. Len(lists[h]) THEN lists[h][i] ELSE h

(* Sequences without the nodes i to j, and with more after the node i. *)
Without(s, i, j) == SubSeq(s, 1, i - 1) \o SubSeq(s, j + 1, Len(s))
With(s, i, portion) == SubSeq(s, 1, i) \o portion \o SubSeq(s, i + 1, Len(s))

=============================================================================
