------------------------------ MODULE ListSort ------------------------------
(***************************************************************************)
(* What the sorts of src/src/dlist.c and of src/src/slist.c share: the     *)
(* client calls one of them once, on a list of any keys, or on several     *)
(* lists for the k-way merge sort, and the merge sort works on lists that  *)
(* live on its stack.                                                      *)
(*                                                                         *)
(* The locals of each function are a record; the one of a function that is *)
(* not running is None.                                                    *)
(***************************************************************************)
EXTENDS Integers, Sequences, FiniteSets

CONSTANTS
  Calls,       (* The calls that the client may make: the sort, the keys   *)
               (* of the nodes, and the last node of each list.            *)
  MaxHeads,    (* Most lists given to the k-way merge sort.                *)
  Threshold,   (* CONFIG_STROLL_[DS]LIST_MERGE_SORT_INSERT_THRESHOLD.      *)
  IntBits,     (* Bits of an unsigned int.                                 *)
  None         (* The locals of a function that is not running.            *)

ASSUME ThresholdAssumption == IntBits \in Nat /\ Threshold \in 2 .. 2^IntBits - 1
ASSUME CallsAssumption ==
  \A call \in Calls :
    /\ DOMAIN call.keys = 1 .. Len(call.keys) /\ Len(call.keys) \in 1 .. 2^IntBits
    /\ DOMAIN call.lasts = 1 .. Len(call.lasts) /\ Len(call.lasts) \in 1 .. MaxHeads
    /\ \A h \in 2 .. Len(call.lasts) : call.lasts[h - 1] < call.lasts[h]
    /\ call.lasts[1] > 0 /\ call.lasts[Len(call.lasts)] = Len(call.keys)

VARIABLES
  call,    \* the call that the client makes
  mem,     \* the fields of every node and list
  pc,      \* the loop in progress
  loop,    \* locals of the bubble, selection and insertion sorts
  sort,    \* locals of the merge sort
  merge,   \* locals of the merge of two sorted lists
  kway     \* locals of the k-way merge sort

vars == <<call, mem, pc, loop, sort, merge, kway>>

Bits == INSTANCE Pow2 WITH W <- IntBits

(* STROLL_[DS]LIST_MSORT_SUBS_MAX. *)
SubsMax == IntBits - Bits!Pow2Up(Threshold) + 2

(* Nodes are numbered in the order they come in the lists to sort; lists   *)
(* of the client, then those that live on the stack, are 0, -1, -2...      *)
List(h) == -h
Sub(i) == -(MaxHeads + i)
Subs == {Sub(i) : i \in 0 .. SubsMax - 1}
Lists == {List(h) : h \in 0 .. MaxHeads - 1} \cup Subs

key == call.keys
Nodes == 1 .. Len(key)
NrHeads == Len(call.lasts)

(* The lists given, the nodes that end them, and the first of each. *)
Given == {List(h) : h \in 0 .. NrHeads - 1}
LastOf(list) == call.lasts[1 - list]
FirstOf(list) == IF list = List(0) THEN 1 ELSE call.lasts[-list] + 1

(* The client calls a sort, on a single list but for the k-way merge. *)
Called(which) == pc = "call" /\ call.sort = which

(* Sorted, equal keys in the order in which the nodes came. *)
StablySorted(s) ==
  \A i, j \in 1 .. Len(s) :
    i < j => key[s[i]] < key[s[j]] \/ (key[s[i]] = key[s[j]] /\ s[i] < s[j])

=============================================================================
