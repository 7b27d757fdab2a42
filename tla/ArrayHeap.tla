----------------------------- MODULE ArrayHeap ------------------------------
(***************************************************************************)
(* What the heaps of src/src/fbheap.c and src/src/fwheap.c share: an array *)
(* of a fixed number of elements, a count of those in use, and a call that *)
(* runs, one iteration of a loop at a time.                                *)
(*                                                                         *)
(* Elements are moved, never looked into: the client's compare() orders    *)
(* them by their key.  The code is written three times, for elements of 32 *)
(* bits, of 64 bits and of any other size: the algorithm is the same.      *)
(***************************************************************************)
EXTENDS Integers, FiniteSets, Functions

CONSTANTS
  Nr,       (* Number of elements of the array (nr).                       *)
  Elems,    (* Elements the client may insert.                             *)
  Key,      (* What compare() looks at in each of them.                    *)
  None      (* Not an element: content of the positions that hold none.    *)

ASSUME NrAssumption == Nr \in Nat \ {0}
ASSUME KeyAssumption == Key \in [Elems -> Int]
ASSUME NoneAssumption == None \notin Elems

VARIABLES
  cnt,      \* count of elements (cnt)
  array,    \* the array (elems)
  pc,       \* where the call in progress is, "idle" between calls
  call,     \* the call in progress
  elem,     \* element being placed
  index,    \* index, idx, leaf or nr: the position the loop in progress looks at
  nr,       \* elements the call in progress considers
  out       \* element the last call returned, if an extraction

Empty == [i \in 0 .. Nr - 1 |-> None]

(* The elements of the heap between calls. *)
Content == {array[i] : i \in 0 .. cnt - 1}

(* Positions in use: build() sets the count last. *)
Used == IF call = "build" THEN nr ELSE cnt

(* Distinct elements that the client stores from the start of the array,   *)
(* for build() to make a heap of.                                          *)
Fillings == UNION {Injection(0 .. count - 1, Elems) : count \in 1 .. Nr}

=============================================================================
