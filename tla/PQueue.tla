------------------------------- MODULE PQueue -------------------------------
(***************************************************************************)
(* What every heap of the library promises: a bounded priority queue.      *)
(* Extracting returns an element that no other element of the queue        *)
(* precedes, whichever way the queue was filled, and takes that element    *)
(* only.  Between extractions the queue is filled, emptied, or has         *)
(* elements moved as the client's calls say.                               *)
(***************************************************************************)
EXTENDS Integers, FiniteSets

CONSTANTS
  Elems,      (* Elements that may be queued.                              *)
  Capacity,   (* The most elements the queue may hold.                     *)
  None        (* Not an element.                                           *)

VARIABLES
  content,    \* the elements in the queue
  key,        \* what the client's compare() looks at in each element
  out         \* what the last operation returned, if it was an extraction

vars == <<content, key, out>>

(* The elements of S that none of S precedes. *)
Least(S) == {e \in S : \A f \in S : key[e] <= key[f]}

Init ==
  /\ content = {}
  /\ out = None

Insert ==
  /\ Cardinality(content) < Capacity
  /\ \E e \in Elems \ content : content' = content \cup {e}
  /\ out' = None
  /\ UNCHANGED key

Extract ==
  /\ \E e \in Least(content) :
       /\ out' = e
       /\ content' = content \ {e}
  /\ UNCHANGED key

(* The queue is filled, or elements are taken out of it, at once. *)
Load ==
  /\ content' \in SUBSET Elems
  /\ Cardinality(content') <= Capacity
  /\ out' = None
  /\ UNCHANGED key

(* The client gives an element another key. *)
Rekey ==
  /\ \E e \in Elems : key' = [key EXCEPT ![e] = key'[e]]
  /\ out' = None
  /\ UNCHANGED content

Next == Insert \/ Extract \/ Load \/ Rekey

Spec == Init /\ [][Next]_vars

=============================================================================
