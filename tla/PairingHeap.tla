----------------------------- MODULE PairingHeap ----------------------------
(***************************************************************************)
(* What the pairing heaps of src/src/pprheap.c, src/src/dprheap.c and      *)
(* src/src/hprheap.c share: their state, and what their calls do to it but *)
(* for the links of nodes.  Nodes belong to the client, who changes their  *)
(* keys and tells the heap, and may merge a heap into another.             *)
(*                                                                         *)
(* A call is one step, except that the two passes that merge the children  *)
(* of a node take one step per iteration.                                  *)
(***************************************************************************)
EXTENDS Integers, FiniteSets

CONSTANTS
  Nodes,         (* The nodes of the client.                               *)
  Heaps,         (* Its heaps.                                             *)
  Keys,          (* Keys that compare() looks at.                          *)
  Nr,            (* Most nodes a heap may hold (nr).                       *)
  None           (* The null pointer.                                      *)

ASSUME NodesAssumption == IsFiniteSet(Nodes)
ASSUME KeysAssumption == Keys \subseteq Int
ASSUME NrAssumption == Nr \in Nat \ {0}
ASSUME NoneAssumption == None \notin Nodes

VARIABLES
  live,      \* the heaps that are set up
  root,      \* root of each heap (root)
  cnt,       \* count of nodes of each heap (cnt)
  links,     \* the pointers of the nodes
  key,       \* the key of each node
  content,   \* the nodes the client has put in each heap
  out,       \* what the last call returned, if it extracted from the heap
  pc,        \* "idle", or the pass of the merge in progress
  call,      \* the call in progress
  heap,      \* the heap it works on
  node,      \* the node it works on
  cursor,    \* the next node to look at
  twin,      \* the node waiting for another one in the first pass
  acc        \* what the merge has built so far

Locals == <<pc, call, heap, node, cursor, twin, acc>>
vars == <<live, root, cnt, links, key, content, out, Locals>>

(* The comparison of stroll_pprheap_join() and of its likes. *)
LastWins(k, a, b) == IF k[a] >= k[b] THEN a ELSE b

Winner(k, a, b) == IF k[a] <= k[b] THEN a ELSE b

-----------------------------------------------------------------------------

(* No heap is set up. *)
Down ==
  /\ live = {}
  /\ root = [h \in Heaps |-> None]
  /\ cnt = [h \in Heaps |-> 0]
  /\ key \in [Nodes -> Keys]
  /\ content = [h \in Heaps |-> {}]
  /\ out = [h \in Heaps |-> None]
  /\ pc = "idle" /\ call = "none"
  /\ heap = None /\ node = None
  /\ cursor = None /\ twin = None /\ acc = None

Return ==
  /\ pc' = "idle" /\ call' = "none"
  /\ heap' = None /\ node' = None
  /\ cursor' = None /\ twin' = None /\ acc' = None

(* A call that extracts nothing. *)
NoneOut == [h \in Heaps |-> None]

(* Setting up.  The nodes of the heap, if any, are forgotten. *)
SetupTo(h, memory) ==
  /\ pc = "idle"
  /\ live' = live \cup {h}
  /\ root' = [root EXCEPT ![h] = None]
  /\ cnt' = [cnt EXCEPT ![h] = 0]
  /\ links' = memory
  /\ content' = [content EXCEPT ![h] = {}]
  /\ out' = NoneOut
  /\ UNCHANGED <<key, Locals>>

(* The client changes the key of a node that is in no heap. *)
SetKey(n, k) ==
  /\ pc = "idle"
  /\ \A h \in Heaps : n \notin content[h]
  /\ key' = [key EXCEPT ![n] = k]
  /\ out' = NoneOut
  /\ UNCHANGED <<live, root, cnt, links, content, Locals>>

(* Inserting, the node being the root of an empty heap, or joined. *)
InsertTo(h, n, alone, joined) ==
  /\ pc = "idle"
  /\ h \in live
  /\ cnt[h] < Nr
  /\ \A g \in Heaps : n \notin content[g]
  /\ IF root[h] = None
     THEN links' = alone /\ root' = [root EXCEPT ![h] = n]
     ELSE links' = joined /\ root' = [root EXCEPT ![h] = Winner(key, @, n)]
  /\ cnt' = [cnt EXCEPT ![h] = @ + 1]
  /\ content' = [content EXCEPT ![h] = @ \cup {n}]
  /\ out' = NoneOut
  /\ UNCHANGED <<live, key, Locals>>

(* The count of the heap that another one was merged into. *)
CountAfterMerge(r, s) == cnt[r] + cnt[s]

(* Merging.  The source can only be set up again: the root and the count   *)
(* that the code leaves in it are never read, and are forgotten here.      *)
MergeTo(r, s, joined) ==
  /\ pc = "idle"
  /\ r # s /\ {r, s} \subseteq live
  /\ cnt[r] + cnt[s] <= Nr
  /\ IF root[r] # None /\ root[s] # None
     THEN /\ links' = joined
          /\ root' = [root EXCEPT ![r] = Winner(key, @, root[s]), ![s] = None]
     ELSE /\ root' = [root EXCEPT ![r] = IF root[s] = None THEN @ ELSE root[s],
                                ![s] = None]
          /\ UNCHANGED links
  /\ cnt' = [cnt EXCEPT ![r] = CountAfterMerge(r, s), ![s] = 0]
  /\ content' = [content EXCEPT ![r] = @ \cup content[s], ![s] = {}]
  /\ live' = live \ {s}
  /\ out' = NoneOut
  /\ UNCHANGED <<key, Locals>>

(* The merge of the children of a node is entered, the first one given. *)
Enter(what, h, n, memory, first, built) ==
  /\ links' = memory
  /\ pc' = "pair"
  /\ call' = what
  /\ heap' = h /\ node' = n
  /\ cursor' = first /\ twin' = None /\ acc' = built
  /\ UNCHANGED <<live, root, cnt>>

(* What calls do on the part of the client. *)
Extracting(h) ==
  /\ pc = "idle"
  /\ h \in live
  /\ root[h] # None
  /\ out' = [NoneOut EXCEPT ![h] = root[h]]
  /\ content' = [content EXCEPT ![h] = @ \ {root[h]}]
  /\ UNCHANGED key

Removing(h, n) ==
  /\ pc = "idle"
  /\ h \in live
  /\ n \in content[h]
  /\ content' = [content EXCEPT ![h] = @ \ {n}]
  /\ out' = NoneOut
  /\ UNCHANGED key

Rekeying(h, n, k) ==
  /\ pc = "idle"
  /\ h \in live
  /\ n \in content[h]
  /\ key' = [key EXCEPT ![n] = k]
  /\ out' = NoneOut
  /\ UNCHANGED content

(* The ways that merges end: what the root was gives way to what has been  *)
(* built; or what has been built is now below the root; or the node that   *)
(* was updated is joined with a tree.                                      *)
DropTo(memory, top) ==
  /\ call = "drop"
  /\ root' = [root EXCEPT ![heap] = top]
  /\ links' = memory
  /\ cnt' = [cnt EXCEPT ![heap] = @ - 1]
  /\ Return
  /\ UNCHANGED <<live, key, content, out>>

RemoveTo(memory) ==
  /\ call = "remove"
  /\ UNCHANGED <<live, root, key, content, out>>
  /\ links' = memory
  /\ cnt' = [cnt EXCEPT ![heap] = @ - 1]
  /\ Return

JoinTo(what, memory, other) ==
  /\ call = what
  /\ root' = [root EXCEPT ![heap] = Winner(key, other, node)]
  /\ links' = memory
  /\ Return
  /\ UNCHANGED <<live, cnt, key, content, out>>

(* The root that was demoted was alone. *)
DemoteAlone(memory) ==
  /\ call = "demote"
  /\ UNCHANGED <<live, root, cnt, key, content, out>>
  /\ links' = memory
  /\ Return

-----------------------------------------------------------------------------

(* Every variable keeps the type of the local or field it models. *)
TypeOK ==
  /\ live \subseteq Heaps
  /\ root \in [Heaps -> Nodes \cup {None}]
  /\ cnt \in [Heaps -> 0 .. Nr]
  /\ key \in [Nodes -> Keys]
  /\ content \in [Heaps -> SUBSET Nodes]
  /\ out \in [Heaps -> Nodes \cup {None}]
  /\ pc \in {"idle", "pair", "fold"}
  /\ call \in {"none", "drop", "remove", "update", "demote"}
  /\ heap \in Heaps \cup {None}
  /\ {node, twin} \subseteq Nodes \cup {None}

(* The counts of nodes, which merge() adds up, agree with the trees: a     *)
(* heap is empty exactly when its count is null, as its assertions say.    *)
CountsAgree ==
  pc = "idle" =>
    \A h \in live :
      /\ cnt[h] = Cardinality(content[h])
      /\ cnt[h] = 0 <=> root[h] = None

(* Those sets of nodes, that a merge in progress holds here and there, and *)
(* the node that it will join, are all the nodes of the heap, once each.   *)
Accounted(left, wait, built, rest) ==
  LET own == IF call \in {"update", "demote"} THEN {node} ELSE {}
      below == IF call \in {"remove", "update"} THEN rest ELSE {}
  IN  /\ left \cup wait \cup built \cup below \cup own = content[heap]
      /\ Cardinality(left) + Cardinality(wait) + Cardinality(built)
           + Cardinality(below) + Cardinality(own) = Cardinality(content[heap])

=============================================================================
