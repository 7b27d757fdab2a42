------------------------------- MODULE MCHeaps ------------------------------
(***************************************************************************)
(* Small instances of the heaps made of linked nodes: the three pairing    *)
(* heaps, the rank-pairing heap and the binomial heap.  Nodes and heaps    *)
(* are interchangeable: the calls, and the properties, treat them all      *)
(* alike.  A behaviour is about heaps of one kind; the variables of the    *)
(* others stay put.                                                        *)
(*                                                                         *)
(* Merging binomial heaps meets all its cases with no less than 8 nodes:   *)
(* the heaps of kind "wide" hold as many, that one client puts there in    *)
(* turn, with alternating keys, before it takes them out.  Bringing a      *)
(* rank-pairing heap where RanksOnlyFall fails takes nine: Script is the   *)
(* client that does.                                                       *)
(***************************************************************************)
EXTENDS PairingHeaps, Sequences, TLC

CONSTANTS Buckets, m1, m2, m3, m4, m5, m6, m7, m8

Turns == <<m1, m2, m3, m4, m5, m6, m7, m8>>

Many == {Turns[i] : i \in 1 .. Len(Turns)}

VARIABLES
  mem,               \* rank-pairing and binomial heaps
  slots, roots,      \* rank-pairing heap
  last, left,        \* binomial heap
  at                 \* calls of Script made so far

Drp == INSTANCE DrpHeap
Dbn == INSTANCE DbnHeap
Wide == INSTANCE DbnHeap WITH Nodes <- Many, Nr <- Len(Turns), Keys <- {0, 1}

ASSUME DrpAssumption == Drp!BucketsAssumption /\ Drp!PlugAssumption

NodeAndHeapSymmetry == Permutations(Nodes) \cup Permutations(Heaps)

drpVars == <<slots, roots>>
dbnVars == <<last, left>>
allVars == <<kind, vars, mem, drpVars, dbnVars, at>>

NoPairing == root = None /\ cursor = None /\ twin = None /\ acc = None
NoRanked == mem = None /\ slots = <<>> /\ roots = None /\ last = None /\ left = None

MCInit ==
  /\ kind \in Kinds /\ at = 0
  /\ CASE kind = "pprheap" -> Ppr!Init /\ NoRanked
       [] kind = "dprheap" -> Dpr!Init /\ NoRanked
       [] kind = "hprheap" -> Hpr!Init /\ NoRanked
       [] kind = "drpheap" -> /\ Drp!Init /\ NoPairing
                              /\ call = None /\ last = None /\ left = None
       [] kind = "dbnheap" -> /\ Dbn!Init /\ NoPairing
                              /\ links = None /\ slots = <<>> /\ roots = None
       [] kind = "wide" -> /\ Wide!Init /\ NoPairing
                           /\ links = None /\ slots = <<>> /\ roots = None
                           /\ \A i \in 1 .. Len(Turns) : key[Turns[i]] = i % 2

WideCall ==
  LET held == Cardinality(UNION {content[g] : g \in Heaps}) IN
  \E h \in Heaps :
    \/ held = 0 /\ h \notin live /\ Wide!Setup(h)
    \/ held < Len(Turns) /\ Wide!Insert(h, Turns[held + 1])
    \/ live # Heaps /\ Wide!Extract(h)
    \/ held = Len(Turns) /\ \E n \in Many : Wide!Remove(h, n)
    \/ \E g \in Heaps : Wide!Merge(h, g)

MCNext ==
  /\ \/ kind = "pprheap" /\ Ppr!Next /\ UNCHANGED <<mem, drpVars, dbnVars>>
     \/ kind = "dprheap" /\ Dpr!Next /\ UNCHANGED <<mem, drpVars, dbnVars>>
     \/ kind = "hprheap" /\ Hpr!Next /\ UNCHANGED <<mem, drpVars, dbnVars>>
     \/ kind = "drpheap" /\ Drp!Next /\ UNCHANGED <<root, call, cursor, twin, acc, dbnVars>>
     \/ kind = "dbnheap" /\ Dbn!Next /\ UNCHANGED <<root, links, cursor, twin, acc, drpVars>>
     \/ /\ kind = "wide" /\ (WideCall \/ Wide!Run)
        /\ UNCHANGED <<root, links, cursor, twin, acc, drpVars>>
  /\ UNCHANGED <<kind, at>>

MCSpec == MCInit /\ [][MCNext]_allVars

FirstKeys == <<3, 3, 4, 1, 2, 4, 1, 2, 2>>

Does(do, n, k) == [do |-> do, node |-> n, key |-> k]

Script ==
  <<Does("setup", None, None)>>
  \o [i \in 1 .. 8 |-> Does("insert", i, FirstKeys[i])]
  \o <<Does("demote", 4, 4), Does("promote", 6, 2), Does("insert", 9, 2),
       Does("demote", 8, 3), Does("promote", 5, 1), Does("promote", 6, 1),
       Does("remove", 7, None)>>

Scripted(h, todo) ==
  \/ todo.do = "setup" /\ Drp!Setup(h)
  \/ todo.do = "insert" /\ Drp!Insert(h, todo.node)
  \/ todo.do = "remove" /\ Drp!Remove(h, todo.node)
  \/ todo.do = "promote" /\ todo.key < key[todo.node] /\ Drp!Promote(h, todo.node, todo.key)
  \/ todo.do = "demote" /\ todo.key > key[todo.node] /\ Drp!Demote(h, todo.node, todo.key)

ScriptInit == MCInit /\ key = FirstKeys

ScriptNext ==
  /\ \/ /\ at < Len(Script)
        /\ \E h \in Heaps : Scripted(h, Script[at + 1])
        /\ at' = at + 1
     \/ Drp!Run /\ UNCHANGED at
  /\ UNCHANGED <<kind, root, call, cursor, twin, acc, dbnVars>>

ScriptSpec == ScriptInit /\ [][ScriptNext]_allVars

Pairing == {"pprheap", "dprheap", "hprheap"}

-----------------------------------------------------------------------------

(* Between calls the links of a pairing heap make a tree of exactly the    *)
(* nodes that the client put in it: none is lost, none is reached twice,   *)
(* and those that can be removed point back to what leads to them,         *)
(* although merging overwrites the links that it follows, or leaves some   *)
(* to a list that was on the stack; their count is right, merges of heaps  *)
(* included.                                                               *)
TreesSound ==
  /\ kind \in Pairing => TypeOK /\ CountsAgree
  /\ CASE kind = "pprheap" -> Ppr!TreesSound
       [] kind = "dprheap" -> Dpr!TreesSound
       [] kind = "hprheap" -> Hpr!TreesSound
       [] OTHER -> TRUE

(* Between calls the others hold exactly the nodes the client put there,   *)
(* in half trees or in binomial trees where none precedes its parent and   *)
(* each points back to what leads to it, although nodes leave from         *)
(* anywhere and heaps are merged; the first root of a drpheap is the       *)
(* least.                                                                  *)
RanksSound ==
  CASE kind = "drpheap" -> Drp!HeapSound
    [] kind = "dbnheap" -> Dbn!HeapSound
    [] kind = "wide" -> Wide!HeapSound
    [] OTHER -> TRUE

(* Between calls no node of a pairing heap precedes its parent, although   *)
(* the promote() of pprheap compares a node with its left sibling, and     *)
(* remove() attaches children to the root without comparing.               *)
HeapOrder ==
  CASE kind = "pprheap" -> Ppr!HeapOrder
    [] kind = "dprheap" -> Dpr!HeapOrder
    [] kind = "hprheap" -> Hpr!HeapOrder
    [] OTHER -> TRUE

(* The merge in progress in a pairing heap holds every node of the heap    *)
(* once: in what it has not looked at, in the node that waits, in what it  *)
(* has built, or in the rest of the heap.                                  *)
NothingLost ==
  CASE kind = "pprheap" -> Ppr!NothingLost
    [] kind = "dprheap" -> Dpr!NothingLost
    [] kind = "hprheap" -> Hpr!NothingLost
    [] OTHER -> TRUE

(* While the others merge trees each one is in a slot, in hand, or in a    *)
(* list of trees left to look at, and is met once; those that are joined   *)
(* are of the same rank or order, and none of those left is smaller, as    *)
(* the assertions of dbnheap say.                                          *)
NoTreeLost ==
  CASE kind = "drpheap" -> Drp!NothingLost
    [] kind = "dbnheap" -> Dbn!NothingLost
    [] kind = "wide" -> Wide!NothingLost
    [] OTHER -> TRUE

Left ==
  CASE kind = "pprheap" -> Ppr!Left
    [] kind = "dprheap" -> Dpr!Left
    [] kind = "hprheap" -> Hpr!Left

(* Each iteration of either pass of a pairing heap leaves fewer nodes to   *)
(* look at: what it joins is never reached again from what remains, so     *)
(* that every call ends.                                                   *)
PassesAdvance ==
  [][pc # "idle" /\ pc' = pc /\ kind \in Pairing
       => Cardinality(Left') < Cardinality(Left)]_vars

WideQueue(h) == INSTANCE PQueue WITH
  Elems <- Many, Capacity <- Len(Turns), content <- content[h], out <- out[h]

(* Every heap of every kind implements a bounded priority queue, whatever  *)
(* the other one is merged with: extracting returns a node that none       *)
(* precedes, wherever the changes of keys have left it.                    *)
HeapsSpec ==
  /\ \A h \in Heaps : IF kind = "wide" THEN WideQueue(h)!Init ELSE Queue(h)!Init
  /\ [][\A h \in Heaps : IF kind = "wide" THEN [WideQueue(h)!Next]_(WideQueue(h)!vars)
                                          ELSE [Queue(h)!Next]_(Queue(h)!vars)]_vars

(* "stroll_pprheap_assert_intern((node == node->parent->children[0]) ^     *)
(* (node == node->parent->children[1]))": whichever node of a heap is to   *)
(* be detached, its parent points to it once.                              *)
NodesMayDetach == kind = "pprheap" => Ppr!NodesMayDetach

(* "assert rank < pnode->rank" of stroll_drpheap_remove_node(): whichever  *)
(* inner node of a rank-pairing heap leaves its place next, no rank above  *)
(* it grows.                                                               *)
RanksOnlyFall == kind = "drpheap" => Drp!RanksOnlyFall

=============================================================================
