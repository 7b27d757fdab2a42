---------------------------- MODULE PairingHeaps ----------------------------
(***************************************************************************)
(* The three pairing heaps side by side.  A behaviour is about heaps of    *)
(* one kind.                                                               *)
(***************************************************************************)
EXTENDS PairingHeap

CONSTANTS
  Kinds,                      (* Those to check.          *)
  Plug, AssertIntern, Stack   (* See PprHeap and DprHeap. *)

VARIABLE kind

Ppr == INSTANCE PprHeap
Dpr == INSTANCE DprHeap
Hpr == INSTANCE HprHeap

ASSUME PprAssumption == Ppr!PlugAssumption /\ Ppr!AssertAssumption
ASSUME DprAssumption == "dprheap" \in Kinds => Dpr!CellsAssumption

(* What a heap promises, whatever its kind. *)
Queue(h) == INSTANCE PQueue WITH
  Elems <- Nodes, Capacity <- Nr, content <- content[h], out <- out[h]

=============================================================================
