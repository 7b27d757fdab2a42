----------------------------- MODULE ChunkPool -----------------------------
(***************************************************************************)
(* What every fixed sized object allocator of the library promises to its  *)
(* client (falloc, palloc and lalloc, and the stroll_alloc interface that  *)
(* dispatches to them), seen from the chunks the client holds: they come   *)
(* one at a time and no more than Limit of them are out, each leaves when  *)
(* it is freed, and only finalising the allocator takes back the others.   *)
(***************************************************************************)
EXTENDS Integers, FiniteSets

CONSTANTS
  Chunks,   (* Every chunk the allocator may ever hand out.               *)
  Limit     (* The most chunks the client may hold at the same time.      *)

VARIABLE held   \* the chunks the client holds

Init == held = {}

(* An allocation that returns a chunk. *)
Take ==
  /\ Cardinality(held) < Limit
  /\ \E c \in Chunks \ held : held' = held \cup {c}

(* The release of one chunk. *)
Give == \E c \in held : held' = held \ {c}

(* The end of the allocator's life. *)
Release == held' = {}

Next == Take \/ Give \/ Release

Spec == Init /\ [][Next]_held

=============================================================================
