------------------------------- MODULE Lalloc -------------------------------
(***************************************************************************)
(* The pre-allocated large object allocator of src/src/lalloc.c.           *)
(*                                                                         *)
(* Each chunk is a malloc() of its own, and any of them may fail while the *)
(* allocator is being initialised.                                         *)
(*                                                                         *)
(* Steps are the iterations of the loops of stroll_lalloc_init() and       *)
(* stroll_lalloc_fini(), since both may stop half way through the chunks.  *)
(***************************************************************************)
EXTENDS Integers, FiniteSets, SequencesExt

CONSTANTS
  ChunkNr,   (* Number of chunks (chunk_nr).                                *)
  Null,      (* The null pointer.                                           *)
  Chunks     (* Places where malloc() may put a chunk.                      *)

ChunkNrAssumption == ChunkNr \in Nat \ {0}

NullAssumption == Null \notin Chunks

VARIABLES
  phase,      \* "down", "init", "up" or "fini"
  c,          \* counter of the loop of stroll_lalloc_init()
  iface,      \* a stroll_alloc interface is allocated on the heap
  next_free,  \* first free chunk, or Null (next_free)
  word,       \* content of the first word of each chunk
  heap,       \* what was obtained from malloc() and not freed yet
  held,       \* chunks the client holds
  err,        \* -ENOMEM is to be returned by the initialisation
  kept        \* chunks the client still held when it finalised the allocator

vars == <<phase, iface, c, err, next_free, word, heap, held, kept>>

(* s is the chain that starts at next_free, through the first word of each *)
(* free chunk (union stroll_alloc_chunk), which the client overwrites      *)
(* while it holds the chunk.                                               *)
Linked(s) ==
  /\ next_free = IF Len(s) = 0 THEN Null ELSE s[1]
  /\ \A i \in 1 .. Len(s) : word[s[i]] = IF i = Len(s) THEN Null ELSE s[i + 1]

-----------------------------------------------------------------------------

Init ==
  /\ phase = "down"
  /\ iface = FALSE
  /\ c = 0
  /\ err = FALSE
  /\ next_free = Null
  /\ word = [k \in Chunks |-> Null]
  /\ heap = {}
  /\ held = {}
  /\ kept = {}

(* stroll_lalloc_init() entered, by the client or by stroll_lalloc_create_ *)
(* alloc() once it has obtained the interface from malloc().               *)
InitEnter(create) ==
  /\ phase = "down"
  /\ phase' = "init"
  /\ iface' = create
  /\ c' = 0
  /\ err' = FALSE
  /\ next_free' = Null
  /\ UNCHANGED <<word, heap, held, kept>>

(* The condition of its loop. *)
MoreToObtain == c < ChunkNr

(* A chunk becomes the head of the chain. *)
Chained(chunk) == [word EXCEPT ![chunk] = next_free]

(* What the head of the chain leaves when it is taken. *)
SameHead == next_free

NextHead == word[next_free]

(* One iteration of its loop: a chunk is obtained and chained. *)
InitChunk ==
  /\ phase = "init"
  /\ MoreToObtain
  /\ \E chnk \in Chunks \ heap :
       /\ heap' = heap \cup {chnk}
       /\ word' = Chained(chnk)
       /\ next_free' = chnk
  /\ c' = c + 1
  /\ UNCHANGED <<phase, iface, err, held, kept>>

(* malloc() fails: the chunks obtained so far are released. *)
InitFailsAtOnce ==
  /\ phase = "init"
  /\ MoreToObtain
  /\ phase' = "down"
  /\ err' = TRUE
  /\ iface' = FALSE
  /\ UNCHANGED <<c, next_free, word, heap, held, kept>>

InitFails ==
  /\ phase = "init"
  /\ MoreToObtain
  /\ phase' = "fini"
  /\ err' = TRUE
  /\ UNCHANGED <<iface, c, next_free, word, heap, held, kept>>

(* The loop is over: stroll_lalloc_init() returns 0. *)
InitReturns ==
  /\ phase = "init"
  /\ ~MoreToObtain
  /\ phase' = "up"
  /\ UNCHANGED <<iface, c, err, next_free, word, heap, held, kept>>

(* stroll_lalloc_alloc().  It fails with ENOBUFS, changing nothing, once    *)
(* the chain is empty.                                                     *)
Alloc ==
  /\ phase = "up"
  /\ next_free # Null
  /\ held' = held \cup {next_free}
  /\ next_free' = NextHead
  /\ UNCHANGED <<phase, iface, c, err, word, heap, kept>>

(* stroll_lalloc_free(). *)
Free(chunk) ==
  /\ phase = "up"
  /\ word' = Chained(chunk)
  /\ next_free' = chunk
  /\ held' = held \ {chunk}
  /\ UNCHANGED <<phase, iface, c, err, heap, kept>>

(* The client stores something into a chunk it holds. *)
ClientWrite(chunk, value) ==
  /\ phase = "up"
  /\ word' = [word EXCEPT ![chunk] = value]
  /\ UNCHANGED <<phase, iface, c, err, next_free, heap, held, kept>>

(* stroll_lalloc_fini() entered by the client, directly or through         *)
(* stroll_alloc_destroy(), possibly with chunks still held.                *)
FiniEnter ==
  /\ phase = "up"
  /\ phase' = "fini"
  /\ kept' = kept \cup held
  /\ held' = {}
  /\ UNCHANGED <<iface, c, err, next_free, word, heap>>

(* One iteration of its loop: the head of the chain is unlinked, freed. *)
FiniChunk ==
  /\ phase = "fini"
  /\ next_free # Null
  /\ next_free' = NextHead
  /\ heap' = heap \ {next_free}
  /\ word' = [word EXCEPT ![next_free] = Null]
  /\ UNCHANGED <<phase, iface, c, err, held, kept>>

(* The chain is empty; stroll_alloc_destroy(), or stroll_lalloc_create_    *)
(* alloc() when the initialisation failed, also frees the interface.       *)
FiniReturns ==
  /\ phase = "fini"
  /\ next_free = Null
  /\ phase' = "down"
  /\ iface' = FALSE
  /\ UNCHANGED <<c, err, next_free, word, heap, held, kept>>

(* What the client does. *)
Call ==
  \/ \E create \in BOOLEAN : InitEnter(create)
  \/ Alloc
  \/ \E chunk \in held :
       \/ Free(chunk)
       \/ \E value \in Chunks \cup {Null} : ClientWrite(chunk, value)
  \/ FiniEnter

(* What the call it made does. *)
Run == InitChunk \/ InitFails \/ InitReturns \/ FiniChunk \/ FiniReturns

Next == Call \/ Run

Spec == Init /\ [][Next]_vars

-----------------------------------------------------------------------------

(* Every variable keeps the type of the structure it models. *)
TypeOK ==
  /\ phase \in {"down", "init", "up", "fini"}
  /\ iface \in BOOLEAN /\ err \in BOOLEAN
  /\ c \in 0 .. ChunkNr
  /\ next_free \in Chunks \cup {Null}
  /\ word \in [Chunks -> Chunks \cup {Null}]
  /\ heap \subseteq Chunks /\ held \subseteq Chunks /\ kept \subseteq Chunks

(* Half way through initialisation and finalisation too, the chain goes    *)
(* once through every chunk the allocator has and the client does not hold *)
(* and ends: fini() frees each of them exactly once, none is handed out    *)
(* twice, none is lost.                                                    *)
FreeChainSound ==
  /\ TypeOK
  /\ \E s \in SetToSeqs(heap \ (held \cup kept)) : Linked(s)

(* Once the allocator is down nothing of it remains on the heap but the    *)
(* chunks the client has not given back, whether initialisation failed on  *)
(* the first, on the last or on no malloc() at all; an allocator that is   *)
(* up serves exactly ChunkNr chunks.                                       *)
NothingLost ==
  /\ phase = "down" => heap = kept /\ ~iface
  /\ phase = "up" => Cardinality(heap \ kept) = ChunkNr

=============================================================================
