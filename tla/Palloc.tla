------------------------------- MODULE Palloc -------------------------------
(***************************************************************************)
(* The pre-allocated object allocator of src/src/palloc.c.                 *)
(*                                                                         *)
(* All chunks sit in one memory area, obtained from malloc() or supplied   *)
(* by the client.  Addresses are natural numbers.  The client frees        *)
(* chunks it holds, once, and forgets all of them when it finalises the    *)
(* allocator.                                                              *)
(***************************************************************************)
EXTENDS Integers, FiniteSets, SequencesExt

CONSTANTS
  ChunkNr,      (* Number of chunks (chunk_nr).                             *)
  Null,         (* The null pointer.                                        *)
  ChunkSizes,   (* Values the client may give to chunk_size.                *)
  Word,         (* Size of a pointer, and the alignment malloc() grants. *)
  HeapAddrs,    (* Addresses at which malloc() may place an area.           *)
  MemAddrs,     (* Addresses of the areas the client supplies.              *)
  ApiAssert     (* The library is built with CONFIG_STROLL_ASSERT_API.      *)

ChunkNrAssumption == ChunkNr \in Nat \ {0}

SizesAssumption == ChunkSizes \subseteq Nat \ {0} /\ Word \in Nat \ {0}

AddrsAssumption ==
  \A a \in HeapAddrs \cup MemAddrs : a \in Nat \ {0, Null} /\ a % Word = 0

ApiAssertAssumption == ApiAssert \in BOOLEAN

VARIABLES
  up,         \* the allocator is initialised
  own,        \* the area was obtained from malloc() (own)
  chunks,     \* address of the area (chunks)
  size,       \* distance between two chunks
  iface,      \* a stroll_alloc interface is allocated on the heap
  next_free,  \* first free chunk, or Null (next_free)
  word,       \* content of the first word of each chunk
  heap,       \* what was obtained from malloc() and not freed yet
  held        \* chunks the client holds

vars == <<up, iface, own, chunks, size, next_free, word, heap, held>>

-----------------------------------------------------------------------------

(* s is the chain that starts at next_free, through the first word of each *)
(* free chunk (union stroll_alloc_chunk), which the client overwrites      *)
(* while it holds the chunk.                                               *)
Linked(s) ==
  /\ next_free = IF Len(s) = 0 THEN Null ELSE s[1]
  /\ \A i \in 1 .. Len(s) : word[s[i]] = IF i = Len(s) THEN Null ELSE s[i + 1]

(* stroll_align_upper() on sizeof(next_free). *)
AlignUpper(n) == ((n + Word - 1) \div Word) * Word

(* The chunks that _stroll_palloc_init_from_mem() lays out. *)
ChunksOf(mem, sz) == {mem + i * sz : i \in 0 .. ChunkNr - 1}

AllChunks ==
  UNION {ChunksOf(a, s) : a \in HeapAddrs \cup MemAddrs,
                          s \in ChunkSizes \cup {AlignUpper(s) : s \in ChunkSizes}}

NullAssumption == Null \notin AllChunks

(* The chain _stroll_palloc_init_from_mem() threads: every chunk points to *)
(* the next one but the last.                                              *)
ThreadedPastTheEnd(mem, sz) ==
  [c \in ChunksOf(mem, sz) \cup {mem + ChunkNr * sz} |->
     IF c < mem + ChunkNr * sz THEN c + sz ELSE Null]

ThreadedTooShort(mem, sz) ==
  [c \in ChunksOf(mem, sz) |-> IF c < mem + (ChunkNr - 2) * sz THEN c + sz ELSE Null]

Threaded(mem, sz) ==
  [c \in ChunksOf(mem, sz) |-> IF c < mem + (ChunkNr - 1) * sz THEN c + sz ELSE Null]

-----------------------------------------------------------------------------

Init ==
  /\ up = FALSE
  /\ iface = FALSE
  /\ own = FALSE
  /\ chunks = Null
  /\ size = 0
  /\ next_free = Null
  /\ word = << >>
  /\ heap = {}
  /\ held = {}

(* _stroll_palloc_init_from_mem() on behalf of each of its callers. *)
InitFromMem(mem, sz, owner, create) ==
  /\ up' = TRUE
  /\ iface' = create
  /\ own' = owner
  /\ chunks' = mem
  /\ size' = sz
  /\ next_free' = mem
  /\ word' = Threaded(mem, sz)

(* stroll_palloc_init(), directly or from stroll_palloc_create_alloc():    *)
(* the size is rounded up.  When malloc() fails, of the area or of the     *)
(* interface, what was obtained is freed again and nothing changes.        *)
SetupOwned(chunk_size, create) ==
  /\ ~up
  /\ \E mem \in HeapAddrs \ heap :
       /\ InitFromMem(mem, AlignUpper(chunk_size), TRUE, create)
       /\ heap' = heap \cup {mem}
  /\ UNCHANGED held

(* stroll_palloc_init_from_mem() and stroll_palloc_create_alloc_from_      *)
(* mem(): the size is taken as it is; with API assertions a size that is   *)
(* not aligned aborts the program.                                         *)
SetupFromMem(mem, chunk_size, create) ==
  /\ ~up
  /\ ApiAssert => chunk_size % Word = 0
  /\ InitFromMem(mem, chunk_size, FALSE, create)
  /\ UNCHANGED <<heap, held>>

(* stroll_palloc_alloc().  It fails with ENOBUFS, changing nothing, once    *)
(* the chain is empty.                                                     *)
Alloc ==
  /\ up
  /\ next_free # Null
  /\ held' = held \cup {next_free}
  /\ next_free' = word[next_free]
  /\ UNCHANGED <<up, iface, own, chunks, size, word, heap>>

(* stroll_palloc_free(). *)
Free(chunk) ==
  /\ up
  /\ word' = [word EXCEPT ![chunk] = next_free]
  /\ next_free' = chunk
  /\ held' = held \ {chunk}
  /\ UNCHANGED <<up, iface, own, chunks, size, heap>>

(* The client stores something into a chunk it holds. *)
ClientWrite(chunk, value) ==
  /\ up
  /\ word' = [word EXCEPT ![chunk] = value]
  /\ UNCHANGED <<up, iface, own, chunks, size, next_free, heap, held>>

(* An area the client supplied is not freed. *)
AreasLeft == IF own THEN heap \ {chunks} ELSE heap

(* stroll_palloc_fini(), and the fini operations of the two interfaces,    *)
(* after which stroll_alloc_destroy() frees the interface: an owned area   *)
(* is freed as a whole.  The structure keeps its content.                  *)
Fini ==
  /\ up
  /\ up' = FALSE
  /\ iface' = FALSE
  /\ heap' = AreasLeft
  /\ word' = << >>
  /\ held' = {}
  /\ UNCHANGED <<own, chunks, size, next_free>>

Next ==
  \/ \E chunk_size \in ChunkSizes, create \in BOOLEAN :
       \/ SetupOwned(chunk_size, create)
       \/ \E mem \in MemAddrs : SetupFromMem(mem, chunk_size, create)
  \/ Alloc
  \/ \E chunk \in held :
       \/ Free(chunk)
       \/ \E value \in ChunksOf(chunks, size) \cup {Null} : ClientWrite(chunk, value)
  \/ Fini

Spec == Init /\ [][Next]_vars

-----------------------------------------------------------------------------

(* Every variable keeps the type of the structure it models. *)
TypeOK ==
  /\ up \in BOOLEAN /\ iface \in BOOLEAN /\ own \in BOOLEAN
  /\ chunks \in HeapAddrs \cup MemAddrs \cup {Null}
  /\ size \in Nat
  /\ next_free \in AllChunks \cup {Null}
  /\ DOMAIN word = IF up THEN ChunksOf(chunks, size) ELSE {}
  /\ \A c \in DOMAIN word : word[c] \in AllChunks \cup {Null}
  /\ heap \subseteq HeapAddrs
  /\ held \subseteq AllChunks

(* Whatever the client wrote into the chunks it held, the chain goes once  *)
(* through every chunk it does not hold and ends: no chunk is lost, none   *)
(* is handed out twice, and an allocation fails only when the client holds *)
(* them all.                                                               *)
FreeChainSound ==
  /\ TypeOK
  /\ up =>
       /\ held \subseteq ChunksOf(chunks, size)
       /\ \E s \in SetToSeqs(ChunksOf(chunks, size) \ held) : Linked(s)

(* An area obtained from malloc() lives exactly as long as the allocator   *)
(* that obtained it, and an area of the client's is never freed.           *)
AreaOwned == heap = IF up /\ own THEN {chunks} ELSE {}

(* "Its address and size are guaranteed to be aligned upon a machine       *)
(* word" (palloc.h, stroll_palloc_alloc()), and it leaves the client the   *)
(* bytes it asked for.                                                     *)
ChunksAligned ==
  up => /\ \A c \in ChunksOf(chunks, size) : c % Word = 0
        /\ \E chunk_size \in ChunkSizes : chunk_size <= size /\ size < chunk_size + Word

=============================================================================
