------------------------------- MODULE Falloc -------------------------------
(***************************************************************************)
(* The fixed sized object allocator of src/src/falloc.c.                   *)
(*                                                                         *)
(* Chunks are carved out of blocks of ChunkPerBlock chunks.  A block is    *)
(* obtained from posix_memalign(), aligned on a power of two at least as   *)
(* large as the block, so that the block a chunk belongs to is found by    *)
(* clearing the low bits of the chunk's address.  Inside a block, chunks   *)
(* that were freed are chained in a LIFO list; while that list is empty    *)
(* the next chunk is the one at index busy_cnt.  Blocks sit in a doubly    *)
(* linked list where stroll_falloc_alloc() looks at the first block only.  *)
(*                                                                         *)
(* Addresses are natural numbers.  The dlist is the sequence of the        *)
(* addresses of its blocks, from the front.  The client is part of the     *)
(* model: it frees chunks it holds, once, and forgets all of them when it  *)
(* finalises the allocator.                                                *)
(***************************************************************************)
EXTENDS Integers, FiniteSets, SequencesExt

CONSTANTS
  ChunkNr,         (* Most chunks that may be allocated (chunk_nr).        *)
  ChunkPerBlock,   (* Chunks per block (chunk_per_block).                  *)
  ChunkSz,         (* Size of a chunk once aligned (chunk_sz).             *)
  HdrSz,           (* sizeof(struct stroll_falloc_block).                  *)
  BlockAl,         (* Alignment of a block (block_al).                     *)
  BlockAddrs       (* Addresses at which the heap may place a block.       *)

(* Size of a block (block_sz). *)
BlockSz == HdrSz + ChunkPerBlock * ChunkSz

(* The assertions of stroll_falloc_init() on its arguments, what it makes  *)
(* of the alignment, and what posix_memalign() guarantees.                 *)
ASSUME ChunkNrAssumption == ChunkNr \in Nat /\ ChunkNr >= ChunkPerBlock
ASSUME PerBlockAssumption == ChunkPerBlock \in Nat /\ ChunkPerBlock > 1
ASSUME SizeAssumption == ChunkSz \in Nat \ {0} /\ HdrSz \in Nat
ASSUME AlignAssumption == BlockAl \in Nat \ {0} /\ BlockAl >= BlockSz
ASSUME BlockAddrsAssumption ==
  \A b \in BlockAddrs : b \in Nat \ {0} /\ b % BlockAl = 0

VARIABLES
  up,         \* the allocator is initialised
  iface,      \* it was created behind a heap allocated stroll_alloc interface
  blocks,     \* the dlist of blocks (blocks)
  busy_cnt,   \* of each block: count of allocated chunks
  next_free,  \* of each block: list of the chunks that were freed
  chunk_cnt,  \* count of allocated chunks
  heap,       \* blocks obtained from posix_memalign() and not freed yet
  held,       \* chunks the client holds
  refused     \* the last call was an allocation that returned NULL

vars == <<up, iface, blocks, busy_cnt, next_free, chunk_cnt, heap, held, refused>>

-----------------------------------------------------------------------------

(* stroll_align_lower(): BlockAl is a power of two. *)
BlockOf(chunk) == chunk - (chunk % BlockAl)

(* Address of the chunk at index i of block b. *)
ChunkAt(b, i) == b + HdrSz + i * ChunkSz

ChunksOf(b) == {ChunkAt(b, i) : i \in 0 .. ChunkPerBlock - 1}

Chunks == UNION {ChunksOf(b) : b \in BlockAddrs}

(* The chunks of block b that the client holds. *)
HeldIn(b) == {c \in held : BlockOf(c) = b}

(* stroll_falloc_next_free_chunk(): the chunk handed out next by block b,  *)
(* and the free list it leaves.                                            *)
NextFreeChunkSkips(b) ==
  IF next_free[b] # <<>> THEN Head(next_free[b]) ELSE ChunkAt(b, busy_cnt[b] + 1)

NextFreeChunk(b) ==
  IF next_free[b] # <<>> THEN Head(next_free[b]) ELSE ChunkAt(b, busy_cnt[b])

RemainingFreeKept(b) == next_free[b]

RemainingFree(b) ==
  IF next_free[b] # <<>> THEN Tail(next_free[b]) ELSE <<>>

(* stroll_dlist_remove() of block b. *)
UnlinkForgotten(b) == blocks

Unlink(b) == RemoveAt(blocks, CHOOSE i \in 1 .. Len(blocks) : blocks[i] = b)

(* stroll_dlist_move_front() of block b. *)
MoveToBack(b) == Append(Unlink(b), b)

MoveToFront(b) == Cons(b, Unlink(b))

(* stroll_falloc_alloc() may serve one more chunk. *)
OneAboveLimit == chunk_cnt <= ChunkNr

BelowLimit == chunk_cnt < ChunkNr

-----------------------------------------------------------------------------

Init ==
  /\ up = FALSE
  /\ iface = FALSE
  /\ blocks = <<>>
  /\ busy_cnt = [b \in BlockAddrs |-> 0]
  /\ next_free = [b \in BlockAddrs |-> <<>>]
  /\ chunk_cnt = 0
  /\ heap = {}
  /\ held = {}
  /\ refused = FALSE

(* stroll_falloc_init(), called on a structure of the client's, or by      *)
(* stroll_falloc_create_alloc() on one it obtained from malloc().  When    *)
(* that malloc() fails nothing changes.                                    *)
Setup(create) ==
  /\ ~up
  /\ up' = TRUE
  /\ iface' = create
  /\ blocks' = <<>>
  /\ chunk_cnt' = 0
  /\ refused' = FALSE
  /\ UNCHANGED <<busy_cnt, next_free, heap, held>>

(* stroll_falloc_alloc() when the first block has room.  The block moves   *)
(* to the tail of the list once it is full.                                *)
AllocFromFirst ==
  LET b == Head(blocks) IN
  /\ up
  /\ BelowLimit
  /\ blocks # <<>>
  /\ busy_cnt[b] < ChunkPerBlock
  /\ held' = held \cup {NextFreeChunk(b)}
  /\ next_free' = [next_free EXCEPT ![b] = RemainingFree(b)]
  /\ busy_cnt' = [busy_cnt EXCEPT ![b] = @ + 1]
  /\ blocks' = IF busy_cnt[b] + 1 = ChunkPerBlock
               THEN Append(Tail(blocks), b)
               ELSE blocks
  /\ chunk_cnt' = chunk_cnt + 1
  /\ refused' = FALSE
  /\ UNCHANGED <<up, iface, heap>>

(* The first block cannot serve an allocation. *)
FirstIsFull == blocks # <<>> => busy_cnt[Head(blocks)] >= ChunkPerBlock

(* stroll_falloc_alloc() when it cannot, and stroll_falloc_alloc_blockn_   *)
(* chunk() obtains a new block, whose first chunk is returned.             *)
AllocFromNewBlock ==
  /\ up
  /\ BelowLimit
  /\ FirstIsFull
  /\ \E b \in BlockAddrs \ heap :
       /\ heap' = heap \cup {b}
       /\ busy_cnt' = [busy_cnt EXCEPT ![b] = 1]
       /\ next_free' = [next_free EXCEPT ![b] = <<>>]
       /\ blocks' = Cons(b, blocks)
       /\ held' = held \cup {ChunkAt(b, 0)}
  /\ chunk_cnt' = chunk_cnt + 1
  /\ refused' = FALSE
  /\ UNCHANGED <<up, iface>>

(* stroll_falloc_alloc() returning NULL: the limit is reached, or          *)
(* posix_memalign() failed with ENOMEM.                                    *)
AllocRefused ==
  /\ up
  /\ ~BelowLimit \/ FirstIsFull
  /\ refused' = TRUE
  /\ UNCHANGED <<up, iface, blocks, busy_cnt, next_free, chunk_cnt, heap, held>>

(* stroll_falloc_free() of a chunk: the chunk becomes the first of its     *)
(* block's free list; the block moves to the front of the list, or is      *)
(* given back to the heap when that was its last allocated chunk, which    *)
(* makes its content meaningless (0 and the empty list here).              *)
Free(chunk) ==
  LET b == BlockOf(chunk) IN
  /\ up
  /\ held' = held \ {chunk}
  /\ chunk_cnt' = chunk_cnt - 1
  /\ IF busy_cnt[b] - 1 # 0
     THEN /\ next_free' = [next_free EXCEPT ![b] = Cons(chunk, @)]
          /\ busy_cnt' = [busy_cnt EXCEPT ![b] = @ - 1]
          /\ blocks' = MoveToFront(b)
          /\ heap' = heap
     ELSE /\ next_free' = [next_free EXCEPT ![b] = <<>>]
          /\ busy_cnt' = [busy_cnt EXCEPT ![b] = 0]
          /\ blocks' = Unlink(b)
          /\ heap' = heap \ {b}
  /\ refused' = FALSE
  /\ UNCHANGED <<up, iface>>

(* stroll_falloc_fini(), on its own or through stroll_alloc_destroy(),     *)
(* which then frees the interface: every block of the list is freed,       *)
(* whether the client still holds chunks of it or not.  chunk_cnt keeps    *)
(* its value.                                                              *)
Fini ==
  /\ up
  /\ up' = FALSE
  /\ iface' = FALSE
  /\ blocks' = <<>>
  /\ heap' = heap \ ToSet(blocks)
  /\ busy_cnt' = [b \in BlockAddrs |-> IF b \in ToSet(blocks) THEN 0 ELSE busy_cnt[b]]
  /\ next_free' = [b \in BlockAddrs |-> IF b \in ToSet(blocks) THEN <<>> ELSE next_free[b]]
  /\ held' = {}
  /\ refused' = FALSE
  /\ UNCHANGED chunk_cnt

Next ==
  \/ \E create \in BOOLEAN : Setup(create)
  \/ AllocFromFirst
  \/ AllocFromNewBlock
  \/ AllocRefused
  \/ \E chunk \in held : Free(chunk)
  \/ Fini

Spec == Init /\ [][Next]_vars

-----------------------------------------------------------------------------

(* Every variable keeps the type of the structure it models. *)
TypeOK ==
  /\ up \in BOOLEAN
  /\ iface \in BOOLEAN
  /\ blocks \in Seq(BlockAddrs)
  /\ busy_cnt \in [BlockAddrs -> 0 .. ChunkPerBlock]
  /\ next_free \in [BlockAddrs -> Seq(Chunks)]
  /\ chunk_cnt \in Nat
  /\ heap \in SUBSET BlockAddrs
  /\ held \in SUBSET Chunks
  /\ refused \in BOOLEAN

(* No block is lost and none is used after it was freed: the blocks of the *)
(* list are exactly the ones the heap handed out, each of them once, and   *)
(* nothing remains allocated after finalisation.                           *)
BlocksOwned ==
  /\ heap = ToSet(blocks)
  /\ IsInjective(blocks)
  /\ ~up => heap = {}

(* The counters stroll_falloc_alloc() and stroll_falloc_free() decide upon *)
(* agree with what the client holds, so that the limit is enforced on the  *)
(* right number and a block is freed with its last chunk, never before.    *)
CountersAgree ==
  /\ up => chunk_cnt = Cardinality(held) /\ chunk_cnt <= ChunkNr
  /\ \A b \in heap : busy_cnt[b] = Cardinality(HeldIn(b)) /\ busy_cnt[b] > 0

(* A block carves chunks lazily: the first busy_cnt + (length of the free  *)
(* list) chunks have been used at least once, and each of those is either  *)
(* held or in the free list, once.  It is why the chunk at index busy_cnt  *)
(* is a fresh one when the free list is empty.                             *)
UsedChunks(b) == {ChunkAt(b, i) : i \in 0 .. busy_cnt[b] + Len(next_free[b]) - 1}

FreeListSound ==
  \A b \in heap :
    /\ busy_cnt[b] + Len(next_free[b]) <= ChunkPerBlock
    /\ IsInjective(next_free[b])
    /\ ToSet(next_free[b]) \cap held = {}
    /\ ToSet(next_free[b]) \cup HeldIn(b) = UsedChunks(b)

(* Blocks with room come before full blocks, which is what entitles        *)
(* stroll_falloc_alloc() to look at the first block only.                  *)
RoomFirst ==
  \A i, j \in 1 .. Len(blocks) :
    i < j /\ busy_cnt[blocks[j]] < ChunkPerBlock => busy_cnt[blocks[i]] < ChunkPerBlock

(* Whatever the client does, a chunk it holds lies inside a live block,    *)
(* past the header, and does not overlap another one.                      *)
HeldMemoryValid ==
  /\ \A c \in held : \E b \in heap : b + HdrSz <= c /\ c + ChunkSz <= b + BlockSz
  /\ \A c, d \in held : c < d => c + ChunkSz <= d

(* An allocation is refused only when the limit is reached or when no      *)
(* block at all has a chunk left, not merely the first one.                *)
RefusedOnlyWhenExhausted ==
  refused => \/ chunk_cnt = ChunkNr
             \/ \A b \in heap : busy_cnt[b] = ChunkPerBlock

(* The allocator implements the abstract pool of chunks. *)
Pool == INSTANCE ChunkPool WITH Limit <- ChunkNr

PoolSpec == Pool!Spec

=============================================================================
