------------------------------ MODULE MCAllocs ------------------------------
(***************************************************************************)
(* Small instances of what owns memory on behalf of a client: the          *)
(* allocators that stroll_alloc dispatches to, with the sizes of a 64-bit  *)
(* build, and lvstr.  A behaviour is that of a client of one of them; the  *)
(* variables of the others stay put.  Those of palloc and lalloc are named *)
(* pre_ when falloc has one of the same name.                              *)
(***************************************************************************)
EXTENDS Falloc

CONSTANTS
  Kinds,                                              (* Those to check.   *)
  ChunkSize,    (* chunk_size, as given to stroll_falloc_init().           *)
  BlockNr,      (* Blocks the heap can serve falloc before it is exhausted *)
  PreNr,        (* chunk_nr of the other two.                              *)
  Null, Word, HeapAddrs, MemAddrs, ChunkSizes, ApiAssert,      (* palloc   *)
  Places,                                                      (* lalloc   *)
  Lvs, StringPlaces, Lengths, SizeMax, NoString                (* lvstr    *)

VARIABLES
  kind,                                               \* of allocator
  pre_iface, pre_next_free, word, pre_heap, pre_held, \* palloc and lalloc
  pre_up, own, chunks, size,                          \* palloc
  phase, c, err, kept,                                \* lalloc
  lvs, ready, strings, mine, told                     \* lvstr

(* The sizes of falloc. *)
Bits == INSTANCE Pow2 WITH W <- 16

MCHdrSz == 32
MCChunkSz == Bits!AlignUpper(ChunkSize, Word)
MCBlockAl == Bits!Two[Bits!Pow2Up(MCHdrSz + ChunkPerBlock * MCChunkSz)]
MCBlockAddrs == {k * MCBlockAl : k \in 1 .. BlockNr}

P == INSTANCE Palloc WITH
  ChunkNr <- PreNr,
  up <- pre_up, iface <- pre_iface, next_free <- pre_next_free,
  heap <- pre_heap, held <- pre_held

L == INSTANCE Lalloc WITH
  ChunkNr <- PreNr, Chunks <- Places,
  iface <- pre_iface, next_free <- pre_next_free,
  heap <- pre_heap, held <- pre_held

S == INSTANCE Lvstr WITH Places <- StringPlaces, Null <- NoString

ASSUME PallocAssumption ==
  /\ P!ChunkNrAssumption /\ P!SizesAssumption /\ P!AddrsAssumption
  /\ P!ApiAssertAssumption /\ P!NullAssumption
ASSUME LallocAssumption == L!ChunkNrAssumption /\ L!NullAssumption
ASSUME LvstrAssumption == S!LengthsAssumption /\ S!SizeMaxAssumption /\ S!NullAssumption

preVars == <<pre_iface, pre_next_free, word, pre_heap, pre_held>>
pallocVars == <<pre_up, own, chunks, size>>
lallocVars == <<phase, c, err, kept>>
lvstrVars == <<lvs, ready, strings, mine, told>>
allVars == <<kind, vars, preVars, pallocVars, lallocVars, lvstrVars>>

NoPalloc == pre_up = FALSE /\ own = FALSE /\ chunks = Null /\ size = 0
NoLalloc == phase = "down" /\ c = 0 /\ err = FALSE /\ kept = {}
NoLvstr == lvs = << >> /\ ready = {} /\ strings = << >> /\ mine = {} /\ told = << >>

MCInit ==
  /\ kind \in Kinds
  /\ Init
  /\ IF kind = "lalloc" THEN L!Init /\ NoPalloc ELSE P!Init /\ NoLalloc
  /\ IF kind = "lvstr" THEN S!Init ELSE NoLvstr

MCNext ==
  /\ \/ kind = "falloc" /\ Next /\ UNCHANGED <<preVars, pallocVars, lallocVars, lvstrVars>>
     \/ kind = "palloc" /\ P!Next /\ UNCHANGED <<vars, lallocVars, lvstrVars>>
     \/ kind = "lalloc" /\ L!Next /\ UNCHANGED <<vars, pallocVars, lvstrVars>>
     \/ kind = "lvstr" /\ S!Next /\ UNCHANGED <<vars, preVars, pallocVars, lallocVars>>
  /\ UNCHANGED kind

Runs == kind = "lalloc" /\ L!Run /\ UNCHANGED <<vars, pallocVars, lvstrVars, kind>>

(* A call the client made runs to its return. *)
MCSpec == MCInit /\ [][MCNext]_allVars /\ WF_allVars(Runs)

-----------------------------------------------------------------------------

(* Whatever the client wrote into the chunks it held, the chain of free    *)
(* chunks goes once through every chunk of the allocator that it does not  *)
(* hold and ends, half way through the initialisation and finalisation of  *)
(* lalloc too: no chunk is lost, none is handed out or freed twice, and an *)
(* allocation fails only when the client holds them all.                   *)
FreeChainSound ==
  /\ kind = "palloc" => P!FreeChainSound
  /\ kind = "lalloc" => L!FreeChainSound

(* "@p chunk_size specify the size of a single *chunk* in bytes and will   *)
(* be rounded up to the size of a machine word" (src/include/stroll/       *)
(* palloc.h:211): chunks are aligned upon a machine word, and as large as  *)
(* what the client asked for.                                              *)
ChunksAligned == kind = "palloc" => P!ChunksAligned

(* What comes from the heap goes back there.  An area palloc obtained from *)
(* malloc() lives exactly as long as the allocator, and an area of the     *)
(* client's is never freed.  Once lalloc is down nothing of it remains but *)
(* the chunks the client has not given back, whether initialisation failed *)
(* on the first, on the last or on no malloc() at all; while it is up it   *)
(* serves exactly PreNr chunks.                                            *)
NothingLost ==
  /\ kind = "palloc" => P!AreaOwned
  /\ kind = "lalloc" => L!NothingLost

(* A string on the heap has one owner, the client or one lvstr, which is   *)
(* to free it, and once, however strings were lent, ceded, duplicated and  *)
(* dropped; an lvstr has the string that it was given last.                *)
StringsOwned == kind = "lvstr" => S!StringsOwned

(* Each loop of lalloc ends: neither follows a chain for ever. *)
CallsReturn == phase \in {"init", "fini"} ~> phase \in {"up", "down"}

PrePool == INSTANCE ChunkPool WITH
  Chunks <- P!AllChunks \cup Places, Limit <- PreNr, held <- pre_held

(* Palloc and lalloc implement the abstract pool of chunks. *)
PrePoolSpec == PrePool!Spec

=============================================================================
