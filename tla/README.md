# A verification development for Stroll

Stroll (`src/`) is a C library of data structures and algorithms: allocators of
fixed sized objects, heaps, linked lists, hashed lists, array sorts, bitmaps,
strings and message buffers. This directory models in TLA+ the parts of it that
hold state, model-checks them with TLC on small instances, and proves with
TLAPS, for every instance, most of what these runs check.

The library is single threaded and persists nothing. What is hard in it is not
concurrency: it is *long sequences of legal calls*, *loops that pass through
states where the structure is broken*, *memory the client or the heap reuses*,
*partial failures of malloc()*, and *arithmetic at boundaries*. The client is
the environment: it calls operations in any order the documentation allows,
frees chunks in any order, writes into the chunks it holds, changes keys, and
supplies a `compare()` under which distinct elements may be equal.

## 1. Inventory

| Component | Sources (under `src/`) | State | Operations | Hard behaviour | What makes it correct |
|---|---|---|---|---|---|
| falloc | `src/falloc.c` | list of blocks; per block a counter and a LIFO list of freed chunks; total count | init, alloc, free, fini, `stroll_alloc` interface | blocks freed and reused at the same address; lazily carved chunks; only the first block is looked at; block found by masking an address | chunks handed out are valid and disjoint; no block lost or freed early; a refusal means exhaustion |
| palloc | `src/palloc.c`, `include/stroll/palloc.h` | area, chain of free chunks threaded through client memory | init (own or client area), alloc, free, fini, interface | client overwrites the links of chunks it holds; area ownership | the chain holds exactly what the client does not; only an owned area is freed |
| lalloc | `src/lalloc.c`, `include/stroll/lalloc.h` | chain of free chunks, each a malloc() | init, alloc, free, fini, interface | malloc() failing at any iteration; chunks held at finalisation | nothing leaks on failure; all chunks are served |
| alloc | `src/alloc.c` | none (dispatch) | alloc, free, destroy | which finalisation runs, and who frees the interface | covered with each allocator |
| pow2, bops, alignment | `src/pow2.c`, `include/stroll/{pow2,bops,cdefs}.h` | none | pure functions | wrap-around at the top of a word | least power or multiple not below |
| fbheap | `src/fbheap.c` | array, count | insert, extract, build, clear | "bounce" extraction: to a leaf and back; element in no slot mid-loop | priority queue, nothing lost |
| fwheap | `src/fwheap.c` | array, reverse bits, count | insert, extract, build, clear, init, fini | uninitialised, lazily reset bits; ancestors change as bits are toggled | weak heap order, priority queue |
| pprheap | `src/pprheap.c` | nodes with three pointers, root, count | insert, merge, extract, remove, promote, demote, setup | parent pointer may be the left sibling; passes rewrite what they follow | trees sound, heap order, priority queue |
| hprheap, dprheap | `src/{hprheap,dprheap}.c` | as pprheap, without parents / with doubly linked siblings | same, hprheap without remove, promote, demote | the first pass moves nodes to a list whose head is on the stack | same |
| dbnheap | `src/dbnheap.c` | list of binomial trees, by order | same as pprheap, and peek | a node leaves by trading places with its parents, whose children and siblings are relinked; carries in merge | each node in one tree of the right shape, order, equal orders joined |
| drpheap | `src/drpheap.c` | circular list of half trees with ranks | same as pprheap | rank rule; as many buckets as a word has bits | ranks bounded, order |
| dlist | `src/dlist.c`, `include/stroll/dlist.h` | links in both directions, the head being a node | insert, remove, replace, move, splice, withdraw, embed, 8 sorts | moves next to oneself; merge sort without recursion, sublists on the stack | lists are rings of the right nodes; order, stability, termination |
| slist | `src/slist.c`, `include/stroll/slist.h` | forward links, pointer to the last node | append, remove, move, splice, withdraw, embed, 6 sorts | the tail in every call that takes or brings the last node; lists copied by assignment | chains end at the tail; order, stability, termination |
| hlist | `src/hlist.c`, `include/stroll/hlist.h` | buckets, links forward and back to a pointer | insert, append, remove, loops over nodes and buckets | nodes in no list point to themselves; a node leaves during a loop | chains sound, loops meet each node once |
| array | `src/array.c` | array, buffer of the merge sort | bisection, bubble, selection, insertion, three quick, merge and two heap sorts | runs copied over what they come from; ranges left to sort on a stack; equal elements | permutation, order, stability, logarithmic stack, termination |
| bmap | `include/stroll/bmap.h` over `bops.h` | one word | set, clear, toggle, masks, ranges, loops | masks and shifts as wide as the word | a set of bits; loops meet each bit once |
| fbmap | `src/fbmap.c`, `include/stroll/fbmap.h` | array of words, iterators | the same over any number of bits | ranges within a word or across; bits past the end are garbage; bits changed during a loop | the same |
| message, buffer | `src/message.c`, `include/stroll/{message,buffer}.h` | offset, length, capacity | push and pull at both ends | pointer taken before or after the window moves | a string with room at both ends |
| lvstr | `src/lvstr.c`, `include/stroll/lvstr.h` | pointer, length and ownership bit | init, lend, cede, dup, drop, fini | the former string is released before the new one is registered; structures that hold garbage | one owner for each string: no leak, no double free |
| hash, htable | `include/stroll/{hash,htable}.h` | none | multiplicative hashes | | spreading, which is no matter of states |
| page, assert, cdefs | `src/{page,assert}.c`, `include/stroll/cdefs.h` | none | | | |

Components do not call each other much. falloc keeps its blocks in a dlist and
sizes them with pow2; dprheap and dbnheap chain nodes with dlist, and are
modelled over its primitives; the heap sorts of arrays are fbheap and fwheap;
fbmap, bmap and drpheap compute with the bit operations of bops. The
`stroll_alloc` interface dispatches to the allocators through a table of functions.

## 2. Modules

| Module | Models | Steps |
|---|---|---|
| `ChunkPool` | what any allocator promises: the chunks the client holds | one per call |
| `Falloc` | `src/falloc.c`, with its interface | one per call |
| `Palloc` | `src/palloc.c` and its inline functions | one per call, and one per store of the client into a chunk it holds |
| `Lalloc` | `src/lalloc.c` and its inline functions | one per iteration of the loops of init and fini, one per other call |
| `Lvstr` | `src/lvstr.c` and its inline functions | one per call |
| `Pow2` | powers of two, by recursion; rounding and alignment at a parametric width | operators |
| `PQueue` | what any heap promises: a bounded priority queue | one per call |
| `ArrayHeap` | what fbheap and fwheap share: array, count and call in progress | variables |
| `FbHeap`, `FwHeap` | `src/fbheap.c`, `src/fwheap.c` | one per iteration |
| `PairingHeap` | what the three pairing heaps share: all their state, and what calls do to it but for links | operators |
| `PprHeap`, `DprHeap`, `HprHeap` | `src/pprheap.c`, `src/dprheap.c`, `src/hprheap.c` | one per iteration of the merging passes, one per other call |
| `PairingHeaps` | the instances of these three, which `MCHeaps` extends with the other heaps | |
| `DrpHeap` | the rank-pairing heap of `src/drpheap.c`, on its pointers | one per call, or per half tree and per join inside a call that merges |
| `DbnHeap` | the binomial heap of `src/dbnheap.c`, on its pointers | one per call, or per exchange when sifting up and per tree when merging |
| `DlistOps`, `SlistOps` | what the primitives do to the pointers | operators |
| `ListClient`, `Dlist`, `Slist` | several lists under any sequence of calls | one per call |
| `Hlist` | `src/hlist.c` and `include/stroll/hlist.h`, over `ListClient` | one per call, one per node of a loop over buckets |
| `ListSort`, `DlistSort`, `SlistSort` | the sorts of `src/dlist.c` and `src/slist.c` | one per iteration of the loop in progress |
| `ArraySort` | the sorts of `src/array.c` and its bisection | one per iteration of the loop in progress |
| `BitSet` | what a bitmap promises: a set of bits | one per call |
| `BitClient` | words as sets of bits, the operations of `bops.h`, the client's calls and loops | operators |
| `Bmap` | `include/stroll/bmap.h`: one word, of any width | one per call, one per bit of a loop |
| `Fbmap` | `src/fbmap.c` and `include/stroll/fbmap.h`: an array of words | one per call, one per bit of a loop |
| `Message` | `src/message.c` over `include/stroll/buffer.h`; then what a message promises, a string with room at both ends | one per call |
| `MCAllocs`, `MCArrayHeaps`, `MCHeaps`, `MCLists`, `MCSorts`, `MCWords` | the instances of the modules of a family, and their fairness | those of the module chosen |
| `NatFacts` | lemmas on least elements, recursion, powers of two and quotients | |
| `AllocsProofs`, `ArrayHeapsProofs`, `ListsProofs`, `SortsProofs`, `WordsProofs` | proofs about `MCAllocs`, `MCArrayHeaps`, `MCLists`, `MCSorts` and `MCWords` | |
| `PairingProofs` | proofs about `PairingHeaps`: strings and rings of nodes, the forest that heaps make, and the links of hprheap and pprheap | |
| `HeapsProofs` | proofs about `MCHeaps`: the links of dprheap, and the theorems about the three pairing heaps | |

Components of the same family are checked together. A module declares what they
share; each one extends it with its own variables; an `MC` module instantiates
them all, picks one in `Init` with the variable `kind`, and lets a behaviour be
one of that module, whose steps leave the variables of the others alone.
`MCAllocs` is so a client of `stroll_alloc`, whose table of operations is chosen
when the interface is created. Properties of the family hold of all its modules,
the others start with `kind =`.

How state corresponds to code:

* **Falloc.** Addresses are natural numbers, a dlist is the sequence of the
  addresses of its blocks. `busy_cnt`, `next_free` and `chunk_cnt` are the
  fields of those names; `heap` is the set of blocks obtained from
  `posix_memalign()`; `held` is what the client holds; `refused` tells that the
  last call was an allocation that returned NULL. `BlockOf` is
  the mask of `stroll_falloc_free()`. A block freed to the heap may come back at
  the same address.
* **Palloc, Lalloc.** `word` is the content of the first word of each chunk,
  which is both the link of the free chain and the client's memory: `ClientWrite`
  stores any chunk's address, or null, in a held chunk, which includes the
  content that would look like a valid chain. Lalloc's `kept` records the chunks
  the client held when it finalised the allocator.
* **Lvstr.** `lvs[l]` has the two fields of a structure, the length with the
  ownership bit in it, computed modulo `SizeMax + 1`: what is too long for it must be refused.
  A structure that was never initialised, or was finalised, holds garbage; `ready` are the others. A string is an address
  of `strings`, the heap, and its length there. `mine` are those that the client has to
  free, `told` what each lvstr was given last: neither is in the code. The
  client may free a string that it has lent. It cedes strings of its own only, and does not lend to an lvstr
  what that lvstr owns, which the code would free before it
  registers it. Calls that fail, with E2BIG or ENOMEM, change nothing.
* **FbHeap, FwHeap.** `array`, `cnt`, `rbits` are the fields; the other
  variables are the locals of the call in progress. Elements are opaque and
  ordered by `Key`, which is not injective. The code has three copies of each
  algorithm, for 32 bit, 64 bit and other elements: they are the same algorithm and are
  modelled once. Positions that hold no element hold `None`: the code leaves the
  former content there and never reads it, which `NothingLost` checks.
* **FwHeap.** `rbits` starts with any content, since the code does not
  initialise it; insertion and build reset it as the code does, build by whole
  words of `WordBits` bits (4 instead of 32 or 64, so that an array of 6 spans two words).
* **PairingHeap.** `links[n]` holds the pointers of node `n`, which are those of
  each heap. `content` is what the client knows it has put in each heap; `out` is what the last
  call returned, if it was an extraction. A heap merged into another one is
  forgotten until it is set up again, and nodes that leave have their pointers forgotten.
* **PprHeap.** `first` is `children[0]`, `next` is `children[1]`. `Plug` is the static node that ends
  lists of children; the code stores a parent into it and never reads it, so the
  model leaves that store out.
* **HprHeap.** The same without parents. What insertion does not initialise stays as it was.
* **DprHeap.** Children are lists of `DlistOps`, whose cells are the nodes, the heads
  of their children and `Stack`, the head that the first merging pass has on the C stack and the second one reads; `TreesSound` reads
  the children again once both are over.
* **DbnHeap.** The cells of lists are the nodes, the heads of their children, the
  heaps and `Stack`, the list in the stack frame of a call. A removal first trades the node with its
  parents, one step per exchange of both nodes' links and children, then merges its children and the remaining roots
  one tree at a time. `last` is the tree
  in hand, `left` the list that trees go to.
* **DrpHeap.** `mem` holds the fields of every node and the links of every heap: `next` and `prev`
  are `edges[0]` and `edges[1]`, `isroot` the low bit of the latter, which tells the ring of the roots
  from the siblings of a half tree. `slots` is the table of buckets, the bitmap being the set of those
  that are not null; `links` and `roots` are what the two loops still have to merge and `node` the half
  tree in hand. `Forgotten` clears what the client's nodes hold out of any heap. An assertion that
  fails does not stop a call: `NothingLost` and the runs of section 5 state the assertions.
* **Dlist, Slist.** `mem` holds the pointers of every node and head, `Wild` for those the
  code leaves in a node that is out of any list. `lists` is the sequence of nodes that the calls
  amount to, written as the client reasons about them; `hand` is the portion it withdrew.
  The primitives are operators on `mem`, from which `DlistSort` and `SlistSort` are built too.
* **Hlist.** The code's pointer to the pointer that leads to a node is the owner of that
  pointer, a node or a bucket. A node in no list points back to itself. `loop` is the
  iterator over the nodes of all buckets; between two of its steps the client may
  take out the node it was given, if the loop is one of the safe ones.
  The client appends a node only after a hashed one, see section 5.
* **DlistSort, SlistSort.** A sort is called once, as the constant record `call` says: which sort,
  the keys in the order of the nodes, and where the lists given to a k-way merge end. `loop`,
  `sort`, `merge` and `kway` are the locals of the function at each level, `pc` tells which loop is
  running. Inner loops that only look for a place are a function of the memory
  (`FirstFrom`). The sublists of the merge sort are heads in the same memory. Nodes are numbered in
  the order they come, so that stability can be stated.
* **ArraySort.** `mem` is the array, then the buffer of the merge sort, so that copies from one to the
  other, or within one, are moves of indices. A call is a constant record: which sort, the keys, and for the merge
  sort whether the build looks for whole runs (`full`) and whether
  they are copied by `memcpy()` or element by element (`block`), which is how the
  variants by size differ. `stack` holds the ranges that suspended recursive calls
  have left to sort, and `Threshold` is the configured length below which an insertion sort ends the work.
* **Bmap, Fbmap.** A word is the set of its bits that are set. Shifting it by its
  width is undefined in C: `Shifted` gives either the word, as processors do that
  take the shift modulo the width, or nothing. The bits of the last word of an fbmap past its length hold
  whatever the calls leave there. An iterator holds a copy of the word it is in, the index of that word and its range;
  `wanted`, `changed` and `seen` are what the client knows of its loop.
* **Message.** `buff` is the window, `mem` the area; pushes tell where to
  write and pulls where to read, and the client does so at once. The abstract
  specification that follows (`StringNext`) sees neither offset nor area: a string, and the room on each side of it.

Client obligations that the code states as assertions are guards: heaps are not
overfilled, elements are inserted once, promotion only lowers a key, chunks freed
are held ones, ranges are within bitmaps. They are the only
behaviours ruled out, with those of the client of `Lvstr` and `Hlist` above.
`AssertIntern` (PprHeap) and `ApiAssert` (Palloc) say
whether the build includes the assertions; a failed assertion aborts, that is, the call is
not taken.

## 3. What is checked

Every passing run explores all reachable states of its instance, and deadlock is
checked except where the system stops: in `sorts`, when the sort returns, in
`words`, after the last of the values given to `Pow2`, and in `drpheap_fall`, at
the end of its client.

| Run | Instance | Shows |
|---|---|---|
| `allocators` | falloc: 3 block addresses, 3 chunks per block, limit 8; palloc and lalloc: 3 chunks, two places for areas, 4 for chunks; two lvstr, 3 places for strings, a `size_t` of 3 bits | what is handed out is valid, disjoint and accounted for, whatever the client writes and whichever malloc() fails; strings have one owner; calls return |
| `arrayheaps` | arrays of 6, 6 elements with equal keys, any initial bits | order and weak order, nothing lost at any iteration, shortcut of the weak build, priority queue, calls return |
| `heaps` | two heaps, 5 nodes, 2 keys, symmetric, for each of the five kinds; 8 nodes in binomial heaps | pointers, order and counts after any calls; each tree in one place inside the loops, which advance; priority queue |
| `lists` | two lists, 5 nodes, symmetric; hlist of 4 buckets | pointers are those of the lists the calls amount to; loops meet each node once |
| `sorts` | lists of up to 5 nodes and 3 keys, up to 3 lists, runs of 2; merge sort of 8 nodes with 3 bit integers; arrays of up to 6 elements, thresholds of 2 | every sort orders, keeps every element and ends, and is stable where it is documented so; what the sorts that divide rely on; bisection finds what is there |
| `words` | words of 4 bits; 3 and 5 bits over words of 2; messages over 8 bytes; all values of 10 bits | bitmaps are sets, loops over them are complete; messages are strings; rounding is exact although computed modulo a word |
| `palloc_rounding`, `fwheap_root`, `pprheap_detach`, `drpheap_fall`, `array_stability`, `bmap_loop` | smaller instances | disagreements between the code and what it says of itself, section 5 |

The properties (a type invariant is checked by itself for `Falloc`,
which proves it, and as a conjunct of a structural invariant elsewhere):

* falloc: `BlocksOwned` (list and heap agree), `CountersAgree` (counters are
  what the client holds), `FreeListSound` (used chunks are held or free, once),
  `RoomFirst` (blocks with room precede full ones), `HeldMemoryValid`, and the
  implementation of `ChunkPool`, `PoolSpec`. `RefusedOnlyWhenExhausted` follows from
  `RoomFirst` and is proved.
* palloc, lalloc: `FreeChainSound`, `NothingLost`
  (the area is owned, nothing leaks, every chunk is served), and the same
  implementation, `PrePoolSpec`.
  `ChunkPool` sees sets of held chunks only: that one chunk is not handed out
  twice is what `CountersAgree` and `FreeChainSound` add to it.
* lvstr: `StringsOwned`, of every string on the heap and every structure, after any calls.
* heaps: order between calls (`HeapOrder`, `WeakHeapOrder`), conservation of elements inside every loop
  (`NothingLost`), the
  intermediate facts each algorithm relies on (order of the subtrees below the
  one being placed, `ShortcutSound`), implementation of `PQueue` (`QueueSpec`, `HeapsSpec`) by a
  refinement mapping in which an element enters the queue when its insertion returns
  and leaves it when its extraction is called.
* linked heaps: `TreesSound` and `RanksSound` read the whole structure back from the pointers between
  calls, the former for pairing heaps, the latter, order included, for the two heaps of many
  trees. `NothingLost` and `NoTreeLost` say inside the loops where each tree is, and that
  equal ranks, or orders, are joined. They do not
  assume that the ranks of drpheap obey a rule: section 5 shows that they do not.
* lists: `RingsSound`, `ChainsSound` and `HashChainsSound` relate pointers to the sequences of nodes;
  the latter also says what a loop over buckets has met.
* sorts: `SortedStably` is the result of every sort. `NothingLost` holds between any two
  iterations on a dlist (each node in one ring, both directions agreeing). `RunsInOrder` is what the merge
  sort of dlist maintains (waiting sublists are sorted, their lengths are distinct powers of two times a
  run, longer ones hold earlier nodes, their number stays below `SUBS_MAX`), and what the merge
  and quick sorts of arrays do (both runs sorted, in the order they came; what is on each side of a
  range left to sort bounds it). `StackShallow` bounds the recursion of the quick sorts by a logarithm, since they
  recurse on the smaller side, `CopiesHarmless` says that the areas given to `memcpy()` overlap
  in the direction that does no harm, `SearchSound` is about bisection.
* bitmaps and messages: `BitSetSpec` and `StringSpec` are their abstract specifications; `LoopsComplete`
  is what a loop gets, bits changed while it runs being the only ones it may get or miss; `Pow2UpIsLeast` and
  `AlignUpperIsLeastOrNull` compare rounding with its definition.
* termination: `SortEnds` for the sorts and `CallsReturn` for lalloc, fbheap and fwheap, whose loops follow
  what they modify, under fairness. In the linked heaps, whose instance uses symmetry,
  `PassesAdvance` says it as an action property: each iteration leaves less to look at.

**Bounds.** Nothing is cut by a state constraint: the only bounds are the
constants, and two of them in guards: `Bound`, as many iterations as the largest bitmap of the instance
has bits, and `MaxChanges`, the bits changed during a loop. Three blocks give a first, a middle and a last one, three chunks per block a partly used
one in two ways, and a limit of 8 is met before
the blocks are exhausted at 9, while two out of three blocks may be refused by
the heap. Chunks of 20 bytes rounded to 24 leave slack in a block's alignment.
A `size_t` of three bits makes an lvstr hold up to 2 characters, so that the strings of 3 are too
long; three places let each of two lvstr own or borrow one while the client holds another.
An array of 6 has a last
parent with both children, or with a left child only (at even counts), and three levels,
so that an extraction descends twice and climbs back. Keys of distinct elements
coincide, so that a strict comparison in place of a loose one shows. Five nodes
in a pairing heap let an extraction leave up to four children, so that the first pass meets two pairs, or a
pair and an odd one, and the second has something to join; over two heaps they also make merges with an
empty, a smaller and a larger side. Five children or more, where
the second pass iterates, are beyond this instance.
Five nodes in `DrpHeap` make half trees of rank 2, whose inner nodes leave with ranks to
restore above them, and carries over two buckets; four buckets are enough for them, which `TypeOK` checks.
Eight nodes are the least with which merging two binomial heaps meets every
case, three trees of the same order included; since all calls on 8 nodes are out of reach, one client puts
them in one by one (kind "wide"), merges one heap into the other at some point, and takes any of them out.
Five nodes over two lists give portions at the start, in the middle, at the end and whole, moved within a list
and across. Five nodes in runs of two leave an odd run, a carry over two runs and final merges that
interleave segments; three lists give the k-way merge two passes, with one list left alone in the first.
Six elements of an array, with thresholds of 2, are enough for each
quick sort to leave a range on its stack and for each half of a merge to be split again.
One call per sort of 8 nodes, with integers of 3 bits in place of 32, fills them, so
that the last of the sublists is used. Bitmaps of 5 bits over words of 2
have a first, a middle and a last word, half of which is garbage. Lengths of 0, 1, 2, 5 and 9 bytes over 8 are
none, some that fit and one that never does, in every order at both ends.
What an extraction
returned is forgotten at the next call, which keeps the instances of the heaps small.

**Fairness.** `MCAllocs` and `MCArrayHeaps` have weak fairness on the
steps of the call in progress (`Run`), and on nothing else: a C function that was called runs. The client
never has to call anything. In `MCSorts` it calls one sort, and weak fairness is
on every step: the run is over when the sort returns, which is why deadlock is not checked there.
The other specifications have none.

## 4. What is proved

Five of the six compositions are proved about, for every value of their constants:
`MCAllocs`, `MCArrayHeaps`, `MCLists` and `MCWords`, and `MCSorts` for what concerns the search, the quick sorts and the copies of the merge sort of arrays.
Of the sixth, `MCHeaps`, the three pairing heaps are. The theorems are about the specification
that the runs check, `Spec` of the composition, and state the properties that the runs check, by their names.
They rest on the assumptions of those modules, which are all named, are written next to the constants
they are about, and are evaluated by TLC for the values that the runs give. Nothing bounds the
sizes: numbers of nodes, lists, chunks, elements or bits.

| Theorems | Property of the runs |
|---|---|
| `FallocTyping`, `FallocBlocksOwned`, `FallocCounters`, `FallocFreeLists`, `FallocRoomFirst`, `FallocMemory`, `FallocRefinesPool` | `TypeOK`, `BlocksOwned`, `CountersAgree`, `FreeListSound`, `RoomFirst`, `HeldMemoryValid`, `PoolSpec` |
| `FreeChainAlwaysSound`, `NothingEverLost`, `StringsAlwaysOwned`, `PreIsAPool` | `FreeChainSound`, `NothingLost`, `StringsOwned`, `PrePoolSpec` of `MCAllocs` |
| `RingsAlwaysSound`, `ChainsAlwaysSound`, `HashChainsAlwaysSound` | `RingsSound`, `ChainsSound`, `HashChainsSound` of `MCLists` |
| `HeapOrderAlways`, `WeakHeapOrderAlways`, `ShortcutAlwaysSound`, `HeapsLoseNothing`, `HeapsAreQueues` | `HeapOrder`, `WeakHeapOrder`, `ShortcutSound`, `NothingLost`, `QueueSpec` of `MCArrayHeaps` |
| `PairingTreesSound`, `PairingHeapOrder`, `PairingNothingLost`, `PairingPassesAdvance`, `PairingQueues` | `TreesSound`, `HeapOrder`, `NothingLost`, `PassesAdvance`, `HeapsSpec` of `MCHeaps`, for hprheap, dprheap and pprheap |
| `SearchAlwaysSound`, `StacksAlwaysShallow`, `CopiesAlwaysHarmless` | `SearchSound`, `StackShallow`, `CopiesHarmless` of `MCSorts` |
| `LoopsAlwaysComplete`, `Pow2UpAlwaysLeast`, `AlignUpperAlwaysExact`, `BitmapsAreSets`, `MessagesAreStrings` | `LoopsComplete`, `Pow2UpIsLeast`, `AlignUpperIsLeastOrNull`, `BitSetSpec`, `StringSpec` of `MCWords` |

Theorems named after one component (`FallocRefusal`, `PallocFreeChain`, `PallocArea`, `PallocIsAPool`,
`LallocFreeChain`, `LallocNothingLost`, `LallocIsAPool`, `LvstrStringsOwned`, `MessageIsAString`, `BmapIsASet`) say the
same of its own specification, without the others.

**falloc.** The properties are not inductive one by one. Freeing a chunk needs to know that
the block found by masking is in the list (`BlocksOwned`); carving a chunk needs
to know that the chunk at index `busy_cnt` is not held, which needs
`FreeListSound`, whose preservation needs `CountersAgree` per block.
The inductive invariant `FallocIInv` is the conjunction of the typing, of the list
being injective and equal to the heap, of the count of held chunks,
of `RoomFirst`, and, for each block of the heap, of its soundness: the counter is
the number of held chunks and is not null, and the free list and the held chunks
partition the first chunks of the block. One lemma per action proves it
inductive; the theorems follow from it (`FallocInductive`). They rest on
arithmetic (`BlockOfChunkAt`: masking recovers the block; `ChunkAtInjective`;
`ChunksApart`) and on facts about sequences without repetition.

**palloc, lalloc.** That the chain of free chunks is what the client does not hold
says nothing that a step preserves by itself: the chain is
what one reaches by following words that the client overwrites. The inductive invariant therefore has a *ghost
chain*: there is a sequence without repetition, of exactly the free chunks, in which each word
links to the next element and the last to null (`Chain`). Allocating takes its tail (`ChainTail`), freeing adds a
head (`ChainCons`), and a store in a held chunk, which is not in the sequence, leaves it as it is (`ChainKept`). The rest of the
invariant is typing, who owns the area in `Palloc`, and in `Lalloc` how
the chunks on the heap divide into free, held and kept ones, with their count at each iteration of
the initialisation: whichever malloc() fails, nothing remains on the
heap but what the client never gave back. Both implement `ChunkPool`: every step is one of its
steps or leaves `held` alone.

**lvstr.** `StringsOwned`, of any number of structures, of places and of lengths:
the heap holds exactly the strings of the client and those of the lvstr that own one, which no
two do. It is inductive with the typing, and the fact that structures that are not ready are in nobody's
account. Every call that registers a string is one lemma, `LvstrRegisterIInv`, on what remains of the heap once
the former string has been released.

**Lists.** The sequences that `lists` and `hand` hold are the ghosts here, since the client of the
models keeps them. The invariants are `RingsOK`, `ChainsOK` and `BucketsOK`: the memory is typed, no node is twice in
the sequences (`Apart`), and the pointers of each list are those of its sequence, written index by index so that
no recursion follows them (`Ring`, `Chained`, `Bucket`; `Entry` is the head at 0 and past the end). Every call
is a composition of two changes, cutting a portion and joining one after an entry. Each is proved once, for
the one or two stores the code makes (`RingsCut`, `RingsJoin`, `RingsMove`, and the like for the other lists), from how
sequences are spliced (`WithoutDistinct`, `WithDistinct`, `EntryCut`); what is left of a call is which
portion and which entry it means. A slist has in addition that its tail is its last entry, which
is what the calls that take or bring the last node may get wrong. A loop over buckets (`LoopOK`) has
a *place*: there is an index in its bucket such that what it has got and what comes after that
place divide what it is due, and the node to go on with is the next one; a node removed while the loop has it
leaves the place where it was.

**fbheap.** `FbInv` adds to `NothingLost` what each phase of a call keeps of the order (`FbOrder`). While an insertion
rises, the order holds but at the index that rises, whose children are also in order with its parent.
A bounce goes down the path of smallest children (`FbElderOf` is the node that is so many levels down), which `FbDescendOrder` states without the element
in hand: the hole is nowhere yet. It then climbs back to where the element belongs and shifts the path up from the root;
in the middle of it (`FbSiftOrder`) an element is missing in one place, and the order holds but for the pairs that the hole splits.
That the deepest level is reached and left as often, and that every index stays in the array,
rests on powers of two and the depth of a node (`FbElderBelow`, `FbDepth`, `FbLevels`).

**fwheap.** The distinguished ancestor is what one reaches by a search whose length depends on the reverse bits. In the model it is
a choice of the first ancestor, among the halves of an index, that is a right child, and not a recursion: `FwClimbs` shows
that it obeys the recursion, and `FwAgree` that it only depends on the bits of strict
ancestors. What joins do then rests on one lemma, `FwToggle`: toggling the bit of a
node exchanges the ancestors of its subtrees, and leaves those of all other nodes. `FwJoin` proves from it
that a join orders the node it is about and puts nothing else out of order. An extraction first goes down a left
spine, whose nodes are those whose ancestor is the root, and joins them upwards (`FwSpineChain`).
`ShortcutSound` compares the search with the one by shifts and lowest set bits while every bit is
clear (`FwEven`, `FwOdd`, `FwLowest`). Nothing is assumed of the bits at the start, the root's included (section 5).

Both heaps implement `PQueue`, with a queue that loses an element when its extraction is called: that
the root is a least element (`FbRootLeast`, `FwRootLeast`) is by the least index of a smaller one, which cannot have an ancestor.

**Pairing heaps.** The ghost is a forest (`Forestry` of `PairingProofs`): a function that gives each node its parent, or none,
of which no set of nodes is its own parents (`Rooted`), whose parentless nodes are the root of each heap and the node that the call works on.
It says nothing of links, so that what calls do to
it is proved once for all kinds: one lemma per call or end of a call (`SetupEffect`, `InsertEffect`, `MergeEffect`, `EnterEffect`, `DropEffect`,
`RemoveEffect`, `JoinEffect`, `AloneEffect`) and per iteration (`TwinEffect`, `PassEffect`, `FoldEffect`). The heaps are apart and counted, no node
precedes its parent but those below a node whose key has changed, and while its children are merged they are divided
into those that are left (`C`), those that have been merged (`A`) and the one that waits. The links follow
the forest when the children of each node are strung from its first one (`HprLinked`, `PprLinked`): each is
met once from there and the last one leads to the end (`Strung`). In pprheap each also points back to what
leads to it, which is all that detaching a node relies on. In dprheap (`DprLinked` of `HeapsProofs`) each is in a ring
with the head that its parent has for it (`Ring`), forth by `next` and back by `prev`. The links that the
first pass has followed lead nowhere any more: what it joins goes in another ring, around `Stack`, and of the former ring there only
remains the string from `cursor` to its head. The second pass does the same of that ring: it needs no more than the
string from `cursor` to `Stack`. What the properties reach by
following links, through recursive functions, is what is below in the forest (`HprTrees`, `HprLeft`, `PprTrees`, `PprForests`, `DprForests`), of which
`NothingLost` is a count, and an iteration takes at least one tree out of what is left (`PassesAdvance`).
That the children of dprheap are rings is read by steps of `DlistOps` (`StepsWalk`): from a node of a ring, as many steps as
there are cells come back to it (`RingReturns`, `Walks`). `PairingQueues` needs no more than the forest: what a call does to
`content`, `key` and `out` is one of a bounded priority queue (`QueueExtract` and its like), because a root that no node below precedes is
a least element, and because nodes only leave the heap that they are in.
Of pprheap the theorems assume the internal assertions, as the run does: the detached node is then pointed to once (section 5).

**Search.** While a bisection goes on (`Narrowing`), every key before `min` is less than the wanted one and
every key from `max` on is greater, `min` being less than `max`, so that the index in the middle is within the array.
That the array is sorted is the assumption of the module on the calls that search.

**Quick sorts.** `StackShallow` is a bound on the length of the stack; what is inductive is `Halved`: the size of
the range in hand, times two to the power of the number of ranges that wait, does not exceed the length of the array, and the
same holds of each range that waits with those below it. It needs of each partition that it ends within its
range, and leaves two sides that do not meet (`RecurseStep`), which is not obvious since the searches it makes have no bound in the code: they
stop at sentinels. The invariant of each partition says which. In Hoare's (`HoarePart`) they are the two elements last
exchanged, the first of them being in place thanks to the median of three (`MedianFacts`); in Dijkstra's only the first two searches need
one, the median itself; in Bentley and McIlroy's (`BentleyPart`) one on each side, and what was gathered at the ends is known not to have left
the wrong side, since it is exchanged again (`BentleyNext`, `SwapRangeFacts`). That both searches of the latter cross by one at most
is what makes both sides disjoint.

**Merge sort of arrays.** `CopiesHarmless` is about the next copies alone; the inductive invariant (`MergeOn`) is about every
call that waits. A call to sort has a result apart from its source (`SortTasks`); a call to merge has one
of its runs at the end of where both go and the other apart from it (`InShape`), which `SplitFacts` shows of the halves, and
`MergeRunsStep` of what is left of the runs after each iteration: what is taken of the one that is apart moves the start of the result
towards the other, and what is taken of the other leaves the distance as it is. The copies follow
(`RunsHarmless`). An iteration stays within the runs only if it compares elements, and the buffer holds none at the start: the
invariant has also that the second run of a merge that waits is filled, or is where a call before it in the stack,
or the one that runs, leaves its result (`Awaited`).

**Messages.** The invariant is that the window lies within the area; the rest is that the bytes of a window
split where the window is cut (`BytesSplit`), and that writing some leaves the others (`FilledBytes`).

**Bitmaps.** A call on a bmap is one on the bits that its mask stands for, which is what
there is to prove of a mask shifted right then left (`BmapMaskIsRange`). In an fbmap a bit is a word and a place in it
(`FbmapPlace`, `FbmapPrecedes` for their order), and a range is what it hits in the first word, in the
last one and in those between (`FbmapHit`), garbage past the end being hit by none. The weight is a sum
over words: the partial sums count the bits of the words so far (`RunningSum`, `FbmapWeighs`), with cardinalities of disjoint unions.
A loop over a bmap has a word of which a suffix is left; one over an fbmap has a copy of its current word, taken when
it got there, and words it has not reached that calls may change. Their invariants (`BmapLoop`, `FbmapLoop`) divide
the bits that are wanted among those seen, in order, those of the copy and those of later words, but for
the bits changed while the loop runs. The case where a bmap holds its most significant bit
alone is excluded by `LoopsComplete` itself, see section 5.

**Powers of two and alignment.** `Pow2UpAlwaysLeast` bounds the sum that `stroll_pow2_up32()` takes the logarithm of,
and `AlignUpperAlwaysExact` the one that rounds up, by the width of a word, so that neither wraps or, for the latter,
wraps to null just when no multiple is left.

**Induction.** The provers have no induction rule that applies to a predicate, but they have sets: `LeastElement` of
`NatFacts` says that a set of natural numbers that is not empty has a least element, `NatSet` that one that holds 0 and
each successor holds them all, and `Recursion` that a function over the naturals that is defined by recursion is what
its equation says. An induction is then a statement about the set of the numbers for
which the claim holds. Powers of two are `Two` of `Pow2`, a recursive function, because
the provers know nothing of `^`; `Pow2`, `FbHeap`, `FwHeap` compute with it.

**Only model-checked.** Of the linked heaps (`MCHeaps`), those of drpheap and dbnheap: `RanksSound`, `NoTreeLost` and `HeapsSpec` for them;
the rest of the sorts (`MCSorts`: `SortedStably`, `NothingLost`, `RunsInOrder`); liveness under fairness (`CallsReturn`, `SortEnds`),
which is beyond TLAPS, as is `ENABLED`.

## 5. Where code and documentation disagree

* `palloc_rounding`: `stroll_palloc_init_from_mem()` is documented to round the
  chunk size up (`include/stroll/palloc.h:211`); it does not, and only an
  optional assertion catches an unaligned size.
* `fwheap_root`: a heap built from a single element leaves the reverse bit of its root
  uninitialised (`src/fwheap.c:921`); an insertion that follows may look for an
  ancestor of the root, against the assertion of `stroll_fwheap_dancestor()`.
  The `arrayheaps` run shows what this does not break: the order and the queue still
  hold, since the search happens to come back to the root.
* `pprheap_detach`: a node that was promoted or demoted keeps a stale pointer to its
  former right sibling (`src/pprheap.c:304`). Once the node is the root, that
  sibling may become its first child, and removing, promoting or demoting the
  sibling fails an internal assertion, or, without internal assertions, leaves it
  reachable. The `heaps` run is made with
  the assertions on, `AssertIntern = TRUE`: what it shows of pprheap holds as long as the
  program has not aborted. With `AssertIntern = FALSE`, `TreesSound` is violated.
* `drpheap_fall`: `stroll_drpheap_base_promote()` leaves its rank to the inner node it makes a root
  (`src/drpheap.c:626`), where its comment (`src/drpheap.c:606`) makes it one more than the left child's.
  From such ranks, the assertion `rank < pnode->rank` of `stroll_drpheap_remove_node()`
  (`src/drpheap.c:560`) can fail. Nine nodes and fifteen calls are needed, so the run follows one
  client, `Script` of `MCHeaps`, rather than all of them. Without internal assertions the rank grows
  and the heap goes on; `heaps` shows that order, contents and pointers do not depend on ranks.
* `array_stability`: the merge sort of arrays is documented as stable (`src/sphinx/api.rst:610`). When the last element of the
  second run compares lower than or *equal to* the first one of the first run, the
  second is copied first (`src/array.c:1770`): equal elements change places. Only the build that looks for whole runs does so,
  and `sorts` shows that the other one is stable.
* `bmap_loop`: a loop over the bits of a word shifts it by the index of the bit found, which is the width of the
  word when that is the most significant bit alone (`include/stroll/bmap.h:2583`). Where this leaves the word as it was, the loop
  never ends and yields bits that do not exist, against "iterate over bits set in" the bitmap
  (`include/stroll/bmap.h:2612`). `words` shows that the loops are right otherwise.

Three more were met while modelling, and show without a run.
`stroll_lalloc_fini()` is documented to release all chunks
(`include/stroll/lalloc.h:194`); it walks the free chain, so those the client holds are not released,
unlike with falloc and palloc (`kept` of `Lalloc` records them, and `NothingLost` says that nothing else remains).
The selection sort of dlist compares the first node left with itself at every
round (`src/dlist.c:157`), where its documentation promises distinct nodes
to `compare()` (`include/stroll/dlist.h:1128`); the order obtained does not depend on it.
`stroll_hlist_append_node()` asks for a node that was initialised to append after (`include/stroll/hlist.h:182`). If it is
in no list, it gets a successor while it still points back to itself, which the assertion of `stroll_hlist_node_hashed()` rules out.

## 6. Not modelled, and the plan

Not modelled at all: `page.c` (a constant read at load time), `assert.c`
(reports and aborts), `hash.h` (multiplications that promise no more than to spread values), `htable.h`
(unfinished: it does not compile and is not installed), most of `cdefs.h`
(attributes and compile time checks), tests and benchmarks.

Two hazards have no property. The product of the number of chunks and of their size at `src/palloc.c:72`
may wrap around `SIZE_MAX`, for arguments that no instance here can
reach; `1U << bits` at `src/hlist.c:12` is undefined for the 32 bits that its assertion lets
through, which is a matter of reading.

What is left:

1. proofs about dbnheap and drpheap, whose trees are forests too, with an order or a rank for each: `RanksSound` and
   `NoTreeLost`, then `HeapsSpec`;
2. the other properties of sorts, `RunsInOrder` and then `SortedStably`, for arrays from `QuickOn` and `MergeOn`, which
   give the ranges, and for lists from ghost sequences;
3. heaps of 6 nodes, where the second pass of a pairing heap iterates: out of reach of a
   few minutes today.
