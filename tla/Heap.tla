-------------------------------- MODULE Heap --------------------------------
(***************************************************************************)
(* The kernel heap (src/kernel/src/mem/heap.c): a bucketed free-list       *)
(* allocator.  The arena is tiled by chunks.  A chunk starts with a header *)
(* of HEADER_SIZE bytes and is named here by the address of that header,   *)
(* relative to the start of the arena.  All chunks form a doubly linked    *)
(* ring in address order (Chunk_t.all), which also gives a chunk its size: *)
(* the distance to the next one.  Free chunks are on the free list of      *)
(* their size class (g_freeChunks); every operation runs under g_lock.     *)
(***************************************************************************)
EXTENDS Integers, Sequences, FiniteSets, Functions

CONSTANTS
  HeapSize,     \* memEnd - memStart in heap_init
  ALIGN,        \* requests are rounded up to a multiple of this
  MIN_SIZE,     \* smallest payload: room for the free-list links
  HEADER_SIZE,  \* offset of the payload in Chunk_t
  SizeofChunk,  \* sizeof(Chunk_t): header and free-list links
  NUM_SIZES,    \* number of free lists
  SlotFloor,    \* SlotFloor[n] = 2^n, the least size of size class n
  Sizes,        \* the request sizes of the callers
  None          \* no krealloc in progress / no new chunk yet

\* g_first, second and g_last of heap_init: two used sentinels that bound the
\* arena, and between them the one free chunk the heap starts with.
g_first == 0
second  == SizeofChunk
g_last  == HeapSize - SizeofChunk

\* memory_chunk_slot: the number of times size can be halved before it is 0,
\* less one, that is the largest n with 2^n <= size, and -1 for size 0.
memory_chunk_slot(size) ==
  Cardinality({n \in DOMAIN SlotFloor : SlotFloor[n] <= size}) - 1

ASSUME HeapAssumption ==
  /\ HeapSize \in Nat /\ ALIGN \in Nat \ {0} /\ MIN_SIZE \in Nat \ {0}
  /\ HEADER_SIZE \in Nat \ {0} /\ SizeofChunk = HEADER_SIZE + MIN_SIZE
  /\ g_last >= second + SizeofChunk
  /\ NUM_SIZES \in Nat \ {0}
  /\ IsFiniteSet(DOMAIN SlotFloor) /\ \A n \in DOMAIN SlotFloor : SlotFloor[n] \in Nat
  /\ 0 \in DOMAIN SlotFloor /\ SlotFloor[0] <= MIN_SIZE
  /\ memory_chunk_slot(HeapSize) < NUM_SIZES
  /\ Sizes \subseteq Nat
  /\ None \notin Int
  /\ None \notin [old : Int, chunkSize : Int, ns : Nat, ptr : Int \cup {None}]

Slots == 0 .. NUM_SIZES - 1

VARIABLES
  next, prev,   \* Chunk_t.all of every chunk: the ring of all chunks
  used,         \* Chunk_t.used
  freeChunks,   \* g_freeChunks: one list per size class, its head first
  owned,        \* the chunks the callers hold, each with the size asked for
  re,           \* the krealloc in progress
  overrun       \* a memcpy has written past the end of its chunk

vars == <<next, prev, used, freeChunks, owned, re, overrun>>

chunks == DOMAIN next

Init ==
  /\ next = [c \in {g_first, second, g_last} |->
               IF c = g_first THEN second ELSE IF c = second THEN g_last ELSE g_first]
  /\ prev = [c \in {g_first, second, g_last} |->
               IF c = g_first THEN g_last ELSE IF c = second THEN g_first ELSE second]
  /\ used = [c \in {g_first, second, g_last} |-> c # second]
  /\ freeChunks = [n \in Slots |->
       IF n = memory_chunk_slot(g_last - second - HEADER_SIZE) THEN <<second>> ELSE <<>>]
  /\ owned = [c \in {} |-> 0]
  /\ re = None
  /\ overrun = FALSE
-----------------------------------------------------------------------------
\* memory_chunk_size, in the ring whose next links are nx.
SizeIn(nx, c) == nx[c] - c - HEADER_SIZE
memory_chunk_size(c) == SizeIn(next, c)

\* dlist_insert_after(&c->all, &d->all) for a chunk d outside the ring.
InsertAfter(nx, c, d) ==
  [a \in DOMAIN nx \cup {d} |-> IF a = c THEN d ELSE IF a = d THEN nx[c] ELSE nx[a]]
InsertAfterBack(nx, pv, c, d) ==
  [a \in DOMAIN pv \cup {d} |-> IF a = d THEN c ELSE IF a = nx[c] THEN d ELSE pv[a]]

\* Mutant of Unlink: the previous chunk keeps its link to the removed one.
\* dlist_remove(&d->all): the chunk leaves the ring.
Unlink(nx, pv, d) ==
  [a \in DOMAIN nx \ {d} |-> IF a = pv[d] THEN nx[d] ELSE nx[a]]
UnlinkBack(nx, pv, d) ==
  [a \in DOMAIN pv \ {d} |-> IF a = nx[d] THEN pv[d] ELSE pv[a]]

\* dlist_remove_from takes an element out of a list and keeps the others' order.
Without(s, c) ==
  LET i == CHOOSE i \in DOMAIN s : s[i] = c
  IN  [j \in 1 .. Len(s) - 1 |-> IF j < i THEN s[j] ELSE s[j + 1]]

\* Mutant of push_free: dlist_push without its dlist_insert_before.
push_free_unlinked(lists, c, len) ==
  [lists EXCEPT ![memory_chunk_slot(len)] = <<c>>]

\* push_free and remove_free of chunk c, whose size is len.
push_free(lists, c, len) ==
  [lists EXCEPT ![memory_chunk_slot(len)] = <<c>> \o @]
remove_free(lists, c, len) ==
  [lists EXCEPT ![memory_chunk_slot(len)] = Without(@, c)]
-----------------------------------------------------------------------------
\* Mutant of Rounded: rounds down to the alignment.
RoundedDown(size) ==
  LET a == (size \div ALIGN) * ALIGN IN IF a < MIN_SIZE THEN MIN_SIZE ELSE a

\* kmalloc's rounding of the size asked for.
Rounded(size) ==
  LET a == ((size + ALIGN - 1) \div ALIGN) * ALIGN
  IN  IF a < MIN_SIZE THEN MIN_SIZE ELSE a

\* kmalloc looks at the lists from this size class upwards ...
FirstSlot(size) == memory_chunk_slot(size - 1) + 1

\* ... and finds a chunk if one of them is not empty.
Candidates(size) ==
  LET from == FirstSlot(size) IN {n \in Slots : n >= from /\ freeChunks[n] # <<>>}

\* kmalloc pops the head c of the first list n that is not empty.
Popped(size, n, c) ==
  /\ \A m \in Candidates(size) : n <= m
  /\ c = Head(freeChunks[n])

\* Mutant of Splits: the rest need only hold a header.
SplitsAtHeader(size, c) == size + HEADER_SIZE <= memory_chunk_size(c)

\* The chunk is cut in two if the rest can hold a chunk.
Splits(size, c) == size + SizeofChunk <= memory_chunk_size(c)

\* kmalloc hands out the popped chunk as it is ...
TakeWhole(size, n, c) ==
  /\ Popped(size, n, c)
  /\ ~Splits(size, c)
  /\ used' = [used EXCEPT ![c] = TRUE]
  /\ freeChunks' = [freeChunks EXCEPT ![n] = Tail(@)]
  /\ UNCHANGED <<next, prev>>

\* Mutant of Chunk2: the header of the first part is forgotten.
Chunk2NoHeader(c, size) == c + size

\* ... or cuts it in two, the second part starting here ...
Chunk2(c, size) == c + HEADER_SIZE + size

\* ... and frees the rest.
TakeSplit(size, n, c) ==
  LET chunk2 == Chunk2(c, size)
  IN  /\ Popped(size, n, c)
      /\ Splits(size, c)
      /\ next' = InsertAfter(next, c, chunk2)
      /\ prev' = InsertAfterBack(next, prev, c, chunk2)
      /\ used' = [a \in chunks \cup {chunk2} |->
                    IF a = chunk2 THEN FALSE ELSE IF a = c THEN TRUE ELSE used[a]]
      /\ freeChunks' = push_free([freeChunks EXCEPT ![n] = Tail(@)],
                                 chunk2, SizeIn(next', chunk2))

Take(size, n, c) == TakeWhole(size, n, c) \/ TakeSplit(size, n, c)

\* Mutant of AbsorbNext: kfree does not look at the next chunk.
AbsorbNothing(c) == [next |-> next, prev |-> prev, lists |-> freeChunks]

\* kfree takes a free next chunk off its list and out of the ring, so that c
\* reaches up to the one after it.
AbsorbNext(c) ==
  LET nx == next[c]
  IN  IF used[nx] THEN [next |-> next, prev |-> prev, lists |-> freeChunks]
      ELSE [next  |-> Unlink(next, prev, nx),
            prev  |-> UnlinkBack(next, prev, nx),
            lists |-> remove_free(freeChunks, nx, memory_chunk_size(nx))]

\* kfree: then a free previous chunk absorbs c and moves to its new size class,
\* or else c itself becomes free.
Release(c) ==
  LET h == AbsorbNext(c)
      pv == prev[c]
  IN  \/ /\ ~used[pv]
         /\ next' = Unlink(h.next, h.prev, c)
         /\ prev' = UnlinkBack(h.next, h.prev, c)
         /\ freeChunks' = push_free(remove_free(h.lists, pv, SizeIn(h.next, pv)),
                                    pv, SizeIn(next', pv))
         /\ used' = [a \in DOMAIN next' |-> used[a]]
      \/ /\ used[pv]
         /\ next' = h.next
         /\ prev' = h.prev
         /\ freeChunks' = push_free(h.lists, c, SizeIn(next', c))
         /\ used' = [a \in DOMAIN next' |-> IF a = c THEN FALSE ELSE used[a]]
-----------------------------------------------------------------------------
\* kmalloc, and kcalloc which only clears the payload, called with this size.
kmalloc(size) ==
  /\ ~overrun
  /\ \E n \in Candidates(Rounded(size)) : \E c \in {Head(freeChunks[n])} :
       /\ Take(Rounded(size), n, c)
       /\ owned' = [a \in DOMAIN owned \cup {c} |-> IF a = c THEN size ELSE owned[a]]
  /\ UNCHANGED <<re, overrun>>

\* kfree of a pointer kmalloc returned and that was not freed since.
kfree(c) ==
  /\ ~overrun
  /\ re # None => c # re.old
  /\ Release(c)
  /\ owned' = [a \in DOMAIN owned \ {c} |-> owned[a]]
  /\ UNCHANGED <<re, overrun>>

\* krealloc reads the size of the old chunk under the lock ...
krealloc(c, ns) ==
  /\ ~overrun
  /\ re = None
  /\ re' = [old |-> c, chunkSize |-> memory_chunk_size(c), ns |-> ns, ptr |-> None]
  /\ UNCHANGED <<next, prev, used, freeChunks, owned, overrun>>

\* ... calls kmalloc for the new size, and returns NULL if that fails ...
krealloc_kmalloc ==
  /\ ~overrun
  /\ re # None /\ re.ptr = None
  /\ \/ /\ Candidates(Rounded(re.ns)) = {}
        /\ re' = None
        /\ UNCHANGED <<next, prev, used, freeChunks>>
     \/ \E n \in Candidates(Rounded(re.ns)) : \E c \in {Head(freeChunks[n])} :
          /\ Take(Rounded(re.ns), n, c)
          /\ re' = [re EXCEPT !.ptr = c]
  /\ UNCHANGED <<owned, overrun>>

\* ... copies chunkSize bytes to the new chunk and frees the old one.
krealloc_kfree ==
  /\ ~overrun
  /\ re # None /\ re.ptr # None
  /\ re.chunkSize <= memory_chunk_size(re.ptr)
  /\ Release(re.old)
  /\ owned' = [a \in (DOMAIN owned \ {re.old}) \cup {re.ptr} |->
                 IF a = re.ptr THEN re.ns ELSE owned[a]]
  /\ re' = None
  /\ UNCHANGED overrun

\* The copy is longer than the new chunk: it overwrites the header behind it,
\* and nothing can be said about the heap from here on.
krealloc_overrun ==
  /\ ~overrun
  /\ re # None /\ re.ptr # None
  /\ re.chunkSize > memory_chunk_size(re.ptr)
  /\ overrun' = TRUE
  /\ UNCHANGED <<next, prev, used, freeChunks, owned, re>>

Corrupted == overrun /\ UNCHANGED vars

Next ==
  \/ \E size \in Sizes : kmalloc(size)
  \/ \E c \in DOMAIN owned : kfree(c)
  \/ \E c \in DOMAIN owned, ns \in Sizes : krealloc(c, ns)
  \/ krealloc_kmalloc
  \/ krealloc_kfree
  \/ krealloc_overrun
  \/ Corrupted

Spec == Init /\ [][Next]_vars
-----------------------------------------------------------------------------
Payloads == chunks \ {g_first, g_last}
FreeChunks == {c \in chunks : ~used[c]}

\* The chunk a krealloc has got from kmalloc and not yet returned.
Pending == IF re = None \/ re.ptr = None THEN {} ELSE {re.ptr}

\* The shape of the state.
TypeOK ==
  /\ chunks \subseteq 0 .. HeapSize
  /\ next \in [chunks -> chunks] /\ prev \in [chunks -> chunks]
  /\ used \in [chunks -> BOOLEAN]
  /\ freeChunks \in [Slots -> Seq(chunks)]
  /\ DOMAIN owned \subseteq chunks /\ \A c \in DOMAIN owned : owned[c] \in Sizes
  /\ overrun \in BOOLEAN
  /\ re = None \/ re \in [old : chunks, chunkSize : Int, ns : Sizes, ptr : chunks \cup {None}]

\* A ring of chunks in address order from g_first to g_last and back, in which
\* every chunk below g_last has room for the header and the free-list links.
Ring(nx, pv) ==
  /\ {g_first, g_last} \subseteq DOMAIN nx
  /\ DOMAIN nx \subseteq g_first .. g_last
  /\ nx[g_last] = g_first
  /\ \A c \in DOMAIN nx : pv[nx[c]] = c /\ nx[pv[c]] = c
  /\ \A c \in DOMAIN nx \ {g_last} :
       c + SizeofChunk <= nx[c] /\ \A d \in DOMAIN nx : d <= c \/ nx[c] <= d

\* Chunk_t.all: the ring visits the chunks in address order, prev undoes next,
\* and no payload is smaller than the free-list links or overlaps a header.
\* The sentinels stay used, so kfree never coalesces across the arena's ends.
ChunksTile ==
  /\ Ring(next, prev)
  /\ used[g_first] /\ used[g_last]

\* The lists hold each chunk of F exactly once, on the list of its size class.
Exact(lists, nx, F) ==
  \A n \in Slots :
    /\ Range(lists[n]) = {c \in F : memory_chunk_slot(SizeIn(nx, c)) = n}
    /\ \A i, j \in DOMAIN lists[n] : lists[n][i] = lists[n][j] => i = j

\* g_freeChunks: every free chunk is exactly once on a list, that of its present
\* size class, and no other chunk is on any list.  kfree resizes chunks that are
\* on a list, so it has to take them off under the old size.
FreeListsExact == Exact(freeChunks, next, FreeChunks)

\* kfree coalesces: two neighbouring chunks are never both free, so when all
\* memory has been given back the heap is one chunk again.
Coalesced == \A c \in FreeChunks : used[next[c]]

\* A chunk is marked used exactly while a caller holds it, so kfree's
\* assert(chunk->used) holds for every pointer a caller may pass, no chunk
\* leaks, and no caller gets less than it asked for.
HeldAreUsed ==
  /\ {c \in Payloads : used[c]} = DOMAIN owned \cup Pending
  /\ DOMAIN owned \cap Pending = {}
  /\ \A c \in DOMAIN owned : memory_chunk_size(c) >= owned[c]
  /\ re # None => re.old \in DOMAIN owned /\ re.chunkSize = memory_chunk_size(re.old)
  /\ Pending # {} => memory_chunk_size(re.ptr) >= re.ns

\* krealloc's memcpy stays inside the chunk kmalloc returned.
CopyFits == ~overrun

\* The heap implements the allocator its callers rely on.
Blocks == {[at |-> c + HEADER_SIZE, len |-> memory_chunk_size(c)] :
             c \in {d \in Payloads : used[d]}}
Allocator == INSTANCE BlockAllocator
  WITH ArenaStart <- 0, ArenaEnd <- HeapSize, Requests <- Sizes, blocks <- Blocks
Implements == Allocator!Spec
=============================================================================
