---------------------------------- MODULE Pmm ----------------------------------
(***************************************************************************)
(* The physical memory manager, mem/pmm.c: a bitmap with one bit per page  *)
(* frame, built from the firmware's memory map, a first-fit search over    *)
(* its words that starts at the word where the last one ended, and         *)
(* releases.  A frame is its index; addresses are multiples of PAGE_SIZE   *)
(* (the firmware's descriptors and the framebuffer are page aligned).      *)
(* pmm_getFrame(s) is not interrupted by another caller: only the boot     *)
(* processor allocates, with interrupts off or from code no handler of     *)
(* which allocates, so a call is one step.                                 *)
(***************************************************************************)
EXTENDS Integers, FiniteSets, FiniteSetsExt, Functions

CONSTANTS W,           \* g_bitmapElementSize: bits in a word of the bitmap
          WordBytes,   \* sizeof(*g_bitmap)
          PAGE_SIZE,
          Maps,        \* the memory maps a machine may report
          Counts       \* the numbers of frames callers ask for

(* A memory map: its descriptors (in pages), the first page and the size in *)
(* bytes of the framebuffer, and the end address of the kernel.             *)
Descriptor == [start : Nat, pages : Nat, free : BOOLEAN]

ASSUME PmmAssumption ==
    /\ W \in Nat \ {0} /\ WordBytes \in Nat \ {0} /\ PAGE_SIZE \in Nat \ {0}
    /\ Counts \subseteq Nat \ {0}
    /\ \A m \in Maps : /\ \A i \in DOMAIN m.desc : m.desc[i] \in Descriptor
                       /\ m.fbStart \in Nat /\ m.fbSize \in Nat /\ m.kernelEnd \in Nat

VARIABLES map,          \* the memory map in use
          used,         \* the frames whose bit is set
          lastFound,    \* g_lastFoundBitmap
          blocks,       \* the blocks callers hold: records [at, len]
          failed,       \* the count of the last call if it failed, else 0
          panicked      \* an assertion has failed

vars == <<map, used, lastFound, blocks, failed, panicked>>
--------------------------------------------------------------------------------
(* RNDUP and RNDWN of common.h, each of which rounds the other way.         *)
RNDUP(num, nm) == IF num < nm THEN nm ELSE (num \div nm) * nm
RNDWN(num, nm) == ((num + nm - 1) \div nm) * nm

(* The frames that pmm_reserveRegion sets and pmm_unreserveRegion clears.   *)
ReservedBy(start, pc) ==
    {(RNDWN(start, PAGE_SIZE) + i * PAGE_SIZE) \div PAGE_SIZE : i \in 0 .. pc - 1}

UnreservedPast(start, pc) ==
    {(start + i * PAGE_SIZE) \div PAGE_SIZE : i \in 0 .. pc}

UnreservedBy(start, pc) ==
    {(RNDUP(start, PAGE_SIZE) + i * PAGE_SIZE) \div PAGE_SIZE : i \in 0 .. pc - 1}

Pages(m) == MapThenSumSet(LAMBDA i : m.desc[i].pages, DOMAIN m.desc)

(* pmm_getMemorySize: the sum is a number of pages.                         *)
ASSUME PagesAssumption == \A m \in Maps : Pages(m) \in Nat

(* g_bitmapSize, in words, and the bits the bitmap has.                     *)
g_bitmapSize(m) == Pages(m) \div W

Frames(m) == 0 .. g_bitmapSize(m) * W - 1

FreeDescs(m) == {i \in DOMAIN m.desc : m.desc[i].free}

(* The descriptor the bitmap is placed in: the first of the largest.        *)
Largest(m) ==
    CHOOSE i \in FreeDescs(m) : \A j \in FreeDescs(m) :
        \/ m.desc[j].pages < m.desc[i].pages
        \/ m.desc[j].pages = m.desc[i].pages /\ i <= j

BitmapBytes(m) == g_bitmapSize(m) * WordBytes

(* What pmm_init leaves free: the free regions, less the bitmap, the        *)
(* framebuffer and the kernel.  Bits outside the bitmap are not its own.    *)
Kernel(m) == ReservedBy(0, m.kernelEnd \div PAGE_SIZE + 1)

Framebuffer(m) == ReservedBy(m.fbStart * PAGE_SIZE, m.fbSize \div PAGE_SIZE)

Bitmap(m) == ReservedBy(m.desc[Largest(m)].start * PAGE_SIZE, BitmapBytes(m) \div PAGE_SIZE)

InitiallyFree(m) ==
    (UNION {UnreservedBy(m.desc[i].start * PAGE_SIZE, m.desc[i].pages) : i \in FreeDescs(m)})
       \ (Bitmap(m) \cup Framebuffer(m) \cup Kernel(m))

(* pmm_init and its two assertions.                                         *)
Init ==
    /\ map \in Maps
    /\ used = Frames(map) \ InitiallyFree(map)
    /\ lastFound = 0
    /\ blocks = {}
    /\ failed = 0
    /\ panicked = ~ (/\ FreeDescs(map) # {}
                     /\ BitmapBytes(map) < map.desc[Largest(map)].pages)
--------------------------------------------------------------------------------
Word(i) == i * W .. i * W + W - 1

(* The frames that getFrames looks at: those of the words from the given    *)
(* one on, except words that are completely used.                           *)
Visited(from) ==
    UNION {Word(i) : i \in {j \in from .. g_bitmapSize(map) - 1 : ~ Word(j) \subseteq used}}

(* The searches that succeed: first and last frame of a run of count free   *)
(* frames with no used frame among those looked at in between.              *)
Runs(from, count) ==
    {r \in Visited(from) \X Visited(from) :
       /\ Cardinality(Visited(from) \cap (r[1] .. r[2])) = count
       /\ (Visited(from) \cap (r[1] .. r[2])) \cap used = {}}

(* The run at which the scan stops: the first to be complete.               *)
FirstRun(from, count) ==
    CHOOSE r \in Runs(from, count) : \A s \in Runs(from, count) : r[2] <= s[2]

(* Where the search ends: from g_lastFoundBitmap on, or, if that fails,     *)
(* from the first word.                                                     *)
StartsOnce(count) == lastFound

Starts(count) == IF Runs(lastFound, count) # {} THEN lastFound ELSE 0

(* The frames pmm_getFrames marks: count of them from the first of the run. *)
Granted(r, count) == r[1] .. r[1] + count - 1

pmm_getFrames(count) ==
    /\ ~panicked
    /\ IF Runs(Starts(count), count) # {}
       THEN \E r \in {FirstRun(Starts(count), count)} :
              /\ used' = used \cup Granted(r, count)
              /\ blocks' = blocks \cup {[at |-> r[1], len |-> count]}
              /\ lastFound' = r[2] \div W
              /\ failed' = 0
       ELSE /\ lastFound' = 0
            /\ failed' = count
            /\ UNCHANGED <<used, blocks>>
    /\ UNCHANGED <<map, panicked>>

(* The assertion of pmm_releaseFrames, which compares a frame with the      *)
(* number of words.                                                         *)
Releasable(index) == index <= g_bitmapSize(map)

ReleasedNext(b) == b.at + 1 .. b.at + b.len

Released(b) == b.at .. b.at + b.len - 1

(* A caller releases a block it holds.                                      *)
pmm_releaseFrames(b) ==
    /\ ~panicked
    /\ failed' = 0
    /\ IF Releasable(b.at)
       THEN /\ lastFound' = b.at
            /\ used' = used \ Released(b)
            /\ blocks' = blocks \ {b}
            /\ UNCHANGED panicked
       ELSE /\ panicked' = TRUE
            /\ UNCHANGED <<used, lastFound, blocks>>
    /\ UNCHANGED map

Next ==
    \/ \E count \in Counts : pmm_getFrames(count)
    \/ \E b \in blocks : pmm_releaseFrames(b)

Spec == Init /\ [][Next]_vars
--------------------------------------------------------------------------------
FramesOf(b) == b.at .. b.at + b.len - 1

TypeOK ==
    /\ map \in Maps
    /\ used \subseteq Frames(map)
    /\ lastFound \in 0 .. g_bitmapSize(map)
    /\ blocks \subseteq [at : Frames(map), len : Counts]
    /\ failed \in Counts \cup {0}
    /\ panicked \in BOOLEAN

(* No frame is granted twice, leaked or freed behind its holder's back:     *)
(* over any sequence of calls of pmm_getFrames and pmm_releaseFrames the    *)
(* blocks that callers hold are disjoint, and the bitmap is exactly what    *)
(* pmm_init reserved together with those blocks.                            *)
NoOverlap ==
    \A b, c \in blocks : b # c => FramesOf(b) \cap FramesOf(c) = {}

Exact ==
    /\ TypeOK /\ NoOverlap
    /\ UNION {FramesOf(b) : b \in blocks} \subseteq InitiallyFree(map)
    /\ used = (Frames(map) \ InitiallyFree(map)) \cup UNION {FramesOf(b) : b \in blocks}

(* Only usable memory is granted: never a frame outside the free regions of *)
(* the memory map, of the kernel or of the framebuffer, although RNDUP      *)
(* shifts a region that starts at address 0 up by a page.  In particular    *)
(* frame 0, whose address is the failure value NULL, is never granted.      *)
RegionFrames(m) ==
    UNION {m.desc[i].start .. m.desc[i].start + m.desc[i].pages - 1 : i \in FreeDescs(m)}

UsableOnly ==
    \A b \in blocks : \A f \in FramesOf(b) :
        /\ f \in RegionFrames(map)
        /\ f * PAGE_SIZE > map.kernelEnd
        /\ f \notin map.fbStart .. map.fbStart + (map.fbSize - 1) \div PAGE_SIZE

(* pmm_getFrames returns NULL only if no run of that many free frames       *)
(* exists anywhere in the bitmap, wherever the search happened to start.    *)
FailsOnlyWhenNone ==
    failed # 0 => \A f \in Frames(map) :
        f + failed - 1 \in Frames(map) => (f .. f + failed - 1) \cap used # {}

================================================================================
