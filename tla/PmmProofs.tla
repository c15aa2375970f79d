------------------------------- MODULE PmmProofs -------------------------------
(***************************************************************************)
(* Proofs about the physical memory manager, for requests of one frame and *)
(* every memory map, word size and page size.  Requests of several frames  *)
(* are not safe (NoOverlap is violated), which is why Counts = {1} is      *)
(* assumed wherever frames are granted.                                    *)
(***************************************************************************)
EXTENDS Pmm, FiniteSetTheorems, WellFoundedInduction, TLAPS

(* The size of the bitmap.                                                  *)
LEMMA Sizes ==
    ASSUME NEW m \in Maps
    PROVE  g_bitmapSize(m) \in Nat
<1>1. Pages(m) \in Nat /\ W \in Nat \ {0}
  BY PagesAssumption, PmmAssumption
<1> HIDE DEF Pages
<1>2. Pages(m) \div W \in Nat
  BY <1>1
<1> QED BY <1>2 DEF g_bitmapSize

(* Every frame lies in exactly one word of the bitmap.                      *)
LEMMA Division ==
    ASSUME NEW f \in Nat
    PROVE  /\ f \div W \in Nat
           /\ (f \div W) * W <= f
           /\ f <= (f \div W) * W + W - 1
<1>1. W \in Nat \ {0}
  BY PmmAssumption
<1> QED BY <1>1

LEMMA WordOfFrame ==
    ASSUME NEW m \in Maps, NEW f \in Frames(m)
    PROVE  /\ f \div W \in 0 .. g_bitmapSize(m) - 1
           /\ f \in Word(f \div W)
<1> DEFINE g == g_bitmapSize(m)  q == f \div W
<1>1. W \in Nat \ {0} /\ g \in Nat
  BY PmmAssumption, Sizes
<1>2. f \in 0 .. g * W - 1
  BY DEF Frames
<1>3. f \in Nat
  BY <1>1, <1>2
<1>4. q \in Nat /\ q * W <= f /\ f <= q * W + W - 1
  BY <1>3, Division
<1>5. f < g * W
  BY <1>1, <1>2
<1> HIDE DEF g, q
<1>6. q < g
  <2>1. SUFFICES ASSUME g <= q PROVE FALSE
    BY <1>1, <1>4
  <2>2. g * W <= q * W
    BY <1>1, <1>4, <2>1
  <2> QED BY <1>1, <1>3, <1>4, <1>5, <2>2
<1> QED BY <1>1, <1>3, <1>4, <1>6 DEF g, q, Word

LEMMA FramesOfWord ==
    ASSUME NEW m \in Maps, NEW i \in 0 .. g_bitmapSize(m) - 1, NEW f \in Word(i)
    PROVE  /\ f \in Frames(m)
           /\ f \div W \in 0 .. g_bitmapSize(m)
<1> DEFINE g == g_bitmapSize(m)  q == f \div W
<1>1. W \in Nat \ {0} /\ g \in Nat /\ i \in Nat /\ i + 1 <= g
  BY PmmAssumption, Sizes
<1> HIDE DEF g
<1>2. i * W \in Nat /\ (i + 1) * W <= g * W /\ (i + 1) * W = i * W + W
  BY <1>1
<1>3. f \in Nat /\ f < g * W
  BY <1>1, <1>2 DEF Word
<1>4. q \in Nat /\ q * W <= f
  BY <1>3, Division
<1> HIDE DEF q
<1>5. q < g
  <2>1. SUFFICES ASSUME g <= q PROVE FALSE
    BY <1>1, <1>4
  <2>2. g * W <= q * W
    BY <1>1, <1>4, <2>1
  <2> QED BY <1>1, <1>3, <1>4, <2>2
<1> QED BY <1>1, <1>3, <1>4, <1>5 DEF g, q, Frames
--------------------------------------------------------------------------------
(* The search looks at frames of the bitmap only.                           *)
LEMMA VisitedFrames ==
    ASSUME map \in Maps, NEW from \in Nat, NEW f \in Visited(from)
    PROVE  f \in Frames(map) /\ f \in Nat /\ f \div W \in 0 .. g_bitmapSize(map)
<1>1. PICK i \in from .. g_bitmapSize(map) - 1 : f \in Word(i)
  BY DEF Visited
<1>2. g_bitmapSize(map) \in Nat
  BY Sizes
<1>3. i \in 0 .. g_bitmapSize(map) - 1
  BY <1>1, <1>2
<1>4. f \in Frames(map) /\ f \div W \in 0 .. g_bitmapSize(map)
  BY <1>1, <1>3, FramesOfWord
<1>5. g_bitmapSize(map) * W \in Nat
  BY <1>2, PmmAssumption
<1> QED BY <1>4, <1>5 DEF Frames

(* A run of one frame begins with a free frame.                             *)
LEMMA RunOfOne ==
    ASSUME map \in Maps, NEW from \in Nat, NEW r \in Runs(from, 1)
    PROVE  /\ r[1] \in Frames(map) \ used
           /\ r[1] \in Nat
           /\ r[2] \div W \in 0 .. g_bitmapSize(map)
<1>1. /\ r[1] \in Visited(from) /\ r[2] \in Visited(from)
      /\ Cardinality(Visited(from) \cap (r[1] .. r[2])) = 1
      /\ (Visited(from) \cap (r[1] .. r[2])) \cap used = {}
  BY DEF Runs
<1>2. /\ r[1] \in Frames(map) /\ r[1] \in Nat /\ r[2] \in Nat
      /\ r[2] \div W \in 0 .. g_bitmapSize(map)
  BY <1>1, VisitedFrames
<1>3. r[1] <= r[2]
  <2>1. SUFFICES ASSUME r[2] < r[1] PROVE FALSE
    BY <1>2
  <2>2. Visited(from) \cap (r[1] .. r[2]) = {}
    BY <1>2, <2>1
  <2> QED BY <1>1, <2>2, FS_EmptySet
<1>4. r[1] \in r[1] .. r[2]
  BY <1>2, <1>3
<1> QED BY <1>1, <1>2, <1>4

(* The scan stops: of the runs there are, one is complete first.            *)
LEMMA FirstRunIsRun ==
    ASSUME map \in Maps, NEW from \in Nat, Runs(from, 1) # {}
    PROVE  FirstRun(from, 1) \in Runs(from, 1)
<1> DEFINE T == {r[2] : r \in Runs(from, 1)}
<1>1. \A r \in Runs(from, 1) : r[2] \in Nat
  <2> TAKE r \in Runs(from, 1)
  <2>1. r[2] \in Visited(from)
    BY DEF Runs
  <2> QED BY <2>1, VisitedFrames
<1>2. T \subseteq Nat /\ T # {}
  BY <1>1
<1>3. PICK x \in T : \A y \in T : ~ (<<y, x>> \in OpToRel(<, Nat))
  BY <1>2, WFMin, NatLessThanWellFounded, Zenon
<1>4. \A y \in T : ~ (y < x)
  BY <1>2, <1>3, Zenon DEF OpToRel
<1>5. PICK r \in Runs(from, 1) : x = r[2]
  BY <1>3
<1>6. ASSUME NEW s \in Runs(from, 1) PROVE r[2] <= s[2]
  <2>1. s[2] \in T /\ s[2] \in Nat /\ r[2] \in Nat
    BY <1>1
  <2>2. ~ (s[2] < r[2])
    BY <1>4, <1>5, <2>1
  <2> QED BY <2>1, <2>2
<1>7. \E q \in Runs(from, 1) : \A s \in Runs(from, 1) : q[2] <= s[2]
  BY <1>6
<1> QED BY <1>7 DEF FirstRun

(* If the scan of the whole bitmap finds nothing, every frame is used.      *)
LEMMA NoRunAllUsed ==
    ASSUME map \in Maps, Runs(0, 1) = {}
    PROVE  Frames(map) \subseteq used
<1> SUFFICES ASSUME NEW f \in Frames(map), f \notin used
             PROVE  FALSE
  OBVIOUS
<1> DEFINE i == f \div W
<1>1. i \in 0 .. g_bitmapSize(map) - 1 /\ f \in Word(i)
  BY WordOfFrame
<1> HIDE DEF i
<1>2. f \in Visited(0)
  <2>1. ~ Word(i) \subseteq used
    BY <1>1
  <2> QED BY <1>1, <2>1 DEF Visited
<1>3. f \in Nat
  BY <1>2, VisitedFrames
<1>4. Visited(0) \cap (f .. f) = {f}
  BY <1>2, <1>3
<1>5. Cardinality({f}) = 1
  BY FS_Singleton
<1>6. <<f, f>> \in Runs(0, 1)
  BY <1>2, <1>4, <1>5, Zenon DEF Runs
<1> QED BY <1>6
--------------------------------------------------------------------------------
(* Blocks of one frame.                                                     *)
LEMMA Singles ==
    ASSUME NEW bs, bs \subseteq [at : Nat, len : {1}]
    PROVE  /\ UNION {FramesOf(b) : b \in bs} = {b.at : b \in bs}
           /\ \A b, c \in bs : b # c => FramesOf(b) \cap FramesOf(c) = {}
<1>1. \A b \in bs : FramesOf(b) = {b.at} /\ b = [at |-> b.at, len |-> 1]
  <2> TAKE b \in bs
  <2>1. b \in [at : Nat, len : {1}]
    OBVIOUS
  <2>2. b.at \in Nat /\ b.len = 1 /\ b = [at |-> b.at, len |-> 1]
    BY <2>1
  <2>3. b.at .. b.at + 1 - 1 = {b.at}
    BY <2>2
  <2> QED BY <2>2, <2>3 DEF FramesOf
<1>2. \A b, c \in bs : b # c => b.at # c.at
  BY <1>1
<1>3. UNION {FramesOf(b) : b \in bs} = {b.at : b \in bs}
  BY <1>1
<1> QED BY <1>1, <1>2, <1>3

(* What Exact is about when all blocks have one frame.                      *)
Held(bs) == {b.at : b \in bs}

LEMMA HeldAdds ==
    ASSUME NEW bs, NEW b
    PROVE  Held(bs \cup {b}) = Held(bs) \cup {b.at}
  BY DEF Held

LEMMA NatFrames ==
    ASSUME NEW m \in Maps
    PROVE  Frames(m) \subseteq Nat
<1>1. g_bitmapSize(m) * W \in Nat
  BY Sizes, PmmAssumption
<1> QED BY <1>1 DEF Frames

LEMMA ExactOfHeld ==
    ASSUME Counts = {1}, TypeOK',
           Held(blocks') \subseteq InitiallyFree(map'),
           used' = (Frames(map') \ InitiallyFree(map')) \cup Held(blocks')
    PROVE  Exact'
<1>1. blocks' \subseteq [at : Nat, len : {1}]
  BY NatFrames DEF TypeOK
<1>2. /\ UNION {FramesOf(b) : b \in blocks'} = Held(blocks')
      /\ \A b, c \in blocks' : b # c => FramesOf(b) \cap FramesOf(c) = {}
  BY <1>1, Singles DEF Held
<1> QED BY <1>2 DEF Exact, NoOverlap, FramesOf

LEMMA HeldOfExact ==
    ASSUME Counts = {1}, Exact
    PROVE  /\ TypeOK
           /\ Held(blocks) \subseteq InitiallyFree(map)
           /\ used = (Frames(map) \ InitiallyFree(map)) \cup Held(blocks)
           /\ \A b, c \in blocks : b.at = c.at => b = c
<1>1. blocks \subseteq [at : Nat, len : {1}]
  BY NatFrames DEF Exact, TypeOK
<1>2. UNION {FramesOf(b) : b \in blocks} = Held(blocks)
  BY <1>1, Singles DEF Held
<1>3. \A b, c \in blocks : b.at = c.at => b = c
  <2> TAKE b \in blocks, c \in blocks
  <2>1. b = [at |-> b.at, len |-> 1] /\ c = [at |-> c.at, len |-> 1]
    BY <1>1
  <2> QED BY <2>1
<1> QED BY <1>2, <1>3 DEF Exact
--------------------------------------------------------------------------------
(* The steps.                                                               *)
LEMMA InitExact == Counts = {1} /\ Init => Exact /\ FailsOnlyWhenNone
<1> SUFFICES ASSUME Counts = {1}, Init PROVE Exact /\ FailsOnlyWhenNone
  OBVIOUS
<1>1. map \in Maps /\ lastFound = 0 /\ blocks = {} /\ failed = 0 /\ panicked \in BOOLEAN
  BY DEF Init
<1>2. used = Frames(map) \ InitiallyFree(map)
  BY DEF Init
<1>3. lastFound \in 0 .. g_bitmapSize(map)
  BY <1>1, Sizes
<1>4. TypeOK
  BY <1>1, <1>2, <1>3 DEF TypeOK
<1>5. UNION {FramesOf(b) : b \in blocks} = {} /\ NoOverlap
  BY <1>1 DEF NoOverlap
<1> QED BY <1>1, <1>2, <1>4, <1>5 DEF Exact, FailsOnlyWhenNone

(* pmm_getFrame: the frame was free, and it was looked for everywhere.      *)
LEMMA GrantStep ==
    ASSUME Counts = {1}, Exact, pmm_getFrames(1)
    PROVE  Exact' /\ FailsOnlyWhenNone'
<1>1. /\ TypeOK
      /\ Held(blocks) \subseteq InitiallyFree(map)
      /\ used = (Frames(map) \ InitiallyFree(map)) \cup Held(blocks)
  BY HeldOfExact
<1>2. map \in Maps /\ map' = map /\ panicked' = panicked /\ lastFound \in Nat
  BY <1>1 DEF TypeOK, pmm_getFrames
<1> DEFINE from == Starts(1)
<1>3. from \in Nat
  BY <1>2 DEF Starts
<1>4. CASE Runs(from, 1) # {}
  <2> DEFINE r == FirstRun(from, 1)
  <2>1. /\ used' = used \cup Granted(r, 1)
        /\ blocks' = blocks \cup {[at |-> r[1], len |-> 1]}
        /\ lastFound' = r[2] \div W
        /\ failed' = 0
    BY <1>4 DEF pmm_getFrames
  <2>2. r \in Runs(from, 1)
    BY <1>2, <1>3, <1>4, FirstRunIsRun
  <2>3. /\ r[1] \in Frames(map) \ used /\ r[1] \in Nat
        /\ r[2] \div W \in 0 .. g_bitmapSize(map)
    BY <1>2, <1>3, <2>2, RunOfOne
  <2> HIDE DEF r, from
  <2>4. Granted(r, 1) = {r[1]}
    BY <2>3 DEF Granted
  <2>5. TypeOK'
    BY <1>1, <1>2, <2>1, <2>3, <2>4 DEF TypeOK
  <2>6. Held(blocks') = Held(blocks) \cup {r[1]}
    <3>1. [at |-> r[1], len |-> 1].at = r[1]
      OBVIOUS
    <3> QED BY <2>1, <3>1, HeldAdds, Zenon
  <2>7. r[1] \in InitiallyFree(map)
    BY <1>1, <2>3
  <2>8. /\ Held(blocks') \subseteq InitiallyFree(map')
        /\ used' = (Frames(map') \ InitiallyFree(map')) \cup Held(blocks')
    BY <1>1, <1>2, <2>1, <2>4, <2>6, <2>7
  <2>9. Exact'
    BY <2>5, <2>8, ExactOfHeld
  <2> QED BY <2>1, <2>9 DEF FailsOnlyWhenNone
<1>5. CASE Runs(from, 1) = {}
  <2>1. lastFound' = 0 /\ failed' = 1 /\ used' = used /\ blocks' = blocks
    BY <1>5 DEF pmm_getFrames
  <2>2. from = 0
    BY <1>5 DEF Starts
  <2>3. Frames(map) \subseteq used
    BY <1>2, <1>5, <2>2, NoRunAllUsed
  <2>4. 0 \in 0 .. g_bitmapSize(map)
    BY <1>2, Sizes
  <2>5. TypeOK'
    BY <1>1, <1>2, <2>1, <2>4 DEF TypeOK
  <2>6. Exact'
    BY <1>1, <1>2, <2>1, <2>5, ExactOfHeld
  <2>7. \A f \in Frames(map) : (f .. f + 1 - 1) \cap used # {}
    <3> TAKE f \in Frames(map)
    <3>1. f \in Nat /\ f \in used
      BY <1>2, <2>3, NatFrames
    <3>2. f \in f .. f + 1 - 1
      BY <3>1
    <3> QED BY <3>1, <3>2
  <2> QED BY <1>2, <2>1, <2>6, <2>7 DEF FailsOnlyWhenNone
<1> QED BY <1>4, <1>5

(* pmm_releaseFrame: the frame of the block, and no other, is free again.   *)
LEMMA ReleaseStep ==
    ASSUME Counts = {1}, Exact, NEW b \in blocks, pmm_releaseFrames(b)
    PROVE  Exact' /\ FailsOnlyWhenNone'
<1>1. /\ TypeOK
      /\ Held(blocks) \subseteq InitiallyFree(map)
      /\ used = (Frames(map) \ InitiallyFree(map)) \cup Held(blocks)
      /\ \A c, d \in blocks : c.at = d.at => c = d
  BY HeldOfExact
<1>2. map \in Maps /\ map' = map /\ failed' = 0
  BY <1>1 DEF TypeOK, pmm_releaseFrames
<1>3. b.at \in Frames(map) /\ b.at \in Nat /\ b.len = 1
  <2>1. b \in [at : Frames(map), len : {1}]
    BY <1>1 DEF TypeOK
  <2> QED BY <1>2, <2>1, NatFrames
<1>4. CASE Releasable(b.at)
  <2>1. /\ lastFound' = b.at /\ used' = used \ Released(b)
        /\ blocks' = blocks \ {b} /\ panicked' = panicked
    BY <1>4 DEF pmm_releaseFrames
  <2>2. Released(b) = {b.at}
    BY <1>3 DEF Released
  <2>3. lastFound' \in 0 .. g_bitmapSize(map)
    BY <1>2, <1>3, <1>4, <2>1, Sizes DEF Releasable
  <2>4. TypeOK'
    BY <1>1, <1>2, <2>1, <2>3 DEF TypeOK
  <2>5. Held(blocks') = Held(blocks) \ {b.at}
    BY <1>1, <2>1 DEF Held
  <2>6. b.at \in InitiallyFree(map)
    BY <1>1 DEF Held
  <2>7. /\ Held(blocks') \subseteq InitiallyFree(map')
        /\ used' = (Frames(map') \ InitiallyFree(map')) \cup Held(blocks')
    BY <1>1, <1>2, <2>1, <2>2, <2>5, <2>6, Zenon
  <2> QED BY <1>2, <2>4, <2>7, ExactOfHeld DEF FailsOnlyWhenNone
<1>5. CASE ~ Releasable(b.at)
  <2>1. panicked' = TRUE /\ used' = used /\ lastFound' = lastFound /\ blocks' = blocks
    BY <1>5 DEF pmm_releaseFrames
  <2>2. TypeOK'
    BY <1>1, <1>2, <2>1 DEF TypeOK
  <2> QED BY <1>1, <1>2, <2>1, <2>2, ExactOfHeld DEF FailsOnlyWhenNone
<1> QED BY <1>4, <1>5

LEMMA StepExact ==
    Counts = {1} /\ Exact /\ FailsOnlyWhenNone /\ [Next]_vars
      => Exact' /\ FailsOnlyWhenNone'
<1> SUFFICES ASSUME Counts = {1}, Exact, FailsOnlyWhenNone, [Next]_vars
             PROVE  Exact' /\ FailsOnlyWhenNone'
  OBVIOUS
<1>1. ASSUME NEW count \in Counts, pmm_getFrames(count) PROVE Exact' /\ FailsOnlyWhenNone'
  <2>1. count = 1
    OBVIOUS
  <2>2. pmm_getFrames(1)
    BY <1>1, <2>1
  <2> QED BY <2>2, GrantStep
<1>2. ASSUME NEW b \in blocks, pmm_releaseFrames(b) PROVE Exact' /\ FailsOnlyWhenNone'
  BY <1>2, ReleaseStep
<1>3. CASE UNCHANGED vars
  BY <1>3 DEF vars, Exact, TypeOK, NoOverlap, FramesOf, FailsOnlyWhenNone
<1> QED BY <1>1, <1>2, <1>3 DEF Next
--------------------------------------------------------------------------------
(* The maps for which what is granted is usable memory.  RNDUP moves a      *)
(* region that starts at address 0 up by one page, so its last frame lies   *)
(* past it: harmless when the region ends below the kernel, which is linked *)
(* at 2 MB and reserved from address 0.  fb->bufferSize / PAGE_SIZE drops   *)
(* the rest, so the framebuffer has to consist of whole pages.              *)
Sound(m) ==
    /\ \A i \in FreeDescs(m) :
          m.desc[i].start = 0 => m.desc[i].pages * PAGE_SIZE <= m.kernelEnd
    /\ \E k \in Nat : m.fbSize = k * PAGE_SIZE

LEMMA Quotient ==
    ASSUME NEW n \in Nat, NEW k \in Nat
    PROVE  /\ (n * PAGE_SIZE) \div PAGE_SIZE = n
           /\ (n * PAGE_SIZE + k * PAGE_SIZE) \div PAGE_SIZE = n + k
           /\ RNDWN(n * PAGE_SIZE, PAGE_SIZE) = n * PAGE_SIZE
           /\ n # 0 => RNDUP(n * PAGE_SIZE, PAGE_SIZE) = n * PAGE_SIZE
<1>1. PAGE_SIZE \in Nat \ {0}
  BY PmmAssumption
<1>2. ASSUME NEW q \in Nat, NEW r \in 0 .. PAGE_SIZE - 1
      PROVE  (q * PAGE_SIZE + r) \div PAGE_SIZE = q
  BY <1>1
<1>3. (n * PAGE_SIZE) \div PAGE_SIZE = n
  BY <1>1, <1>2
<1>4. n * PAGE_SIZE + k * PAGE_SIZE = (n + k) * PAGE_SIZE /\ n + k \in Nat
  BY <1>1
<1>5. (n * PAGE_SIZE + k * PAGE_SIZE) \div PAGE_SIZE = n + k
  BY <1>1, <1>2, <1>4
<1>6. (n * PAGE_SIZE + PAGE_SIZE - 1) \div PAGE_SIZE = n
  BY <1>1, <1>2
<1>7. n # 0 => ~ (n * PAGE_SIZE < PAGE_SIZE)
  BY <1>1
<1> QED BY <1>3, <1>5, <1>6, <1>7 DEF RNDWN, RNDUP

(* What pmm_reserveRegion and pmm_unreserveRegion set and clear for a       *)
(* region of whole pages.                                                   *)
LEMMA RegionPages ==
    ASSUME NEW s \in Nat, NEW n \in Nat
    PROVE  /\ ReservedBy(s * PAGE_SIZE, n) = s .. s + n - 1
           /\ s # 0 => UnreservedBy(s * PAGE_SIZE, n) = s .. s + n - 1
           /\ UnreservedBy(0, n) = 1 .. n
<1>1. PAGE_SIZE \in Nat \ {0}
  BY PmmAssumption
<1>2. ReservedBy(s * PAGE_SIZE, n) = {s + i : i \in 0 .. n - 1}
  <2>1. \A i \in 0 .. n - 1 :
           (RNDWN(s * PAGE_SIZE, PAGE_SIZE) + i * PAGE_SIZE) \div PAGE_SIZE = s + i
    BY Quotient
  <2> QED BY <2>1, Zenon DEF ReservedBy
<1>3. ASSUME s # 0 PROVE UnreservedBy(s * PAGE_SIZE, n) = {s + i : i \in 0 .. n - 1}
  <2>1. \A i \in 0 .. n - 1 :
           (RNDUP(s * PAGE_SIZE, PAGE_SIZE) + i * PAGE_SIZE) \div PAGE_SIZE = s + i
    BY <1>3, Quotient
  <2> QED BY <2>1, Zenon DEF UnreservedBy
<1>4. UnreservedBy(0, n) = {1 + i : i \in 0 .. n - 1}
  <2>1. RNDUP(0, PAGE_SIZE) = 1 * PAGE_SIZE
    BY <1>1 DEF RNDUP
  <2>2. \A i \in 0 .. n - 1 :
           (RNDUP(0, PAGE_SIZE) + i * PAGE_SIZE) \div PAGE_SIZE = 1 + i
    BY <2>1, Quotient
  <2> QED BY <2>2, Zenon DEF UnreservedBy
<1>5. {s + i : i \in 0 .. n - 1} = s .. s + n - 1
  <2>1. \A f \in s .. s + n - 1 : f - s \in 0 .. n - 1 /\ f = s + (f - s)
    OBVIOUS
  <2> QED BY <2>1
<1>6. {1 + i : i \in 0 .. n - 1} = 1 .. n
  <2>1. \A f \in 1 .. n : f - 1 \in 0 .. n - 1 /\ f = 1 + (f - 1)
    OBVIOUS
  <2> QED BY <2>1
<1> QED BY <1>2, <1>3, <1>4, <1>5, <1>6, Zenon

(* What pmm_init leaves free is usable memory.                              *)
LEMMA FreeIsUsable ==
    ASSUME NEW m \in Maps, Sound(m), NEW f \in InitiallyFree(m)
    PROVE  /\ f \in RegionFrames(m)
           /\ f * PAGE_SIZE > m.kernelEnd
           /\ f \notin m.fbStart .. m.fbStart + (m.fbSize - 1) \div PAGE_SIZE
<1>1. /\ PAGE_SIZE \in Nat \ {0} /\ m.fbStart \in Nat /\ m.kernelEnd \in Nat
      /\ m.fbSize \in Nat
  BY PmmAssumption
<1>2. PICK i \in FreeDescs(m) :
           f \in UnreservedBy(m.desc[i].start * PAGE_SIZE, m.desc[i].pages)
  BY DEF InitiallyFree
<1> DEFINE s == m.desc[i].start  n == m.desc[i].pages  e == m.kernelEnd \div PAGE_SIZE
<1>3. s \in Nat /\ n \in Nat
  BY <1>2, PmmAssumption DEF FreeDescs, Descriptor
<1>4. f \notin Framebuffer(m) /\ f \notin Kernel(m)
  BY DEF InitiallyFree
<1>5. f \in Nat
  <2>1. s # 0 => f \in s .. s + n - 1
    BY <1>2, <1>3, RegionPages, Zenon
  <2>2. ASSUME s = 0 PROVE f \in 1 .. n
    <3>1. s * PAGE_SIZE = 0
      BY <1>1, <2>2
    <3>2. f \in UnreservedBy(0, n)
      BY <1>2, <3>1
    <3> QED BY <1>3, <3>2, RegionPages, Zenon
  <2> HIDE DEF s, n
  <2> QED BY <1>3, <2>1, <2>2
<1>6. e \in Nat /\ e * PAGE_SIZE <= m.kernelEnd /\ m.kernelEnd < (e + 1) * PAGE_SIZE
  BY <1>1
<1> HIDE DEF e
<1>7. f >= e + 1
  <2>1. Kernel(m) = ReservedBy(0, e + 1)
    BY DEF Kernel, e
  <2>2. 0 * PAGE_SIZE = 0
    BY <1>1
  <2>3. Kernel(m) = 0 .. e
    <3>1. ReservedBy(0 * PAGE_SIZE, e + 1) = 0 .. 0 + (e + 1) - 1
      BY <1>6, RegionPages
    <3> QED BY <1>6, <2>1, <2>2, <3>1
  <2> QED BY <1>4, <1>5, <1>6, <2>3
<1>8. f * PAGE_SIZE > m.kernelEnd
  <2>1. f * PAGE_SIZE >= (e + 1) * PAGE_SIZE
    BY <1>1, <1>5, <1>6, <1>7
  <2>2. f * PAGE_SIZE \in Nat /\ (e + 1) * PAGE_SIZE \in Nat
    BY <1>1, <1>5, <1>6
  <2> QED BY <1>1, <1>6, <2>1, <2>2
<1>9. f \in s .. s + n - 1
  <2>1. CASE s # 0
    BY <1>2, <1>3, <2>1, RegionPages, Zenon
  <2>2. CASE s = 0
    <3>1. 0 * PAGE_SIZE = 0
      BY <1>1
    <3>2. f \in 1 .. n
      BY <1>2, <1>3, <2>2, <3>1, RegionPages, Zenon
    <3>3. n * PAGE_SIZE <= m.kernelEnd
      BY <1>2, <2>2 DEF Sound
    <3>4. f # n
      BY <1>1, <1>3, <1>8, <3>3
    <3> QED BY <1>3, <2>2, <3>2, <3>4
  <2> QED BY <2>1, <2>2
<1>10. f \in RegionFrames(m)
  BY <1>2, <1>9 DEF RegionFrames
<1>11. f \notin m.fbStart .. m.fbStart + (m.fbSize - 1) \div PAGE_SIZE
  <2>1. PICK k \in Nat : m.fbSize = k * PAGE_SIZE
    BY DEF Sound
  <2>2. Framebuffer(m) = m.fbStart .. m.fbStart + k - 1
    <3>1. m.fbSize \div PAGE_SIZE = k
      BY <2>1, Quotient
    <3> QED BY <1>1, <3>1, RegionPages, Zenon DEF Framebuffer
  <2>3. (m.fbSize - 1) \div PAGE_SIZE = k - 1
    <3>1. k * PAGE_SIZE - 1 = (k - 1) * PAGE_SIZE + (PAGE_SIZE - 1)
      BY <1>1, <2>1
    <3>2. ASSUME NEW q \in Int, NEW r \in 0 .. PAGE_SIZE - 1
          PROVE  (q * PAGE_SIZE + r) \div PAGE_SIZE = q
      BY <1>1
    <3> QED BY <1>1, <2>1, <3>1, <3>2
  <2> QED BY <1>1, <1>4, <2>2, <2>3
<1> QED BY <1>8, <1>10, <1>11

--------------------------------------------------------------------------------
(* For every memory map, over any sequence of pmm_getFrame and              *)
(* pmm_releaseFrame: no frame is granted twice or leaked, and the bitmap is *)
(* exactly what pmm_init reserved together with what callers hold.          *)
THEOREM PmmExact ==
    ASSUME Counts = {1}
    PROVE  Spec => []Exact
<1>1. Init => Exact /\ FailsOnlyWhenNone
  BY InitExact
<1>2. (Exact /\ FailsOnlyWhenNone) /\ [Next]_vars => (Exact /\ FailsOnlyWhenNone)'
  BY StepExact
<1> QED BY <1>1, <1>2, PTL DEF Spec

(* pmm_getFrame returns NULL only when every frame of the bitmap is used,   *)
(* wherever g_lastFoundBitmap made the search start.                        *)
THEOREM PmmFindsFrame ==
    ASSUME Counts = {1}
    PROVE  Spec => []FailsOnlyWhenNone
<1>1. Init => Exact /\ FailsOnlyWhenNone
  BY InitExact
<1>2. (Exact /\ FailsOnlyWhenNone) /\ [Next]_vars => (Exact /\ FailsOnlyWhenNone)'
  BY StepExact
<1> QED BY <1>1, <1>2, PTL DEF Spec

(* Whatever the memory map, and over any sequence of pmm_getFrame and       *)
(* pmm_releaseFrame, a granted frame is memory the firmware reported free,  *)
(* and neither the kernel's nor the framebuffer's.                          *)
THEOREM PmmUsable ==
    ASSUME Counts = {1}, \A m \in Maps : Sound(m)
    PROVE  Spec => []UsableOnly
<1>1. Exact => UsableOnly
  <2> SUFFICES ASSUME Exact, NEW b \in blocks, NEW f \in FramesOf(b)
               PROVE  /\ f \in RegionFrames(map)
                      /\ f * PAGE_SIZE > map.kernelEnd
                      /\ f \notin map.fbStart .. map.fbStart + (map.fbSize - 1) \div PAGE_SIZE
    BY DEF UsableOnly
  <2>1. map \in Maps /\ f \in InitiallyFree(map)
    BY DEF Exact, TypeOK
  <2> QED BY <2>1, FreeIsUsable
<1> QED BY <1>1, PmmExact, PTL
================================================================================
