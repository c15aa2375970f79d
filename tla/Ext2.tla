---------------------------------- MODULE Ext2 ----------------------------------
(***************************************************************************)
(* The ext2 file system, fs/ext2.c: the bitmaps and counts of the block    *)
(* groups, the inode table, the blocks of files and directories, and the   *)
(* operations create, mkdir, delete, read and write.  A volume is a record *)
(* that the helpers take and return; an operation is one step, because     *)
(* system calls run with interrupts disabled and the disk is polled.       *)
(*                                                                         *)
(* Blocks have two views.  A directory block is a set of entries at byte   *)
(* offsets: those that the chain of rec_len visits, and no other bytes.    *)
(* A data block is a row of cells.  BlockBytes and BlockCells are the same *)
(* g_blockSize in the two units.  The disk and kmalloc do not fail.        *)
(***************************************************************************)
EXTENDS Integers, Sequences, FiniteSets, FiniteSetsExt, SequencesExt, TLC

CONSTANTS
    Names,          \* the names callers use
    Dot, DotDot, LostFound,   \* the other names in directories
    NameLen,        \* the length of each name
    Data,           \* what a cell of a file may hold
    Junk,           \* a cell of a block that holds no file data
    BlockBytes, BlockCells, SectorCells,
    NDIR,           \* EXT2_NDIR_BLOCKS
    Groups,         \* g_blockGroupDescriptorCount
    BlocksPerGroup, InodesPerGroup,
    Meta,           \* how many blocks of group 0 hold metadata
    Lengths,        \* the lengths of writes, in cells
    Seeks,          \* bound: a write starts at one of these cells or at the end
    Large,          \* whether files grow past their direct blocks
    Crowded         \* whether entries are deleted from crowded blocks

Root == 2
Lost == 3
Inos == 1 .. Groups * InodesPerGroup
Blocks == 0 .. Groups * BlocksPerGroup

VARIABLES
    vol,        \* the volume: inodes, bitmaps, counts and blocks
    listing,    \* per inode, the <<name, inode>> put in the directory, not removed
    text        \* per inode, what has been written to the file: a sequence of cells

vars == <<vol, listing, text>>
--------------------------------------------------------------------------------
SECTORS_PER_BLOCK == BlockCells \div SectorCells

SECTOR2BLOCK(sectors) == ((sectors + 1) * SectorCells) \div BlockCells

RNDUP(num, nm) == IF num < nm THEN nm ELSE (num \div nm) * nm

GET_DIR_ENTRY_SIZE(name) ==
    LET es == 8 + NameLen[name] + 1 IN es + (IF es % 2 = 0 THEN 2 ELSE 1)

(* What a block holds.                                                      *)
AsEntries(e) == [kind |-> "entries", e |-> e]
AsCells(c) == [kind |-> "cells", c |-> c]
Zeros == [kind |-> "zeros"]

EntriesIn(b) == IF b.kind = "entries" THEN b.e ELSE <<>>
CellsIn(b) == IF b.kind = "cells" THEN b.c ELSE [i \in 0 .. BlockCells - 1 |-> Junk]

(* The real block of block n of a file.  Nothing ever stores an indirect    *)
(* pointer in an inode, so that behind the direct ones every level reads    *)
(* block 0 as the indirect block: zeros, unless file data has been written  *)
(* there, which is then taken for some block's number.                      *)
getRealBlock(v, ino, n) ==
    IF 0 <= n /\ n < NDIR THEN v.inodes[ino].block[n]
    ELSE IF v.disk[0] = Zeros THEN 0 ELSE Max(Blocks)

(* Behind the direct blocks setRealBlock changes only its buffer.           *)
setRealBlock(inode, n, real) ==
    IF n < NDIR THEN [inode EXCEPT !.block[n] = real] ELSE inode

(* FIND_AND_MARK_BIT in the loop over the groups.  The loop goes on to the  *)
(* next group only from one whose bitmap is full although its count is not  *)
(* 0; it gives up at a count of 0, and if it finds bit 0.                   *)
StopsAt(map, free, per) ==
    {g \in 0 .. Groups - 1 : free[g] = 0 \/ map[g] # 0 .. per - 1}

FirstZero(bits, per) == Min((0 .. per - 1) \ bits)

(* The group and the bit that are marked: a set with at most one element.   *)
FoundByCount(map, free, per) ==
    {<<g, b>> \in {0} \X (1 .. per - 1) : free[g] > 0 /\ b = per - free[g]}

Found(map, free, per) ==
    {<<g, b>> \in StopsAt(map, free, per) \X (1 .. per - 1) :
        /\ \A h \in StopsAt(map, free, per) : g <= h
        /\ free[g] > 0
        /\ b = FirstZero(map[g], per)}

Ok(v) == [ok |-> TRUE, v |-> v]
Failed(v) == [ok |-> FALSE, v |-> v]

(* A new block for block n of a file.                                       *)
GrownBy(inode) ==
    [inode EXCEPT !.sectors = @ + SECTORS_PER_BLOCK, !.size = @ + BlockCells]

allocateBlock(v, ino, n) ==
    LET found == Found(v.bmap, v.bfree, BlocksPerGroup)
        g == (CHOOSE f \in found : TRUE)[1]
        b == (CHOOSE f \in found : TRUE)[2]
        real == b + BlocksPerGroup * g + 1
    IN  IF found = {} THEN Failed(v)
        ELSE Ok([v EXCEPT !.bmap[g] = @ \cup {b}, !.bfree[g] = @ - 1,
                          !.inodes[ino] = GrownBy(setRealBlock(@, n, real))])

RECURSIVE writeInodeBlock(_, _, _, _)
writeInodeBlock(v, ino, n, content) ==
    LET next == SECTOR2BLOCK(v.inodes[ino].sectors)
        a == allocateBlock(v, ino, next)
    IN  IF n < next THEN Ok([v EXCEPT !.disk[getRealBlock(v, ino, n)] = content])
        ELSE IF a.ok THEN writeInodeBlock(a.v, ino, n, content)
        ELSE a
--------------------------------------------------------------------------------
(* The offsets of the entries of a directory block, in the order in which   *)
(* the loops over rec_len visit them.                                       *)
RECURSIVE OffsetsFrom(_, _)
OffsetsFrom(e, off) ==
    IF off \notin DOMAIN e THEN <<>>
    ELSE <<off>> \o (IF off + e[off].rec >= BlockBytes THEN <<>>
                     ELSE OffsetsFrom(e, off + e[off].rec))

Offsets(e) == OffsetsFrom(e, 0)

(* The entries of a directory, block by block (ext2_readdir returns the     *)
(* index-th of them), and the inode ext2_finddir finds: 0 if none.          *)
BlockOf(v, d, n) == EntriesIn(v.disk[getRealBlock(v, d, n)])

ListedIn(e) == [k \in DOMAIN Offsets(e) |-> e[Offsets(e)[k]]]

SizeInBlocks(v, d) == v.inodes[d].size \div BlockCells

ext2_readdir(v, d) ==
    FlattenSeq([n \in 1 .. SizeInBlocks(v, d) |-> ListedIn(BlockOf(v, d, n - 1))])

ext2_finddir(v, d, name) ==
    LET es == ext2_readdir(v, d)
        at == {k \in DOMAIN es : es[k].name = name}
    IN  IF at = {} THEN 0 ELSE es[Min(at)].ino

Entry(name, ino, rec) == [name |-> name, ino |-> ino, rec |-> rec]

NewBlock(name, ino) == [p \in {0} |-> Entry(name, ino, BlockBytes)]

(* insertInodeInDir: behind the last entry of the last block, if its record *)
(* has room for both, else at the start of a new block.                     *)
RoomBehind(e, last, name) ==
    GET_DIR_ENTRY_SIZE(e[last].name) + GET_DIR_ENTRY_SIZE(name) <= e[last].rec

SplitLast(e, last, name, ino) ==
    LET cur == GET_DIR_ENTRY_SIZE(e[last].name)
    IN  [p \in DOMAIN e \cup {last + cur} |->
           CASE p = last -> [e[p] EXCEPT !.rec = cur]
             [] p = last + cur -> Entry(name, ino, e[last].rec - cur)
             [] OTHER -> e[p]]

insertInodeInDir(v, d, ino, name) ==
    LET n == SizeInBlocks(v, d) - 1
        e == BlockOf(v, d, n)
        last == Last(Offsets(e))
        a == allocateBlock(v, d, n + 1)
    IN  IF n >= 0 /\ RoomBehind(e, last, name)
        THEN writeInodeBlock(v, d, n, AsEntries(SplitLast(e, last, name, ino)))
        ELSE IF ~a.ok THEN a
        ELSE writeInodeBlock(a.v, d, n + 1, AsEntries(NewBlock(name, ino)))
--------------------------------------------------------------------------------
(* INIT_INODE: nothing of an earlier file is left in the inode.             *)
INIT_INODE(inode, mode) ==
    [mode |-> mode, size |-> 0, sectors |-> 0, block |-> [n \in 0 .. NDIR - 1 |-> 0]]

(* allocateAndCreateInode and createInode: the result, and the new inode    *)
(* (0 if there is none).  If the directory cannot take the entry, the inode *)
(* stays allocated.                                                         *)
allocateAndCreateInode(v, d, name, mode) ==
    LET found == Found(v.imap, v.ifree, InodesPerGroup)
        g == (CHOOSE f \in found : TRUE)[1]
        b == (CHOOSE f \in found : TRUE)[2]
        ino == b + InodesPerGroup * g + 1
        w == [v EXCEPT !.imap[g] = @ \cup {b}, !.ifree[g] = @ - 1,
                       !.inodes[ino] = INIT_INODE(@, mode)]
        r == insertInodeInDir(w, d, ino, name)
    IN  IF found = {} THEN [ok |-> FALSE, v |-> v, ino |-> 0]
        ELSE [ok |-> r.ok, v |-> r.v, ino |-> ino]

(* deleteBlockBuffer.  Bit -1, which the last block of the group before asks *)
(* for, is in memory outside the bitmap.                                    *)
deleteBlockShort(v, real) ==
    LET g == real \div BlocksPerGroup
    IN  IF real = 0 \/ g >= Groups THEN Failed(v)
        ELSE Ok([v EXCEPT !.bmap[g] = @ \ {(real % BlocksPerGroup) - 1}])

deleteBlock(v, real) ==
    LET g == real \div BlocksPerGroup
        off == real % BlocksPerGroup
    IN  IF real = 0 \/ g >= Groups THEN Failed(v)
        ELSE Ok([v EXCEPT !.bmap[g] = @ \ {off - 1}, !.bfree[g] = @ + 1])

RECURSIVE deleteBlocks(_, _, _, _)
deleteBlocks(v, ino, n, end) ==
    LET r == deleteBlock(v, getRealBlock(v, ino, n))
    IN  IF n = end THEN Ok(v)
        ELSE IF r.ok THEN deleteBlocks(r.v, ino, n + 1, end) ELSE r

EndBlock(size) == (size + BlockCells - 1) \div BlockCells

InodeBitNext(ino) == ino % InodesPerGroup

InodeBit(ino) == (ino % InodesPerGroup) - 1

deleteInode(v, ino) ==
    LET g == ino \div InodesPerGroup
    IN  IF g >= Groups THEN v
        ELSE deleteBlocks([v EXCEPT !.imap[g] = @ \ {InodeBit(ino)}, !.ifree[g] = @ + 1],
                          ino, 0, EndBlock(v.inodes[ino].size)).v
--------------------------------------------------------------------------------
(* deleteInodeFromDir, for the entry at offset off of block 0.  The only    *)
(* entry: the block is freed, and the size shrinks.                         *)
Shrunk(inode) ==
    [inode EXCEPT !.sectors = @ - SECTORS_PER_BLOCK, !.size = @ - BlockCells]

DropBlock(v, d) ==
    LET r == deleteBlock(v, getRealBlock(v, d, 0))
    IN  IF r.ok THEN Ok([r.v EXCEPT !.inodes[d] = Shrunk(@)]) ELSE r

(* The last entry: the one before it takes its bytes.                       *)
MergeLast(e, off) ==
    [p \in DOMAIN e \ {off} |->
       IF p + e[p].rec = off THEN [e[p] EXCEPT !.rec = @ + e[off].rec] ELSE e[p]]

(* An entry before others: what is behind it moves left, and an entry takes *)
(* the bytes: the one at which the running size reaches the end of the      *)
(* block, counted from the end of the deleted entry instead of its length.  *)
MovedLeft(e, off) ==
    LET fe == e[off].rec
    IN  [p \in {q \in DOMAIN e : q < off} \cup {q - fe : q \in {r \in DOMAIN e : r > off}}
           |-> IF p < off THEN e[p] ELSE e[p + fe]]

RECURSIVE TakesBytes(_, _, _)
TakesBytes(e, p, size) ==
    IF size + e[p].rec >= BlockBytes THEN p
    ELSE TakesBytes(e, p + e[p].rec, size + e[p].rec)

DeleteMiddleShort(e, off) == MovedLeft(e, off)

DeleteMiddle(e, off) ==
    LET m == MovedLeft(e, off)
        p == TakesBytes(m, 0, off + e[off].rec)
    IN  [m EXCEPT ![p].rec = @ + e[off].rec]

deleteInodeFromDir(v, d, off) ==
    LET e == BlockOf(v, d, 0)
    IN  IF off = 0 /\ e[off].rec >= BlockBytes THEN DropBlock(v, d)
        ELSE IF off + e[off].rec >= BlockBytes
             THEN writeInodeBlock(v, d, 0, AsEntries(MergeLast(e, off)))
             ELSE writeInodeBlock(v, d, 0, AsEntries(DeleteMiddle(e, off)))
--------------------------------------------------------------------------------
(* ext2_read and ext2_write go from the block of the offset to the block of *)
(* the end of the range, which may be one in which nothing is left to do.   *)
(* In a block they handle Count cells from cell From on.                    *)
StartBlock(offset) == offset \div BlockCells
LastBlock(offset, size) == (offset + size) \div BlockCells

From(offset, n) == IF n = StartBlock(offset) THEN offset % BlockCells ELSE 0

CountAll(offset, size, n) ==
    IF n = LastBlock(offset, size) THEN (offset + size) % BlockCells ELSE BlockCells

Count(offset, size, n) ==
    IF n = StartBlock(offset) THEN Min({size, BlockCells - From(offset, n)})
    ELSE IF n = LastBlock(offset, size) THEN (offset + size) % BlockCells
    ELSE BlockCells

InodeCells(v, ino, n) == CellsIn(v.disk[getRealBlock(v, ino, n)])

ext2_read(v, ino, offset, size) ==
    IF size + offset > v.inodes[ino].size THEN <<>>
    ELSE FlattenSeq([k \in 1 .. LastBlock(offset, size) - StartBlock(offset) + 1 |->
           LET n == StartBlock(offset) + k - 1
           IN  [i \in 1 .. Count(offset, size, n) |->
                  InodeCells(v, ino, n)[From(offset, n) + i - 1]]])

RECURSIVE writeBlocks(_, _, _, _, _, _)
writeBlocks(v, ino, offset, buffer, n, written) ==
    LET size == Len(buffer)
        from == From(offset, n)
        count == Count(offset, size, n)
        old == InodeCells(v, ino, n)
        new == [i \in 0 .. BlockCells - 1 |->
                  IF from <= i /\ i < from + count THEN buffer[written + i - from + 1]
                  ELSE old[i]]
        r == writeInodeBlock(v, ino, n, AsCells(new))
    IN  IF n > LastBlock(offset, size) THEN Ok(v)
        ELSE IF r.ok THEN writeBlocks(r.v, ino, offset, buffer, n + 1, written + count)
        ELSE r

(* The size is set only if the write ends behind the old one; the sectors   *)
(* are then rounded down.                                                   *)
Resized(v, ino, end) ==
    [v EXCEPT !.inodes[ino].size = end,
              !.inodes[ino].sectors = RNDUP(end, SectorCells) \div SectorCells]

WrittenTo(v, ino, offset, buffer) ==
    LET r == writeBlocks(v, ino, offset, buffer, StartBlock(offset), 0)
        end == offset + Len(buffer)
    IN  IF r.ok /\ end > v.inodes[ino].size THEN Ok(Resized(r.v, ino, end)) ELSE r
--------------------------------------------------------------------------------
(* The volume as mkfs makes it: metadata, and the root directory with       *)
(* lost+found in it.  The inodes before lost+found are reserved.            *)
NoInode == [mode |-> "none", size |-> 0, sectors |-> 0, block |-> [n \in 0 .. NDIR - 1 |-> 0]]

MadeDir(real) ==
    [mode |-> "dir", size |-> BlockCells, sectors |-> SECTORS_PER_BLOCK,
     block |-> [n \in 0 .. NDIR - 1 |-> IF n = 0 THEN real ELSE 0]]

MadeEntries(d, up) ==
    (0 :> Entry(Dot, d, 12)) @@
    (IF d = Root THEN (12 :> Entry(DotDot, up, 12)) @@ (24 :> Entry(LostFound, Lost, BlockBytes - 24))
     ELSE (12 :> Entry(DotDot, up, BlockBytes - 12)))

mkfs ==
    LET used(g) == IF g = 0 THEN 0 .. Meta + 1 ELSE 0 .. Meta - 1
        taken(g) == IF g = 0 THEN 0 .. Lost - 1 ELSE {}
    IN  [inodes |-> [i \in Inos |-> CASE i = Root -> MadeDir(Meta + 1)
                                      [] i = Lost -> MadeDir(Meta + 2)
                                      [] OTHER -> NoInode],
         imap |-> [g \in 0 .. Groups - 1 |-> taken(g)],
         bmap |-> [g \in 0 .. Groups - 1 |-> used(g)],
         ifree |-> [g \in 0 .. Groups - 1 |-> InodesPerGroup - Cardinality(taken(g))],
         bfree |-> [g \in 0 .. Groups - 1 |-> BlocksPerGroup - Cardinality(used(g))],
         disk |-> [b \in Blocks |-> CASE b = Meta + 1 -> AsEntries(MadeEntries(Root, Root))
                                      [] b = Meta + 2 -> AsEntries(MadeEntries(Lost, Root))
                                      [] OTHER -> Zeros]]

Init ==
    /\ vol = mkfs
    /\ listing = [i \in Inos |->
                    CASE i = Root -> {<<Dot, Root>>, <<DotDot, Root>>, <<LostFound, Lost>>}
                      [] i = Lost -> {<<Dot, Lost>>, <<DotDot, Root>>}
                      [] OTHER -> {}]
    /\ text = [i \in Inos |-> <<>>]

(* What paths lead to: the directories in the root, and the files in these. *)
Dirs == {Root} \cup {l[2] : l \in {k \in listing[Root] :
                                     k[1] \in Names /\ vol.inodes[k[2]].mode = "dir"}}
Files == {l[2] : l \in {k \in UNION {listing[d] : d \in Dirs} :
                          k[1] \in Names /\ vol.inodes[k[2]].mode = "file"}}

Listed(ls, d, name, r) ==
    IF r.ok THEN [ls EXCEPT ![d] = @ \cup {<<name, r.ino>>}, ![r.ino] = {}] ELSE ls

ext2_create(d, name) ==
    LET r == allocateAndCreateInode(vol, d, name, "file")
    IN  /\ ext2_finddir(vol, d, name) = 0
        /\ vol' = r.v
        /\ listing' = Listed(listing, d, name, r)
        /\ text' = IF r.ok THEN [text EXCEPT ![r.ino] = <<>>] ELSE text

(* "." and ".." are made as files of their own.                             *)
ext2_mkdir(d, name) ==
    LET r == allocateAndCreateInode(vol, d, name, "dir")
        dot == allocateAndCreateInode(r.v, r.ino, Dot, "file")
        up == allocateAndCreateInode(dot.v, r.ino, DotDot, "file")
    IN  /\ ext2_finddir(vol, d, name) = 0
        /\ vol' = IF ~r.ok THEN r.v ELSE IF ~dot.ok THEN dot.v ELSE up.v
        /\ listing' = LET l == Listed(listing, d, name, r)
                          m == Listed(l, r.ino, Dot, dot)
                      IN  IF ~r.ok THEN l ELSE IF ~dot.ok THEN m
                          ELSE Listed(m, r.ino, DotDot, up)
        /\ UNCHANGED text

(* Only block 0 is searched: an entry that is not there is not found.  A    *)
(* directory has had its entry removed when EISDIR is returned.  In a block *)
(* that is not crowded the bytes go to the last entry.  If the entry is not *)
(* found or its block cannot be freed, nothing changes.                     *)
Roomy(e, off) == off < e[Last(Offsets(e))].rec \/ off = Last(Offsets(e))

ext2_delete(d, name) ==
    LET e == BlockOf(vol, d, 0)
        at == {p \in Range(Offsets(e)) : e[p].name = name}
        off == Min(at)
        r == deleteInodeFromDir(vol, d, off)
    IN  /\ SizeInBlocks(vol, d) > 0 /\ at # {}
        /\ Crowded \/ Roomy(e, off)
        /\ r.ok
        /\ vol' = IF r.v.inodes[e[off].ino].mode = "dir" THEN r.v
                  ELSE deleteInode(r.v, e[off].ino)
        /\ listing' = [listing EXCEPT ![d] = @ \ {<<name, e[off].ino>>}]
        /\ UNCHANGED text

(* What a failed write covers is left unspecified, and so are the cells that *)
(* a size beyond what was written brings into the file.                     *)
Overwritten(t, offset, buffer) ==
    [i \in 1 .. Max({Len(t), offset + Len(buffer)}) |->
       IF offset < i /\ i <= offset + Len(buffer) THEN buffer[i - offset]
       ELSE IF i <= Len(t) THEN t[i] ELSE Junk]

ext2_write(ino, offset, size, d) ==
    LET buffer == [i \in 1 .. size |-> <<d, i>>]
        r == WrittenTo(vol, ino, offset, buffer)
    IN  /\ offset <= vol.inodes[ino].size
        /\ Large \/ offset + size < NDIR * BlockCells
        /\ vol' = r.v
        /\ text' = [text EXCEPT ![ino] = IF r.ok THEN Overwritten(@, offset, buffer)
                                         ELSE SubSeq(@, 1, Min({offset, Len(@)}))]
        /\ UNCHANGED listing

Next ==
    \/ \E d \in Dirs, name \in Names : ext2_create(d, name)
    \/ \E d \in Dirs, name \in Names : ext2_mkdir(d, name)
    \/ \E d \in Dirs, name \in Names : ext2_delete(d, name)
    \/ \E ino \in Files, size \in Lengths, d \in Data :
           \E offset \in Seeks \cup {vol.inodes[ino].size} : ext2_write(ino, offset, size, d)

Spec == Init /\ [][Next]_vars
--------------------------------------------------------------------------------
InodeType == [mode : {"none", "file", "dir"}, size : Nat, sectors : Nat,
              block : [0 .. NDIR - 1 -> Blocks]]

(* Types: every inode, bitmap and count of the volume is what the code's    *)
(* structures can hold, and counts never wrap below 0.                      *)
TypeOK ==
    /\ \A i \in Inos : vol.inodes[i] \in InodeType
    /\ vol.imap \in [0 .. Groups - 1 -> SUBSET (0 .. InodesPerGroup - 1)]
    /\ vol.bmap \in [0 .. Groups - 1 -> SUBSET (0 .. BlocksPerGroup - 1)]
    /\ vol.ifree \in [0 .. Groups - 1 -> 0 .. InodesPerGroup]
    /\ vol.bfree \in [0 .. Groups - 1 -> 0 .. BlocksPerGroup]
    /\ \A b \in Blocks : vol.disk[b].kind \in {"entries", "cells", "zeros"}

InodeMarked(i) == (i - 1) % InodesPerGroup \in vol.imap[(i - 1) \div InodesPerGroup]
BlockMarked(b) == (b - 1) % BlocksPerGroup \in vol.bmap[(b - 1) \div BlocksPerGroup]

(* The pointers of the inodes in use to blocks inside their size.           *)
Pointers ==
    {u \in {i \in Inos : InodeMarked(i)} \X (0 .. NDIR - 1) :
        u[2] < EndBlock(vol.inodes[u[1]].size) /\ vol.inodes[u[1]].block[u[2]] # 0}

(* No two inodes, and no two places in one inode, ever share a block, and a *)
(* block in use is marked and is no metadata: whatever create, mkdir,       *)
(* delete and write do, allocateBlock hands out only blocks nobody has.     *)
Exclusive ==
    \A u \in Pointers :
        LET b == vol.inodes[u[1]].block[u[2]]
        IN  /\ BlockMarked(b) /\ b > Meta
            /\ \A w \in Pointers : vol.inodes[w[1]].block[w[2]] = b => w = u

(* The free counts of the group descriptors agree with the bitmaps, so that *)
(* no block and no inode is freed twice or taken while counted as free.     *)
Counted ==
    TypeOK /\ \A g \in 0 .. Groups - 1 :
        /\ vol.bfree[g] = BlocksPerGroup - Cardinality(vol.bmap[g])
        /\ vol.ifree[g] = InodesPerGroup - Cardinality(vol.imap[g])

(* A directory reads as what was put into it and not removed, each name     *)
(* once, and the records of each of its blocks fill it exactly: what        *)
(* insertInodeInDir and deleteInodeFromDir do to rec_len loses no entry.    *)
Listing ==
    \A d \in Dirs \cup {Lost} :
        LET es == ext2_readdir(vol, d)
        IN  /\ {<<es[k].name, es[k].ino>> : k \in DOMAIN es} = listing[d]
            /\ Len(es) = Cardinality(listing[d])
            /\ \A n \in 0 .. SizeInBlocks(vol, d) - 1 :
                  LET e == BlockOf(vol, d, n)
                  IN  Last(Offsets(e)) + e[Last(Offsets(e))].rec = BlockBytes

(* An inode that a name leads to is marked in its bitmap and no second name *)
(* leads to it: deleteInode frees the inode of the deleted name, and        *)
(* allocateAndCreateInode does not hand out one that is in use.             *)
OwnInode ==
    LET entries == {<<d, l>> \in Dirs \X UNION {listing[d] : d \in Dirs} :
                      l \in listing[d] /\ l[1] \in Names}
    IN  \A x \in entries :
            /\ InodeMarked(x[2][2]) /\ vol.inodes[x[2][2]].mode # "none"
            /\ \A y \in entries : y[2][2] = x[2][2] => y = x

(* A block can be had while some group has one free: allocateBlock goes to  *)
(* the next group descriptor.  Only of volumes with several groups.         *)
NextGroup ==
    Found(vol.bmap, vol.bfree, BlocksPerGroup) = {}
        => \A g \in 0 .. Groups - 1 : vol.bfree[g] = 0

(* Every range of what was written to a file reads back, whatever happened  *)
(* to other files, to directories, and to writes that found the disk full:  *)
(* ext2_read and ext2_write agree on where the cells of a file are.         *)
ReadBack ==
    \A i \in Files : \A offset \in 0 .. Len(text[i]) - 1 : \A size \in 1 .. Len(text[i]) - offset :
        LET r == ext2_read(vol, i, offset, size)
        IN  /\ Len(r) = size
            /\ \A k \in 1 .. size : text[i][offset + k] \in {r[k], Junk}
================================================================================
