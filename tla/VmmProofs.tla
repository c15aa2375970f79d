-------------------------------- MODULE VmmProofs -------------------------------
(***************************************************************************)
(* Proofs about Vmm, for any size of memory and of tables, any layout in   *)
(* which user pages and kernel pages are under different entries of the    *)
(* PML4, and any number of processes.                                      *)
(*                                                                         *)
(* The page tables are a graph in memory, and what an address space maps   *)
(* depends on four entries of it at once.  The invariant says it entry by  *)
(* entry: every frame has a role (its level in the tables, the PML4 of its *)
(* space, a virtual page that it lies on the way to), and every entry that *)
(* is present leads from a frame to one with the role that this entry      *)
(* gives it.  Two pages in one frame would give it two roles.              *)
(***************************************************************************)
EXTENDS Vmm, TLAPS, WellFoundedInduction

LEMMA NatLeast ==
    ASSUME NEW S \in SUBSET Nat, S # {}
    PROVE  \E n \in S : \A m \in S : n <= m
<1> DEFINE R == {ss \in Nat \X Nat : ss[1] < ss[2]}
<1>1. IsWellFoundedOn(R, Nat)
  BY NatLessThanWellFounded DEF OpToRel
<1>2. \E x \in S : \A y \in S : ~(<<y, x>> \in R)
  <2> HIDE DEF R
  <2> QED BY <1>1, WFMin, Zenon
<1>3. \A x, y \in Nat : x < y => <<x, y>> \in R
  OBVIOUS
<1>4. PICK n \in S : \A y \in S : ~(<<y, n>> \in R)
  BY <1>2
<1>5. \A y \in S : ~(y < n)
  <2> HIDE DEF R
  <2> QED BY <1>3, <1>4, Zenon
<1> QED BY <1>5

(* Induction up to n, over a set that stands for what is to be shown.       *)
LEMMA UpTo ==
    ASSUME NEW n \in Nat, NEW S, 0 \in S, \A k \in 1 .. n : k - 1 \in S => k \in S
    PROVE  0 .. n \subseteq S
<1> SUFFICES ASSUME (0 .. n) \ S # {} PROVE FALSE
  OBVIOUS
<1>0. (0 .. n) \ S \in SUBSET Nat
  OBVIOUS
<1>1. PICK k \in (0 .. n) \ S : \A m \in (0 .. n) \ S : k <= m
  BY <1>0, NatLeast, Zenon
<1>2. k # 0 /\ k \in 1 .. n /\ k - 1 \in 0 .. n
  BY <1>1
<1>3. k - 1 \in S
  BY <1>1, <1>2
<1> QED BY <1>1, <1>2, <1>3

(* A recursive function over 0 .. n whose values stay in D exists.          *)
Recurs(g, D, b, n, F) ==
    g \in [0 .. n -> D] /\ g[0] = b /\ \A k \in 1 .. n : g[k] = F[<<g[k - 1], k>>]

LEMMA Recursion ==
    ASSUME NEW D, NEW b \in D, NEW n \in Nat, NEW F \in [D \X (1 .. n) -> D]
    PROVE  \E g : Recurs(g, D, b, n, F)
<1> DEFINE Upto(g, m) == g \in [0 .. m -> D] /\ g[0] = b
                         /\ \A k \in 1 .. m : g[k] = F[<<g[k - 1], k>>]
           S == {m \in 0 .. n : \E g : Upto(g, m)}
<1>1. 0 \in S
  <2> DEFINE g == [k \in 0 .. 0 |-> b]
  <2>1. g \in [0 .. 0 -> D] /\ g[0] = b /\ 1 .. 0 = {}
    OBVIOUS
  <2> HIDE DEF g
  <2>2. Upto(g, 0)
    BY <2>1
  <2> HIDE DEF Upto
  <2> QED BY <2>2
<1>2. ASSUME NEW m \in 1 .. n, m - 1 \in S PROVE m \in S
  <2>1. PICK g : Upto(g, m - 1)
    BY <1>2
  <2> DEFINE h == [k \in 0 .. m |-> IF k < m THEN g[k] ELSE F[<<g[m - 1], m>>]]
  <2>2. g[m - 1] \in D /\ F[<<g[m - 1], m>>] \in D
    BY <2>1
  <2>3. h \in [0 .. m -> D]
    BY <2>1, <2>2
  <2>4. ASSUME NEW k \in 1 .. m PROVE h[k] = F[<<h[k - 1], k>>]
    <3>1. h[k - 1] = g[k - 1]
      <4>1. k - 1 \in 0 .. m /\ k - 1 < m
        OBVIOUS
      <4> QED BY <4>1
    <3>2. CASE k < m
      <4>1. h[k] = g[k] /\ k \in 1 .. m - 1
        BY <3>2
      <4> HIDE DEF h
      <4> QED BY <4>1, <3>1, <2>1
    <3>3. CASE k = m
      <4>1. h[k] = F[<<g[m - 1], m>>]
        BY <3>3
      <4> HIDE DEF h
      <4> QED BY <4>1, <3>1, <3>3
    <3> QED BY <3>2, <3>3
  <2>5. h[0] = b
    BY <2>1
  <2> HIDE DEF h
  <2>6. Upto(h, m)
    BY <2>3, <2>4, <2>5
  <2> HIDE DEF Upto
  <2> QED BY <2>6
<1>3. 0 .. n \subseteq S
  <2> HIDE DEF S
  <2> QED BY <1>1, <1>2, UpTo
<1>4. PICK g : Upto(g, n)
  <2> HIDE DEF Upto
  <2> QED BY <1>3
<1>5. Recurs(g, D, b, n, F)
  BY <1>4 DEF Recurs
<1> QED BY <1>5

(* The four indexes determine a virtual page.                               *)
LEMMA Division ==
    ASSUME NEW v \in Nat, NEW e \in Nat \ {0}
    PROVE  /\ v \div e \in Nat /\ v % e \in 0 .. e - 1
           /\ v = (v \div e) * e + (v % e)
OBVIOUS

LEMMA Quotient ==
    ASSUME NEW v \in Nat, NEW e \in Nat \ {0}, NEW k \in Nat, v < k * e
    PROVE  v \div e < k
<1> DEFINE q == v \div e
<1>1. q \in Nat /\ q * e <= v
  BY Division
<1> HIDE DEF q
<1>2. q * e < k * e
  BY <1>1
<1>3. ~(k <= q)
  <2> SUFFICES ASSUME k <= q PROVE FALSE
    OBVIOUS
  <2>1. k * e <= q * e
    BY <1>1
  <2> QED BY <2>1, <1>1, <1>2
<1> QED BY <1>1, <1>3 DEF q

LEMMA SizeFacts ==
    /\ N \in Nat /\ Entries \in Nat \ {0} /\ Pages \subseteq Nat /\ Indexes \subseteq Nat
    /\ UserPages \subseteq Pages /\ KernelPages \subseteq Pages /\ Frames \subseteq Pages
    /\ 0 \in Pages
BY SizeAssumption DEF Pages, Indexes, KernelPages

LEMMA IndexFacts ==
    ASSUME NEW v \in Pages
    PROVE  /\ ptIndex(v) \in Indexes /\ pdIndex(v) \in Indexes
           /\ pdpIndex(v) \in Indexes /\ pml4Index(v) \in Indexes
<1>1. v \in Nat /\ Entries \in Nat \ {0}
  BY SizeFacts
<1>2. v \div Entries \in Nat
  BY <1>1, Division, Zenon
<1>3. (v \div Entries) \div Entries \in Nat
  BY <1>1, <1>2, Division, Zenon
<1>4. ((v \div Entries) \div Entries) \div Entries \in Nat
  BY <1>1, <1>3, Division
<1> QED BY <1>1, <1>2, <1>3, <1>4, Division DEF ptIndex, pdIndex, pdpIndex, pml4Index, Indexes

LEMMA PageOfIndexes ==
    ASSUME NEW v \in Pages, NEW w \in Pages,
           ptIndex(v) = ptIndex(w), pdIndex(v) = pdIndex(w),
           pdpIndex(v) = pdpIndex(w), pml4Index(v) = pml4Index(w)
    PROVE  v = w
<1> DEFINE e == Entries
<1>1. e \in Nat \ {0}
  BY SizeFacts
<1>2. ASSUME NEW x \in Pages
      PROVE  /\ x \in Nat /\ x \div e \in Nat /\ (x \div e) \div e \in Nat
             /\ ((x \div e) \div e) \div e \in 0 .. e - 1
  <2>1. x \in Nat /\ x < (e * e * e) * e /\ e * e * e \in Nat /\ e * e \in Nat
    BY <1>1, SizeFacts DEF Pages
  <2>2. x \div e \in Nat /\ x \div e < (e * e) * e
    BY <1>1, <2>1, Division, Quotient, Zenon
  <2>3. (x \div e) \div e \in Nat /\ (x \div e) \div e < e * e
    BY <1>1, <2>1, <2>2, Division, Quotient, Zenon
  <2>4. ((x \div e) \div e) \div e \in Nat /\ ((x \div e) \div e) \div e < e
    BY <1>1, <2>3, Division, Quotient, Zenon
  <2> QED BY <1>1, <2>1, <2>2, <2>3, <2>4
<1>3. ASSUME NEW x \in Nat, NEW y \in Nat, x % e = y % e, x \div e = y \div e PROVE x = y
  BY <1>1, <1>3, Division, Zenon
<1>4. ASSUME NEW x \in 0 .. e - 1 PROVE x % e = x
  BY <1>1
<1>5. ((v \div e) \div e) \div e = ((w \div e) \div e) \div e
  BY <1>2, <1>4 DEF pml4Index
<1>6. (v \div e) \div e = (w \div e) \div e
  BY <1>2, <1>3, <1>5 DEF pdpIndex
<1>7. v \div e = w \div e
  BY <1>2, <1>3, <1>6 DEF pdIndex
<1> QED BY <1>2, <1>3, <1>7 DEF ptIndex

(* The lowest frame of a set, and the kernel's PML4.                        *)
LEMMA LowestIn ==
    ASSUME NEW S \in SUBSET Frames, S # {}
    PROVE  Lowest(S) \in S
<1>1. S \in SUBSET Nat
  BY SizeFacts
<1>2. \E f \in S : \A g \in S : f <= g
  BY <1>1, NatLeast, Zenon
<1> QED BY <1>2, Zenon DEF Lowest

LEMMA Numbers ==
    /\ -1 # 4 /\ -1 # 1 /\ -1 # 0 /\ 0 # 4 /\ 0 # 1 /\ 1 # 4
    /\ 0 \notin 2 .. 4 /\ 0 \notin 1 .. 4 /\ 1 \notin 2 .. 4 /\ -1 \notin 1 .. 4
    /\ 1 - 1 = 0 /\ 1 + 1 = 2
OBVIOUS

LEMMA KernelPML4 == _KernelPML4 \in Frames /\ _KernelPML4 \notin Kernel
<1>1. Frames \ Kernel \in SUBSET Frames /\ Frames \ Kernel # {}
  BY SizeAssumption
<1>2. Lowest(Frames \ Kernel) \in Frames \ Kernel
  BY <1>1, LowestIn, Zenon
<1> QED BY <1>2 DEF _KernelPML4
--------------------------------------------------------------------------------
(* The entries of the kernel's PML4 that its own pages are under.           *)
KIdx == {pml4Index(w) : w \in KernelPages}

(* Two pages are under the same entries of the tables at levels l .. 4.     *)
Idx(l, v) ==
    IF l = 4 THEN pml4Index(v) ELSE IF l = 3 THEN pdpIndex(v)
    ELSE IF l = 2 THEN pdIndex(v) ELSE ptIndex(v)

Agree(l, v, w) == \A k \in 1 .. 4 : l <= k => Idx(k, v) = Idx(k, w)

(* The roles of the frames: the level of a table (4 of a PML4), 0 of a page *)
(* of a process, -1 of any other frame; the PML4 of its space; and a page   *)
(* that it is on the way to.                                                *)
Roles == [lev : [Frames -> -1 .. 4], own : [Frames -> Frames], vp : [Frames -> Pages]]

Role(g, f, l, r, v) == g.lev[f] = l /\ g.own[f] = r /\ g.vp[f] = v

On(g, t, l, r, v) ==
    t \in Frames /\ g.lev[t] = l /\ g.own[t] = r /\ Agree(l + 1, g.vp[t], v)

(* Entry i of table t leads to frame a.                                     *)
Child(g, t, i, a) ==
    /\ a \in Frames /\ g.lev[a] = g.lev[t] - 1 /\ g.own[a] = g.own[t]
    /\ Idx(g.lev[t], g.vp[a]) = i /\ Agree(g.lev[t] + 1, g.vp[a], g.vp[t])

(* The entries that lead to a frame with a role: not those to the pages of  *)
(* the kernel, and not the copies of the entries of the kernel's PML4.      *)
Tracked(g, t, i) ==
    IF g.own[t] = _KernelPML4 THEN g.lev[t] \in 2 .. 4
    ELSE g.lev[t] \in 1 .. 4 /\ (g.lev[t] = 4 => i \notin KIdx)

Follows(m, g, t, i) ==
    m.table[t][i].present /\ Tracked(g, t, i) =>
        /\ Child(g, t, i, m.table[t][i].addr)
        /\ g.own[t] = _KernelPML4 /\ g.lev[t] = 4 => i \in KIdx
        /\ g.own[t] # _KernelPML4 => m.table[t][i].attr = VMM_USER_ATTRIBUTES

Shares(m, g) ==
    \A t \in Frames : g.lev[t] = 4 /\ t # _KernelPML4 =>
        \A i \in KIdx : m.table[t][i] = m.table[_KernelPML4][i]

Sound(m, g) ==
    /\ g \in Roles
    /\ m.free \cap Kernel = {}
    /\ \A f \in m.free \cup Kernel : g.lev[f] = -1
    /\ g.lev[_KernelPML4] = 4
    /\ \A t \in Frames : g.lev[t] = 4 => g.own[t] = t
    /\ \A t \in Frames : \A i \in Indexes : Follows(m, g, t, i)
    /\ Shares(m, g)
    /\ \A f \in Frames : g.lev[f] = 0 => g.vp[f] \in UserPages

(* Roles are kept on S, frames are only taken, and the kernel's PML4 keeps  *)
(* its entries; there is no new PML4.                                       *)
Kept(g, h, S) ==
    \A f \in S : h.lev[f] = g.lev[f] /\ h.own[f] = g.own[f] /\ h.vp[f] = g.vp[f]

Reached(m, g, n, h, S) ==
    /\ n \in MemType /\ Sound(n, h) /\ n.free \subseteq m.free
    /\ Kept(g, h, S)
    /\ \A t \in Frames : h.lev[t] = 4 <=> g.lev[t] = 4
    /\ \A i \in Indexes : m.table[_KernelPML4][i].present => n.table[_KernelPML4][i].present

(* Which pages are mapped where.                                            *)
Region(r, v, attr) ==
    IF r = _KernelPML4 THEN v \in KernelPages
    ELSE v \in UserPages /\ attr = VMM_USER_ATTRIBUTES

OnlyKernel(g) == \A t \in Frames : g.lev[t] = 4 => t = _KernelPML4

AttrType == [user : BOOLEAN, write : BOOLEAN]

LEMMA RegionIndexes ==
    /\ KIdx \subseteq Indexes
    /\ \A v \in KernelPages : pml4Index(v) \in KIdx
    /\ \A v \in UserPages : pml4Index(v) \notin KIdx
<1>1. \A v \in KernelPages : pml4Index(v) \in Indexes
  BY SizeFacts, IndexFacts, Zenon
<1>2. KIdx \subseteq Indexes /\ \A v \in KernelPages : pml4Index(v) \in KIdx
  BY <1>1, Zenon DEF KIdx
<1>3. \A v \in UserPages : pml4Index(v) \notin KIdx
  BY LayoutAssumption, Zenon DEF KIdx
<1> QED BY <1>2, <1>3

LEMMA IdxFacts ==
    ASSUME NEW v \in Pages, NEW l \in 1 .. 4
    PROVE  Idx(l, v) \in Indexes
BY IndexFacts DEF Idx

LEMMA Indexed ==
    ASSUME NEW v
    PROVE  /\ Idx(4, v) = pml4Index(v) /\ Idx(3, v) = pdpIndex(v)
           /\ Idx(2, v) = pdIndex(v) /\ Idx(1, v) = ptIndex(v)
BY DEF Idx

LEMMA AgreeStep ==
    ASSUME NEW v, NEW w, NEW u, NEW l \in 1 .. 4,
           Agree(l + 1, v, w), Agree(l + 1, w, u), Idx(l, v) = Idx(l, u)
    PROVE  Agree(l, v, u)
<1> SUFFICES ASSUME NEW k \in 1 .. 4, l <= k PROVE Idx(k, v) = Idx(k, u)
  BY DEF Agree
<1>1. CASE k = l
  BY <1>1
<1>2. CASE k # l
  <2>1. l + 1 <= k
    BY <1>2
  <2> QED BY <2>1, Zenon DEF Agree
<1> QED BY <1>1, <1>2

LEMMA AgreeAll ==
    ASSUME NEW v \in Pages, NEW w \in Pages, Agree(1, v, w)
    PROVE  v = w
<1>1. \A k \in 1 .. 4 : Idx(k, v) = Idx(k, w)
  BY DEF Agree
<1> QED BY <1>1, Indexed, PageOfIndexes
--------------------------------------------------------------------------------
(* What the operations do to memory.                                        *)
LEMMA MemFields ==
    ASSUME NEW m \in MemType, NEW t \in Frames, NEW i \in Indexes
    PROVE  /\ m.free \subseteq Frames /\ m.panic \in BOOLEAN
           /\ m.table \in [Frames -> [Indexes -> EntryType]]
           /\ m.table[t] \in [Indexes -> EntryType]
           /\ m.table[t][i] \in EntryType
           /\ m.table[t][i].present \in BOOLEAN /\ m.table[t][i].addr \in Pages
BY DEF MemType, EntryType

LEMMA EntryMade ==
    ASSUME NEW a \in Pages, NEW attr \in AttrType
    PROVE  [present |-> TRUE, addr |-> a, attr |-> attr] \in EntryType
BY DEF EntryType, AttrType

LEMMA ClearedFacts ==
    Cleared \in [Indexes -> EntryType] /\ \A i \in Indexes : ~Cleared[i].present
<1>1. Absent \in EntryType /\ ~Absent.present
  BY SizeFacts DEF Absent, EntryType, VMM_KERNEL_ATTRIBUTES
<1> QED BY <1>1 DEF Cleared

Wrote(m, n, t, i, a, attr) == n = setEntry(m, t, i, a, attr)

Written(m, n, t, i, a, attr) ==
    /\ n \in MemType /\ n.free = m.free /\ n.panic = m.panic
    /\ n.table[t][i] = [present |-> TRUE, addr |-> a, attr |-> attr]
    /\ \A u \in Frames : \A j \in Indexes : ~(u = t /\ j = i) => n.table[u][j] = m.table[u][j]

LEMMA SetFacts ==
    ASSUME NEW m \in MemType, NEW t \in Frames, NEW i \in Indexes, NEW a \in Pages,
           NEW attr \in AttrType, NEW n, Wrote(m, n, t, i, a, attr)
    PROVE  Written(m, n, t, i, a, attr)
<1> DEFINE e == [present |-> TRUE, addr |-> a, attr |-> attr]
           row == [m.table[t] EXCEPT ![i] = e]
           tab == [m.table EXCEPT ![t] = row]
<1>1. e \in EntryType
  BY EntryMade
<1>2. /\ m.free \in SUBSET Frames /\ m.panic \in BOOLEAN
      /\ m.table \in [Frames -> [Indexes -> EntryType]] /\ m.table[t] \in [Indexes -> EntryType]
  BY MemFields
<1>3. n = [m EXCEPT !.table = tab]
  BY DEF setEntry, Wrote
<1> HIDE DEF e
<1>4. row \in [Indexes -> EntryType] /\ row[i] = e /\ \A j \in Indexes : j # i => row[j] = m.table[t][j]
  BY <1>1, <1>2
<1> HIDE DEF row
<1>5. /\ tab \in [Frames -> [Indexes -> EntryType]] /\ tab[t] = row
      /\ \A u \in Frames : u # t => tab[u] = m.table[u]
  BY <1>2, <1>4
<1> HIDE DEF tab
<1>6. n \in MemType /\ n.free = m.free /\ n.panic = m.panic /\ n.table = tab
  BY <1>2, <1>3, <1>5, Zenon DEF MemType
<1>7. n.table[t][i] = e
  BY <1>4, <1>5, <1>6, Zenon
<1>8. ASSUME NEW u \in Frames, NEW j \in Indexes, ~(u = t /\ j = i)
      PROVE  n.table[u][j] = m.table[u][j]
  BY <1>4, <1>5, <1>6, <1>8, Zenon
<1> QED BY <1>6, <1>7, <1>8 DEF e, Written

LEMMA TakenFacts ==
    ASSUME NEW m \in MemType, m.free # {}
    PROVE  /\ pmm_getFrame(m) \in m.free /\ pmm_getFrame(m) \in Frames
           /\ Taken(m) \in MemType /\ Taken(m).free = m.free \ {pmm_getFrame(m)}
           /\ Taken(m).panic = m.panic /\ Taken(m).table = m.table
<1>1. m.free \in SUBSET Frames
  BY DEF MemType
<1>2. pmm_getFrame(m) \in m.free
  BY <1>1, LowestIn DEF pmm_getFrame
<1> DEFINE f == pmm_getFrame(m)
<1> HIDE DEF f
<1>3. Taken(m) = [m EXCEPT !.free = m.free \ {f}]
  BY DEF Taken, f
<1>4. /\ Taken(m) \in MemType /\ Taken(m).free = m.free \ {f} /\ Taken(m).panic = m.panic
      /\ Taken(m).table = m.table
  BY <1>3 DEF MemType
<1> QED BY <1>1, <1>2, <1>4 DEF f

LEMMA CreatedFacts ==
    ASSUME NEW m \in MemType, m.free # {}, NEW t \in Frames, NEW i \in Indexes,
           NEW attr \in AttrType, t \notin m.free
    PROVE  LET f == pmm_getFrame(m)
               n == createEntry(m, t, i, attr)
           IN  /\ f \in m.free /\ f \in Frames /\ f # t
               /\ n \in MemType /\ n.free = m.free \ {f} /\ n.panic = m.panic
               /\ n.table[t][i] = [present |-> TRUE, addr |-> f, attr |-> attr]
               /\ \A j \in Indexes : ~n.table[f][j].present
               /\ \A u \in Frames \ {f} : \A j \in Indexes : ~(u = t /\ j = i) =>
                     n.table[u][j] = m.table[u][j]
<1> DEFINE f == pmm_getFrame(m)
           n == createEntry(m, t, i, attr)
           k == [Taken(m) EXCEPT !.table[f] = Cleared]
           tab == [m.table EXCEPT ![f] = Cleared]
<1>1. /\ f \in m.free /\ f \in Frames /\ Taken(m) \in MemType /\ Taken(m).free = m.free \ {f}
      /\ Taken(m).panic = m.panic /\ Taken(m).table = m.table
  BY TakenFacts
<1>2. f # t /\ f \in Pages
  BY <1>1, SizeFacts, Zenon
<1>3. Wrote(k, n, t, i, f, attr)
  BY DEF createEntry, Wrote
<1>4. k = [Taken(m) EXCEPT !.table = tab]
  BY <1>1
<1> HIDE DEF f, n, k
<1>5. m.table \in [Frames -> [Indexes -> EntryType]]
  BY DEF MemType
<1>6. /\ tab \in [Frames -> [Indexes -> EntryType]] /\ tab[f] = Cleared
      /\ \A u \in Frames : u # f => tab[u] = m.table[u]
  BY <1>1, <1>5, ClearedFacts
<1> HIDE DEF tab
<1>7. k \in MemType /\ k.free = m.free \ {f} /\ k.panic = m.panic /\ k.table = tab
  BY <1>1, <1>4, <1>6 DEF MemType
<1>8. /\ n \in MemType /\ n.free = k.free /\ n.panic = k.panic
      /\ n.table[t][i] = [present |-> TRUE, addr |-> f, attr |-> attr]
      /\ \A u \in Frames : \A j \in Indexes : ~(u = t /\ j = i) => n.table[u][j] = k.table[u][j]
  <2>1. Written(k, n, t, i, f, attr)
    BY <1>2, <1>3, <1>7, SetFacts, Zenon
  <2> QED BY <2>1 DEF Written
<1>9. \A j \in Indexes : ~n.table[f][j].present
  <2>1. \A j \in Indexes : n.table[f][j] = Cleared[j]
    BY <1>1, <1>2, <1>6, <1>7, <1>8, Zenon
  <2> QED BY <2>1, ClearedFacts, Zenon
<1>10. ASSUME NEW u \in Frames \ {f}, NEW j \in Indexes, ~(u = t /\ j = i)
       PROVE  n.table[u][j] = m.table[u][j]
  <2>1. u \in Frames /\ u # f
    OBVIOUS
  <2>2. n.table[u][j] = k.table[u][j] /\ k.table[u] = m.table[u]
    BY <2>1, <1>6, <1>7, <1>8, <1>10, Zenon
  <2> QED BY <2>2
<1> QED BY <1>1, <1>2, <1>7, <1>8, <1>9, <1>10 DEF f, n
--------------------------------------------------------------------------------
(* A frame without a role gets one.                                         *)
LEMMA RoleFacts ==
    ASSUME NEW g \in Roles, NEW f \in Frames
    PROVE  g.lev[f] \in -1 .. 4 /\ g.own[f] \in Frames /\ g.vp[f] \in Pages
BY DEF Roles

LEMMA RoleGiven ==
    ASSUME NEW g \in Roles, NEW f \in Frames, NEW l \in -1 .. 4, NEW r \in Frames, NEW v \in Pages
    PROVE  \E h \in Roles : Role(h, f, l, r, v) /\ Kept(g, h, Frames \ {f})
<1> DEFINE h == [lev |-> [g.lev EXCEPT ![f] = l], own |-> [g.own EXCEPT ![f] = r],
                 vp |-> [g.vp EXCEPT ![f] = v]]
<1>1. h \in Roles
  BY DEF Roles
<1>2. Role(h, f, l, r, v)
  BY DEF Roles, Role
<1>3. Kept(g, h, Frames \ {f})
  BY DEF Roles, Kept
<1> QED BY <1>1, <1>2, <1>3, Zenon

LEMMA SoundFacts ==
    ASSUME NEW m, NEW g, Sound(m, g)
    PROVE  /\ g \in Roles /\ m.free \cap Kernel = {}
           /\ \A f \in m.free \cup Kernel : g.lev[f] = -1
           /\ g.lev[_KernelPML4] = 4 /\ _KernelPML4 \in Frames
           /\ g.own[_KernelPML4] = _KernelPML4
           /\ \A t \in Frames : g.lev[t] = 4 => g.own[t] = t
           /\ \A t \in Frames : \A i \in Indexes : Follows(m, g, t, i)
           /\ Shares(m, g)
           /\ \A f \in Frames : g.lev[f] = 0 => g.vp[f] \in UserPages
BY KernelPML4, Zenon DEF Sound

LEMMA ChildKept ==
    ASSUME NEW g \in Roles, NEW h, NEW f \in Frames, NEW t \in Frames, NEW i, NEW a,
           g.lev[f] = -1, t # f, 1 <= g.lev[t], Kept(g, h, Frames \ {f}), Child(g, t, i, a)
    PROVE  Child(h, t, i, a)
<1>1. a \in Frames /\ g.lev[a] = g.lev[t] - 1 /\ g.lev[t] \in -1 .. 4
  BY RoleFacts DEF Child
<1>2. a # f
  BY <1>1
<1>3. /\ h.lev[a] = g.lev[a] /\ h.own[a] = g.own[a] /\ h.vp[a] = g.vp[a]
      /\ h.lev[t] = g.lev[t] /\ h.own[t] = g.own[t] /\ h.vp[t] = g.vp[t]
  BY <1>1, <1>2, Zenon DEF Kept
<1> QED BY <1>3, Zenon DEF Child

LEMMA FollowsKept ==
    ASSUME NEW m, NEW n, NEW g \in Roles, NEW h, NEW f \in Frames, NEW t \in Frames, NEW i,
           g.lev[f] = -1, t # f, Kept(g, h, Frames \ {f}), n.table[t][i] = m.table[t][i],
           Follows(m, g, t, i)
    PROVE  Follows(n, h, t, i)
<1>1. h.lev[t] = g.lev[t] /\ h.own[t] = g.own[t]
  BY Zenon DEF Kept
<1> SUFFICES ASSUME n.table[t][i].present, Tracked(h, t, i)
             PROVE  /\ Child(h, t, i, n.table[t][i].addr)
                    /\ h.own[t] = _KernelPML4 /\ h.lev[t] = 4 => i \in KIdx
                    /\ h.own[t] # _KernelPML4 => n.table[t][i].attr = VMM_USER_ATTRIBUTES
  BY Zenon DEF Follows
<1>2. Tracked(g, t, i)
  BY <1>1, Zenon DEF Tracked
<1>3. 1 <= g.lev[t]
  BY <1>2 DEF Tracked
<1>4. /\ Child(g, t, i, m.table[t][i].addr)
      /\ g.own[t] = _KernelPML4 /\ g.lev[t] = 4 => i \in KIdx
      /\ g.own[t] # _KernelPML4 => m.table[t][i].attr = VMM_USER_ATTRIBUTES
  BY <1>2, Zenon DEF Follows
<1>5. Child(h, t, i, n.table[t][i].addr)
  BY <1>3, <1>4, ChildKept
<1> QED BY <1>1, <1>4, <1>5, Zenon

(* Frame f gets role (l, r, v), and entry i of table t may change.          *)
SameBut(m, n, f, t, i) ==
    \A u \in Frames \ {f} : \A j \in Indexes : ~(u = t /\ j = i) =>
        n.table[u][j] = m.table[u][j]

AllFollow(m, g, t) == \A i \in Indexes : Follows(m, g, t, i)

LEMMA Remark ==
    ASSUME NEW m \in MemType, NEW n \in MemType, NEW g, Sound(m, g), NEW f \in Frames,
           g.lev[f] = -1, f \notin n.free, f \notin Kernel, n.free \subseteq m.free,
           NEW l \in 0 .. 4, NEW r \in Frames, NEW v \in Pages, l = 4 => r = f,
           l = 0 => v \in UserPages,
           NEW h \in Roles, Role(h, f, l, r, v), Kept(g, h, Frames \ {f}),
           NEW t \in Frames, NEW i \in Indexes,
           SameBut(m, n, f, t, i), Follows(n, h, t, i), AllFollow(n, h, f), Shares(n, h)
    PROVE  Sound(n, h)
<1>1. /\ g \in Roles /\ m.free \cap Kernel = {} /\ \A x \in m.free \cup Kernel : g.lev[x] = -1
      /\ g.lev[_KernelPML4] = 4 /\ _KernelPML4 \in Frames
      /\ \A x \in Frames : g.lev[x] = 4 => g.own[x] = x
      /\ \A x \in Frames : \A j \in Indexes : Follows(m, g, x, j)
      /\ \A x \in Frames : g.lev[x] = 0 => g.vp[x] \in UserPages
  BY SoundFacts
<1>2. /\ h.lev[f] = l /\ h.own[f] = r /\ h.vp[f] = v
      /\ \A x \in Frames : x # f => h.lev[x] = g.lev[x] /\ h.own[x] = g.own[x] /\ h.vp[x] = g.vp[x]
  BY Zenon DEF Role, Kept
<1>3. \A j \in Indexes : Follows(n, h, f, j)
  BY DEF AllFollow
<1>5. n.free \cap Kernel = {}
  BY <1>1
<1>6. ASSUME NEW x \in n.free \cup Kernel PROVE h.lev[x] = -1
  <2>1. x \in m.free \cup Kernel /\ x # f
    OBVIOUS
  <2>2. x \in Frames
    BY <2>1, SizeAssumption DEF MemType
  <2> QED BY <1>1, <1>2, <2>1, <2>2, Zenon
<1>7. h.lev[_KernelPML4] = 4
  BY <1>1, <1>2
<1>8. ASSUME NEW x \in Frames, h.lev[x] = 4 PROVE h.own[x] = x
  BY <1>1, <1>2, <1>8, Zenon
<1>9. ASSUME NEW x \in Frames, NEW j \in Indexes PROVE Follows(n, h, x, j)
  <2>1. CASE x = f
    BY <2>1, <1>3, Zenon
  <2>2. CASE x = t /\ j = i
    BY <2>2, Zenon
  <2>3. CASE x # f /\ ~(x = t /\ j = i)
    <3>1. n.table[x][j] = m.table[x][j]
      BY <2>3 DEF SameBut
    <3> QED BY <3>1, <2>3, <1>1, FollowsKept, Zenon
  <2> QED BY <2>1, <2>2, <2>3
<1>10. ASSUME NEW x \in Frames, h.lev[x] = 0 PROVE h.vp[x] \in UserPages
  BY <1>1, <1>2, <1>10, Zenon
<1> QED BY <1>5, <1>6, <1>7, <1>8, <1>9, <1>10, ZenonT(40) DEF Sound
--------------------------------------------------------------------------------
(* One level down: the entry that is found or made leads to a table of the  *)
(* next level, in the same space, on the way to the same page.              *)
Stays(m, n) ==
    \A u \in Frames \ m.free : \A j \in Indexes :
        m.table[u][j].present => n.table[u][j] = m.table[u][j]

LEMMA SoundSame ==
    ASSUME NEW m, NEW n, NEW g, Sound(m, g), n.table = m.table, n.free \subseteq m.free
    PROVE  Sound(n, g)
<1>1. n.free \cap Kernel = {} /\ \A f \in n.free \cup Kernel : g.lev[f] = -1
  BY SoundFacts
<1>2. ASSUME NEW t \in Frames, NEW i \in Indexes PROVE Follows(n, g, t, i)
  <2>1. Follows(m, g, t, i)
    BY SoundFacts, Zenon
  <2> QED BY <2>1 DEF Follows
<1>3. Shares(n, g)
  <2>1. Shares(m, g)
    BY SoundFacts, Zenon
  <2> QED BY <2>1 DEF Shares
<1> QED BY <1>1, <1>2, <1>3, SoundFacts, Zenon DEF Sound

LEMMA ReachedSame ==
    ASSUME NEW m, NEW n \in MemType, NEW g, NEW S, Sound(m, g),
           n.table = m.table, n.free \subseteq m.free
    PROVE  Reached(m, g, n, g, S) /\ Stays(m, n)
<1>1. Sound(n, g)
  BY SoundSame
<1> QED BY <1>1, Zenon DEF Reached, Kept, Stays

(* The entry on the way to v is one that leads to a frame with a role.      *)
LEMMA OnTracked ==
    ASSUME NEW g, NEW l \in 1 .. 4, NEW t, NEW r, NEW v, NEW attr,
           On(g, t, l, r, v), Region(r, v, attr), r = _KernelPML4 => l # 1
    PROVE  /\ Tracked(g, t, Idx(l, v))
           /\ g.own[t] = _KernelPML4 /\ g.lev[t] = 4 => Idx(l, v) \in KIdx
           /\ g.own[t] # _KernelPML4 => attr = VMM_USER_ATTRIBUTES
<1>1. g.lev[t] = l /\ g.own[t] = r
  BY DEF On
<1>2. CASE r = _KernelPML4
  <2>1. v \in KernelPages /\ l \in 2 .. 4
    BY <1>2 DEF Region
  <2>2. l = 4 => Idx(l, v) \in KIdx
    BY <2>1, RegionIndexes, Indexed
  <2> QED BY <1>1, <1>2, <2>1, <2>2, Zenon DEF Tracked
<1>3. CASE r # _KernelPML4
  <2>1. v \in UserPages /\ attr = VMM_USER_ATTRIBUTES
    BY <1>3 DEF Region
  <2>2. l = 4 => Idx(l, v) \notin KIdx
    BY <2>1, RegionIndexes, Indexed
  <2> QED BY <1>1, <1>3, <2>1, <2>2, Zenon DEF Tracked
<1> QED BY <1>2, <1>3

LEMMA OnChild ==
    ASSUME NEW g, NEW l \in 1 .. 4, NEW t, NEW r, NEW v, NEW a,
           On(g, t, l, r, v), Child(g, t, Idx(l, v), a)
    PROVE  On(g, a, l - 1, r, v)
<1>1. /\ g.lev[t] = l /\ g.own[t] = r /\ Agree(l + 1, g.vp[t], v)
      /\ a \in Frames /\ g.lev[a] = l - 1 /\ g.own[a] = r
      /\ Idx(l, g.vp[a]) = Idx(l, v) /\ Agree(l + 1, g.vp[a], g.vp[t])
  BY Zenon DEF On, Child
<1>2. Agree(l, g.vp[a], v)
  BY <1>1, AgreeStep, Zenon
<1>3. (l - 1) + 1 = l
  OBVIOUS
<1> QED BY <1>1, <1>2, <1>3, Zenon DEF On

LEMMA OnFound ==
    ASSUME NEW m, NEW g, Sound(m, g), NEW l \in 1 .. 4, NEW t, NEW r, NEW v \in Pages,
           NEW attr, On(g, t, l, r, v), Region(r, v, attr), r = _KernelPML4 => l # 1,
           m.table[t][Idx(l, v)].present
    PROVE  On(g, m.table[t][Idx(l, v)].addr, l - 1, r, v)
<1>1. t \in Frames /\ Idx(l, v) \in Indexes
  BY IdxFacts DEF On
<1>2. Tracked(g, t, Idx(l, v))
  BY OnTracked, Zenon
<1>3. Follows(m, g, t, Idx(l, v))
  BY <1>1, SoundFacts, Zenon
<1>4. Child(g, t, Idx(l, v), m.table[t][Idx(l, v)].addr)
  BY <1>2, <1>3, ZenonT(40) DEF Follows
<1> QED BY <1>4, OnChild, Zenon

Descended(m, n, t, i, attr) == n = Descend(m, t, i, attr)

Down(m, g, n, h, t, l, r, v) ==
    /\ Reached(m, g, n, h, Frames \ m.free) /\ Stays(m, n)
    /\ ~n.panic => /\ n.table[t][Idx(l, v)].present
                   /\ On(h, n.table[t][Idx(l, v)].addr, l - 1, r, v)

LEMMA DescendSound ==
    ASSUME NEW m \in MemType, NEW g, Sound(m, g), NEW l \in 2 .. 4, NEW t, NEW r \in Frames,
           NEW v \in Pages, NEW attr \in AttrType, On(g, t, l, r, v), Region(r, v, attr),
           l = 4 /\ r = _KernelPML4 => m.table[t][Idx(l, v)].present \/ OnlyKernel(g),
           NEW n, Descended(m, n, t, Idx(l, v), attr)
    PROVE  \E h : Down(m, g, n, h, t, l, r, v)
<1> DEFINE i == Idx(l, v)
<1>0. n = Descend(m, t, i, attr)
  BY Zenon DEF Descended
<1>1. /\ t \in Frames /\ g.lev[t] = l /\ g.own[t] = r /\ Agree(l + 1, g.vp[t], v)
      /\ i \in Indexes /\ l \in 1 .. 4
  BY IdxFacts DEF On
<1>2. CASE m.panic \/ m.table[t][i].present
  <2>1. n = m
    BY <1>0, <1>2, Zenon DEF Descend
  <2>2. Reached(m, g, n, g, Frames \ m.free) /\ Stays(m, n)
    BY <2>1, ReachedSame, ZenonT(40)
  <2>3. ~n.panic => n.table[t][i].present /\ On(g, n.table[t][i].addr, l - 1, r, v)
    BY <1>1, <1>2, <2>1, OnFound
  <2> QED BY <2>2, <2>3, Zenon DEF Down
<1>3. CASE ~m.panic /\ ~m.table[t][i].present /\ m.free = {}
  <2>1. n = [m EXCEPT !.panic = TRUE]
    BY <1>0, <1>3, Zenon DEF Descend
  <2>2. n \in MemType /\ n.table = m.table /\ n.free \subseteq m.free /\ n.panic
    BY <2>1, Zenon DEF MemType
  <2>3. Reached(m, g, n, g, Frames \ m.free) /\ Stays(m, n)
    BY <2>2, ReachedSame, Zenon
  <2> QED BY <2>2, <2>3, Zenon DEF Down
<1>4. CASE ~m.panic /\ ~m.table[t][i].present /\ m.free # {}
  <2> DEFINE f == pmm_getFrame(m)
  <2>1. n = createEntry(m, t, i, attr)
    BY <1>0, <1>4, ZenonT(40) DEF Descend
  <2>2. t \notin m.free
    BY <1>1, SoundFacts
  <2>3. /\ f \in m.free /\ f \in Frames /\ f # t
        /\ n \in MemType /\ n.free = m.free \ {f} /\ n.panic = m.panic
        /\ n.table[t][i] = [present |-> TRUE, addr |-> f, attr |-> attr]
        /\ \A j \in Indexes : ~n.table[f][j].present
        /\ \A u \in Frames \ {f} : \A j \in Indexes : ~(u = t /\ j = i) =>
              n.table[u][j] = m.table[u][j]
    BY <1>1, <1>4, <2>1, <2>2, CreatedFacts
  <2> HIDE DEF f
  <2>4. g \in Roles /\ l - 1 \in -1 .. 4 /\ l - 1 \in 0 .. 4 /\ l - 1 # 4 /\ l - 1 # 0
    BY SoundFacts
  <2>5. PICK h \in Roles : Role(h, f, l - 1, r, v) /\ Kept(g, h, Frames \ {f})
    BY <2>3, <2>4, RoleGiven, Zenon
  <2>6. /\ h.lev[f] = l - 1 /\ h.own[f] = r /\ h.vp[f] = v
        /\ h.lev[t] = l /\ h.own[t] = r /\ h.vp[t] = g.vp[t]
    BY <1>1, <2>3, <2>5, Zenon DEF Role, Kept
  <2>7. On(h, t, l, r, v)
    BY <1>1, <2>6, Zenon DEF On
  <2>8. Follows(n, h, t, i)
    <3>1. n.table[t][i].addr = f /\ n.table[t][i].attr = attr
      BY <2>3
    <3>2. Agree(l + 1, h.vp[f], h.vp[t])
      BY <1>1, <2>6 DEF Agree
    <3>3. Child(h, t, i, f)
      BY <2>3, <2>6, <3>2, ZenonT(40) DEF Child
    <3>4. /\ h.own[t] = _KernelPML4 /\ h.lev[t] = 4 => i \in KIdx
          /\ h.own[t] # _KernelPML4 => attr = VMM_USER_ATTRIBUTES
      BY <1>1, <2>7, OnTracked
    <3> QED BY <3>1, <3>3, <3>4, ZenonT(40) DEF Follows
  <2>9. AllFollow(n, h, f) /\ SameBut(m, n, f, t, i)
    BY <2>3, ZenonT(40) DEF Follows, AllFollow, SameBut
  <2>10. Shares(n, h)
    <3> SUFFICES ASSUME NEW u \in Frames, h.lev[u] = 4, u # _KernelPML4, NEW j \in KIdx
                 PROVE  n.table[u][j] = n.table[_KernelPML4][j]
      BY Zenon DEF Shares
    <3>1. u # f /\ j \in Indexes
      BY <2>4, <2>6, RegionIndexes, ZenonT(40)
    <3>2. g.lev[u] = 4 /\ g.own[u] = u
      BY <2>5, <3>1, SoundFacts DEF Kept
    <3>3. ~(u = t /\ j = i)
      <4> SUFFICES ASSUME u = t, j = i PROVE FALSE
        BY Zenon
      <4>1. l = 4 /\ r # _KernelPML4
        BY <1>1, <3>2, Zenon
      <4>2. v \in UserPages
        BY <4>1 DEF Region
      <4> QED BY <4>1, <4>2, RegionIndexes, Indexed, Zenon
    <3>4. ~(_KernelPML4 = t /\ j = i)
      <4> SUFFICES ASSUME _KernelPML4 = t, j = i PROVE FALSE
        BY Zenon
      <4>1. l = 4 /\ r = _KernelPML4
        BY <1>1, SoundFacts, Zenon
      <4> QED BY <4>1, <3>2, <1>4, Zenon DEF OnlyKernel
    <3>5. n.table[u][j] = m.table[u][j]
      BY <2>3, <3>1, <3>3, ZenonT(40)
    <3>6. _KernelPML4 \in Frames \ {f}
      BY <2>3, SoundFacts
    <3>7. n.table[_KernelPML4][j] = m.table[_KernelPML4][j]
      BY <2>3, <3>1, <3>4, <3>6, Zenon
    <3> QED BY <3>2, <3>5, <3>7, SoundFacts DEF Shares
  <2>11. g.lev[f] = -1 /\ f \notin n.free /\ f \notin Kernel /\ n.free \subseteq m.free
    <3>1. m.free \cap Kernel = {} /\ \A e \in m.free \cup Kernel : g.lev[e] = -1
      BY Zenon DEF Sound
    <3>2. f \notin n.free /\ n.free \subseteq m.free
      BY <2>3, Zenon
    <3>3. f \in m.free \cup Kernel /\ f \notin Kernel
      BY <2>3, <3>1, Zenon
    <3> QED BY <3>1, <3>2, <3>3, Zenon
  <2>12. Sound(n, h)
    <3> HIDE DEF i
    <3>1. f \in Frames /\ n \in MemType
      BY <2>3, ZenonT(40)
    <3> QED BY <1>1, <2>4, <2>5, <2>8, <2>9, <2>10, <2>11, <3>1, Remark, ZenonT(40)
  <2>13. Stays(m, n)
    <3> SUFFICES ASSUME NEW u \in Frames \ m.free, NEW j \in Indexes, m.table[u][j].present
                 PROVE  n.table[u][j] = m.table[u][j]
      BY Zenon DEF Stays
    <3>1. u \in Frames \ {f} /\ ~(u = t /\ j = i)
      BY <1>4, <2>3, ZenonT(40)
    <3> QED BY <2>3, <3>1
  <2>14. Kept(g, h, Frames \ m.free)
    BY <2>3, <2>5 DEF Kept
  <2>15. \A u \in Frames : h.lev[u] = 4 <=> g.lev[u] = 4
    <3>1. g.lev[f] # 4 /\ h.lev[f] # 4
      BY <2>4, <2>6, <2>11, Numbers, Zenon
    <3> QED BY <2>5, <3>1, Zenon DEF Kept
  <2>16. _KernelPML4 \in Frames \ m.free
    BY SoundFacts, Numbers, ZenonT(40)
  <2>17. \A j \in Indexes : m.table[_KernelPML4][j].present => n.table[_KernelPML4][j].present
    BY <2>13, <2>16 DEF Stays
  <2>18. Reached(m, g, n, h, Frames \ m.free)
    BY <2>3, <2>11, <2>12, <2>14, <2>15, <2>17, ZenonT(40) DEF Reached
  <2>19. n.table[t][i].present /\ n.table[t][i].addr = f
    BY <2>3
  <2>20. (l - 1) + 1 = l /\ Agree(l, v, v)
    <3>1. (l - 1) + 1 = l
      OBVIOUS
    <3> QED BY <3>1, Zenon DEF Agree
  <2>21. On(h, f, l - 1, r, v)
    BY <2>3, <2>6, <2>20 DEF On
  <2> QED BY <2>13, <2>18, <2>19, <2>21, Zenon DEF Down
<1> QED BY <1>2, <1>3, <1>4
--------------------------------------------------------------------------------
(* vmm_mapPage: three levels down, then the entry of the page itself.       *)
LEMMA ReachedChain ==
    ASSUME NEW m, NEW g, NEW n, NEW h, NEW k, NEW q, NEW S, NEW T, S \subseteq T,
           Reached(m, g, n, h, S), Reached(n, h, k, q, T)
    PROVE  Reached(m, g, k, q, S)
<1>1. Kept(g, q, S)
  BY DEF Reached, Kept
<1>2. k.free \subseteq m.free
  BY DEF Reached
<1> QED BY <1>1, <1>2, ZenonT(40) DEF Reached

LEMMA StaysChain ==
    ASSUME NEW m, NEW n, NEW k, Stays(m, n), Stays(n, k), n.free \subseteq m.free
    PROVE  Stays(m, k)
<1> SUFFICES ASSUME NEW u \in Frames \ m.free, NEW j \in Indexes, m.table[u][j].present
             PROVE  k.table[u][j] = m.table[u][j]
  BY Zenon DEF Stays
<1>1. n.table[u][j] = m.table[u][j]
  BY Zenon DEF Stays
<1>2. u \in Frames \ n.free
  OBVIOUS
<1> QED BY <1>1, <1>2, Zenon DEF Stays

LEMMA OnReached ==
    ASSUME NEW m, NEW g, NEW n, NEW h, NEW t, NEW l \in 0 .. 4, NEW r, NEW v,
           Sound(m, g), On(g, t, l, r, v), Reached(m, g, n, h, Frames \ m.free)
    PROVE  On(h, t, l, r, v) /\ t \in Frames \ m.free
<1>1. t \in Frames \ m.free
  BY SoundFacts DEF On
<1> QED BY <1>1, ZenonT(40) DEF On, Reached, Kept

LEMMA SetKernel ==
    ASSUME NEW m \in MemType, NEW g, Sound(m, g), NEW t, NEW i \in Indexes, NEW v,
           NEW a \in Pages, NEW attr \in AttrType, On(g, t, 1, _KernelPML4, v), NEW S,
           NEW n, Wrote(m, n, t, i, a, attr)
    PROVE  Reached(m, g, n, g, S)
<1>1. t \in Frames /\ g.lev[t] = 1 /\ g.own[t] = _KernelPML4
  BY ZenonT(40) DEF On
<1>2. /\ n \in MemType /\ n.free = m.free /\ n.panic = m.panic
      /\ \A u \in Frames : \A j \in Indexes : ~(u = t /\ j = i) => n.table[u][j] = m.table[u][j]
  <2>1. Written(m, n, t, i, a, attr)
    BY <1>1, SetFacts, Zenon
  <2> QED BY <2>1 DEF Written
<1>3. ASSUME NEW u \in Frames, NEW j \in Indexes PROVE Follows(n, g, u, j)
  <2>1. CASE u = t
    BY <2>1, <1>1, Numbers, Zenon DEF Follows, Tracked
  <2>2. CASE u # t
    <3>1. n.table[u][j] = m.table[u][j] /\ Follows(m, g, u, j)
      BY <1>2, <2>2, SoundFacts, Zenon
    <3> QED BY <3>1, Zenon DEF Follows
  <2> QED BY <2>1, <2>2, Zenon
<1>4. t # _KernelPML4 /\ _KernelPML4 \in Frames
  BY <1>1, SoundFacts, Numbers, Zenon
<1>5. Shares(n, g)
  <2> SUFFICES ASSUME NEW u \in Frames, g.lev[u] = 4, u # _KernelPML4, NEW j \in KIdx
               PROVE  n.table[u][j] = n.table[_KernelPML4][j]
    BY Zenon DEF Shares
  <2>1. u # t /\ j \in Indexes
    BY <1>1, RegionIndexes, Numbers, ZenonT(40)
  <2>2. m.table[u][j] = m.table[_KernelPML4][j]
    <3>1. Shares(m, g)
      BY SoundFacts, Zenon
    <3> QED BY <3>1 DEF Shares
  <2> QED BY <1>2, <1>4, <2>1, <2>2, Zenon
<1>6. Sound(n, g)
  BY <1>2, <1>3, <1>5, SoundFacts, Zenon DEF Sound
<1>7. \A j \in Indexes : m.table[_KernelPML4][j].present => n.table[_KernelPML4][j].present
  BY <1>2, <1>4, Zenon
<1> QED BY <1>2, <1>6, <1>7, Zenon DEF Reached, Kept

LEMMA SetUser ==
    ASSUME NEW m \in MemType, NEW g, Sound(m, g), NEW t, NEW v \in UserPages, NEW a \in Frames,
           NEW r \in Frames, r # _KernelPML4, On(g, t, 1, r, v), g.lev[a] = -1,
           a \notin m.free, a \notin Kernel, NEW S, S \subseteq Frames \ {a},
           NEW n, NEW i, i = Idx(1, v), Wrote(m, n, t, i, a, VMM_USER_ATTRIBUTES)
    PROVE  \E h : Reached(m, g, n, h, S)
<1>0. v \in Pages /\ a \in Pages /\ VMM_USER_ATTRIBUTES \in AttrType
  BY SizeFacts, SizeAssumption, Zenon DEF AttrType, VMM_USER_ATTRIBUTES
<1>1. t \in Frames /\ g.lev[t] = 1 /\ g.own[t] = r /\ i \in Indexes /\ Agree(2, g.vp[t], v)
  BY <1>0, IdxFacts DEF On
<1>2. /\ n \in MemType /\ n.free = m.free /\ n.panic = m.panic
      /\ n.table[t][i] = [present |-> TRUE, addr |-> a, attr |-> VMM_USER_ATTRIBUTES]
      /\ \A u \in Frames : \A j \in Indexes : ~(u = t /\ j = i) => n.table[u][j] = m.table[u][j]
  <2>1. Written(m, n, t, i, a, VMM_USER_ATTRIBUTES)
    BY <1>0, <1>1, SetFacts, Zenon
  <2> QED BY <2>1 DEF Written
<1>3. g \in Roles /\ t # a
  <2>1. g.lev[t] # g.lev[a]
    BY <1>1, Numbers, ZenonT(40)
  <2> QED BY <2>1, SoundFacts, Zenon
<1> DEFINE z == 0
<1>z. z = 0 /\ z \in -1 .. 4 /\ z \in 0 .. 4 /\ z # 4
  OBVIOUS
<1> HIDE DEF z
<1>4. PICK h \in Roles : Role(h, a, z, r, v) /\ Kept(g, h, Frames \ {a})
  BY <1>0, <1>3, <1>z, RoleGiven, Zenon
<1>5. /\ h.lev[a] = 0 /\ h.own[a] = r /\ h.vp[a] = v
      /\ h.lev[t] = 1 /\ h.own[t] = r /\ h.vp[t] = g.vp[t]
  BY <1>1, <1>3, <1>4, <1>z, ZenonT(40) DEF Role, Kept
<1>6. Follows(n, h, t, i)
  <2>1. Agree(2, h.vp[a], h.vp[t])
    BY <1>1, <1>5 DEF Agree
  <2>2. Child(h, t, i, a)
    BY <1>1, <1>5, <2>1, Numbers, Zenon DEF Child
  <2> QED BY <1>2, <1>5, <2>2 DEF Follows
<1>7. AllFollow(n, h, a)
  BY <1>5, Numbers, Zenon DEF Follows, Tracked, AllFollow
<1>8. _KernelPML4 \in Frames /\ t # _KernelPML4 /\ a # _KernelPML4
  BY <1>1, SoundFacts, Numbers, ZenonT(40)
<1>9. Shares(n, h)
  <2> SUFFICES ASSUME NEW u \in Frames, h.lev[u] = 4, u # _KernelPML4, NEW j \in KIdx
               PROVE  n.table[u][j] = n.table[_KernelPML4][j]
    BY Zenon DEF Shares
  <2>1. u # t /\ j \in Indexes /\ u # a
    BY <1>5, RegionIndexes, Numbers, Zenon
  <2>2. g.lev[u] = 4
    BY <1>4, <2>1, ZenonT(40) DEF Kept
  <2>3. m.table[u][j] = m.table[_KernelPML4][j]
    <3>1. Shares(m, g)
      BY SoundFacts, Zenon
    <3> QED BY <2>2, <3>1 DEF Shares
  <2> QED BY <1>2, <1>8, <2>1, <2>3, Zenon
<1>10. Sound(n, h)
  <2>1. SameBut(m, n, a, t, i)
    BY <1>2, Zenon DEF SameBut
  <2>2. n \in MemType /\ n.free \subseteq m.free /\ a \notin n.free
    BY <1>2, ZenonT(40)
  <2> QED BY <1>0, <1>1, <1>4, <1>6, <1>7, <1>9, <1>z, <2>1, <2>2, Remark, ZenonT(40)
<1>11. Kept(g, h, S)
  BY <1>4 DEF Kept
<1>12. \A u \in Frames : h.lev[u] = 4 <=> g.lev[u] = 4
  <2>1. g.lev[a] # 4 /\ h.lev[a] # 4
    BY <1>5
  <2> QED BY <1>4, <2>1, ZenonT(40) DEF Kept
<1>13. \A j \in Indexes : m.table[_KernelPML4][j].present => n.table[_KernelPML4][j].present
  BY <1>2, <1>8
<1> QED BY <1>2, <1>10, <1>11, <1>12, <1>13, Zenon DEF Reached

(* The tables on the way to a page, in one space, at their levels.          *)
Leads(m, t, i, a) == m.table[t][i].present /\ m.table[t][i].addr = a

AddrOf(m, t, i, a) == a = m.table[t][i].addr

Path(m, h, r, pdp, pd, pt, v) ==
    /\ Leads(m, r, pml4Index(v), pdp) /\ Leads(m, pdp, pdpIndex(v), pd)
    /\ Leads(m, pd, pdIndex(v), pt)
    /\ On(h, r, 4, r, v) /\ On(h, pdp, 3, r, v) /\ On(h, pd, 2, r, v) /\ On(h, pt, 1, r, v)

Ready(m, g, r, v) ==
    r = _KernelPML4 => m.table[r][pml4Index(v)].present \/ OnlyKernel(g)

LEMMA Levels ==
    /\ 4 \in 2 .. 4 /\ 3 \in 2 .. 4 /\ 2 \in 2 .. 4 /\ 4 - 1 = 3 /\ 3 - 1 = 2 /\ 2 - 1 = 1
    /\ 4 \in 0 .. 4 /\ 3 \in 0 .. 4 /\ 2 \in 0 .. 4 /\ 1 \in 0 .. 4 /\ 3 # 4 /\ 2 # 4
    /\ 4 \in 1 .. 4 /\ 3 \in 1 .. 4 /\ 2 \in 1 .. 4 /\ 1 \in 1 .. 4
OBVIOUS

LEMMA RootOn ==
    ASSUME NEW m, NEW g, Sound(m, g), NEW r \in Frames, g.lev[r] = 4, NEW v
    PROVE  On(g, r, 4, r, v)
<1>1. g.own[r] = r
  BY SoundFacts, Zenon
<1>2. Agree(4 + 1, g.vp[r], v)
  BY DEF Agree
<1> QED BY <1>1, <1>2, Zenon DEF On

LEMMA DescendRoot ==
    ASSUME NEW m \in MemType, NEW g, Sound(m, g), NEW r \in Frames, NEW v \in Pages,
           NEW attr \in AttrType, On(g, r, 4, r, v), Region(r, v, attr), Ready(m, g, r, v),
           NEW n, Descended(m, n, r, pml4Index(v), attr)
    PROVE  \E h : Down(m, g, n, h, r, 4, r, v)
<1>1. Idx(4, v) = pml4Index(v)
  BY Indexed, Zenon
<1>2. r = _KernelPML4 => m.table[r][Idx(4, v)].present \/ OnlyKernel(g)
  BY <1>1 DEF Ready
<1>3. Descended(m, n, r, Idx(4, v), attr)
  BY <1>1, Zenon
<1> QED BY <1>2, <1>3, Levels, DescendSound, ZenonT(40)

LEMMA DescendLower ==
    ASSUME NEW m \in MemType, NEW g, Sound(m, g), NEW l \in 2 .. 4, l # 4, NEW t,
           NEW r \in Frames, NEW v \in Pages, NEW attr \in AttrType, On(g, t, l, r, v),
           Region(r, v, attr), NEW n, Descended(m, n, t, Idx(l, v), attr)
    PROVE  \E h : Down(m, g, n, h, t, l, r, v)
BY DescendSound, ZenonT(40)

Came(m, g, n, h, t, l, r, v) ==
    /\ n \in MemType /\ Sound(n, h) /\ n.free \subseteq m.free
    /\ Reached(m, g, n, h, Frames \ m.free) /\ Stays(m, n)
    /\ On(h, t, l, r, v) /\ t \in Frames \ n.free /\ Idx(l, v) \in Indexes

LEMMA DownFrom ==
    ASSUME NEW m, NEW g, Sound(m, g), NEW n, NEW h, NEW t, NEW l \in 2 .. 4, NEW r,
           NEW v \in Pages, Down(m, g, n, h, t, l, r, v), On(g, t, l, r, v)
    PROVE  Came(m, g, n, h, t, l, r, v)
<1>1. /\ Reached(m, g, n, h, Frames \ m.free) /\ Stays(m, n) /\ n \in MemType
      /\ Sound(n, h) /\ n.free \subseteq m.free
  BY DEF Down, Reached
<1>2. l \in 0 .. 4 /\ l \in 1 .. 4
  OBVIOUS
<1>3. On(h, t, l, r, v) /\ t \in Frames \ m.free
  BY <1>1, <1>2, OnReached, Zenon
<1>4. Idx(l, v) \in Indexes
  BY <1>2, IdxFacts, Zenon
<1> QED BY <1>1, <1>3, <1>4, ZenonT(40) DEF Came

LEMMA ReachedFrom ==
    ASSUME NEW m, NEW g, NEW n, NEW h, NEW k, NEW q,
           Reached(m, g, n, h, Frames \ m.free), Reached(n, h, k, q, Frames \ n.free)
    PROVE  Reached(m, g, k, q, Frames \ m.free)
<1>1. n.free \subseteq m.free
  BY DEF Reached
<1>2. Frames \ m.free \subseteq Frames \ n.free
  BY <1>1, Zenon
<1> QED BY <1>2, ReachedChain

LEMMA OnStill ==
    ASSUME NEW m, NEW g, NEW n, NEW h, NEW t, NEW l \in 0 .. 4, NEW r, NEW v,
           Sound(m, g), On(g, t, l, r, v), Reached(m, g, n, h, Frames \ m.free)
    PROVE  On(h, t, l, r, v)
BY OnReached, Zenon

LEMMA DownOn ==
    ASSUME NEW m, NEW g, NEW n, NEW h, NEW t, NEW l, NEW r, NEW v, NEW a,
           Down(m, g, n, h, t, l, r, v), ~n.panic, AddrOf(n, t, Idx(l, v), a)
    PROVE  Leads(n, t, Idx(l, v), a) /\ On(h, a, l - 1, r, v)
BY Zenon DEF Down, AddrOf, Leads

LEMMA LeadsStill ==
    ASSUME NEW m, NEW n, NEW t \in Frames \ m.free, NEW i \in Indexes, NEW a,
           Stays(m, n), Leads(m, t, i, a)
    PROVE  Leads(n, t, i, a)
BY DEF Stays, Leads

LEMMA PanicEnds ==
    ASSUME NEW m, m.panic, NEW n, NEW t, NEW i, NEW attr, Descended(m, n, t, i, attr)
    PROVE  n = m
BY ZenonT(40) DEF Descended, Descend

LEMMA MapPath ==
    ASSUME NEW m \in MemType, NEW g, Sound(m, g), NEW r \in Frames, NEW v \in Pages,
           On(g, r, 4, r, v), NEW attr \in AttrType, Region(r, v, attr), Ready(m, g, r, v),
           NEW k, NEW l, NEW n, NEW pdp, NEW pd, NEW pt,
           Descended(m, k, r, pml4Index(v), attr), AddrOf(k, r, pml4Index(v), pdp),
           Descended(k, l, pdp, pdpIndex(v), attr), AddrOf(l, pdp, pdpIndex(v), pd),
           Descended(l, n, pd, pdIndex(v), attr), AddrOf(n, pd, pdIndex(v), pt)
    PROVE  \E h : /\ Reached(m, g, n, h, Frames \ m.free)
                  /\ ~n.panic => Path(n, h, r, pdp, pd, pt, v)
<1>0. /\ Idx(4, v) = pml4Index(v) /\ Idx(3, v) = pdpIndex(v) /\ Idx(2, v) = pdIndex(v)
  BY Indexed, Zenon
<1>2. PICK h4 : Down(m, g, k, h4, r, 4, r, v)
  BY DescendRoot, Zenon
<1>3. /\ k \in MemType /\ Sound(k, h4) /\ k.free \subseteq m.free
      /\ Reached(m, g, k, h4, Frames \ m.free) /\ Stays(m, k)
      /\ On(h4, r, 4, r, v) /\ r \in Frames \ k.free /\ Idx(4, v) \in Indexes
  <2>1. Came(m, g, k, h4, r, 4, r, v)
    BY <1>2, Levels, DownFrom, Zenon
  <2> QED BY <2>1, Zenon DEF Came
<1>4. CASE k.panic
  <2>1. l = k
    BY <1>4, PanicEnds, Zenon
  <2>2. n = k
    BY <1>4, <2>1, PanicEnds, Zenon
  <2> QED BY <1>3, <1>4, <2>2, Zenon
<1>5. CASE ~k.panic
  <2>1. Leads(k, r, Idx(4, v), pdp) /\ On(h4, pdp, 3, r, v)
    BY <1>0, <1>2, <1>5, Levels, DownOn, Zenon
  <2>2. PICK h3 : Down(k, h4, l, h3, pdp, 3, r, v)
    <3>1. Descended(k, l, pdp, Idx(3, v), attr)
      BY <1>0, Zenon
    <3> QED BY <1>3, <2>1, <3>1, Levels, DescendLower, Zenon
  <2>3. /\ l \in MemType /\ Sound(l, h3) /\ l.free \subseteq k.free
        /\ Reached(k, h4, l, h3, Frames \ k.free) /\ Stays(k, l)
        /\ On(h3, pdp, 3, r, v) /\ pdp \in Frames \ l.free /\ Idx(3, v) \in Indexes
    <3>1. Came(k, h4, l, h3, pdp, 3, r, v)
      BY <1>3, <2>1, <2>2, Levels, DownFrom, Zenon
    <3> QED BY <3>1, Zenon DEF Came
  <2>4. Reached(m, g, l, h3, Frames \ m.free)
    BY <1>3, <2>3, ReachedFrom, Zenon
  <2>5. CASE l.panic
    <3>1. n = l
      BY <2>5, PanicEnds, Zenon
    <3> QED BY <2>4, <2>5, <3>1, Zenon
  <2>6. CASE ~l.panic
    <3>1. Leads(l, pdp, Idx(3, v), pd) /\ On(h3, pd, 2, r, v)
      BY <1>0, <2>2, <2>6, Levels, DownOn, Zenon
    <3>2. PICK h2 : Down(l, h3, n, h2, pd, 2, r, v)
      <4>1. Descended(l, n, pd, Idx(2, v), attr)
        BY <1>0, Zenon
      <4> QED BY <2>3, <3>1, <4>1, Levels, DescendLower, ZenonT(40)
    <3>3. /\ n \in MemType /\ Sound(n, h2) /\ n.free \subseteq l.free
          /\ Reached(l, h3, n, h2, Frames \ l.free) /\ Stays(l, n)
          /\ On(h2, pd, 2, r, v)
      <4>1. Came(l, h3, n, h2, pd, 2, r, v)
        BY <2>3, <3>1, <3>2, Levels, DownFrom, Zenon
      <4> QED BY <4>1, Zenon DEF Came
    <3>4. Reached(m, g, n, h2, Frames \ m.free)
      BY <2>4, <3>3, ReachedFrom, Zenon
    <3>5. ASSUME ~n.panic PROVE Path(n, h2, r, pdp, pd, pt, v)
      <4>1. Leads(n, pd, Idx(2, v), pt) /\ On(h2, pt, 1, r, v)
        BY <1>0, <3>2, <3>5, Levels, DownOn, ZenonT(40)
      <4>2. Leads(n, pdp, Idx(3, v), pd)
        BY <2>3, <3>1, <3>3, LeadsStill, Zenon
      <4>3. Stays(k, n)
        BY <2>3, <3>3, StaysChain, Zenon
      <4>4. Leads(n, r, Idx(4, v), pdp)
        BY <1>3, <2>1, <4>3, LeadsStill, ZenonT(40)
      <4>5. On(h2, pdp, 3, r, v)
        BY <2>3, <3>3, Levels, OnStill, Zenon
      <4>6. On(h3, r, 4, r, v)
        BY <1>3, <2>3, Levels, OnStill, Zenon
      <4>7. On(h2, r, 4, r, v)
        BY <2>3, <3>3, <4>6, Levels, OnStill, ZenonT(40)
      <4> QED BY <1>0, <3>3, <4>1, <4>2, <4>4, <4>5, <4>7, ZenonT(40) DEF Path
    <3> QED BY <3>4, <3>5, Zenon
  <2> QED BY <2>5, <2>6, Zenon
<1> QED BY <1>4, <1>5, ZenonT(40)

LEMMA MappedSet ==
    ASSUME NEW x, NEW h, NEW r, NEW pdp, NEW pd, NEW pt, NEW v \in Pages,
           Path(x, h, r, pdp, pd, pt, v), NEW n, NEW a, NEW attr,
           Written(x, n, pt, ptIndex(v), a, attr)
    PROVE  Mapped(n, r, v)
<1>1. /\ pml4Index(v) \in Indexes /\ pdpIndex(v) \in Indexes
      /\ pdIndex(v) \in Indexes /\ ptIndex(v) \in Indexes
  BY IndexFacts, Zenon
<1>2. /\ r \in Frames /\ pdp \in Frames /\ pd \in Frames /\ pt \in Frames
      /\ h.lev[r] = 4 /\ h.lev[pdp] = 3 /\ h.lev[pd] = 2 /\ h.lev[pt] = 1
  BY ZenonT(40) DEF Path, On
<1>3. r # pt /\ pdp # pt /\ pd # pt
  BY <1>2
<1>4. \A u \in Frames : \A j \in Indexes : u # pt => n.table[u][j] = x.table[u][j]
  BY Zenon DEF Written
<1>5. n.table[pt][ptIndex(v)] = [present |-> TRUE, addr |-> a, attr |-> attr]
  BY ZenonT(40) DEF Written
<1>6. n.table[pt][ptIndex(v)].present
  BY <1>5
<1>7. pml4Entry(n, r, v) = x.table[r][pml4Index(v)] /\ x.table[r][pml4Index(v)].present
      /\ x.table[r][pml4Index(v)].addr = pdp
  BY <1>1, <1>2, <1>3, <1>4, Zenon DEF pml4Entry, Path, Leads
<1>8. pdpEntry(n, r, v) = x.table[pdp][pdpIndex(v)] /\ x.table[pdp][pdpIndex(v)].present
      /\ x.table[pdp][pdpIndex(v)].addr = pd
  <2>1. pdpEntry(n, r, v) = n.table[pdp][pdpIndex(v)]
    BY <1>7, Zenon DEF pdpEntry
  <2> QED BY <2>1, <1>1, <1>2, <1>3, <1>4, Zenon DEF Path, Leads
<1>9. pdEntry(n, r, v) = x.table[pd][pdIndex(v)] /\ x.table[pd][pdIndex(v)].present
      /\ x.table[pd][pdIndex(v)].addr = pt
  <2>1. pdEntry(n, r, v) = n.table[pd][pdIndex(v)]
    BY <1>8, Zenon DEF pdEntry
  <2> QED BY <2>1, <1>1, <1>2, <1>3, <1>4, Zenon DEF Path, Leads
<1>10. ptEntry(n, r, v) = n.table[pt][ptIndex(v)]
  BY <1>9, Zenon DEF ptEntry
<1> QED BY <1>6, <1>7, <1>8, <1>9, <1>10, Zenon DEF Mapped

Maps(m, n, r, a, v, attr) == n = vmm_mapPage(m, r, a, v, attr)

Fresh(m, g, r, a) ==
    r # _KernelPML4 => a \in Frames /\ a \notin m.free /\ a \notin Kernel /\ g.lev[a] = -1

LEMMA MapLast ==
    ASSUME NEW x \in MemType, NEW h, Sound(x, h), NEW r \in Frames, NEW v \in Pages,
           NEW attr \in AttrType, NEW a \in Pages, NEW n, NEW pt, On(h, pt, 1, r, v),
           Region(r, v, attr), Fresh(x, h, r, a), NEW S, S \subseteq Frames,
           r # _KernelPML4 => a \notin S, Wrote(x, n, pt, ptIndex(v), a, attr)
    PROVE  \E q : Reached(x, h, n, q, S)
<1>0. ptIndex(v) = Idx(1, v) /\ ptIndex(v) \in Indexes
  BY Indexed, IndexFacts, Zenon
<1>1. CASE r = _KernelPML4
  <2>1. On(h, pt, 1, _KernelPML4, v)
    BY <1>1, Zenon
  <2> QED BY <1>0, <2>1, SetKernel, Zenon
<1>2. CASE r # _KernelPML4
  <2>1. v \in UserPages /\ Wrote(x, n, pt, ptIndex(v), a, VMM_USER_ATTRIBUTES)
    BY <1>2, Zenon DEF Region
  <2>2. a \in Frames /\ a \notin x.free /\ a \notin Kernel /\ h.lev[a] = -1
    BY <1>2, Zenon DEF Fresh
  <2>3. S \subseteq Frames \ {a}
    BY <1>2, Zenon
  <2> QED BY <1>0, <1>2, <2>1, <2>2, <2>3, SetUser, Zenon
<1> QED BY <1>1, <1>2

LEMMA ReachedLess ==
    ASSUME NEW m, NEW g, NEW n, NEW h, NEW S, NEW T, S \subseteq T, Reached(m, g, n, h, T)
    PROVE  Reached(m, g, n, h, S)
<1>1. Kept(g, h, S)
  BY ZenonT(40) DEF Reached, Kept
<1> QED BY <1>1, Zenon DEF Reached

LEMMA FreshStill ==
    ASSUME NEW m, NEW g, NEW n, NEW h, NEW r, NEW a, Fresh(m, g, r, a),
           Reached(m, g, n, h, Frames \ m.free)
    PROVE  Fresh(n, h, r, a)
<1> SUFFICES ASSUME r # _KernelPML4
             PROVE  a \in Frames /\ a \notin n.free /\ a \notin Kernel /\ h.lev[a] = -1
  BY Zenon DEF Fresh
<1>1. a \in Frames /\ a \notin m.free /\ a \notin Kernel /\ g.lev[a] = -1
  BY Zenon DEF Fresh
<1>2. n.free \subseteq m.free /\ Kept(g, h, Frames \ m.free)
  BY Zenon DEF Reached
<1> QED BY <1>1, <1>2 DEF Kept

LEMMA MapSound ==
    ASSUME NEW m \in MemType, NEW g, Sound(m, g), NEW r \in Frames, g.lev[r] = 4,
           NEW v \in Pages, NEW attr \in AttrType, Region(r, v, attr), Ready(m, g, r, v),
           NEW a \in Pages, Fresh(m, g, r, a), NEW S, S \subseteq Frames \ m.free,
           r # _KernelPML4 => a \notin S, NEW n, Maps(m, n, r, a, v, attr)
    PROVE  \E h : Reached(m, g, n, h, S) /\ (~n.panic => Mapped(n, r, v))
<1> DEFINE k == Descend(m, r, pml4Index(v), attr)
           pdp == k.table[r][pml4Index(v)].addr
           l == Descend(k, pdp, pdpIndex(v), attr)
           pd == l.table[pdp][pdpIndex(v)].addr
           x == Descend(l, pd, pdIndex(v), attr)
           pt == x.table[pd][pdIndex(v)].addr
<1>1. n = IF x.panic THEN x ELSE setEntry(x, pt, ptIndex(v), a, attr)
  BY Zenon DEF Maps, vmm_mapPage
<1>2. /\ Descended(m, k, r, pml4Index(v), attr) /\ AddrOf(k, r, pml4Index(v), pdp)
      /\ Descended(k, l, pdp, pdpIndex(v), attr) /\ AddrOf(l, pdp, pdpIndex(v), pd)
      /\ Descended(l, x, pd, pdIndex(v), attr) /\ AddrOf(x, pd, pdIndex(v), pt)
  BY Zenon DEF Descended, AddrOf
<1> HIDE DEF k, pdp, l, pd, x, pt
<1>3. On(g, r, 4, r, v)
  BY RootOn, Zenon
<1>4. PICK h : /\ Reached(m, g, x, h, Frames \ m.free)
               /\ ~x.panic => Path(x, h, r, pdp, pd, pt, v)
  BY <1>2, <1>3, MapPath, Zenon
<1>5. Reached(m, g, x, h, S) /\ x \in MemType /\ Sound(x, h) /\ S \subseteq Frames
  <2>1. Reached(m, g, x, h, S)
    BY <1>4, ReachedLess, Zenon
  <2>2. x \in MemType /\ Sound(x, h)
    BY <1>4, Zenon DEF Reached
  <2>3. S \subseteq Frames
    BY Zenon
  <2> QED BY <2>1, <2>2, <2>3, Zenon
<1>6. CASE x.panic
  BY <1>1, <1>5, <1>6, Zenon
<1>7. CASE ~x.panic
  <2>1. Wrote(x, n, pt, ptIndex(v), a, attr)
    BY <1>1, <1>7, Zenon DEF Wrote
  <2>2. Path(x, h, r, pdp, pd, pt, v)
    BY <1>4, <1>7, Zenon
  <2>3. On(h, pt, 1, r, v) /\ pt \in Frames /\ ptIndex(v) \in Indexes
    BY <2>2, IndexFacts, Zenon DEF Path, On
  <2>4. Fresh(x, h, r, a)
    BY <1>4, FreshStill, Zenon
  <2>5. PICK q : Reached(x, h, n, q, S)
    BY <1>5, <2>1, <2>3, <2>4, MapLast, ZenonT(40)
  <2>6. S \subseteq S
    OBVIOUS
  <2>7. Reached(m, g, n, q, S)
    BY <1>5, <2>5, <2>6, ReachedChain, Zenon
  <2>8. Written(x, n, pt, ptIndex(v), a, attr)
    BY <1>5, <2>1, <2>3, SetFacts, Zenon
  <2>9. Mapped(n, r, v)
    BY <2>2, <2>8, MappedSet, Zenon
  <2> QED BY <2>7, <2>9, Zenon
<1> QED BY <1>6, <1>7, Zenon
--------------------------------------------------------------------------------
(* vmm_createPage, and the loop of vmm_createPages.                         *)
Results == [ok : BOOLEAN, m : MemType]

Creates(x, y, r, v, attr) == y = vmm_createPage(x, r, v, attr)

(* The memory with the frame that pmm_getFrame returns taken.               *)
LEMMA TakenSound ==
    ASSUME NEW m \in MemType, m.free # {}, NEW g, Sound(m, g), NEW r, NEW k, k = Taken(m),
           NEW f, f = pmm_getFrame(m)
    PROVE  /\ k \in MemType /\ Sound(k, g) /\ Fresh(k, g, r, f) /\ k.panic = m.panic
           /\ k.free \subseteq m.free /\ k.table = m.table /\ f \in m.free /\ f \in Frames
           /\ f \in Pages /\ f \notin k.free /\ f \notin Kernel /\ g.lev[f] = -1
<1>1. /\ k \in MemType /\ k.free = m.free \ {f} /\ k.panic = m.panic /\ k.table = m.table
      /\ f \in m.free /\ f \in Frames
  BY TakenFacts, Zenon
<1>2. k.free \subseteq m.free /\ f \notin k.free
  BY <1>1, Zenon
<1>3. Sound(k, g)
  BY <1>1, <1>2, SoundSame, ZenonT(40)
<1>4. f \notin Kernel /\ g.lev[f] = -1 /\ f \in Pages
  BY <1>1, SoundFacts, SizeFacts
<1>5. Fresh(k, g, r, f)
  BY <1>1, <1>2, <1>4, Zenon DEF Fresh
<1> QED BY <1>1, <1>2, <1>3, <1>4, <1>5, Zenon

LEMMA ReachedTaken ==
    ASSUME NEW m, NEW k, NEW g, NEW n, NEW h, NEW S, k.free \subseteq m.free,
           k.table = m.table, Reached(k, g, n, h, S)
    PROVE  Reached(m, g, n, h, S)
<1>1. n.free \subseteq m.free
  BY DEF Reached
<1> QED BY <1>1, ZenonT(40) DEF Reached

LEMMA CreateSound ==
    ASSUME NEW x \in Results, NEW g, Sound(x.m, g), NEW r \in Frames, g.lev[r] = 4,
           NEW v \in Pages, NEW attr \in AttrType, Region(r, v, attr),
           r # _KernelPML4 \/ OnlyKernel(g), NEW y, Creates(x, y, r, v, attr)
    PROVE  y \in Results /\ \E h : Reached(x.m, g, y.m, h, Frames \ x.m.free)
<1> DEFINE m == x.m
<1>1. m \in MemType /\ x.ok \in BOOLEAN
  BY DEF Results
<1>2. CASE ~x.ok \/ m.panic
  <2>1. y = x
    BY <1>2, Zenon DEF Creates, vmm_createPage
  <2>2. Reached(m, g, m, g, Frames \ m.free)
    BY <1>1, ReachedSame, Zenon
  <2> QED BY <2>1, <2>2, Zenon
<1>3. CASE x.ok /\ ~m.panic /\ m.free = {}
  <2>1. y = [x EXCEPT !.ok = FALSE]
    BY <1>3, Zenon DEF Creates, vmm_createPage
  <2>2. y \in Results /\ y.m = m
    BY <2>1, ZenonT(40) DEF Results
  <2>3. Reached(m, g, m, g, Frames \ m.free)
    BY <1>1, ReachedSame, Zenon
  <2> QED BY <2>2, <2>3, Zenon
<1>4. CASE x.ok /\ ~m.panic /\ m.free # {}
  <2> DEFINE k == Taken(m)  f == pmm_getFrame(m)  n == vmm_mapPage(k, r, f, v, attr)
  <2>1. y = Done(n)
    BY <1>4, ZenonT(40) DEF Creates, vmm_createPage
  <2>2. y.m = n /\ y.ok = TRUE /\ y = [ok |-> TRUE, m |-> n]
    BY <2>1 DEF Done
  <2>3. Maps(k, n, r, f, v, attr)
    BY ZenonT(40) DEF Maps
  <2>4. Sound(m, g) /\ k = Taken(m) /\ f = pmm_getFrame(m)
    OBVIOUS
  <2> HIDE DEF k, f, n, m
  <2>5. /\ k \in MemType /\ Sound(k, g) /\ Fresh(k, g, r, f) /\ k.free \subseteq m.free
        /\ k.table = m.table /\ f \in m.free /\ f \in Pages
    BY <1>1, <1>4, <2>4, TakenSound, ZenonT(40)
  <2>6. Ready(k, g, r, v)
    BY Zenon DEF Ready
  <2> DEFINE S == Frames \ m.free
  <2>7. S \subseteq Frames \ k.free /\ f \notin S
    BY <2>5
  <2> HIDE DEF S
  <2>8. PICK h : Reached(k, g, n, h, S)
    BY <2>3, <2>5, <2>6, <2>7, MapSound, ZenonT(40)
  <2>9. Reached(m, g, n, h, S)
    BY <2>5, <2>8, ReachedTaken, ZenonT(40)
  <2>10. y \in Results
    <3>1. n \in MemType
      BY <2>9, ZenonT(40) DEF Reached
    <3> QED BY <2>2, <3>1 DEF Results
  <2> QED BY <2>2, <2>9, <2>10 DEF S, m
<1> QED BY <1>1, <1>2, <1>3, <1>4, ZenonT(40)

Reachable(m, g) == {y \in Results : \E h : Reached(m, g, y.m, h, Frames \ m.free)}

LEMMA CreateStays ==
    ASSUME NEW m \in MemType, NEW g, Sound(m, g), NEW r \in Frames, g.lev[r] = 4,
           NEW v \in Pages, NEW attr \in AttrType, Region(r, v, attr),
           r # _KernelPML4 \/ OnlyKernel(g), NEW x \in Reachable(m, g)
    PROVE  vmm_createPage(x, r, v, attr) \in Reachable(m, g)
<1>1. x \in Results /\ \E h : Reached(m, g, x.m, h, Frames \ m.free)
  BY Zenon DEF Reachable
<1>2. PICK h : Reached(m, g, x.m, h, Frames \ m.free)
  BY <1>1, ZenonT(40)
<1> DEFINE y == vmm_createPage(x, r, v, attr)
<1>3. Creates(x, y, r, v, attr)
  BY DEF Creates
<1> HIDE DEF y
<1>4. Sound(x.m, h) /\ \A t \in Frames : h.lev[t] = 4 <=> g.lev[t] = 4
  BY <1>2, Zenon DEF Reached
<1>5. h.lev[r] = 4 /\ (r # _KernelPML4 \/ OnlyKernel(h))
  BY <1>4, Zenon DEF OnlyKernel
<1>6. y \in Results /\ \E q : Reached(x.m, h, y.m, q, Frames \ x.m.free)
  BY <1>1, <1>3, <1>4, <1>5, CreateSound, ZenonT(40)
<1>7. PICK q : Reached(x.m, h, y.m, q, Frames \ x.m.free)
  BY <1>6
<1>8. Reached(m, g, y.m, q, Frames \ m.free)
  BY <1>2, <1>7, ReachedFrom, ZenonT(40)
<1>9. y \in Reachable(m, g)
  BY <1>6, <1>8, Zenon DEF Reachable
<1> QED BY <1>9 DEF y

LEMMA CreatePagesIn ==
    ASSUME NEW m, NEW r, NEW first, NEW pages \in Nat, NEW attr, NEW D, Done(m) \in D,
           \A x \in D : \A i \in 1 .. pages : vmm_createPage(x, r, first + i - 1, attr) \in D
    PROVE  vmm_createPages(m, r, first, pages, attr) \in D
<1> DEFINE Step(x, i) == vmm_createPage(x, r, first + i - 1, attr)
           F == [x \in D \X (1 .. pages) |-> Step(x[1], x[2])]
           Eq(w) == w = [i \in 0 .. pages |-> IF i = 0 THEN Done(m) ELSE Step(w[i - 1], i)]
           w == CHOOSE w : Eq(w)
<1>1. Done(m) \in D
  OBVIOUS
<1>2. \A x \in D : \A i \in 1 .. pages : Step(x, i) \in D
  OBVIOUS
<1>3. vmm_createPages(m, r, first, pages, attr) = w[pages]
  BY DEF vmm_createPages
<1> HIDE DEF Step
<1>4. F \in [D \X (1 .. pages) -> D] /\ \A x \in D, i \in 1 .. pages : F[<<x, i>>] = Step(x, i)
  BY <1>2
<1>5. PICK u : Recurs(u, D, Done(m), pages, F)
  <2> HIDE DEF F
  <2> QED BY <1>1, <1>4, Recursion, Zenon
<1>6. /\ u \in [0 .. pages -> D] /\ u[0] = Done(m)
      /\ \A i \in 1 .. pages : u[i] = F[<<u[i - 1], i>>]
  BY <1>5, Zenon DEF Recurs
<1> HIDE DEF F
<1>7. Eq(u)
  <2>1. \A i \in 1 .. pages : u[i] = Step(u[i - 1], i)
    <3> SUFFICES ASSUME NEW i \in 1 .. pages PROVE u[i] = Step(u[i - 1], i)
      OBVIOUS
    <3>1. u[i - 1] \in D
      BY <1>6
    <3> QED BY <1>4, <1>6, <3>1, Zenon
  <2>2. \A i \in 0 .. pages : u[i] = IF i = 0 THEN Done(m) ELSE Step(u[i - 1], i)
    BY <1>6, <2>1
  <2>3. u = [i \in 0 .. pages |-> u[i]]
    BY <1>6
  <2> QED BY <2>2, <2>3, Zenon
<1>8. Eq(w)
  <2> HIDE DEF Eq
  <2> QED BY <1>7, Zenon
<1> HIDE DEF w
<1>9. \A i \in 0 .. pages : w[i] = IF i = 0 THEN Done(m) ELSE Step(w[i - 1], i)
  BY <1>8, Zenon
<1> DEFINE T == {i \in 0 .. pages : w[i] \in D}
<1>10. 0 \in T
  BY <1>1, <1>9
<1>11. ASSUME NEW i \in 1 .. pages, i - 1 \in T PROVE i \in T
  <2>1. i \in 0 .. pages /\ i # 0
    OBVIOUS
  <2>2. w[i] = Step(w[i - 1], i) /\ w[i - 1] \in D
    BY <1>9, <1>11, <2>1, Zenon
  <2> QED BY <1>2, <2>1, <2>2, Zenon
<1>12. 0 .. pages \subseteq T
  <2> HIDE DEF T
  <2> QED BY <1>10, <1>11, UpTo, Zenon
<1>13. w[pages] \in D
  BY <1>12
<1> QED BY <1>3, <1>13

LEMMA CreatePagesSound ==
    ASSUME NEW m \in MemType, NEW g, Sound(m, g), NEW r \in Frames, g.lev[r] = 4,
           NEW first, NEW pages \in Nat, NEW attr \in AttrType,
           \A i \in 1 .. pages : first + i - 1 \in Pages /\ Region(r, first + i - 1, attr),
           r # _KernelPML4 \/ OnlyKernel(g)
    PROVE  vmm_createPages(m, r, first, pages, attr) \in Reachable(m, g)
<1>1. Done(m) \in Reachable(m, g)
  <2>1. Done(m) \in Results /\ Done(m).m = m
    BY Zenon DEF Results, Done
  <2>2. Reached(m, g, m, g, Frames \ m.free)
    BY ReachedSame, Zenon
  <2> QED BY <2>1, <2>2, Zenon DEF Reachable
<1>2. \A x \in Reachable(m, g) : \A i \in 1 .. pages :
         vmm_createPage(x, r, first + i - 1, attr) \in Reachable(m, g)
  BY CreateStays, Zenon
<1> QED BY <1>1, <1>2, CreatePagesIn, Zenon

LEMMA CreatePagesPanicked ==
    ASSUME NEW m, m.panic, NEW r, NEW first, NEW pages \in Nat, NEW attr
    PROVE  vmm_createPages(m, r, first, pages, attr) = Done(m)
<1>1. ASSUME NEW v PROVE vmm_createPage(Done(m), r, v, attr) = Done(m)
  BY DEF vmm_createPage, Done
<1>2. \A x \in {Done(m)} : \A i \in 1 .. pages :
         vmm_createPage(x, r, first + i - 1, attr) \in {Done(m)}
  BY <1>1, Zenon
<1>3. Done(m) \in {Done(m)}
  OBVIOUS
<1>4. vmm_createPages(m, r, first, pages, attr) \in {Done(m)}
  BY <1>2, <1>3, CreatePagesIn, Zenon
<1> QED BY <1>4
--------------------------------------------------------------------------------
(* vmm_createAddressSpace: the frame of the new PML4 gets its role.         *)
NewSpace(m, g, n, h, f) ==
    /\ n \in MemType /\ Sound(n, h) /\ n.free \subseteq m.free /\ Kept(g, h, Frames \ m.free)
    /\ \A t \in Frames : h.lev[t] = 4 <=> g.lev[t] = 4 \/ (t = f /\ ~n.panic)
    /\ \A i \in Indexes : m.table[_KernelPML4][i].present => n.table[_KernelPML4][i].present

CopyMade(x, g, n, h, f) ==
    /\ n \in MemType /\ Sound(n, h) /\ n.free = x.free /\ n.panic = x.panic
    /\ Kept(g, h, Frames \ {f}) /\ h.lev[f] = 4
    /\ n.table[_KernelPML4] = x.table[_KernelPML4]

LEMMA CopySound ==
    ASSUME NEW x \in MemType, NEW g, Sound(x, g), NEW f \in Frames, g.lev[f] = -1,
           f \notin x.free, f \notin Kernel, NEW n,
           n = [x EXCEPT !.table[f] = Copied(x.table[_KernelPML4])]
    PROVE  \E h : CopyMade(x, g, n, h, f)
<1> DEFINE tab == [x.table EXCEPT ![f] = x.table[_KernelPML4]]
<1>1. /\ _KernelPML4 \in Frames /\ g \in Roles /\ g.lev[_KernelPML4] = 4 /\ Shares(x, g)
      /\ g.own[_KernelPML4] = _KernelPML4 /\ \A i \in Indexes : Follows(x, g, _KernelPML4, i)
  BY SoundFacts, Zenon
<1>2. _KernelPML4 # f
  BY <1>1
<1>3. n = [x EXCEPT !.table = tab]
  BY DEF Copied
<1>4. x.table \in [Frames -> [Indexes -> EntryType]]
  BY DEF MemType
<1>5. /\ tab \in [Frames -> [Indexes -> EntryType]] /\ tab[f] = x.table[_KernelPML4]
      /\ \A u \in Frames : u # f => tab[u] = x.table[u]
  BY <1>1, <1>4
<1> HIDE DEF tab
<1>6. n \in MemType /\ n.free = x.free /\ n.panic = x.panic /\ n.table = tab
  BY <1>3, <1>5, Zenon DEF MemType
<1>7. n.table[f] = x.table[_KernelPML4] /\ \A u \in Frames : u # f => n.table[u] = x.table[u]
  BY <1>5, <1>6, Zenon
<1> DEFINE z == 4
<1>8. z = 4 /\ z \in -1 .. 4 /\ z \in 0 .. 4 /\ z # 0
  OBVIOUS
<1> HIDE DEF z
<1>9. 0 \in Pages /\ 0 \in Indexes
  BY SizeFacts, SizeAssumption DEF Indexes
<1>10. PICK h \in Roles : Role(h, f, z, f, 0) /\ Kept(g, h, Frames \ {f})
  BY <1>1, <1>8, <1>9, RoleGiven, ZenonT(40)
<1>11. /\ h.lev[f] = 4 /\ h.own[f] = f
       /\ \A u \in Frames : u # f => h.lev[u] = g.lev[u]
  BY <1>8, <1>10, Zenon DEF Role, Kept
<1>12. AllFollow(n, h, f)
  <2> SUFFICES ASSUME NEW i \in Indexes, n.table[f][i].present, Tracked(h, f, i) PROVE FALSE
    BY Zenon DEF AllFollow, Follows
  <2>1. i \notin KIdx
    BY <1>2, <1>11, Zenon DEF Tracked
  <2>2. x.table[_KernelPML4][i].present
    BY <1>7, Zenon
  <2>3. Tracked(g, _KernelPML4, i)
    BY <1>1 DEF Tracked
  <2> QED BY <1>1, <2>1, <2>2, <2>3, Zenon DEF Follows
<1>13. SameBut(x, n, f, f, 0)
  BY <1>7 DEF SameBut
<1>14. Shares(n, h)
  <2> SUFFICES ASSUME NEW u \in Frames, h.lev[u] = 4, u # _KernelPML4, NEW j \in KIdx
               PROVE  n.table[u][j] = n.table[_KernelPML4][j]
    BY Zenon DEF Shares
  <2>1. CASE u = f
    BY <2>1, <1>1, <1>2, <1>7, Zenon
  <2>2. CASE u # f
    <3>1. x.table[u][j] = x.table[_KernelPML4][j]
      BY <2>2, <1>1, <1>11 DEF Shares
    <3> QED BY <3>1, <2>2, <1>1, <1>2, <1>7, ZenonT(40)
  <2> QED BY <2>1, <2>2
<1>15. Sound(n, h)
  <2>1. Follows(n, h, f, 0)
    BY <1>9, <1>12, Zenon DEF AllFollow
  <2>2. n.free \subseteq x.free /\ f \notin n.free
    BY <1>6
  <2> QED BY <1>6, <1>8, <1>9, <1>10, <1>12, <1>13, <1>14, <2>1, <2>2, Remark, ZenonT(40)
<1>16. n.table[_KernelPML4] = x.table[_KernelPML4]
  BY <1>1, <1>2, <1>7, ZenonT(40)
<1> QED BY <1>6, <1>10, <1>11, <1>15, <1>16, Zenon DEF CopyMade

LEMMA AddressSpaceSound ==
    ASSUME NEW m \in MemType, NEW g, Sound(m, g), m.free # {}, NEW f, f = pmm_getFrame(m),
           m.table[_KernelPML4][pml4Index(f)].present, NEW n, n = vmm_createAddressSpace(m)
    PROVE  \E h : NewSpace(m, g, n, h, f)
<1> DEFINE k == Taken(m)  x == vmm_mapPage(k, _KernelPML4, f, f, VMM_USER_ATTRIBUTES)
<1>1. n = IF x.panic THEN x ELSE [x EXCEPT !.table[f] = Copied(x.table[_KernelPML4])]
  BY Zenon DEF vmm_createAddressSpace
<1>2. Maps(k, x, _KernelPML4, f, f, VMM_USER_ATTRIBUTES)
  BY Zenon DEF Maps
<1>3. k = Taken(m)
  OBVIOUS
<1> HIDE DEF k, x
<1>4. /\ k \in MemType /\ Sound(k, g) /\ Fresh(k, g, _KernelPML4, f)
      /\ k.free \subseteq m.free /\ k.table = m.table /\ f \in m.free /\ f \in Frames
      /\ f \in Pages /\ f \notin k.free /\ f \notin Kernel /\ g.lev[f] = -1
  BY <1>3, TakenSound, ZenonT(40)
<1>5. /\ Ready(k, g, _KernelPML4, f) /\ Region(_KernelPML4, f, VMM_USER_ATTRIBUTES)
      /\ VMM_USER_ATTRIBUTES \in AttrType /\ _KernelPML4 \in Frames /\ g.lev[_KernelPML4] = 4
  <2>1. Ready(k, g, _KernelPML4, f)
    BY <1>4, Zenon DEF Ready
  <2>2. Region(_KernelPML4, f, VMM_USER_ATTRIBUTES)
    BY <1>4, Zenon DEF Region, KernelPages
  <2>3. VMM_USER_ATTRIBUTES \in AttrType
    BY Zenon DEF AttrType, VMM_USER_ATTRIBUTES
  <2> QED BY <2>1, <2>2, <2>3, SoundFacts, Zenon
<1> DEFINE S == Frames \ k.free
<1>6. S \subseteq Frames \ k.free
  OBVIOUS
<1> HIDE DEF S
<1>7. PICK h1 : Reached(k, g, x, h1, S)
  BY <1>2, <1>4, <1>5, <1>6, MapSound, ZenonT(40)
<1>8. /\ x \in MemType /\ Sound(x, h1) /\ x.free \subseteq k.free
      /\ \A t \in Frames : h1.lev[t] = 4 <=> g.lev[t] = 4
      /\ \A i \in Indexes : m.table[_KernelPML4][i].present => x.table[_KernelPML4][i].present
  BY <1>4, <1>7, Zenon DEF Reached
<1>9. x.free \subseteq m.free /\ f \notin x.free
  BY <1>4, <1>8, ZenonT(40)
<1>10. Kept(g, h1, Frames \ m.free) /\ h1.lev[f] = -1
  BY <1>4, <1>7 DEF Reached, Kept, S
<1>11. CASE x.panic
  BY <1>1, <1>8, <1>9, <1>10, <1>11, Zenon DEF NewSpace
<1>12. CASE ~x.panic
  <2>1. n = [x EXCEPT !.table[f] = Copied(x.table[_KernelPML4])]
    BY <1>1, <1>12, Zenon
  <2>2. PICK h : CopyMade(x, h1, n, h, f)
    BY <1>4, <1>8, <1>9, <1>10, <2>1, CopySound, ZenonT(40)
  <2>3. /\ n \in MemType /\ Sound(n, h) /\ n.free = x.free /\ n.panic = x.panic
        /\ Kept(h1, h, Frames \ {f}) /\ h.lev[f] = 4
        /\ n.table[_KernelPML4] = x.table[_KernelPML4]
    BY <2>2, ZenonT(40) DEF CopyMade
  <2>4. Kept(g, h, Frames \ m.free)
    BY <1>4, <1>10, <2>3 DEF Kept
  <2>5. \A t \in Frames : h.lev[t] = 4 <=> g.lev[t] = 4 \/ (t = f /\ ~n.panic)
    BY <1>8, <1>12, <2>3, ZenonT(40) DEF Kept
  <2>6. n.free \subseteq m.free
    BY <1>9, <2>3
  <2> QED BY <1>8, <2>3, <2>4, <2>5, <2>6, ZenonT(40) DEF NewSpace
<1> QED BY <1>11, <1>12
--------------------------------------------------------------------------------
(* Where the walk of the tables for a page ends: in a process, at the frame *)
(* with the role of this page of this process.                              *)
EntryAt(m, t, i, e) == e = m.table[t][i] /\ e.present

LevelBelow(k, l) == k = l - 1

LedTo(g, e, k, r, v) == On(g, e.addr, k, r, v) /\ e.attr = VMM_USER_ATTRIBUTES

LEMMA WalkStep ==
    ASSUME NEW m, NEW g, Sound(m, g), NEW l \in 1 .. 4, NEW t, NEW r, NEW v \in Pages,
           On(g, t, l, r, v), r # _KernelPML4, l = 4 => pml4Index(v) \notin KIdx,
           NEW e, EntryAt(m, t, Idx(l, v), e), NEW k, LevelBelow(k, l)
    PROVE  LedTo(g, e, k, r, v)
<1> DEFINE i == Idx(l, v)
<1>1. t \in Frames /\ g.lev[t] = l /\ g.own[t] = r /\ i \in Indexes
  BY IdxFacts, Zenon DEF On
<1>2. l = 4 => i \notin KIdx
  BY Indexed, Zenon
<1>3. Tracked(g, t, i)
  BY <1>1, <1>2, Zenon DEF Tracked
<1>4. Follows(m, g, t, i)
  BY <1>1, SoundFacts, Zenon
<1>5. Child(g, t, i, e.addr) /\ e.attr = VMM_USER_ATTRIBUTES
  BY <1>1, <1>3, <1>4, Zenon DEF Follows, EntryAt
<1>6. k = l - 1
  BY DEF LevelBelow
<1> QED BY <1>5, <1>6, OnChild, ZenonT(40) DEF LedTo

Walked(m, g, r, v) ==
    /\ On(g, ptEntry(m, r, v).addr, 0, r, v)
    /\ pml4Entry(m, r, v).attr = VMM_USER_ATTRIBUTES
    /\ pdpEntry(m, r, v).attr = VMM_USER_ATTRIBUTES
    /\ pdEntry(m, r, v).attr = VMM_USER_ATTRIBUTES
    /\ ptEntry(m, r, v).attr = VMM_USER_ATTRIBUTES

LEMMA WalkEnds ==
    ASSUME NEW m, NEW g, Sound(m, g), NEW r \in Frames, g.lev[r] = 4, r # _KernelPML4,
           NEW v \in Pages, pml4Index(v) \notin KIdx, Mapped(m, r, v)
    PROVE  Walked(m, g, r, v)
<1>1. /\ EntryAt(m, r, Idx(4, v), pml4Entry(m, r, v))
      /\ EntryAt(m, pml4Entry(m, r, v).addr, Idx(3, v), pdpEntry(m, r, v))
      /\ EntryAt(m, pdpEntry(m, r, v).addr, Idx(2, v), pdEntry(m, r, v))
      /\ EntryAt(m, pdEntry(m, r, v).addr, Idx(1, v), ptEntry(m, r, v))
  <2>1. /\ pml4Entry(m, r, v).present /\ pdpEntry(m, r, v).present
        /\ pdEntry(m, r, v).present /\ ptEntry(m, r, v).present
    BY Zenon DEF Mapped
  <2>2. /\ pml4Entry(m, r, v) = m.table[r][Idx(4, v)]
        /\ pdpEntry(m, r, v) = m.table[pml4Entry(m, r, v).addr][Idx(3, v)]
        /\ pdEntry(m, r, v) = m.table[pdpEntry(m, r, v).addr][Idx(2, v)]
        /\ ptEntry(m, r, v) = m.table[pdEntry(m, r, v).addr][Idx(1, v)]
    BY Indexed, Zenon DEF pml4Entry, pdpEntry, pdEntry, ptEntry
  <2> QED BY <2>1, <2>2, ZenonT(40) DEF EntryAt
<1>3. /\ 4 \in 1 .. 4 /\ 3 \in 1 .. 4 /\ 2 \in 1 .. 4 /\ 1 \in 1 .. 4
      /\ LevelBelow(3, 4) /\ LevelBelow(2, 3) /\ LevelBelow(1, 2) /\ LevelBelow(0, 1)
      /\ 3 # 4 /\ 2 # 4 /\ 1 # 4
  BY DEF LevelBelow
<1>4. On(g, r, 4, r, v)
  BY RootOn, Zenon
<1>5. LedTo(g, pml4Entry(m, r, v), 3, r, v)
  BY <1>1, <1>3, <1>4, WalkStep, ZenonT(40)
<1>6. LedTo(g, pdpEntry(m, r, v), 2, r, v)
  <2>1. On(g, pml4Entry(m, r, v).addr, 3, r, v)
    BY <1>5, Zenon DEF LedTo
  <2> QED BY <1>1, <1>3, <2>1, WalkStep, ZenonT(40)
<1>7. LedTo(g, pdEntry(m, r, v), 1, r, v)
  <2>1. On(g, pdpEntry(m, r, v).addr, 2, r, v)
    BY <1>6, Zenon DEF LedTo
  <2> QED BY <1>1, <1>3, <2>1, WalkStep, ZenonT(40)
<1>8. LedTo(g, ptEntry(m, r, v), 0, r, v)
  <2>1. On(g, pdEntry(m, r, v).addr, 1, r, v)
    BY <1>7, Zenon DEF LedTo
  <2> QED BY <1>1, <1>3, <2>1, WalkStep, Zenon
<1> QED BY <1>5, <1>6, <1>7, <1>8, ZenonT(40) DEF Walked, LedTo

PhysOf(m, r, v, f) == f = virt2phys(m, r, v) /\ f # NoFrame

PageOwned(g, f, r, v) ==
    f \in Frames /\ g.lev[f] = 0 /\ g.own[f] = r /\ g.vp[f] = v /\ v \in UserPages

LEMMA WalkRole ==
    ASSUME NEW m, NEW g, Sound(m, g), NEW r \in Frames, g.lev[r] = 4, r # _KernelPML4,
           NEW v \in Pages, pml4Index(v) \notin KIdx, NEW f, PhysOf(m, r, v, f)
    PROVE  PageOwned(g, f, r, v)
<1>1. Mapped(m, r, v) /\ f = ptEntry(m, r, v).addr
  BY Zenon DEF virt2phys, PhysOf
<1>2. On(g, f, 0, r, v)
  BY <1>1, WalkEnds, Zenon DEF Walked
<1>3. f \in Frames /\ g.lev[f] = 0 /\ g.own[f] = r /\ Agree(0 + 1, g.vp[f], v)
  BY <1>2, ZenonT(40) DEF On
<1>4. Agree(1, g.vp[f], v) /\ g.vp[f] \in Pages
  BY <1>3, SoundFacts, RoleFacts
<1>5. g.vp[f] = v
  BY <1>4, AgreeAll
<1>6. g.vp[f] \in UserPages
  BY <1>3, SoundFacts, Zenon
<1> QED BY <1>3, <1>5, <1>6, Zenon DEF PageOwned

LEMMA WalkKernel ==
    ASSUME NEW m, NEW g, Sound(m, g), NEW v \in Pages, pml4Index(v) \notin KIdx
    PROVE  virt2phys(m, _KernelPML4, v) = NoFrame
<1>1. pml4Index(v) \in Indexes
  BY IndexFacts, Zenon
<1>2. /\ Follows(m, g, _KernelPML4, pml4Index(v)) /\ g.lev[_KernelPML4] = 4
      /\ g.own[_KernelPML4] = _KernelPML4
  BY <1>1, SoundFacts, ZenonT(40)
<1>3. Tracked(g, _KernelPML4, pml4Index(v))
  BY <1>2 DEF Tracked
<1>4. ~m.table[_KernelPML4][pml4Index(v)].present
  BY <1>2, <1>3, Zenon DEF Follows
<1> QED BY <1>4, Zenon DEF virt2phys, Mapped, pml4Entry

LEMMA WalkShared ==
    ASSUME NEW m, NEW g, Sound(m, g), NEW r \in Frames, g.lev[r] = 4, NEW v,
           pml4Index(v) \in KIdx
    PROVE  virt2phys(m, r, v) = virt2phys(m, _KernelPML4, v)
<1>1. m.table[r][pml4Index(v)] = m.table[_KernelPML4][pml4Index(v)]
  <2>1. Shares(m, g)
    BY SoundFacts, Zenon
  <2> QED BY <2>1 DEF Shares
<1>2. pml4Entry(m, r, v) = pml4Entry(m, _KernelPML4, v)
  BY <1>1, Zenon DEF pml4Entry
<1>3. pdpEntry(m, r, v) = pdpEntry(m, _KernelPML4, v)
  BY <1>2, Zenon DEF pdpEntry
<1>4. pdEntry(m, r, v) = pdEntry(m, _KernelPML4, v)
  BY <1>3, ZenonT(40) DEF pdEntry
<1>5. ptEntry(m, r, v) = ptEntry(m, _KernelPML4, v)
  BY <1>4, Zenon DEF ptEntry
<1>6. Mapped(m, r, v) <=> Mapped(m, _KernelPML4, v)
  BY <1>2, <1>3, <1>4, <1>5, ZenonT(40) DEF Mapped
<1> QED BY <1>5, <1>6, ZenonT(40) DEF virt2phys
--------------------------------------------------------------------------------
(* The inductive invariant: there are roles with which memory is sound; the *)
(* PML4 of a process is one, not the kernel's, and its own; until the       *)
(* kernel has booted its PML4 is the only one; and the entries of this that *)
(* memory is under are there from boot on, so that none is added later that *)
(* the copies would lack.                                                   *)
SpaceType == [Procs -> Frames \cup {NoFrame}]

Rooted(g, s) ==
    /\ \A p \in Procs : s[p] # NoFrame => g.lev[s[p]] = 4 /\ s[p] # _KernelPML4
    /\ \A p, q \in Procs : s[p] # NoFrame /\ s[p] = s[q] => p = q

Good(m, s, b, g) ==
    Sound(m, g) /\ Rooted(g, s) /\ (b <= BootPages => OnlyKernel(g))

BootMapped(m, b) ==
    ~m.panic => \A w \in Frames : w < b => m.table[_KernelPML4][pml4Index(w)].present

Inv(m, s, b) ==
    /\ m \in MemType /\ s \in SpaceType /\ b \in 0 .. BootPages + 1 /\ BootMapped(m, b)
    /\ \E g : Good(m, s, b, g)

IInv == Inv(mem, space, boot)

LEMMA BootFacts ==
    /\ BootPages \in Nat /\ N <= BootPages
    /\ \A b \in 0 .. BootPages - 1 : BootPage(b) \in KernelPages
    /\ \A b \in 0 .. BootPages - 1 : b < N => BootPage(b) = b
    /\ \A b : BootAttr(b) \in AttrType
<1>1. BootPages \in Nat /\ N <= BootPages /\ KernelSize \in Nat
  BY SizeAssumption DEF BootPages, KernelSize
<1>2. ASSUME NEW b \in 0 .. BootPages - 1 PROVE BootPage(b) \in KernelPages
  <2>1. CASE b < N
    BY <2>1, SizeAssumption DEF BootPage, KernelPages, Frames
  <2>2. CASE N <= b /\ b < N + KernelSize
    <3>1. BootPage(b) = KernelFirst + b - N
      BY <2>2, <1>1, SizeAssumption DEF BootPage
    <3>2. BootPage(b) \in Kernel
      BY <3>1, <2>2, SizeAssumption DEF KernelSize, Kernel
    <3> QED BY <3>2, SizeAssumption, ZenonT(40) DEF KernelPages
  <2>3. CASE N + KernelSize <= b
    <3>1. BootPage(b) = FbFirst + b - N - KernelSize
      BY <2>3, <1>1, SizeAssumption DEF BootPage
    <3>2. BootPage(b) \in FbFirst .. FbLast
      BY <3>1, <2>3, <1>1, SizeAssumption DEF BootPages
    <3> QED BY <3>2, ZenonT(40) DEF KernelPages
  <2>4. b < N \/ (N <= b /\ b < N + KernelSize) \/ N + KernelSize <= b
    BY <1>1, SizeFacts
  <2> QED BY <2>1, <2>2, <2>3, <2>4, ZenonT(40)
<1>3. \A b \in 0 .. BootPages - 1 : b < N => BootPage(b) = b
  BY DEF BootPage
<1>4. \A b : BootAttr(b) \in AttrType
  BY DEF BootAttr, AttrType, VMM_KERNEL_ATTRIBUTES, VMM_USER_ATTRIBUTES, ReadOnly
<1> QED BY <1>1, <1>2, <1>3, <1>4, ZenonT(40)

LEMMA PastBoot ==
    ASSUME NEW b \in 0 .. BootPages + 1, b > BootPages
    PROVE  ~(b <= BootPages) /\ \A w \in Frames : w < b
<1>1. BootPages \in Nat /\ N <= BootPages /\ N \in Nat
  BY BootFacts, SizeFacts, Zenon
<1> QED BY <1>1 DEF Frames

LEMMA GoodReached ==
    ASSUME NEW m, NEW s \in SpaceType, NEW b, NEW g, NEW n, NEW h, NEW S, NEW c,
           Good(m, s, b, g), Reached(m, g, n, h, S), c <= BootPages => b <= BootPages
    PROVE  Good(n, s, c, h)
<1>1. Sound(n, h) /\ \A t \in Frames : h.lev[t] = 4 <=> g.lev[t] = 4
  BY Zenon DEF Reached
<1>2. Rooted(g, s) /\ (b <= BootPages => OnlyKernel(g))
  BY Zenon DEF Good
<1>3. \A p \in Procs : s[p] # NoFrame => s[p] \in Frames
  BY DEF SpaceType
<1>4. Rooted(h, s)
  BY <1>1, <1>2, <1>3, Zenon DEF Rooted
<1>5. c <= BootPages => OnlyKernel(h)
  BY <1>1, <1>2, Zenon DEF OnlyKernel
<1> QED BY <1>1, <1>4, <1>5, ZenonT(40) DEF Good

LEMMA BootMappedReached ==
    ASSUME NEW m, NEW b, NEW g, NEW n, NEW h, NEW S, BootMapped(m, b), ~m.panic,
           Reached(m, g, n, h, S)
    PROVE  BootMapped(n, b)
<1>1. \A i \in Indexes : m.table[_KernelPML4][i].present => n.table[_KernelPML4][i].present
  BY Zenon DEF Reached
<1>2. \A w \in Frames : pml4Index(w) \in Indexes
  BY SizeFacts, IndexFacts, Zenon
<1> QED BY <1>1, <1>2, Zenon DEF BootMapped

LEMMA InitIInv == Init => IInv
<1> SUFFICES ASSUME Init PROVE Inv(mem, space, boot)
  BY DEF IInv
<1> DEFINE z == 0
           g == [lev |-> [f \in Frames |-> IF f = _KernelPML4 THEN 4 ELSE -1],
                 own |-> [f \in Frames |-> _KernelPML4], vp |-> [f \in Frames |-> z]]
<1>1. z \in Pages /\ _KernelPML4 \in Frames /\ _KernelPML4 \notin Kernel
  BY SizeFacts, KernelPML4, Zenon
<1>2. Absent \in EntryType /\ ~Absent.present
  BY <1>1, Zenon DEF Absent, EntryType, VMM_KERNEL_ATTRIBUTES
<1>3. /\ mem.table = [f \in Frames |-> Cleared] /\ ~mem.panic
      /\ mem.free = Frames \ (Kernel \cup {_KernelPML4})
  BY DEF Init
<1>4. Cleared \in [Indexes -> EntryType] /\ \A i \in Indexes : ~Cleared[i].present
  BY <1>2, Zenon DEF Cleared
<1>5. mem \in MemType
  <2>1. [f \in Frames |-> Cleared] \in [Frames -> [Indexes -> EntryType]]
    BY <1>4, Zenon
  <2> HIDE DEF g
  <2> QED BY <2>1, Zenon DEF Init, MemType
<1>6. space \in SpaceType /\ \A p \in Procs : space[p] = NoFrame
  BY ZenonT(40) DEF Init, SpaceType
<1>7. boot \in 0 .. BootPages + 1 /\ boot = 0
  BY BootFacts DEF Init
<1>8. BootMapped(mem, boot)
  BY <1>7 DEF BootMapped, Frames
<1>9. /\ g \in Roles
      /\ \A f \in Frames : /\ g.lev[f] = IF f = _KernelPML4 THEN 4 ELSE -1
                           /\ g.own[f] = _KernelPML4
  <2> HIDE DEF z
  <2>1. /\ [f \in Frames |-> IF f = _KernelPML4 THEN 4 ELSE -1] \in [Frames -> -1 .. 4]
        /\ [f \in Frames |-> _KernelPML4] \in [Frames -> Frames]
        /\ [f \in Frames |-> z] \in [Frames -> Pages]
    <3>1. 4 \in -1 .. 4 /\ -1 \in -1 .. 4
      OBVIOUS
    <3> QED BY <1>1, <3>1, ZenonT(40)
  <2> QED BY <2>1, ZenonT(40) DEF Roles
<1> HIDE DEF g, z
<1>10. \A t \in Frames : \A i \in Indexes : Follows(mem, g, t, i)
  BY <1>3, <1>4 DEF Follows
<1>11. Sound(mem, g)
  <2>1. Kernel \subseteq Frames
    BY SizeAssumption, Zenon
  <2>2. \A f \in mem.free \cup Kernel : g.lev[f] = -1
    BY <2>1, <1>1, <1>3, <1>9, ZenonT(40)
  <2>3. /\ g.lev[_KernelPML4] = 4 /\ \A t \in Frames : g.lev[t] = 4 => t = _KernelPML4
        /\ \A f \in Frames : g.lev[f] # 0
    BY <1>1, <1>9
  <2>4. Shares(mem, g)
    BY <2>3, ZenonT(40) DEF Shares
  <2>5. mem.free \cap Kernel = {}
    BY <1>3
  <2> QED BY <2>2, <2>3, <2>4, <2>5, <1>9, <1>10, ZenonT(40) DEF Sound
<1>12. OnlyKernel(g)
  BY <1>9 DEF OnlyKernel
<1>13. Rooted(g, space)
  BY <1>6, Zenon DEF Rooted
<1>14. Good(mem, space, boot, g)
  BY <1>11, <1>12, <1>13, Zenon DEF Good
<1> QED BY <1>5, <1>6, <1>7, <1>8, <1>14, ZenonT(40) DEF Inv

(* What a step that only maps pages leaves.                                 *)
LEMMA InvReached ==
    ASSUME NEW m, NEW s, NEW b, NEW g, s \in SpaceType, b \in 0 .. BootPages + 1,
           BootMapped(m, b), ~m.panic, Good(m, s, b, g), NEW n, NEW h, NEW S,
           Reached(m, g, n, h, S)
    PROVE  Inv(n, s, b)
<1>1. BootMapped(n, b)
  BY BootMappedReached, Zenon
<1>2. b <= BootPages => b <= BootPages
  OBVIOUS
<1>3. Good(n, s, b, h)
  BY <1>2, GoodReached, Zenon
<1>4. n \in MemType
  BY Zenon DEF Reached
<1> QED BY <1>1, <1>3, <1>4, ZenonT(40) DEF Inv

LEMMA BootStep ==
    ASSUME NEW m, NEW s, NEW b, Inv(m, s, b), ~m.panic, b < BootPages, NEW n,
           Maps(m, n, _KernelPML4, BootPage(b), BootPage(b), BootAttr(b))
    PROVE  Inv(n, s, b + 1)
<1> DEFINE k == _KernelPML4
           v == BootPage(b)
           attr == BootAttr(b)
           S == Frames \ m.free
<1>1. m \in MemType /\ s \in SpaceType /\ b \in 0 .. BootPages + 1 /\ BootMapped(m, b)
  BY Zenon DEF Inv
<1>2. PICK g : Good(m, s, b, g)
  BY ZenonT(40) DEF Inv
<1>3. b \in 0 .. BootPages - 1 /\ b <= BootPages /\ b + 1 \in 0 .. BootPages + 1
  BY <1>1, BootFacts
<1>4. Sound(m, g) /\ OnlyKernel(g)
  BY <1>2, <1>3, ZenonT(40) DEF Good
<1>5. v \in KernelPages /\ v \in Pages /\ attr \in AttrType
  BY <1>3, BootFacts, SizeFacts, ZenonT(40)
<1>6. k \in Frames /\ g.lev[k] = 4
  BY <1>4, SoundFacts, Zenon
<1>7. Region(k, v, attr) /\ Ready(m, g, k, v) /\ Fresh(m, g, k, v) /\ (k # _KernelPML4 => v \notin S)
  BY <1>4, <1>5, Zenon DEF Region, Ready, Fresh
<1>8. Maps(m, n, k, v, v, attr) /\ S \subseteq Frames \ m.free
  BY Zenon
<1> HIDE DEF k, v, attr, S
<1>9. PICK h : Reached(m, g, n, h, S) /\ (~n.panic => Mapped(n, k, v))
  BY <1>1, <1>4, <1>5, <1>6, <1>7, <1>8, MapSound, ZenonT(40)
<1>10. b + 1 <= BootPages => b <= BootPages
  BY <1>3
<1>11. Good(n, s, b + 1, h)
  BY <1>1, <1>2, <1>9, <1>10, GoodReached, ZenonT(40)
<1>12. BootMapped(n, b + 1)
  <2> SUFFICES ASSUME ~n.panic, NEW w \in Frames, w < b + 1
               PROVE  n.table[_KernelPML4][pml4Index(w)].present
    BY Zenon DEF BootMapped
  <2>1. CASE w = b
    <3>0. b < N
      BY <2>1, SizeFacts DEF Frames
    <3>1. v = w
      BY <3>0, <2>1, <1>3, BootFacts, ZenonT(40) DEF v
    <3> QED BY <3>1, <1>9, ZenonT(40) DEF Mapped, pml4Entry, k
  <2>2. CASE w # b
    <3>1. w < b
      BY <2>2, <1>3 DEF Frames
    <3>2. BootMapped(n, b)
      BY <1>1, <1>9, BootMappedReached, Zenon
    <3> QED BY <3>1, <3>2, ZenonT(40) DEF BootMapped
  <2> QED BY <2>1, <2>2
<1>13. n \in MemType
  BY <1>9, Zenon DEF Reached
<1> QED BY <1>1, <1>3, <1>11, <1>12, <1>13, ZenonT(40) DEF Inv

CreatesPages(m, y, r, first, pages) ==
    y = vmm_createPages(m, r, first, pages, VMM_USER_ATTRIBUTES)

HeapGot(y, n) == n = IF y.ok THEN y.m ELSE [y.m EXCEPT !.panic = TRUE]

LEMMA HeapStep ==
    ASSUME NEW m, NEW s, NEW b, Inv(m, s, b), ~m.panic, b = BootPages, NEW y, NEW n,
           CreatesPages(m, y, _KernelPML4, HeapFirst, HeapPages), HeapGot(y, n)
    PROVE  Inv(n, s, b + 1)
<1> DEFINE k == _KernelPML4
           attr == VMM_USER_ATTRIBUTES
           S == Frames \ m.free
<1>1. m \in MemType /\ s \in SpaceType /\ b \in 0 .. BootPages + 1 /\ BootMapped(m, b)
  BY Zenon DEF Inv
<1>2. PICK g : Good(m, s, b, g)
  BY Zenon DEF Inv
<1>3. b <= BootPages /\ b + 1 \in 0 .. BootPages + 1 /\ N <= b /\ b \in Int /\ N \in Int
  BY <1>1, BootFacts, SizeFacts
<1>4. Sound(m, g) /\ OnlyKernel(g)
  BY <1>2, <1>3, ZenonT(40) DEF Good
<1>5. k \in Frames /\ g.lev[k] = 4 /\ HeapPages \in Nat /\ attr \in AttrType
  <2>1. k \in Frames /\ g.lev[k] = 4
    BY <1>4, SoundFacts, Zenon
  <2> QED BY <2>1, SizeAssumption DEF AttrType, VMM_USER_ATTRIBUTES
<1>6. \A i \in 1 .. HeapPages : HeapFirst + i - 1 \in Pages /\ Region(k, HeapFirst + i - 1, attr)
  <2>1. \A i \in 1 .. HeapPages : HeapFirst + i - 1 \in HeapFirst .. HeapFirst + HeapPages - 1
    BY SizeAssumption
  <2>2. \A i \in 1 .. HeapPages : HeapFirst + i - 1 \in KernelPages
    BY <2>1, Zenon DEF KernelPages
  <2> QED BY <2>2, SizeFacts, ZenonT(40) DEF Region
<1>7. k # _KernelPML4 \/ OnlyKernel(g)
  BY <1>4
<1> HIDE DEF k, attr, S
<1>8. vmm_createPages(m, k, HeapFirst, HeapPages, attr) \in Reachable(m, g)
  BY <1>1, <1>4, <1>5, <1>6, <1>7, CreatePagesSound, ZenonT(40)
<1>9. y \in Reachable(m, g)
  BY <1>8, ZenonT(40) DEF CreatesPages, k, attr
<1>10. PICK h : Reached(m, g, y.m, h, S)
  BY <1>9, ZenonT(40) DEF Reachable, S
<1>11. y.m \in MemType /\ Sound(y.m, h)
  BY <1>10, Zenon DEF Reached
<1>12. PICK q : Reached(m, g, n, q, S)
  <2>1. CASE y.ok
    BY <2>1, <1>10, ZenonT(40) DEF HeapGot
  <2>2. CASE ~y.ok
    <3>1. n \in MemType /\ n.table = y.m.table /\ n.free = y.m.free
      BY <2>2, <1>11, ZenonT(40) DEF MemType, HeapGot
    <3>2. n.free \subseteq y.m.free
      BY <3>1
    <3>3. Reached(y.m, h, n, h, S)
      BY <3>1, <3>2, <1>11, ReachedSame, ZenonT(40)
    <3>4. S \subseteq S
      OBVIOUS
    <3> QED BY <3>3, <3>4, <1>10, ReachedChain, ZenonT(40)
  <2> QED BY <2>1, <2>2
<1>13. b + 1 <= BootPages => b <= BootPages
  BY <1>3
<1> DEFINE c == b + 1
<1> HIDE DEF c
<1>14. Good(n, s, b + 1, q)
  <2>1. c <= BootPages => b <= BootPages
    BY <1>13, Zenon DEF c
  <2>2. Good(n, s, c, q)
    BY <2>1, <1>1, <1>2, <1>12, GoodReached, ZenonT(40)
  <2> QED BY <2>2, Zenon DEF c
<1>15. BootMapped(n, b + 1)
  <2>1. BootMapped(n, b)
    BY <1>1, <1>12, BootMappedReached, Zenon
  <2>2. \A w \in Frames : w < b
    BY <1>3 DEF Frames
  <2> QED BY <2>1, <2>2, Zenon DEF BootMapped
<1>16. n \in MemType
  BY <1>12, ZenonT(40) DEF Reached
<1> QED BY <1>1, <1>3, <1>14, <1>15, <1>16, ZenonT(40) DEF Inv

SpaceGot(s, u, p, f, y) == u = IF y.ok /\ ~y.m.panic THEN [s EXCEPT ![p] = f] ELSE s

(* process_create: with the copy of the kernel's PML4 and the stack.        *)
LEMMA CreateStep ==
    ASSUME NEW m, NEW s, NEW b, Inv(m, s, b), ~m.panic, b > BootPages, m.free # {},
           NEW p \in Procs, NEW f, f = pmm_getFrame(m), NEW x, x = vmm_createAddressSpace(m),
           NEW y, CreatesPages(x, y, f, StackFirst, StackPages), NEW u, SpaceGot(s, u, p, f, y)
    PROVE  Inv(y.m, u, b)
<1> DEFINE attr == VMM_USER_ATTRIBUTES
           S == Frames \ m.free
<1>1. m \in MemType /\ s \in SpaceType /\ b \in 0 .. BootPages + 1 /\ BootMapped(m, b)
  BY Zenon DEF Inv
<1>2. PICK g : Good(m, s, b, g)
  BY Zenon DEF Inv
<1>3. Sound(m, g) /\ Rooted(g, s) /\ ~(b <= BootPages)
  <2>1. ~(b <= BootPages)
    BY <1>1, PastBoot, Zenon
  <2> QED BY <2>1, <1>2, Zenon DEF Good
<1>4. f \in Frames /\ f \in m.free /\ g.lev[f] = -1
  <2>1. f \in m.free /\ f \in Frames
    BY <1>1, TakenFacts, ZenonT(40)
  <2>2. \A a \in m.free \cup Kernel : g.lev[a] = -1
    BY <1>3, Zenon DEF Sound
  <2> QED BY <2>1, <2>2, Zenon
<1>5. m.table[_KernelPML4][pml4Index(f)].present
  <2>1. f < b
    BY <1>1, <1>4, PastBoot, Zenon
  <2> QED BY <2>1, <1>1, <1>4, Zenon DEF BootMapped
<1>6. PICK h : NewSpace(m, g, x, h, f)
  BY <1>1, <1>3, <1>5, AddressSpaceSound, ZenonT(40)
<1>7. /\ x \in MemType /\ Sound(x, h) /\ x.free \subseteq m.free
      /\ \A t \in Frames : h.lev[t] = 4 <=> g.lev[t] = 4 \/ (t = f /\ ~x.panic)
      /\ \A i \in Indexes : m.table[_KernelPML4][i].present => x.table[_KernelPML4][i].present
  BY <1>6, Zenon DEF NewSpace
<1>8. BootMapped(x, b)
  <2>1. \A w \in Frames : pml4Index(w) \in Indexes
    BY SizeFacts, IndexFacts, Zenon
  <2> QED BY <2>1, <1>1, <1>7, Zenon DEF BootMapped
<1>9. \A q \in Procs : s[q] # NoFrame => s[q] \in Frames /\ s[q] # f
  <2>1. \A q \in Procs : s[q] # NoFrame => s[q] \in Frames
    BY <1>1, ZenonT(40) DEF SpaceType
  <2>2. g.lev[f] # 4
    BY <1>4, Numbers, Zenon
  <2> QED BY <2>1, <2>2, <1>3, ZenonT(40) DEF Rooted
<1>10. Rooted(h, s)
  BY <1>3, <1>7, <1>9, ZenonT(40) DEF Rooted
<1>11. StackPages \in Nat /\ attr \in AttrType /\ f # NoFrame
  BY <1>4, SizeAssumption DEF AttrType, VMM_USER_ATTRIBUTES, Frames, NoFrame
<1>12. y = vmm_createPages(x, f, StackFirst, StackPages, attr)
  BY Zenon DEF CreatesPages
<1>13. f # _KernelPML4
  <2>1. g.lev[_KernelPML4] # -1
    BY <1>3, SoundFacts, Numbers, ZenonT(40)
  <2> QED BY <2>1, <1>4, Zenon
<1>14. attr = VMM_USER_ATTRIBUTES
  BY Zenon
<1> HIDE DEF attr, S
<1>15. CASE x.panic
  <2>1. y = Done(x)
    BY <1>11, <1>12, <1>15, CreatePagesPanicked, ZenonT(40)
  <2>2. y.m = x
    BY <2>1 DEF Done
  <2>3. u = s
    BY <2>2, <1>15, Zenon DEF SpaceGot
  <2>4. Good(x, s, b, h)
    BY <1>3, <1>7, <1>10, Zenon DEF Good
  <2> QED BY <2>2, <2>3, <2>4, <1>1, <1>7, <1>8, ZenonT(40) DEF Inv
<1>16. CASE ~x.panic
  <2>1. h.lev[f] = 4
    BY <1>4, <1>7, <1>16, ZenonT(40)
  <2>2. \A i \in 1 .. StackPages :
            StackFirst + i - 1 \in Pages /\ Region(f, StackFirst + i - 1, attr)
    <3>1. \A i \in 1 .. StackPages :
              StackFirst + i - 1 \in StackFirst .. StackFirst + StackPages - 1
      BY SizeAssumption
    <3>2. \A i \in 1 .. StackPages : StackFirst + i - 1 \in UserPages
      BY <3>1, Zenon DEF UserPages
    <3> QED BY <3>2, <1>13, <1>14, SizeFacts, ZenonT(40) DEF Region
  <2>3. f # _KernelPML4 \/ OnlyKernel(h)
    BY <1>13, Zenon
  <2>4. y \in Reachable(x, h)
    BY <2>1, <2>2, <2>3, <1>4, <1>7, <1>11, <1>12, CreatePagesSound, ZenonT(40)
  <2>5. PICK q : Reached(x, h, y.m, q, Frames \ x.free)
    BY <2>4, ZenonT(40) DEF Reachable
  <2>6. u \in SpaceType
    BY <1>1, <1>4 DEF SpaceType, SpaceGot
  <2>7. Rooted(h, u)
    <3>1. CASE u = s
      BY <3>1, <1>10, Zenon
    <3>2. CASE u = [s EXCEPT ![p] = f]
      <4>1. u[p] = f /\ \A q2 \in Procs : q2 # p => u[q2] = s[q2]
        BY <3>2, <1>1 DEF SpaceType
      <4>2. \A e \in Procs : s[e] # NoFrame => h.lev[s[e]] = 4 /\ s[e] # _KernelPML4
        BY <1>10, Zenon DEF Rooted
      <4>3. \A e, e2 \in Procs : s[e] # NoFrame /\ s[e] = s[e2] => e = e2
        BY <1>10, Zenon DEF Rooted
      <4>4. \A e \in Procs : u[e] # NoFrame => h.lev[u[e]] = 4 /\ u[e] # _KernelPML4
        BY <4>1, <4>2, <2>1, <1>13, ZenonT(40)
      <4>5. ASSUME NEW e \in Procs, NEW e2 \in Procs, u[e] # NoFrame, u[e] = u[e2]
            PROVE  e = e2
        <5>1. CASE e = p
          BY <5>1, <4>5, <4>1, <1>9, <1>11, ZenonT(40)
        <5>2. CASE e # p
          BY <5>2, <4>5, <4>1, <4>3, <1>9, ZenonT(40)
        <5> QED BY <5>1, <5>2
      <4> QED BY <4>4, <4>5, ZenonT(40) DEF Rooted
    <3> QED BY <3>1, <3>2, Zenon DEF SpaceGot
  <2>8. Good(x, u, b, h)
    BY <2>7, <1>3, <1>7, Zenon DEF Good
  <2> QED BY <2>5, <2>6, <2>8, <1>1, <1>8, <1>16, InvReached, ZenonT(40)
<1> QED BY <1>15, <1>16

(* A page fault that maps a new frame.                                      *)
LEMMA FaultSound ==
    ASSUME NEW m, NEW s, NEW b, m \in MemType, s \in SpaceType, NEW g, Good(m, s, b, g),
           NEW p \in Procs, s[p] # NoFrame, m.free # {}, NEW v \in UserPages, NEW k,
           k = Taken(m), NEW f, f = pmm_getFrame(m), NEW n,
           Maps(k, n, s[p], f, v, VMM_USER_ATTRIBUTES)
    PROVE  \E h : Reached(m, g, n, h, Frames \ m.free) /\ (~n.panic => Mapped(n, s[p], v))
<1> DEFINE r == s[p]
           attr == VMM_USER_ATTRIBUTES
           S == Frames \ m.free
<1>1. Sound(m, g) /\ g.lev[r] = 4 /\ r # _KernelPML4
  BY Zenon DEF Good, Rooted
<1>2. r \in Frames
  BY ZenonT(40) DEF SpaceType
<1>3. v \in Pages /\ attr \in AttrType
  BY SizeFacts, Zenon DEF AttrType, VMM_USER_ATTRIBUTES
<1>4. Maps(k, n, r, f, v, attr)
  BY Zenon
<1>5. Region(r, v, attr) /\ Ready(k, g, r, v)
  BY <1>1, Zenon DEF Region, Ready
<1> HIDE DEF r, attr
<1>6. /\ k \in MemType /\ Sound(k, g) /\ Fresh(k, g, r, f) /\ k.free \subseteq m.free
      /\ k.table = m.table /\ f \in m.free /\ f \in Pages
  BY <1>1, TakenSound, ZenonT(40)
<1>7. S \subseteq Frames \ k.free /\ (r # _KernelPML4 => f \notin S)
  BY <1>6
<1> HIDE DEF S
<1>8. PICK h : Reached(k, g, n, h, S) /\ (~n.panic => Mapped(n, r, v))
  BY <1>1, <1>2, <1>3, <1>4, <1>5, <1>6, <1>7, MapSound, ZenonT(40)
<1>9. Reached(m, g, n, h, S)
  BY <1>6, <1>8, ReachedTaken, ZenonT(40)
<1> QED BY <1>8, <1>9, Zenon DEF r, S

FaultMaps(m, n, r, v) ==
    n = IF m.free = {} THEN [m EXCEPT !.panic = TRUE]
        ELSE vmm_mapPage(Taken(m), r, pmm_getFrame(m), v, FaultAttr)

LEMMA FaultMade ==
    ASSUME NEW m, NEW s, NEW b, Inv(m, s, b), ~m.panic, NEW p \in Procs, s[p] # NoFrame,
           NEW v \in UserPages, NEW n, FaultMaps(m, n, s[p], v)
    PROVE  /\ Inv(n, s, b)
           /\ ~n.panic => Mapped(n, s[p], v)
<1>1. m \in MemType /\ s \in SpaceType /\ b \in 0 .. BootPages + 1 /\ BootMapped(m, b)
  BY Zenon DEF Inv
<1>2. PICK g : Good(m, s, b, g)
  BY Zenon DEF Inv
<1>3. CASE m.free = {}
  <2>1. n \in MemType /\ n.table = m.table /\ n.free = m.free /\ n.panic
    BY <1>1, <1>3, ZenonT(40) DEF MemType, FaultMaps
  <2>2. n.free \subseteq m.free
    BY <2>1
  <2>3. Sound(m, g)
    BY <1>2, Zenon DEF Good
  <2>4. Reached(m, g, n, g, {})
    BY <2>1, <2>2, <2>3, ReachedSame, Zenon
  <2>5. Inv(n, s, b)
    BY <2>4, <1>1, <1>2, InvReached, Zenon
  <2> QED BY <2>1, <2>5, Zenon
<1>4. CASE m.free # {}
  <2> DEFINE k == Taken(m)
             f == pmm_getFrame(m)
  <2>1. Maps(k, n, s[p], f, v, VMM_USER_ATTRIBUTES) /\ k = Taken(m) /\ f = pmm_getFrame(m)
    BY <1>4, Zenon DEF FaultMaps, Maps, FaultAttr
  <2> HIDE DEF k, f
  <2>2. PICK h : Reached(m, g, n, h, Frames \ m.free) /\ (~n.panic => Mapped(n, s[p], v))
    BY <2>1, <1>1, <1>2, <1>4, FaultSound, ZenonT(40)
  <2>3. Inv(n, s, b)
    BY <2>2, <1>1, <1>2, InvReached, ZenonT(40)
  <2> QED BY <2>2, <2>3, Zenon
<1> QED BY <1>3, <1>4

LEMMA DeleteStep ==
    ASSUME NEW m, NEW s, NEW b, Inv(m, s, b), NEW p \in Procs, NEW u,
           u = [s EXCEPT ![p] = NoFrame]
    PROVE  Inv(m, u, b)
<1>1. m \in MemType /\ s \in SpaceType /\ b \in 0 .. BootPages + 1 /\ BootMapped(m, b)
  BY Zenon DEF Inv
<1>2. PICK g : Good(m, s, b, g)
  BY Zenon DEF Inv
<1>3. u \in SpaceType /\ u[p] = NoFrame /\ \A q \in Procs : q # p => u[q] = s[q]
  BY <1>1 DEF SpaceType
<1>4. Sound(m, g) /\ Rooted(g, s) /\ (b <= BootPages => OnlyKernel(g))
  BY <1>2, Zenon DEF Good
<1>5. /\ \A q \in Procs : s[q] # NoFrame => g.lev[s[q]] = 4 /\ s[q] # _KernelPML4
      /\ \A q, e \in Procs : s[q] # NoFrame /\ s[q] = s[e] => q = e
  BY <1>4, Zenon DEF Rooted
<1>6. \A q \in Procs : u[q] # NoFrame => q # p /\ u[q] = s[q]
  BY <1>3, Zenon
<1>7. \A q \in Procs : u[q] # NoFrame => g.lev[u[q]] = 4 /\ u[q] # _KernelPML4
  BY <1>5, <1>6, Zenon
<1>8. ASSUME NEW q \in Procs, NEW e \in Procs, u[q] # NoFrame, u[q] = u[e] PROVE q = e
  BY <1>5, <1>6, <1>8, ZenonT(40)
<1>9. Rooted(g, u)
  BY <1>7, <1>8, Zenon DEF Rooted
<1>10. Good(m, u, b, g)
  BY <1>4, <1>9, Zenon DEF Good
<1> QED BY <1>1, <1>3, <1>10, Zenon DEF Inv

LEMMA FaultPages ==
    \A a \in Touched : RNDWN(a) \in UserPages /\ PageOf(a) \in UserPages
BY Zenon DEF UserPages

LEMMA NextIInv == IInv /\ [Next]_vars => IInv'
<1> SUFFICES ASSUME Inv(mem, space, boot), [Next]_vars PROVE Inv(mem', space', boot')
  BY DEF IInv
<1>1. CASE vmm_init
  <2>1. /\ ~mem.panic /\ boot < BootPages /\ boot' = boot + 1 /\ space' = space
        /\ Maps(mem, mem', _KernelPML4, BootPage(boot), BootPage(boot), BootAttr(boot))
    BY <1>1, Zenon DEF vmm_init, Maps
  <2>2. Inv(mem', space, boot + 1)
    BY <2>1, BootStep, Zenon
  <2> QED BY <2>1, <2>2, Zenon
<1>2. CASE heap_init
  <2> DEFINE y == vmm_createPages(mem, _KernelPML4, HeapFirst, HeapPages, VMM_USER_ATTRIBUTES)
  <2>1. /\ ~mem.panic /\ boot = BootPages /\ boot' = boot + 1 /\ space' = space
        /\ HeapGot(y, mem') /\ CreatesPages(mem, y, _KernelPML4, HeapFirst, HeapPages)
    BY <1>2, Zenon DEF heap_init, HeapGot, CreatesPages
  <2> HIDE DEF y
  <2>2. Inv(mem', space, boot + 1)
    BY <2>1, HeapStep, Zenon
  <2> QED BY <2>1, <2>2, Zenon
<1>3. ASSUME NEW p \in Procs, process_create(p) PROVE Inv(mem', space', boot')
  <2> DEFINE f == pmm_getFrame(mem)
             x == vmm_createAddressSpace(mem)
             y == vmm_createPages(x, f, StackFirst, StackPages, VMM_USER_ATTRIBUTES)
  <2>1. /\ ~mem.panic /\ boot > BootPages /\ mem.free # {} /\ boot' = boot /\ mem' = y.m
        /\ SpaceGot(space, space', p, f, y) /\ CreatesPages(x, y, f, StackFirst, StackPages)
    BY <1>3, Zenon DEF process_create, Booted, NewPML4, SpaceGot, CreatesPages
  <2>2. f = pmm_getFrame(mem) /\ x = vmm_createAddressSpace(mem)
    BY Zenon
  <2> HIDE DEF f, x, y
  <2>3. Inv(y.m, space', boot)
    BY <2>1, <2>2, CreateStep, Zenon
  <2> QED BY <2>1, <2>3, Zenon
<1>4. ASSUME NEW p \in Procs, process_delete(p) PROVE Inv(mem', space', boot')
  <2>1. space' = [space EXCEPT ![p] = NoFrame] /\ mem' = mem /\ boot' = boot
    BY <1>4, Zenon DEF process_delete
  <2>2. Inv(mem, space', boot)
    BY <2>1, DeleteStep, Zenon
  <2> QED BY <2>1, <2>2, Zenon
<1>5. ASSUME NEW p \in Procs, NEW a \in Touched, WriteFault(p, a)
      PROVE  Inv(mem', space', boot')
  <2>1. /\ ~mem.panic /\ space[p] # NoFrame /\ space' = space /\ boot' = boot
        /\ FaultMaps(mem, mem', space[p], RNDWN(a))
    BY <1>5, Zenon DEF WriteFault, FaultMaps
  <2>2. RNDWN(a) \in UserPages
    BY FaultPages, Zenon
  <2>3. Inv(mem', space, boot)
    BY <2>1, <2>2, FaultMade, Zenon
  <2> QED BY <2>1, <2>3, Zenon
<1>6. ASSUME NEW p \in Procs, NEW a \in Touched, ReadFault(p, a)
      PROVE  Inv(mem', space', boot')
  BY <1>4, <1>6, Zenon DEF ReadFault
<1>7. CASE UNCHANGED vars
  BY <1>7, Zenon DEF vars
<1> QED BY <1>1, <1>2, <1>3, <1>4, <1>5, <1>6, <1>7, Zenon DEF Next
--------------------------------------------------------------------------------
(* An entry of a table above the lowest level leads to a table of the level *)
(* below, of the space itself or of the kernel's.                           *)
Level(g, l) == {t \in Frames : g.lev[t] = l}

LEMMA ChildIn ==
    ASSUME NEW m, NEW g, Sound(m, g), NEW l \in 2 .. 4, NEW t \in Level(g, l), NEW i \in Indexes,
           m.table[t][i].present, NEW a, AddrOf(m, t, i, a), NEW j, LevelBelow(j, l)
    PROVE  a \in Level(g, j)
<1>0. t \in Frames /\ g.lev[t] = l /\ a = m.table[t][i].addr
  BY Zenon DEF Level, AddrOf
<1> DEFINE k == _KernelPML4
<1>1. Follows(m, g, t, i) /\ Follows(m, g, k, i) /\ Shares(m, g)
  BY <1>0, SoundFacts, Zenon
<1>2. k \in Frames /\ g.lev[k] = 4 /\ g.own[k] = k /\ (g.lev[t] = 4 => g.own[t] = t)
  BY <1>0, SoundFacts, ZenonT(40)
<1>3. l \in 1 .. 4 /\ 4 \in 2 .. 4
  OBVIOUS
<1> HIDE DEF k
<1>4. CASE Tracked(g, t, i)
  <2>1. Child(g, t, i, a)
    BY <1>0, <1>1, <1>4, ZenonT(40) DEF Follows
  <2> QED BY <1>0, <2>1, Zenon DEF Child, Level, LevelBelow
<1>5. CASE ~Tracked(g, t, i)
  <2>1. g.own[t] # k /\ l = 4 /\ i \in KIdx
    BY <1>0, <1>3, <1>5, ZenonT(40) DEF Tracked, k
  <2>2. t # k
    BY <2>1, <1>2, ZenonT(40)
  <2>3. m.table[t][i] = m.table[k][i]
    BY <1>0, <2>1, <2>2, <1>1, ZenonT(40) DEF Shares, k
  <2>4. Tracked(g, k, i)
    BY <1>2, <1>3, ZenonT(40) DEF Tracked, k
  <2>5. Child(g, k, i, m.table[k][i].addr)
    BY <1>0, <2>3, <2>4, <1>1, ZenonT(40) DEF Follows
  <2>6. a \in Frames /\ g.lev[a] = g.lev[k] - 1
    BY <1>0, <2>3, <2>5, ZenonT(40) DEF Child
  <2> QED BY <2>1, <2>6, <1>2, ZenonT(40) DEF Level, LevelBelow
<1> QED BY <1>4, <1>5

LEMMA ChildrenLevel ==
    ASSUME NEW g, Sound(mem, g), NEW l \in 2 .. 4, NEW k, LevelBelow(k, l), NEW S,
           S \subseteq Level(g, l)
    PROVE  Children(S) \subseteq Level(g, k)
<1> SUFFICES ASSUME NEW c \in Children(S) PROVE c \in Level(g, k)
  OBVIOUS
<1>1. PICK x \in {y \in S \X Indexes : mem.table[y[1]][y[2]].present} :
          c = mem.table[x[1]][x[2]].addr
  BY ZenonT(40) DEF Children
<1>2. x[1] \in S /\ x[2] \in Indexes /\ mem.table[x[1]][x[2]].present
  BY <1>1
<1> DEFINE t == x[1]
           i == x[2]
<1>3. t \in Level(g, l) /\ i \in Indexes /\ mem.table[t][i].present /\ AddrOf(mem, t, i, c)
  BY <1>1, <1>2, Zenon DEF AddrOf
<1> HIDE DEF t, i
<1> QED BY <1>3, ChildIn, Zenon

LEMMA TablesLevels ==
    ASSUME space \in SpaceType, NEW g, Sound(mem, g), Rooted(g, space)
    PROVE  \A t \in Tables : t \in Frames /\ g.lev[t] \in 1 .. 4
<1>1. _KernelPML4 \in Frames /\ g.lev[_KernelPML4] = 4
  BY SoundFacts, ZenonT(40)
<1>2. \A p \in Live : space[p] \in Frames /\ g.lev[space[p]] = 4
  BY DEF Live, Rooted, SpaceType
<1> DEFINE a == 4
           b == 3
           c == 2
           d == 1
<1>3. /\ a \in 2 .. 4 /\ b \in 2 .. 4 /\ c \in 2 .. 4
      /\ LevelBelow(b, a) /\ LevelBelow(c, b) /\ LevelBelow(d, c)
      /\ a \in 1 .. 4 /\ b \in 1 .. 4 /\ c \in 1 .. 4 /\ d \in 1 .. 4
  BY DEF LevelBelow
<1>4. Roots \subseteq Level(g, a)
  BY <1>1, <1>2, ZenonT(40) DEF Roots, Level
<1> HIDE DEF a, b, c, d
<1>5. Children(Roots) \subseteq Level(g, b)
  BY <1>3, <1>4, ChildrenLevel, ZenonT(40)
<1>6. Children(Children(Roots)) \subseteq Level(g, c)
  BY <1>3, <1>5, ChildrenLevel, ZenonT(40)
<1>7. Children(Children(Children(Roots))) \subseteq Level(g, d)
  BY <1>3, <1>6, ChildrenLevel, Zenon
<1>8. \A l \in 1 .. 4 : \A t \in Level(g, l) : t \in Frames /\ g.lev[t] \in 1 .. 4
  BY Zenon DEF Level
<1>9. /\ \A t \in Level(g, a) : t \in Frames /\ g.lev[t] \in 1 .. 4
      /\ \A t \in Level(g, b) : t \in Frames /\ g.lev[t] \in 1 .. 4
      /\ \A t \in Level(g, c) : t \in Frames /\ g.lev[t] \in 1 .. 4
      /\ \A t \in Level(g, d) : t \in Frames /\ g.lev[t] \in 1 .. 4
  BY <1>3, <1>8, ZenonT(40)
<1> SUFFICES ASSUME NEW t \in Tables PROVE t \in Frames /\ g.lev[t] \in 1 .. 4
  OBVIOUS
<1>10. \/ t \in Level(g, a) \/ t \in Level(g, b) \/ t \in Level(g, c) \/ t \in Level(g, d)
  BY <1>4, <1>5, <1>6, <1>7, ZenonT(40) DEF Tables
<1> QED BY <1>9, <1>10, Zenon

LEMMA InvFacts ==
    ASSUME IInv
    PROVE  /\ mem \in MemType /\ space \in SpaceType /\ boot \in 0 .. BootPages + 1
           /\ \E g : Sound(mem, g) /\ Rooted(g, space)
BY Zenon DEF IInv, Inv, Good

LEMMA LiveRoots ==
    ASSUME space \in SpaceType, NEW g, Rooted(g, space), NEW p \in Live
    PROVE  /\ p \in Procs /\ space[p] \in Frames /\ g.lev[space[p]] = 4
           /\ space[p] # _KernelPML4
BY DEF Live, Rooted, SpaceType

LEMMA UserWalk ==
    ASSUME space \in SpaceType, NEW g, Sound(mem, g), Rooted(g, space), NEW p \in Live,
           NEW v \in UserPages, NEW f, PhysOf(mem, space[p], v, f)
    PROVE  PageOwned(g, f, space[p], v) /\ virt2phys(mem, _KernelPML4, v) = NoFrame
<1>1. space[p] \in Frames /\ g.lev[space[p]] = 4 /\ space[p] # _KernelPML4
  BY LiveRoots, Zenon
<1>2. v \in Pages /\ pml4Index(v) \notin KIdx
  BY SizeFacts, RegionIndexes, ZenonT(40)
<1>3. PageOwned(g, f, space[p], v)
  BY <1>1, <1>2, WalkRole, ZenonT(40)
<1>4. virt2phys(mem, _KernelPML4, v) = NoFrame
  BY <1>2, WalkKernel, ZenonT(40)
<1> QED BY <1>3, <1>4, Zenon
--------------------------------------------------------------------------------
LEMMA InvOneUse == IInv => OneUse
<1> SUFFICES ASSUME IInv PROVE OneUse
  OBVIOUS
<1>1. mem \in MemType /\ space \in SpaceType /\ boot \in 0 .. BootPages + 1
  BY InvFacts, Zenon
<1>2. PICK g : Sound(mem, g) /\ Rooted(g, space)
  BY InvFacts, Zenon
<1>3. TypeOK
  BY <1>1, Zenon DEF TypeOK, SpaceType
<1>4. \A t \in Tables : g.lev[t] \in 1 .. 4
  BY <1>1, <1>2, TablesLevels, ZenonT(40)
<1>5. \A f \in mem.free \cup Kernel : g.lev[f] = -1 /\ f \in Frames
  <2>1. mem.free \cup Kernel \subseteq Frames
    BY <1>1, SizeAssumption, Zenon DEF MemType
  <2>2. \A f \in mem.free \cup Kernel : g.lev[f] = -1
    BY <1>2, Zenon DEF Sound
  <2> QED BY <2>1, <2>2, Zenon
<1>6. Tables \cap (mem.free \cup Kernel) = {}
  <2>1. -1 \notin 1 .. 4
    OBVIOUS
  <2> QED BY <2>1, <1>4, <1>5, Zenon
<1>7. ASSUME NEW p \in Live, NEW v \in UserPages
      PROVE  virt2phys(mem, space[p], v) \notin mem.free \cup Tables \cup Kernel
  <2> DEFINE f == virt2phys(mem, space[p], v)
  <2>1. CASE f = NoFrame
    <3>1. NoFrame \notin Frames
      BY SizeFacts DEF Frames, NoFrame
    <3>2. \A t \in Tables : t \in Frames
      BY <1>1, <1>2, TablesLevels, ZenonT(40)
    <3> QED BY <2>1, <3>1, <3>2, <1>5, ZenonT(40)
  <2>2. CASE f # NoFrame
    <3>1. PhysOf(mem, space[p], v, f)
      BY <2>2, Zenon DEF PhysOf
    <3> HIDE DEF f
    <3>2. PageOwned(g, f, space[p], v)
      BY <3>1, <1>1, <1>2, UserWalk, ZenonT(40)
    <3>3. g.lev[f] = 0
      BY <3>2, ZenonT(40) DEF PageOwned
    <3>4. g.lev[f] \notin 1 .. 4 /\ g.lev[f] # -1
      BY <3>3
    <3>5. f \notin mem.free \cup Tables \cup Kernel
      BY <3>4, <1>4, <1>5, ZenonT(40)
    <3> QED BY <3>5, Zenon DEF f
  <2> QED BY <2>1, <2>2, Zenon
<1> QED BY <1>3, <1>6, <1>7, ZenonT(40) DEF OneUse

OnlyAt(p, v, f) ==
    /\ virt2phys(mem, _KernelPML4, v) # f
    /\ \A q \in Live, w \in UserPages :
          virt2phys(mem, space[q], w) = f => <<q, w>> = <<p, v>>

LEMMA PrivateAt ==
    ASSUME \A p \in Live, v \in UserPages :
               virt2phys(mem, space[p], v) # NoFrame => OnlyAt(p, v, virt2phys(mem, space[p], v))
    PROVE  Private
BY Zenon DEF Private, OnlyAt

LEMMA InvPrivate == IInv => Private
<1> SUFFICES ASSUME IInv, NEW p \in Live, NEW v \in UserPages, NEW f,
                    PhysOf(mem, space[p], v, f)
             PROVE  OnlyAt(p, v, f)
  <2>1. ASSUME IInv,
               \A p \in Live, v \in UserPages : \A f : PhysOf(mem, space[p], v, f) => OnlyAt(p, v, f)
        PROVE  Private
    BY <2>1, PrivateAt, ZenonT(40) DEF PhysOf
  <2> QED BY <2>1, Zenon
<1>1. mem \in MemType /\ space \in SpaceType
  BY InvFacts, ZenonT(40)
<1>2. PICK g : Sound(mem, g) /\ Rooted(g, space)
  BY InvFacts, ZenonT(40)
<1>3. PageOwned(g, f, space[p], v) /\ virt2phys(mem, _KernelPML4, v) = NoFrame
  BY <1>1, <1>2, UserWalk, ZenonT(40)
<1>4. f # NoFrame
  BY Zenon DEF PhysOf
<1>5. ASSUME NEW q \in Live, NEW w \in UserPages, virt2phys(mem, space[q], w) = f
      PROVE  <<q, w>> = <<p, v>>
  <2>1. PhysOf(mem, space[q], w, f)
    BY <1>4, <1>5, Zenon DEF PhysOf
  <2>2. PageOwned(g, f, space[q], w)
    BY <2>1, <1>1, <1>2, UserWalk, ZenonT(40)
  <2>3. space[q] = space[p] /\ w = v
    BY <2>2, <1>3, ZenonT(40) DEF PageOwned
  <2>4. p \in Procs /\ q \in Procs /\ space[p] # NoFrame
    BY Zenon DEF Live
  <2>5. q = p
    BY <2>3, <2>4, <1>2, ZenonT(40) DEF Rooted
  <2> QED BY <2>3, <2>5, ZenonT(40)
<1> QED BY <1>3, <1>4, <1>5, ZenonT(40) DEF OnlyAt

LEMMA InvKernelSame == IInv => KernelSame
<1> SUFFICES ASSUME IInv, NEW p \in Live, NEW v \in Pages \ UserPages
             PROVE  virt2phys(mem, space[p], v) = virt2phys(mem, _KernelPML4, v)
  BY Zenon DEF KernelSame
<1>1. mem \in MemType /\ space \in SpaceType
  BY InvFacts, Zenon
<1>2. PICK g : Sound(mem, g) /\ Rooted(g, space)
  BY InvFacts, Zenon
<1>3. space[p] \in Frames /\ g.lev[space[p]] = 4 /\ space[p] # _KernelPML4
  BY <1>1, <1>2, LiveRoots, ZenonT(40)
<1>4. v \in Pages /\ v \notin UserPages
  OBVIOUS
<1>5. CASE pml4Index(v) \in KIdx
  BY <1>2, <1>3, <1>5, WalkShared, ZenonT(40)
<1>6. CASE pml4Index(v) \notin KIdx
  <2>1. virt2phys(mem, _KernelPML4, v) = NoFrame
    BY <1>2, <1>4, <1>6, WalkKernel, ZenonT(40)
  <2>2. ASSUME virt2phys(mem, space[p], v) # NoFrame PROVE FALSE
    <3> DEFINE f == virt2phys(mem, space[p], v)
    <3>1. PhysOf(mem, space[p], v, f)
      BY <2>2, Zenon DEF PhysOf
    <3> HIDE DEF f
    <3>2. PageOwned(g, f, space[p], v)
      BY <3>1, <1>2, <1>3, <1>4, <1>6, WalkRole, ZenonT(40)
    <3> QED BY <3>2, <1>4, Zenon DEF PageOwned
  <2> QED BY <2>1, <2>2, Zenon
<1> QED BY <1>5, <1>6

(* RNDWN is the page of an address that begins one.                         *)
LEMMA RoundedExact ==
    ASSUME NEW a \in Nat, a % PAGE_SIZE = 0
    PROVE  RNDWN(a) = PageOf(a)
<1> DEFINE e == PAGE_SIZE
           k == a \div e
           j == (a + e - 1) \div e
<1>1. e \in Nat \ {0} /\ a + e - 1 \in Nat
  BY SizeAssumption
<1>2. k \in Nat /\ a = k * e + (a % e)
  BY <1>1, Division, Zenon
<1>3. /\ j \in Nat /\ (a + e - 1) % e \in 0 .. e - 1
      /\ a + e - 1 = j * e + ((a + e - 1) % e)
  BY <1>1, Division, ZenonT(40)
<1> DEFINE rest == (a + e - 1) % e
<1>4. a = k * e /\ k * e + e - 1 = j * e + rest /\ rest \in 0 .. e - 1
  BY <1>1, <1>2, <1>3
<1>5. RNDWN(a) = j /\ PageOf(a) = k
  BY Zenon DEF RNDWN, PageOf
<1> HIDE DEF k, j, e, rest
<1>6. (k - j) * e \in 1 - e .. 0
  <2>1. (k - j) * e = rest - e + 1
    BY <1>1, <1>2, <1>3, <1>4
  <2> QED BY <2>1, <1>1, <1>4
<1>7. k = j
  <2>1. CASE k > j
    <3>1. (k - j) * e >= e
      BY <2>1, <1>1, <1>2, <1>3
    <3> QED BY <3>1, <1>1, <1>6
  <2>2. CASE k < j
    <3>1. (k - j) * e <= -e
      BY <2>2, <1>1, <1>2, <1>3
    <3> QED BY <3>1, <1>1, <1>6
  <2> QED BY <2>1, <2>2, <1>2, <1>3
<1> QED BY <1>5, <1>7, ZenonT(40)

LEMMA FaultUsable ==
    ASSUME IInv, IInv', NEW p \in Procs, NEW a \in Touched, WriteFault(p, a), ~mem'.panic,
           a % PAGE_SIZE = 0
    PROVE  UserMayWrite(mem', space[p], PageOf(a))
<1> DEFINE v == PageOf(a)
           r == space[p]
           n == mem'
<1>1. /\ ~mem.panic /\ r # NoFrame /\ space' = space /\ FaultMaps(mem, n, r, RNDWN(a))
  BY Zenon DEF WriteFault, FaultMaps
<1>2. RNDWN(a) = v /\ v \in UserPages
  <2>1. a \in Nat
    BY SizeAssumption
  <2> QED BY <2>1, RoundedExact, FaultPages, ZenonT(40)
<1>3. Inv(mem, space, boot) /\ Inv(n, space, boot')
  BY <1>1, Zenon DEF IInv
<1>4. FaultMaps(mem, n, space[p], v) /\ ~n.panic /\ space[p] # NoFrame
  BY <1>1, <1>2, Zenon
<1>5. PICK g : Good(n, space, boot', g)
  BY <1>3, Zenon DEF Inv
<1>6. space \in SpaceType
  BY <1>3, Zenon DEF Inv
<1> HIDE DEF v, n
<1>7. Mapped(n, r, v)
  BY <1>1, <1>2, <1>3, <1>4, FaultMade, ZenonT(40)
<1>8. Sound(n, g) /\ g.lev[r] = 4 /\ r # _KernelPML4
  BY <1>4, <1>5, ZenonT(40) DEF Good, Rooted
<1>9. r \in Frames
  BY <1>1, <1>6 DEF SpaceType
<1>10. v \in Pages /\ pml4Index(v) \notin KIdx
  BY <1>2, SizeFacts, RegionIndexes, Zenon
<1> HIDE DEF r
<1>11. Walked(n, g, r, v)
  BY <1>7, <1>8, <1>9, <1>10, WalkEnds, ZenonT(40)
<1>12. VMM_USER_ATTRIBUTES.user /\ VMM_USER_ATTRIBUTES.write
  BY DEF VMM_USER_ATTRIBUTES
<1>13. UserMayWrite(n, r, v)
  BY <1>7, <1>11, <1>12, ZenonT(40) DEF UserMayWrite, Walked
<1> QED BY <1>13, Zenon DEF n, r, v
--------------------------------------------------------------------------------
(* There are always roles of the frames with which memory is sound, and     *)
(* after vmm_init the kernel's PML4 has an entry over every frame, so that  *)
(* what vmm_createAddressSpace maps there adds none that the copies lack.   *)
THEOREM VmmInvariant == Spec => []IInv
BY InitIInv, NextIInv, PTL DEF Spec

(* A frame has one use, in whatever order processes are created, deleted    *)
(* and fault: pmm_getFrame gives vmm_mapPage, vmm_createPage and            *)
(* vmm_createAddressSpace frames that are no table, no page of a process    *)
(* and not the kernel's.                                                    *)
THEOREM VmmOneUse == Spec => []OneUse
BY VmmInvariant, InvOneUse, PTL

(* The user pages of two processes are in different frames, and the         *)
(* kernel's table does not map them: vmm_createAddressSpace copies only     *)
(* entries of the kernel's PML4 that nothing of a process is ever under.    *)
THEOREM VmmPrivate == Spec => []Private
BY VmmInvariant, InvPrivate, PTL

(* Every address space sees the kernel's part of memory as the kernel does, *)
(* also what the kernel maps after vmm_createAddressSpace made the copy:    *)
(* vmm_init has made all the entries of the PML4 that the kernel uses.      *)
THEOREM VmmKernelSame == Spec => []KernelSame
BY VmmInvariant, InvKernelSame, PTL

(* Unless memory is exhausted, pageFaultHandler leaves the page of a write  *)
(* to an address that begins a page present, writable and for user mode at  *)
(* all four levels.                                                         *)
THEOREM VmmFaultResolved == Spec => FaultResolved
<1>1. IInv /\ IInv' /\ [Next]_vars =>
          [\A p \in Procs, a \in Touched :
             WriteFault(p, a) /\ ~mem'.panic /\ a % PAGE_SIZE = 0 =>
                 UserMayWrite(mem', space[p], PageOf(a))]_vars
  BY FaultUsable, Zenon
<1> QED BY <1>1, VmmInvariant, PTL DEF Spec, FaultResolved
================================================================================
