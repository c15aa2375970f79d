----------------------------------- MODULE Vmm ----------------------------------
(***************************************************************************)
(* Virtual memory, mem/vmm.c: page tables in physical frames, the address  *)
(* spaces that process_create makes from the kernel's, and demand paging.  *)
(*                                                                         *)
(* A frame and the virtual page that is identity mapped to it have the     *)
(* same number.  Frames are never given back (vmm_destroyAddressSpace      *)
(* returns at once and nobody calls vmm_unmapPage), so that pmm_getFrame,  *)
(* which searches upwards, returns the lowest frame that is free.          *)
(***************************************************************************)
EXTENDS Integers

CONSTANTS
    N,                          \* physical memory: frames 0 .. N - 1
    KernelFirst, KernelLast,    \* the frames of the kernel image, reserved by the PMM
    Writable,                   \* those with writable data
    FbFirst, FbLast,            \* the pages of the framebuffer
    Entries,                    \* ENTRIES_PER_PAGE_TABLE
    HeapFirst, HeapPages,       \* the virtual pages of the kernel heap
    StackFirst, StackPages,     \* the virtual pages of the user stack
    PAGE_SIZE,                  \* addresses in a page
    Touched,                    \* the virtual addresses at which user code faults
    Procs

Frames == 0 .. N - 1
NoFrame == -1
Kernel == KernelFirst .. KernelLast
Indexes == 0 .. Entries - 1
Pages == 0 .. Entries * Entries * Entries * Entries - 1

VARIABLES
    mem,        \* the tables, by frame, the free frames, and whether an assertion failed
    space,      \* the PML4 of each process, or NoFrame
    boot        \* how many pages vmm_init has mapped; one more after heap_init

vars == <<mem, space, boot>>
--------------------------------------------------------------------------------
(* Attributes: whether user mode may use the page, whether it is writable.  *)
VMM_KERNEL_ATTRIBUTES == [user |-> FALSE, write |-> TRUE]
VMM_USER_ATTRIBUTES == [user |-> TRUE, write |-> TRUE]
ReadOnly == [user |-> TRUE, write |-> FALSE]

Absent == [present |-> FALSE, addr |-> 0, attr |-> VMM_KERNEL_ATTRIBUTES]
Cleared == [i \in Indexes |-> Absent]

(* RNDWN rounds to the next page, not to the page of the address, unless    *)
(* the address begins a page; the result is given as the page's number.     *)
PageOf(a) == a \div PAGE_SIZE
RNDWN(a) == (a + PAGE_SIZE - 1) \div PAGE_SIZE

(* The fields of a virtual address that index the four tables.              *)
ptIndex(v) == v % Entries
pdIndex(v) == (v \div Entries) % Entries
pdpIndex(v) == ((v \div Entries) \div Entries) % Entries
pml4Index(v) == (((v \div Entries) \div Entries) \div Entries) % Entries

Lowest(S) == CHOOSE f \in S : \A g \in S : f <= g

_KernelPML4 == Lowest(Frames \ Kernel)

pmm_getFrame(m) == Lowest(m.free)

Taken(m) == [m EXCEPT !.free = @ \ {pmm_getFrame(m)}]

setEntry(m, t, i, addr, attr) ==
    [m EXCEPT !.table[t][i] = [present |-> TRUE, addr |-> addr, attr |-> attr]]

(* A new table, cleared, with the attributes of the page being mapped.      *)
createEntryUntaken(m, t, i, attr) ==
    setEntry([m EXCEPT !.table[pmm_getFrame(m)] = Cleared], t, i, pmm_getFrame(m), attr)

createEntry(m, t, i, attr) ==
    setEntry([Taken(m) EXCEPT !.table[pmm_getFrame(m)] = Cleared],
             t, i, pmm_getFrame(m), attr)

(* One level down in vmm_mapPage.  createEntry asserts that there is a      *)
(* frame for the table; nothing happens after an assertion that fails.      *)
Descend(m, t, i, attr) ==
    IF m.panic \/ m.table[t][i].present THEN m
    ELSE IF m.free = {} THEN [m EXCEPT !.panic = TRUE]
    ELSE createEntry(m, t, i, attr)

vmm_mapPage(m, pml4, phys, v, attr) ==
    LET m3 == Descend(m, pml4, pml4Index(v), attr)
        pdp == m3.table[pml4][pml4Index(v)].addr
        m2 == Descend(m3, pdp, pdpIndex(v), attr)
        pd == m2.table[pdp][pdpIndex(v)].addr
        m1 == Descend(m2, pd, pdIndex(v), attr)
        pt == m1.table[pd][pdIndex(v)].addr
    IN  IF m1.panic THEN m1 ELSE setEntry(m1, pt, ptIndex(v), phys, attr)

(* The entries on the way to a virtual page, each only if the ones before   *)
(* are present; the frame of the page, and what user mode may do with it:   *)
(* every level has to allow it.                                             *)
pml4Entry(m, pml4, v) == m.table[pml4][pml4Index(v)]
pdpEntry(m, pml4, v) == m.table[pml4Entry(m, pml4, v).addr][pdpIndex(v)]
pdEntry(m, pml4, v) == m.table[pdpEntry(m, pml4, v).addr][pdIndex(v)]
ptEntry(m, pml4, v) == m.table[pdEntry(m, pml4, v).addr][ptIndex(v)]

Mapped(m, pml4, v) ==
    /\ pml4Entry(m, pml4, v).present
    /\ pdpEntry(m, pml4, v).present
    /\ pdEntry(m, pml4, v).present
    /\ ptEntry(m, pml4, v).present

virt2phys(m, pml4, v) ==
    IF Mapped(m, pml4, v) THEN ptEntry(m, pml4, v).addr ELSE NoFrame

UserMayWrite(m, pml4, v) ==
    /\ Mapped(m, pml4, v)
    /\ \A e \in {pml4Entry(m, pml4, v), pdpEntry(m, pml4, v),
                 pdEntry(m, pml4, v), ptEntry(m, pml4, v)} : e.attr.user /\ e.attr.write
--------------------------------------------------------------------------------
(* vmm_createPage: a frame for a page.  In a sequence of them (vmm_create-  *)
(* Pages) the first that fails ends it.                                     *)
Done(m) == [ok |-> TRUE, m |-> m]

vmm_createPage(r, pml4, v, attr) ==
    IF ~r.ok \/ r.m.panic THEN r
    ELSE IF r.m.free = {} THEN [r EXCEPT !.ok = FALSE]
    ELSE Done(vmm_mapPage(Taken(r.m), pml4, pmm_getFrame(r.m), v, attr))

vmm_createPages(m, pml4, first, pages, attr) ==
    LET after[i \in 0 .. pages] ==
          IF i = 0 THEN Done(m) ELSE vmm_createPage(after[i - 1], pml4, first + i - 1, attr)
    IN  after[pages]

(* vmm_init: a cleared PML4, then all memory identity mapped, the kernel's  *)
(* pages mapped again with their own attributes, and the framebuffer.       *)
KernelSize == KernelLast - KernelFirst + 1
BootPages == N + KernelSize + (FbLast - FbFirst + 1)

BootPage(b) ==
    IF b < N THEN b
    ELSE IF b < N + KernelSize THEN KernelFirst + b - N ELSE FbFirst + b - N - KernelSize

BootAttr(b) ==
    IF b < N \/ b >= N + KernelSize THEN VMM_KERNEL_ATTRIBUTES
    ELSE IF BootPage(b) \in Writable THEN VMM_USER_ATTRIBUTES ELSE ReadOnly

Init ==
    /\ mem = [table |-> [f \in Frames |-> Cleared],
              free |-> Frames \ (Kernel \cup {_KernelPML4}), panic |-> FALSE]
    /\ space = [p \in Procs |-> NoFrame]
    /\ boot = 0

(* One turn of the loops.  Nothing else runs until the kernel has booted.   *)
vmm_init ==
    /\ ~mem.panic /\ boot < BootPages
    /\ mem' = vmm_mapPage(mem, _KernelPML4, BootPage(boot), BootPage(boot), BootAttr(boot))
    /\ boot' = boot + 1
    /\ UNCHANGED space

(* heap_init does not ask whether the pages could be created, but writes to *)
(* the last of them at once: a page fault of the kernel, which panics.      *)
heap_init ==
    LET r == vmm_createPages(mem, _KernelPML4, HeapFirst, HeapPages, VMM_USER_ATTRIBUTES)
    IN  /\ ~mem.panic /\ boot = BootPages
        /\ mem' = IF r.ok THEN r.m ELSE [r.m EXCEPT !.panic = TRUE]
        /\ boot' = boot + 1
        /\ UNCHANGED space

Booted == boot > BootPages

(* vmm_createAddressSpace: the new PML4 is the kernel's, entry by entry, so *)
(* that the tables below are shared.  It is mapped, in the kernel's space,  *)
(* at its own address, for user mode.                                       *)
CopiedBelow(row) == [i \in Indexes |-> IF i = Entries - 1 THEN Absent ELSE row[i]]

Copied(row) == row

NewPML4Shared(m) == _KernelPML4

NewPML4(m) == pmm_getFrame(m)

vmm_createAddressSpace(m) ==
    LET f == pmm_getFrame(m)
        mapped == vmm_mapPage(Taken(m), _KernelPML4, f, f, VMM_USER_ATTRIBUTES)
    IN  IF mapped.panic THEN mapped
        ELSE [mapped EXCEPT !.table[f] = Copied(mapped.table[_KernelPML4])]

(* process_create, as far as it is about memory: the only parent is idle,   *)
(* which runs in the kernel's space.  If the stack cannot be mapped, what   *)
(* has been taken is not given back.                                        *)
process_create(p) ==
    LET pml4 == NewPML4(mem)
        r == vmm_createPages(vmm_createAddressSpace(mem), pml4, StackFirst, StackPages,
                             VMM_USER_ATTRIBUTES)
    IN  /\ ~mem.panic /\ Booted /\ space[p] = NoFrame
        /\ mem.free # {}
        /\ mem' = r.m
        /\ space' = IF r.ok /\ ~r.m.panic THEN [space EXCEPT ![p] = pml4] ELSE space
        /\ UNCHANGED boot

process_delete(p) ==
    /\ ~mem.panic /\ space[p] # NoFrame
    /\ space' = [space EXCEPT ![p] = NoFrame]
    /\ UNCHANGED <<mem, boot>>

(* pageFaultHandler, for a fault in user mode: a write, or any access to a  *)
(* page that is present, has a new frame mapped at RNDWN of the address; a  *)
(* read of a page that is not there ends the process.                       *)
FaultAttrKernel == VMM_KERNEL_ATTRIBUTES
FaultAttr == VMM_USER_ATTRIBUTES

WriteFault(p, a) ==
    /\ ~mem.panic /\ space[p] # NoFrame
    /\ ~UserMayWrite(mem, space[p], PageOf(a))
    /\ mem' = IF mem.free = {} THEN [mem EXCEPT !.panic = TRUE]
              ELSE vmm_mapPage(Taken(mem), space[p], pmm_getFrame(mem), RNDWN(a), FaultAttr)
    /\ UNCHANGED <<space, boot>>

ReadFault(p, a) ==
    /\ space[p] # NoFrame /\ virt2phys(mem, space[p], PageOf(a)) = NoFrame
    /\ process_delete(p)

Next ==
    \/ vmm_init \/ heap_init
    \/ \E p \in Procs : process_create(p) \/ process_delete(p)
    \/ \E p \in Procs, a \in Touched : WriteFault(p, a) \/ ReadFault(p, a)

Spec == Init /\ [][Next]_vars
--------------------------------------------------------------------------------
Live == {p \in Procs : space[p] # NoFrame}
UserPages == (StackFirst .. StackFirst + StackPages - 1)
                 \cup {PageOf(a) : a \in Touched} \cup {RNDWN(a) : a \in Touched}
KernelPages == Frames \cup (FbFirst .. FbLast) \cup (HeapFirst .. HeapFirst + HeapPages - 1)

(* There is a frame for the kernel's PML4, and the pages are virtual pages. *)
ASSUME SizeAssumption ==
    /\ N \in Nat /\ Entries \in Nat \ {0} /\ PAGE_SIZE \in Nat \ {0}
    /\ KernelFirst \in Nat /\ KernelLast \in Int /\ KernelFirst <= KernelLast + 1
    /\ Kernel \subseteq Frames
    /\ Frames \ Kernel # {}
    /\ FbFirst \in Nat /\ FbLast \in Int /\ FbFirst <= FbLast + 1
    /\ HeapFirst \in Nat /\ HeapPages \in Nat /\ StackFirst \in Nat /\ StackPages \in Nat
    /\ Touched \subseteq Nat
    /\ UserPages \cup KernelPages \subseteq Pages

(* Where the kernel puts things: memory and the framebuffer from address 0, *)
(* the heap at the top, the user stack and what faults under other entries  *)
(* of the PML4.                                                             *)
ASSUME LayoutAssumption ==
    \A v \in UserPages, w \in KernelPages : pml4Index(v) # pml4Index(w)

EntryType == [present : BOOLEAN, addr : Pages, attr : [user : BOOLEAN, write : BOOLEAN]]
MemType == [table : [Frames -> [Indexes -> EntryType]], free : SUBSET Frames, panic : BOOLEAN]

(* Types: entries hold pages, and only processes have address spaces.       *)
TypeOK ==
    /\ mem \in MemType
    /\ space \in [Procs -> Frames \cup {NoFrame}]
    /\ boot \in 0 .. BootPages + 1

(* The user pages of two processes are in different frames, although every  *)
(* address space starts as a copy of one table: a page mapped for one       *)
(* process, by process_create or by a page fault, is never seen by another  *)
(* and never by the kernel's table.                                         *)
Private ==
    \A p \in Live, v \in UserPages :
        LET f == virt2phys(mem, space[p], v)
        IN  f # NoFrame => /\ virt2phys(mem, _KernelPML4, v) # f
                           /\ \A q \in Live, w \in UserPages :
                                virt2phys(mem, space[q], w) = f => <<q, w>> = <<p, v>>

(* The kernel's part of memory looks the same in every address space,       *)
(* including what the kernel maps after the space was made: the tables      *)
(* below the PML4 are shared, and the kernel only adds to these.            *)
KernelSame ==
    \A p \in Live : \A v \in Pages \ UserPages :
        virt2phys(mem, space[p], v) = virt2phys(mem, _KernelPML4, v)

(* A frame has one use: one that holds a page of a process is not free, is  *)
(* not a page table of any live space, and is not the kernel's.             *)
Children(S) ==
    {mem.table[x[1]][x[2]].addr : x \in {y \in S \X Indexes : mem.table[y[1]][y[2]].present}}

Roots == {space[p] : p \in Live} \cup {_KernelPML4}
Tables ==
    Roots \cup Children(Roots) \cup Children(Children(Roots))
        \cup Children(Children(Children(Roots)))

OneUse ==
    /\ TypeOK
    /\ Tables \cap (mem.free \cup Kernel) = {}
    /\ \A p \in Live, v \in UserPages :
          virt2phys(mem, space[p], v) \notin mem.free \cup Tables \cup Kernel

(* A write fault is resolved where the address begins a page: unless memory *)
(* is exhausted, the handler leaves the page usable, so that the access     *)
(* does not fault again.                                                    *)
FaultResolved ==
    [][\A p \in Procs, a \in Touched :
         WriteFault(p, a) /\ ~mem'.panic /\ a % PAGE_SIZE = 0 =>
             UserMayWrite(mem', space[p], PageOf(a))]_vars

(* The comment of vmm_mapPage, of any address: after the handler has mapped *)
(* a frame for it, the process can use the address.                         *)
FaultMapsAddress ==
    [][\A p \in Procs, a \in Touched :
         WriteFault(p, a) /\ ~mem'.panic => UserMayWrite(mem', space[p], PageOf(a))]_vars
================================================================================
