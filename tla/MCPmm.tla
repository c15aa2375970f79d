--------------------------------- MODULE MCPmm ---------------------------------
(* Memory maps of sixteen pages, with two frames to a word of the bitmap    *)
(* and pages of four bytes, so that the bitmap takes about two pages.       *)
EXTENDS Pmm

Region(s, n) == [start |-> s, pages |-> n, free |-> TRUE]
Taken(s, n) == [start |-> s, pages |-> n, free |-> FALSE]

(* A free region at address 0 below the kernel's end, as firmware reports   *)
(* it, then a taken one, then the memory proper.                            *)
PlainMap == [desc |-> <<Region(0, 2), Taken(2, 2), Region(4, 12)>>,
             fbStart |-> 40, fbSize |-> 8, kernelEnd |-> 13]

(* The framebuffer lies inside a free region, and the largest region, with  *)
(* the bitmap, is not the last one.                                         *)
SplitMap == [desc |-> <<Taken(0, 2), Region(2, 9), Taken(11, 1), Region(12, 4)>>,
             fbStart |-> 13, fbSize |-> 4, kernelEnd |-> 5]

SoundMaps == {PlainMap, SplitMap}

Singles == {1}

Several == {1, 2}
================================================================================
