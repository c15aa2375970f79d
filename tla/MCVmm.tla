---------------------------------- MODULE MCVmm ---------------------------------
(***************************************************************************)
(* Tables of four entries: memory and the framebuffer under the first      *)
(* entry of the PML4, user pages under the third, the kernel heap under    *)
(* the fourth.                                                             *)
(***************************************************************************)
EXTENDS Vmm

CONSTANTS p1, p2

(* The first address of page 160, and both of page 189, below the stack.    *)
MCTouched == {320, 378, 379}
================================================================================
