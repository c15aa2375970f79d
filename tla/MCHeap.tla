------------------------------- MODULE MCHeap -------------------------------
(***************************************************************************)
(* The heap with the sizes of the x86-64 build of Chunk_t and an arena     *)
(* small enough for TLC.                                                   *)
(***************************************************************************)
EXTENDS Heap

MCSlotFloor == [n \in 0..10 |-> 2^n]

\* The halving loop of memory_chunk_slot, as a reference for the closed form.
SlotLoop[size \in 0..HeapSize] == IF size = 0 THEN -1 ELSE 1 + SlotLoop[size \div 2]

ASSUME SlotIsLoop == \A size \in 0..HeapSize : memory_chunk_slot(size) = SlotLoop[size]
=============================================================================
