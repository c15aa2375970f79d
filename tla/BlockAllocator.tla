--------------------------- MODULE BlockAllocator ---------------------------
(***************************************************************************)
(* What the kernel heap promises its callers: kmalloc either fails and     *)
(* changes nothing, or hands out a block of at least the requested length  *)
(* that lies inside the arena and overlaps no block handed out before;     *)
(* kfree takes one block back and touches no other.                        *)
(***************************************************************************)
EXTENDS Integers

CONSTANTS ArenaStart, ArenaEnd,  \* blocks lie in ArenaStart .. ArenaEnd - 1
          Requests               \* the lengths callers ask for

VARIABLE blocks  \* the blocks handed out, as records [at, len]

Disjoint(b, c) == b.at + b.len <= c.at \/ c.at + c.len <= b.at

Init == blocks = {}

Allocate(size) ==
  \E b \in blocks' \ blocks :
    /\ b.at \in Int /\ b.len \in Int
    /\ b.len >= size
    /\ ArenaStart <= b.at /\ b.at + b.len <= ArenaEnd
    /\ \A c \in blocks : Disjoint(b, c)
    /\ blocks' = blocks \cup {b}

Free == \E b \in blocks : blocks' = blocks \ {b}

Next == (\E size \in Requests : Allocate(size)) \/ Free

Spec == Init /\ [][Next]_blocks
=============================================================================
