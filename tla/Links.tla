--------------------------------- MODULE Links ---------------------------------
(***************************************************************************)
(* The heap blocks that the scheduler's structures are linked from: the    *)
(* nodes of its queues, one queue for each priority (misc/queue.c), and    *)
(* those of the process tree, in which a tree node stands for its process  *)
(* (misc/tree.c).                                                          *)
(***************************************************************************)
EXTENDS Tasks, Chains

CONSTANTS QueueNodes, ListNodes    \* heap blocks

(* The heap does not run out of blocks for nodes.                           *)
ASSUME HeapAssumption ==
    /\ IsFiniteSet(All) /\ IsFiniteSet(QueueNodes) /\ IsFiniteSet(ListNodes)
    /\ NULL \notin All /\ NULL \notin QueueNodes /\ NULL \notin ListNodes
    /\ Cardinality(QueueNodes) >= Cardinality(All)
    /\ Cardinality(ListNodes) >= Cardinality(All)

Q == INSTANCE Queue WITH Nodes <- QueueNodes, Queues <- Priorities
T == INSTANCE ProcessTree WITH TreeNodes <- All, Root <- Idle

(* The linked queues of m hold the given contents, with sound pointers, and *)
(* own every node that is allocated.                                        *)
SoundQueues(m, contents) ==
    /\ \A i \in Priorities : Q!WellLinked(m, i) /\ Q!Contents(m, i) = contents[i]
    /\ m.heap = UNION {Range(Q!Chain(m, i)) : i \in Priorities}

Without(s, k) == SubSeq(s, 1, k - 1) \o SubSeq(s, k + 1, Len(s))
================================================================================
