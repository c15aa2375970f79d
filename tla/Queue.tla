--------------------------------- MODULE Queue ---------------------------------
(***************************************************************************)
(* The singly linked queues of misc/queue.c, at the level of their         *)
(* pointers.  A memory m holds the queues (the fields front, rear, count   *)
(* and lock of each) and the heap blocks of their nodes (which are         *)
(* allocated, and the fields data and next of each).  Every operation      *)
(* holds q->lock from its first to its last access, and is a function from *)
(* the memory before to the memory after.                                  *)
(***************************************************************************)
EXTENDS Chains, FiniteSets

CONSTANTS Nodes,     \* the heap blocks a QueueNode_t may be placed in
          Queues     \* the queues

(* queue_create, for all queues.                                            *)
Created ==
    [front |-> [q \in Queues |-> NULL], rear |-> [q \in Queues |-> NULL],
     count |-> [q \in Queues |-> 0], lock |-> [q \in Queues |-> FALSE],
     heap |-> {}, data |-> [n \in Nodes |-> NULL], next |-> [n \in Nodes |-> NULL]]

(* Which free block kmalloc returns makes no difference.  kfree uses the    *)
(* block for its own lists; nothing is known of what a free node holds.     *)
kmalloc(m) == CHOOSE n \in Nodes : n \notin m.heap

kfree(m, n) == [m EXCEPT !.heap = @ \ {n}, !.data[n] = NULL, !.next[n] = NULL]

(* Linking tmp behind rear, or as the only node.                            *)
Linked(m, q, tmp) ==
    IF m.rear[q] = NULL
    THEN [m EXCEPT !.front[q] = tmp, !.rear[q] = tmp]
    ELSE [m EXCEPT !.next[m.rear[q]] = tmp, !.rear[q] = tmp]

queue_enqueue(m, q, v) ==
    LET tmp == kmalloc(m)
        m1 == [m EXCEPT !.heap = @ \cup {tmp}, !.data[tmp] = v, !.next[tmp] = NULL]
    IN  [Linked(m1, q, tmp) EXCEPT !.count[q] = @ + 1]

(* The rear is cleared with the last node.                                  *)
RearKept(m, q) == m.rear[q]

RearAfter(m, q) == IF m.next[m.front[q]] = NULL THEN NULL ELSE m.rear[q]

queue_deqeueue(m, q) ==
    IF m.count[q] = 0 THEN m
    ELSE kfree([m EXCEPT !.front[q] = m.next[m.front[q]], !.rear[q] = RearAfter(m, q),
                         !.count[q] = @ - 1],
               m.front[q])

(* The nodes of a queue, from its front, and the values they hold.          *)
Chain(m, q) == Along(m.front[q], m.next, Cardinality(Nodes))

Contents(m, q) == LET at == Chain(m, q) IN [k \in DOMAIN at |-> m.data[at[k]]]

(* The search for the first node with the value, which is unlinked and      *)
(* freed; rear is not looked at.  A remove that finds no node returns with  *)
(* the lock held, after which every operation on the queue spins for ever.  *)
queue_remove(m, q, v) ==
    LET at == Chain(m, q)
        hits == {k \in DOMAIN at : m.data[at[k]] = v}
        k == CHOOSE i \in hits : \A j \in hits : i <= j
    IN  IF hits = {} THEN [m EXCEPT !.lock[q] = TRUE]
        ELSE kfree(IF k = 1 THEN [m EXCEPT !.front[q] = m.next[at[k]], !.count[q] = @ - 1]
                   ELSE [m EXCEPT !.next[at[k - 1]] = m.next[at[k]], !.count[q] = @ - 1],
                   at[k])

(* The pointers of a queue agree with each other: the list from front has   *)
(* count nodes, all allocated, and rear is the last of them.                *)
WellLinked(m, q) ==
    LET at == Chain(m, q)
    IN  /\ ~m.lock[q]
        /\ m.count[q] = Len(at)
        /\ \A k \in DOMAIN at : at[k] \in m.heap
        /\ m.rear[q] = IF at = <<>> THEN NULL ELSE at[Len(at)]
================================================================================
