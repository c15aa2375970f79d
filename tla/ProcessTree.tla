------------------------------ MODULE ProcessTree -------------------------------
(***************************************************************************)
(* The process tree (misc/tree.c) and the doubly linked lists that hold    *)
(* the children of its nodes (misc/list.c), at the level of their          *)
(* pointers.  A tree node stands for its process.  A memory m holds the    *)
(* nodes that are allocated, their parents, the tree's count, the lists    *)
(* (head, tail, length) and the list nodes (next, prev, value).  The       *)
(* operations run under the tree's lock and are functions from the memory  *)
(* before to the memory after.                                             *)
(*                                                                         *)
(* list_delete unlinks a list node and tree_remove does not free it: list  *)
(* nodes are used once.                                                    *)
(***************************************************************************)
EXTENDS Chains, FiniteSets

CONSTANTS TreeNodes, Root,    \* heap blocks for tree nodes; that of the idle process
          ListNodes           \* heap blocks for list nodes, a bound on insertions

Empty == [head |-> NULL, tail |-> NULL, length |-> 0]

(* tree_create and tree_set_root.                                           *)
Rooted ==
    [used |-> {Root}, parent |-> [t \in TreeNodes |-> NULL], nodes |-> 1,
     fresh |-> ListNodes, list |-> [t \in TreeNodes |-> Empty],
     node |-> [n \in ListNodes |-> [next |-> NULL, prev |-> NULL, value |-> NULL]]]
--------------------------------------------------------------------------------
(* A write through a pointer that may be NULL.                              *)
SetNext(ns, n, to) == IF n = NULL THEN ns ELSE [ns EXCEPT ![n].next = to]
SetPrev(ns, n, to) == IF n = NULL THEN ns ELSE [ns EXCEPT ![n].prev = to]

(* list_append: the list, and the nodes, with n at the end.                 *)
AppendedTo(l, n) ==
    [head |-> IF l.tail = NULL THEN n ELSE l.head, tail |-> n, length |-> l.length + 1]

AppendedNodesUnlinked(ns, l, n, item) ==
    SetNext([ns EXCEPT ![n] = [next |-> NULL, prev |-> NULL, value |-> item]], l.tail, n)

AppendedNodes(ns, l, n, item) ==
    SetNext([ns EXCEPT ![n] = [next |-> NULL, prev |-> l.tail, value |-> item]], l.tail, n)

(* list_delete: the tests of head and tail, then both neighbours.           *)
DeletedFrom(ns, l, n) ==
    [head |-> IF n = l.head THEN ns[n].next ELSE l.head,
     tail |-> IF n = l.tail THEN ns[n].prev ELSE l.tail,
     length |-> l.length - 1]

DeletedNodes(ns, n) ==
    [SetPrev(SetNext(ns, ns[n].prev, ns[n].next), ns[n].next, ns[n].prev)
        EXCEPT ![n].next = NULL, ![n].prev = NULL]

(* list_merge: the nodes of s go behind those of l; the first of them keeps *)
(* its prev, which is NULL.                                                 *)
MergedList(l, s) ==
    [head |-> IF l.tail = NULL THEN s.head ELSE l.head,
     tail |-> IF s.tail = NULL THEN l.tail ELSE s.tail,
     length |-> l.length + s.length]

MergedNodes(ns, l, s) == SetNext(ns, l.tail, s.head)

(* list_find and foreach: the nodes of a list, from its head.               *)
Nodes(m, l) ==
    Along(l.head, [n \in ListNodes |-> m.node[n].next], Cardinality(ListNodes))

list_find(m, l, item) ==
    LET at == Nodes(m, l)
        hits == {k \in DOMAIN at : m.node[at[k]].value = item}
    IN  IF hits = {} THEN NULL ELSE at[CHOOSE k \in hits : \A j \in hits : k <= j]

Items(m, l) == LET at == Nodes(m, l) IN {m.node[at[k]].value : k \in DOMAIN at}
--------------------------------------------------------------------------------
(* tree_create_node, then tree_insert below the root, which is where        *)
(* process_create inserts, with list_insert.                                *)
tree_insert(m, t) ==
    LET n == CHOOSE b \in m.fresh : TRUE
    IN  [m EXCEPT !.fresh = @ \ {n}, !.used = @ \cup {t}, !.nodes = @ + 1,
                  !.parent[t] = Root,
                  !.node = AppendedNodes(@, m.list[Root], n, t),
                  !.list = [m.list EXCEPT ![t] = Empty, ![Root] = AppendedTo(m.list[Root], n)]]

(* tree_remove: the children of the node become children of its parent.     *)
Adopted(m, t) ==
    [c \in TreeNodes |-> IF c \in Items(m, m.list[t]) THEN m.parent[t] ELSE m.parent[c]]

tree_remove(m, t) ==
    LET p == m.parent[t]
        n == list_find(m, m.list[p], t)
        rest == DeletedFrom(m.node, m.list[p], n)
    IN  [m EXCEPT !.used = @ \ {t}, !.nodes = @ - 1, !.parent = Adopted(m, t),
                  !.list[p] = MergedList(rest, m.list[t]),
                  !.node = MergedNodes(DeletedNodes(@, n), rest, m.list[t])]
--------------------------------------------------------------------------------
(* The pointers of every list of children agree: from head to tail there    *)
(* are length nodes, and prev leads back along next.                        *)
ListsSound(m) ==
    \A t \in m.used :
       LET at == Nodes(m, m.list[t])
       IN  /\ m.list[t].length = Len(at)
           /\ \A k \in DOMAIN at : m.node[at[k]].prev = IF k = 1 THEN NULL ELSE at[k - 1]
           /\ m.list[t].tail = IF at = <<>> THEN NULL ELSE at[Len(at)]

(* The two representations of the tree agree: the processes in a node's     *)
(* list are those whose parent it is, each once, every process but idle is  *)
(* below a process that exists, and the tree's count is right.              *)
TreeSound(m) ==
    /\ ListsSound(m)
    /\ m.nodes = Cardinality(m.used)
    /\ \A t \in m.used :
          /\ Items(m, m.list[t]) = {c \in m.used : m.parent[c] = t}
          /\ m.list[t].length = Cardinality(Items(m, m.list[t]))
          /\ t = Root \/ m.parent[t] \in m.used
================================================================================
