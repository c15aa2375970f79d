--------------------------------- MODULE Chains --------------------------------
(* How the loops of misc/queue.c and misc/list.c go through linked nodes.   *)
EXTENDS Integers, Sequences

CONSTANT NULL

(* current = first; then current = current->next, for bound steps.          *)
Walk(first, next, bound) ==
    LET at[k \in 1 .. bound] ==
          IF k = 1 THEN first
          ELSE IF at[k - 1] = NULL THEN NULL ELSE next[at[k - 1]]
    IN  at

(* The nodes the loop visits before current is NULL.                        *)
Along(first, next, bound) ==
    LET at == Walk(first, next, bound)
    IN  [k \in {j \in 1 .. bound : at[j] # NULL} |-> at[k]]
================================================================================
