------------------------------ MODULE Processes -------------------------------
(***************************************************************************)
(* The scheduler on the data structures it really has.  Scheduler keeps    *)
(* the processes in sequences and sets; here each of its steps is taken    *)
(* together with what it does to the linked queues of misc/queue.c (links) *)
(* and to the process tree of misc/tree.c (tree).  The new variables do    *)
(* not restrict Scheduler's steps, and take nothing from its queues: that  *)
(* the pointers and the sequences agree is what there is to check.         *)
(***************************************************************************)
EXTENDS Scheduler, Links

VARIABLES links, tree

pointers == <<links, tree>>

(* getNextProcess: the last queue whose count is not 0.                     *)
Counted(m) == {i \in Priorities : m.count[i] > 0}

getNextProcess(m) ==
    IF Counted(m) = {} THEN m
    ELSE Q!queue_deqeueue(m, CHOOSE i \in Counted(m) : \A j \in Counted(m) : j <= i)

(* scheduler_add                                                            *)
scheduler_add(m, p) == Q!queue_enqueue(m, Priority[p], p)

PInit ==
    /\ Init
    /\ links = scheduler_add(Q!Created, Idle)
    /\ tree = T!Rooted

Creates(p) ==
    /\ process_create(p)
    /\ tree' = T!tree_insert(tree, p)
    /\ links' = scheduler_add(links, p)

Arms == lapic_timer_periodic /\ UNCHANGED pointers

Yields == yield /\ links' = getNextProcess(links) /\ UNCHANGED tree

Expires == Expire /\ UNCHANGED pointers

(* dispatch.  Where the tick leads astray before that, nothing is queued.   *)
Ticks ==
    /\ interruptHandler
    /\ links' \in {getNextProcess(scheduler_add(links, current))}
                    \cup (IF pc' = "wild" /\ queues' = queues THEN {links} ELSE {})
    /\ UNCHANGED tree

(* process_delete takes the process out of the tree.                        *)
Exits ==
    /\ sys_exit
    /\ tree' = T!tree_remove(tree, current)
    /\ UNCHANGED links

PNext ==
    \/ \E p \in Procs : Creates(p)
    \/ Arms \/ Yields \/ Expires \/ Ticks \/ Exits

pvars == <<vars, pointers>>

(* The fairness of Scheduler.                                               *)
PSpec == PInit /\ [][PNext]_pvars /\ Fairness
--------------------------------------------------------------------------------
(* The linked queues hold what the scheduler's queues hold, in their order, *)
(* with sound pointers, and own every node that is allocated.  queue_remove *)
(* (which scheduler_remove calls, and nobody that) would keep it so for any *)
(* process that waits and is not the last of its queue.                     *)
Linked ==
    pc # "wild" =>
        /\ SoundQueues(links, queues)
        /\ \A i \in Priorities : \A k \in 1 .. Len(queues[i]) - 1 :
              SoundQueues(Q!queue_remove(links, i, queues[i][k]),
                          [queues EXCEPT ![i] = Without(@, k)])

(* The tree holds the processes that have not been deleted, with sound      *)
(* lists and parents, and would still do so if any one of them, not only    *)
(* the one that runs, were removed, and inserted again behind the others.   *)
Trees ==
    /\ tree.used = alive /\ T!TreeSound(tree)
    /\ \A p \in alive \ {Idle} :
          /\ T!TreeSound(T!tree_remove(tree, p))
          /\ T!TreeSound(T!tree_insert(T!tree_remove(tree, p), p))
================================================================================
