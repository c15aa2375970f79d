------------------------------- MODULE Scheduler -------------------------------
(***************************************************************************)
(* The scheduler of the kernel: the priority queues of sys/scheduler.c,    *)
(* the processes that sys/process.c creates and deletes, sys_exit, the     *)
(* boot sequence that starts the first process (main.c) and the timer      *)
(* interrupt that preempts (dev/timer.c).                                  *)
(*                                                                         *)
(* Only the boot processor schedules (the others halt in ap_entry), so the *)
(* concurrency is that of one CPU and its timer: the timer expires at any  *)
(* moment, and the interrupt is taken wherever interrupts are enabled.     *)
(* Processes run with interrupts enabled.  The kernel runs with interrupts *)
(* enabled in two short stretches, both of which end in the cli of         *)
(* x64_context_switch:                                                     *)
(*   "armed"    in _entry, from arming the timer to the first switch;      *)
(*   "exiting"  in sys_exit, from its STI to the switch.                   *)
(* Windows is the set of those stretches in which a tick may arrive.  The  *)
(* first is reached only if the kernel loses a whole timer period in it.   *)
(* The second needs no such delay: the timer may expire while sys_exit     *)
(* runs with interrupts disabled, and is then delivered at its STI.        *)
(***************************************************************************)
EXTENDS Tasks

CONSTANTS Priority,      \* the priority each process is created with
          Windows        \* the kernel stretches in which a tick may arrive

ASSUME SchedulerAssumption ==
    /\ Idle \notin Procs
    /\ MaxPriority \in Nat
    /\ Priority \in [All -> Priorities]
    /\ Priority[Idle] = 0
    /\ Windows \subseteq {"armed", "exiting"}

VARIABLES
    pc,         \* what the CPU executes: "boot", "armed", "run" (the current
                \* process itself), "exiting", "panic", or "wild" (code that
                \* a context in freed memory points to)
    current,    \* currentCPU()->currentProcess
    queues,     \* g_processQueues
    created,    \* the processes boot has created
    alive,      \* those of them whose Process_t has not been freed
    resume,     \* per process, where its saved context continues
    timer,      \* "off", "periodic", "oneshot", or "spent" (expired one-shot)
    pending     \* the timer interrupt is requested and not yet taken

vars == <<pc, current, queues, created, alive, resume, timer, pending>>

--------------------------------------------------------------------------------
(* queue_enqueue and queue_deqeueue on one of the queues (Queue shows       *)
(* that the linked list of misc/queue.c implements them).                   *)
EnqueuedAtFront(qs, p) == [qs EXCEPT ![Priority[p]] = <<p>> \o @]

Enqueued(qs, p) == [qs EXCEPT ![Priority[p]] = Append(@, p)]

Peeked(qs, i) == qs

Dequeued(qs, i) == [qs EXCEPT ![i] = Tail(@)]

(* The queue getNextProcess takes from: the last one that is not empty.     *)
WaitingAbove(qs) == {i \in Priorities : i > 0 /\ qs[i] # <<>>}

Waiting(qs) == {i \in Priorities : qs[i] # <<>>}

Lowest(qs) == CHOOSE i \in Waiting(qs) : \A j \in Waiting(qs) : i <= j

Highest(qs) == CHOOSE i \in Waiting(qs) : \A j \in Waiting(qs) : j <= i

(* getNextProcess on the queues qs, then the switch to its result.  The     *)
(* CPU continues where the context rs of the process points; a context in   *)
(* freed memory may since have been overwritten by the memory's new owner.  *)
SwitchToNext(qs, rs) ==
    IF Waiting(qs) = {}
    THEN /\ pc' = "panic"
         /\ queues' = qs
         /\ UNCHANGED current
    ELSE \E i \in {Highest(qs)} :
           /\ queues' = Dequeued(qs, i)
           /\ current' = Head(qs[i])
           /\ pc' \in IF current' \in alive
                      THEN {rs[current']} ELSE {rs[current'], "wild"}
--------------------------------------------------------------------------------
(* process_init makes idle the current process, and scheduler_init puts the *)
(* current process into its queue, so that until the first switch idle is   *)
(* both.  A new context starts at the entry point of the process.           *)
Init ==
    /\ pc = "boot"
    /\ current = Idle
    /\ queues = Enqueued([i \in Priorities |-> <<>>], Idle)
    /\ created = {Idle}
    /\ alive = {Idle}
    /\ resume = [p \in All |-> "run"]
    /\ timer = "off"
    /\ pending = FALSE

process_create(p) ==
    /\ pc = "boot"
    /\ p \notin created
    /\ created' = created \cup {p}
    /\ alive' = alive \cup {p}
    /\ queues' = Enqueued(queues, p)
    /\ UNCHANGED <<pc, current, resume, timer, pending>>

(* The end of _entry, which asserts that the first process was created: the *)
(* timer is armed, then yield drops the context of the boot code.           *)
lapic_timer_periodic ==
    /\ pc = "boot"
    /\ created # {Idle}
    /\ pc' = "armed"
    /\ timer' = "periodic"
    /\ UNCHANGED <<current, queues, created, alive, resume, pending>>

(* yield(NULL), the last call of _entry and of sys_exit.                    *)
yield ==
    /\ pc \in {"armed", "exiting"}
    /\ SwitchToNext(queues, resume)
    /\ UNCHANGED <<created, alive, resume, timer, pending>>
--------------------------------------------------------------------------------
Interruptible == pc = "run" \/ pc \in Windows

(* The timer reaches zero; a second expiry before the interrupt is taken    *)
(* is absorbed by the request that is pending.                              *)
Expire ==
    /\ Interruptible
    /\ timer \in {"periodic", "oneshot"}
    /\ pending' = TRUE
    /\ timer' = IF timer = "oneshot" THEN "spent" ELSE timer
    /\ UNCHANGED <<pc, current, queues, created, alive, resume>>

RearmedOnce == IF timer = "periodic" THEN "oneshot" ELSE timer

(* lapic_timer_oneshot(next->time)                                          *)
Rearmed == "oneshot"

(* interruptHandler of dev/timer.c: dispatch saves the interrupted context, *)
(* queues the process behind its equals and takes the next one, the timer   *)
(* is armed for the time of that one, and yield switches to it.  If the     *)
(* current process has been deleted the save goes to freed memory.          *)
interruptHandler ==
    /\ pending
    /\ Interruptible
    /\ pending' = FALSE
    /\ timer' = Rearmed
    /\ resume' = [resume EXCEPT ![current] = pc]
    /\ \/ SwitchToNext(Enqueued(queues, current), resume')
       \/ /\ current \notin alive
          /\ pc' = "wild"
          /\ UNCHANGED <<current, queues>>
    /\ UNCHANGED <<created, alive>>

(* sys_exit up to its STI, called by a process or on its behalf by a fault  *)
(* handler.  A tick that is already pending is taken before the call.  Idle *)
(* never calls it (its assertion excludes ROOT_PID).                        *)
MayExit == current # Idle

sys_exit ==
    /\ pc = "run"
    /\ ~pending
    /\ MayExit
    /\ alive' = alive \ {current}
    /\ pc' = "exiting"
    /\ UNCHANGED <<current, queues, created, resume, timer, pending>>

Next ==
    \/ \E p \in Procs : process_create(p)
    \/ lapic_timer_periodic
    \/ yield
    \/ Expire
    \/ interruptHandler
    \/ sys_exit

Spec == Init /\ [][Next]_vars

(* _entry and sys_exit reach their switch, the timer counts down, and a     *)
(* pending interrupt is taken where interrupts are enabled.  Nothing is     *)
(* assumed of the processes: they may run for ever without a system call.   *)
Fairness ==
    /\ WF_vars(yield)
    /\ WF_vars(Expire)
    /\ WF_vars(interruptHandler)

FairSpec == Spec /\ Fairness
--------------------------------------------------------------------------------
(* Types; a queue holds only processes of its own priority, which is how    *)
(* dispatch and scheduler_add index g_processQueues.                        *)
TypeOK ==
    /\ pc \in {"boot", "armed", "run", "exiting", "panic", "wild"}
    /\ current \in created
    /\ queues \in [Priorities -> Seq(created)]
    /\ \A i \in Priorities : \A p \in Range(queues[i]) : Priority[p] = i
    /\ created \subseteq All
    /\ alive \subseteq created
    /\ Idle \in alive
    /\ resume \in [All -> {"run", "armed", "exiting"}]
    /\ timer \in {"off", "periodic", "oneshot", "spent"}
    /\ pending \in BOOLEAN

IsWaiting(p) == p \in Range(queues[Priority[p]])

Booting == pc \in {"boot", "armed"}

Scheduling == pc \in {"run", "exiting"}

(* No process is lost and none is scheduled twice: across every sequence of *)
(* creations, preemptions and exits, a process that has not been deleted is *)
(* either the current one or in its queue (at boot idle is both), never     *)
(* both, and no queue holds a process twice.                                *)
Conserved ==
    /\ Booting \/ Scheduling =>
         \A i \in Priorities : \A j, k \in DOMAIN queues[i] :
            queues[i][j] = queues[i][k] => j = k
    /\ Booting => \A p \in alive : IsWaiting(p)
    /\ Scheduling => /\ \A p \in alive \ {current} : IsWaiting(p)
                     /\ ~IsWaiting(current)

(* Strict priorities (getNextProcess searches from the last queue): while   *)
(* a process runs, every process that waits has its priority or a lower     *)
(* one, whichever way the CPU came to it: boot, preemption or an exit.      *)
HighestFirst ==
    pc = "run" => \A i \in Priorities : queues[i] # <<>> => i <= Priority[current]

(* Preemption is never lost: once the system is scheduling, the timer is    *)
(* counting or its interrupt is requested.  Only the handler rearms the     *)
(* one-shot timer; neither sys_exit nor yield touches it.                   *)
TimerAlive ==
    pc \in {"run", "exiting"} => timer \in {"periodic", "oneshot"} \/ pending

(* getNextProcess never reaches panic("No processes in scheduler"), nor     *)
(* _entry and sys_exit their panic("Unreachable"): idle is always there.    *)
NoPanic == pc # "panic"

(* sys_exit deletes the process, then executes another one: a deleted       *)
(* process is never put back into a queue.                                  *)
DeletedNeverQueued ==
    \A p \in created \ alive : ~IsWaiting(p)

(* First in, first out among equals: a waiting process is never overtaken   *)
(* in its queue; each step leaves its place, or moves it up by the one      *)
(* process that is taken from the front.                                    *)
KeepsPlace ==
    [][\A i \in Priorities : \A k \in DOMAIN queues[i] :
         \/ k = 1 /\ current' = queues[i][1]
         \/ k \in DOMAIN queues'[i] /\ queues'[i][k] = queues[i][k]
         \/ k - 1 \in DOMAIN queues'[i] /\ queues'[i][k - 1] = queues[i][k]
      ]_vars

(* Round robin: a process that no live process outranks gets the CPU again  *)
(* and again, however long its equals would run if they were let (unless    *)
(* the CPU is lost in a context that sys_exit has freed).                   *)
Outranked(p) == \E q \in alive : Priority[q] > Priority[p]

RoundRobin ==
    \A p \in All :
      (Scheduling /\ p \in alive /\ ~Outranked(p))
        ~> (p \notin alive \/ (pc = "run" /\ current = p) \/ pc = "wild")
================================================================================
