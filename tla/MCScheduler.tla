------------------------------ MODULE MCScheduler ------------------------------
(* Two processes that share the highest priority, two below them, and idle. *)
EXTENDS Scheduler

CONSTANTS shell1, shell2, low1, low2

MCProcs == {shell1, shell2, low1, low2}

MCPriority == [p \in MCProcs \cup {Idle} |->
                 CASE p \in {low1, low2} -> 1 [] p = Idle -> 0 [] OTHER -> 3]

ExitWindow == {"exiting"}
================================================================================
