--------------------------------- MODULE Tasks ---------------------------------
(* The processes the scheduler chooses from, and their priorities.          *)
EXTENDS Integers, Sequences, FiniteSets, Functions

CONSTANTS Procs,         \* the processes that boot may create
          Idle,          \* the idle process, "init", with id ROOT_PID
          MaxPriority    \* PriorityInteractive

All == Procs \cup {Idle}
Priorities == 0 .. MaxPriority
================================================================================
