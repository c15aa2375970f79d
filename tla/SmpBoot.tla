-------------------------------- MODULE SmpBoot --------------------------------
(***************************************************************************)
(* How the boot processor (BSP) starts the other cores (APs): smp_init and *)
(* apic_wakeup_core on one side, the trampoline and ap_entry on the other, *)
(* with the launch record CoreLaunchInfo_t in memory between them.  _entry *)
(* runs the sequence madt_init, apic_init, ioapic_init, smp_init twice; the *)
(* second round reads ACPI's table of processors and interrupt controllers *)
(* (MADT) and allocates the table of cores again, copies the trampoline    *)
(* (and with it the launch record) afresh and restarts every core with     *)
(* INIT.  In between, ioapic_init writes into the MADT.                    *)
(*                                                                         *)
(* Each access to a status byte is a step, so that the BSP and the APs     *)
(* interleave as they do in memory.  prompt says that an AP which has been *)
(* told to go leaves the trampoline before the BSP turns to the next core. *)
(* Between the rounds the BSP initialises the disk and the file system,    *)
(* and the APs are assumed to have left the trampoline by then.            *)
(***************************************************************************)
EXTENDS Integers, Sequences

CONSTANTS Tables,     \* the MADTs to consider: sequences of entries
          BspId,      \* the id of the BSP's local APIC
          Lines,      \* the number of interrupt lines an I/O APIC reports
          Retries,    \* AP_TIMEOUT_RETRY
          Prompts,    \* the values of prompt to consider
          NONE        \* a field of the launch record nobody has written

(* An entry of the MADT: its type and length bytes, the id of what it is    *)
(* about, and the flag that enables a processor.                            *)
Ids == UNION {{t[i].id : i \in DOMAIN t} : t \in Tables}

Entry == [type : 0 .. 255, length : 0 .. 255, id : Ids, enabled : BOOLEAN]

ASSUME SmpAssumption ==
    /\ Retries \in Nat /\ Prompts \subseteq BOOLEAN /\ Lines \in 1 .. 255
    /\ Tables \subseteq Seq(Entry)

PROCESSOR_LAPIC == 0
IO_APIC == 1
IO_APIC_OVERRIDE == 2

(* madt_init steps from entry to entry by the length byte, and so never     *)
(* gets past an entry whose length is 0.                                    *)
WalkEnds(table) == \A i \in DOMAIN table : table[i].length # 0

(* _MADT.coreIDs, without the BSP, which smp_init passes over.              *)
coreIDs(table) ==
    LET ToStart(e) == e.type = PROCESSOR_LAPIC /\ e.enabled /\ e.id # BspId
    IN  [i \in DOMAIN SelectSeq(table, ToStart) |-> SelectSeq(table, ToStart)[i].id]

(* ioapic_init stores the number of lines in IOAPIC_t, which is two bytes   *)
(* longer than the entry it lies over: the type and the length of the entry *)
(* that follows.                                                            *)
Overwritten(e) ==
    [type |-> Lines % 256, length |-> Lines \div 256, id |-> e.id, enabled |-> e.enabled]

Stored(table) ==
    [i \in DOMAIN table |->
        IF i > 1 /\ table[i - 1].type = IO_APIC THEN Overwritten(table[i]) ELSE table[i]]

Cores == UNION {{coreIDs(t)[i] : i \in DOMAIN coreIDs(t)} : t \in Tables}

(* What SelectSeq returns is a sequence.                                    *)
ASSUME IdsAssumption == \A t \in Tables : coreIDs(t) \in Seq(Cores)

Rounds == 1 .. 2

(* What smp_init prepares for a core: a context in the table of the round,  *)
(* and a stack.                                                             *)
Launches == Rounds \X Cores

VARIABLES
    madt,       \* the MADT in memory
    APs,        \* the cores that madt_init found for smp_init to start
    prompt,     \* whether the APs are quick (see above)
    bsp,        \* where the BSP is: "init" (before a round), "clear", "wake",
                \* "wait", "fill", "go", "rest" (of _entry), "run", "panic"
    round, k,   \* the round, and the index of the core being started
    tries,      \* how often WAIT_FOR_CORE may still sleep
    apStatus, bspStatus, stackTop, context,  \* the launch record
    ap,         \* where each AP is: "off", "start", "spin", "reset", "stack",
                \* "signal", "context", "entry", "halted"
    onStack, inContext,   \* what each AP took from the launch record
    bspListed,  \* the table of cores has an entry with the id of the BSP
    coreLock    \* g_coreLock is held

record == <<apStatus, bspStatus, stackTop, context>>
taken == <<onStack, inContext>>
smpVars == <<madt, APs, prompt, bsp, round, k, tries, record, ap, taken, bspListed, coreLock>>

core == APs[k]
--------------------------------------------------------------------------------
SmpInit ==
    /\ madt \in Tables /\ APs = <<>>
    /\ prompt \in Prompts
    /\ bsp = "init" /\ round = 1 /\ k = 1 /\ tries = 0
    /\ apStatus = 0 /\ bspStatus = 0 /\ stackTop = NONE /\ context = NONE
    /\ ap = [c \in Cores |-> "off"]
    /\ onStack = [c \in Cores |-> NONE] /\ inContext = [c \in Cores |-> NONE]
    /\ bspListed = FALSE
    /\ coreLock = TRUE

InTrampoline(c) == ap[c] \in {"start", "spin", "reset", "stack", "signal", "context"}

(* After the last core: the second round, or the rest of _entry.            *)
RoundEnds ==
    \/ round = 1 /\ round' = 2 /\ bsp' = "init"
    \/ round = 2 /\ bsp' = "rest" /\ UNCHANGED round

(* madt_init and ioapic_init, and between them apic_init, which allocates   *)
(* the table of cores without clearing it.  bsp_init,                       *)
(* in the first round only, enters the BSP; in the second its entry is      *)
(* whatever the frame held.  smp_init copies the trampoline.                *)
Listed(r) == IF r = 1 THEN {TRUE} ELSE BOOLEAN

apic_init ==
    /\ bsp = "init"
    /\ WalkEnds(madt)
    /\ APs' = coreIDs(madt)
    /\ madt' = Stored(madt)
    /\ \A c \in Cores : ~InTrampoline(c)
    /\ bspListed' \in Listed(round)
    /\ apStatus' = 0 /\ bspStatus' = 0 /\ stackTop' = NONE /\ context' = NONE
    /\ k' = 1
    /\ \/ APs' # <<>> /\ bsp' = "clear" /\ UNCHANGED round
       \/ APs' = <<>> /\ RoundEnds
    /\ UNCHANGED <<prompt, tries, ap, taken, coreLock>>

(* The head of the loop of smp_init.                                        *)
ClearedAp == apStatus' = 0 /\ UNCHANGED bspStatus

Cleared == apStatus' = 0 /\ bspStatus' = 0

Clear ==
    /\ bsp = "clear"
    /\ prompt => \A c \in Cores : ~InTrampoline(c)
    /\ Cleared
    /\ bsp' = "wake"
    /\ UNCHANGED <<round, k, tries, stackTop, context, ap, taken, bspListed, coreLock>>

(* INIT stops the core wherever it is, the start-up message sends it to the *)
(* trampoline; a second start-up message finds it running.                  *)
apic_wakeup_core ==
    /\ bsp = "wake"
    /\ ap' = [ap EXCEPT ![core] = "start"]
    /\ onStack' = [onStack EXCEPT ![core] = NONE]
    /\ inContext' = [inContext EXCEPT ![core] = NONE]
    /\ tries' = Retries
    /\ bsp' = "wait"
    /\ UNCHANGED <<round, k, record, bspListed, coreLock>>

(* WAIT_FOR_CORE: a look at the status, then a sleep, and a last look.      *)
MayRetry == tries > 0

WAIT_FOR_CORE ==
    /\ bsp = "wait"
    /\ \/ apStatus = 1 /\ bsp' = "fill" /\ UNCHANGED tries
       \/ apStatus # 1 /\ MayRetry /\ tries' = tries - 1 /\ UNCHANGED bsp
       \/ apStatus # 1 /\ ~MayRetry /\ bsp' = "panic" /\ UNCHANGED tries
    /\ UNCHANGED <<round, k, record, ap, taken, bspListed, coreLock>>

Fill ==
    /\ bsp = "fill"
    /\ context' = <<round, core>>
    /\ stackTop' = <<round, core>>
    /\ bsp' = "go"
    /\ UNCHANGED <<round, k, tries, apStatus, bspStatus, ap, taken, bspListed, coreLock>>

(* bspStatus = 1, then the next core.                                       *)
Go ==
    /\ bsp = "go"
    /\ bspStatus' = 1
    /\ \/ /\ k < Len(APs)
          /\ k' = k + 1 /\ bsp' = "clear" /\ UNCHANGED round
       \/ k = Len(APs) /\ RoundEnds /\ UNCHANGED k
    /\ UNCHANGED <<tries, apStatus, stackTop, context, ap, taken, bspListed, coreLock>>

(* The rest of _entry: process_init looks for the BSP in the table of cores *)
(* (currentCPU panics if it is not there), then the core lock is released.  *)
LockKept == coreLock

LockReleased == FALSE

Rest ==
    /\ bsp = "rest"
    /\ \/ bspListed /\ bsp' = "run" /\ coreLock' = LockReleased
       \/ ~bspListed /\ bsp' = "panic" /\ UNCHANGED coreLock
    /\ UNCHANGED <<round, k, tries, record, ap, taken, bspListed>>
--------------------------------------------------------------------------------
(* The trampoline, one access to the launch record at a time.               *)
Reports(c) ==
    /\ ap[c] = "start"
    /\ apStatus' = 1
    /\ ap' = [ap EXCEPT ![c] = "spin"]
    /\ UNCHANGED <<bspStatus, stackTop, context, taken>>

LeavesSpin(c) ==
    /\ ap[c] = "spin"
    /\ bspStatus # 0
    /\ ap' = [ap EXCEPT ![c] = "reset"]
    /\ UNCHANGED <<record, taken>>

ResetsStatus(c) ==
    /\ ap[c] = "reset"
    /\ apStatus' = 0
    /\ ap' = [ap EXCEPT ![c] = "stack"]
    /\ UNCHANGED <<bspStatus, stackTop, context, taken>>

TakesStack(c) ==
    /\ ap[c] = "stack"
    /\ onStack' = [onStack EXCEPT ![c] = stackTop]
    /\ ap' = [ap EXCEPT ![c] = "signal"]
    /\ UNCHANGED <<record, inContext>>

Signals(c) ==
    /\ ap[c] = "signal"
    /\ apStatus' = 1
    /\ ap' = [ap EXCEPT ![c] = "context"]
    /\ UNCHANGED <<bspStatus, stackTop, context, taken>>

TakesContext(c) ==
    /\ ap[c] = "context"
    /\ inContext' = [inContext EXCEPT ![c] = context]
    /\ ap' = [ap EXCEPT ![c] = "entry"]
    /\ UNCHANGED <<record, onStack>>

(* ap_entry waits for the core lock and halts.                              *)
ap_entry(c) ==
    /\ ap[c] = "entry"
    /\ ~coreLock
    /\ ap' = [ap EXCEPT ![c] = "halted"]
    /\ UNCHANGED <<record, taken>>

trampoline(c) ==
    /\ \/ Reports(c) \/ LeavesSpin(c) \/ ResetsStatus(c) \/ TakesStack(c)
       \/ Signals(c) \/ TakesContext(c) \/ ap_entry(c)
    /\ UNCHANGED <<bsp, round, k, tries, bspListed, coreLock>>

smp_init == Clear \/ apic_wakeup_core \/ WAIT_FOR_CORE \/ Fill \/ Go

BSP ==
    \/ apic_init
    \/ (smp_init \/ Rest) /\ UNCHANGED <<madt, APs, prompt>>

AP(c) == trampoline(c) /\ UNCHANGED <<madt, APs, prompt>>

SmpNext == BSP \/ \E c \in Cores : AP(c)

SmpSpec == SmpInit /\ [][SmpNext]_smpVars

(* Every processor keeps executing.                                         *)
SmpFairSpec == SmpSpec /\ WF_smpVars(BSP) /\ \A c \in Cores : WF_smpVars(AP(c))
--------------------------------------------------------------------------------
SmpTypeOK ==
    /\ prompt \in BOOLEAN
    /\ madt \in Seq(Entry) /\ APs \in Seq(Cores)
    /\ bsp \in {"init", "clear", "wake", "wait", "fill", "go", "rest", "run", "panic"}
    /\ round \in Rounds /\ k \in Nat /\ (APs # <<>> => k \in DOMAIN APs)
    /\ tries \in 0 .. Retries
    /\ {apStatus, bspStatus} \subseteq 0 .. 1
    /\ {stackTop, context} \subseteq Launches \cup {NONE}
    /\ ap \in [Cores -> {"off", "start", "spin", "reset", "stack", "signal",
                         "context", "entry", "halted"}]
    /\ onStack \in [Cores -> Launches \cup {NONE}]
    /\ inContext \in [Cores -> Launches \cup {NONE}]
    /\ bspListed \in BOOLEAN /\ coreLock \in BOOLEAN

(* A core that enters ap_entry runs on the stack and with the context that  *)
(* smp_init prepared for that very core, in the round that last started it, *)
(* although the launch record is one and is rewritten for every core.  This *)
(* needs prompt cores.                                                      *)
OwnLaunch ==
    SmpTypeOK /\ (prompt => \A c \in Cores : ap[c] \in {"entry", "halted"} =>
        /\ onStack[c] = inContext[c]
        /\ onStack[c] \in {<<round, c>>, <<1, c>>}
        /\ bsp \in {"rest", "run"} => onStack[c] = <<2, c>>)

(* Boot ends, unless an entry follows that of an I/O APIC in the MADT:      *)
(* either the BSP gives up with a panic, or every core, however slow, gets  *)
(* through its two starts and halts.  With such an entry the second         *)
(* madt_init stays at it for ever, and no core gets past the core lock.     *)
AllHalt ==
    IF WalkEnds(Stored(madt))
    THEN <>(bsp = "panic" \/ \A i \in DOMAIN coreIDs(madt) : ap[coreIDs(madt)[i]] = "halted")
    ELSE [](coreLock /\ \A c \in Cores : ap[c] # "halted")
================================================================================
