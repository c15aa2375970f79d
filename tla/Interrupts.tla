------------------------------ MODULE Interrupts ------------------------------
(***************************************************************************)
(* Interrupts on the boot processor: the gates of idt_load and the stacks  *)
(* of tssSetLate, the entry and exit code isr_common, isr_interrupt_handler*)
(* with its end-of-interrupt (EOI), the local APIC, the I/O APIC's lines,  *)
(* and the two ways back to a process: popaq/iretq, and dispatch followed  *)
(* by x64_context_switch.                                                  *)
(*                                                                         *)
(* Memory and registers are kept down to what the code saves: a frame is   *)
(* the values pushaq pushed, in its order; a context is Context_t with its *)
(* fields; every owner o of the CPU (the code of _entry, a process) has    *)
(* the values <<o, r>> in its registers and does not change them, so that  *)
(* a register that comes back with another value shows.                    *)
(*                                                                         *)
(* burst says that a line may be raised again before the handler of its    *)
(* previous interrupt has returned (keys that queue up in the controller;  *)
(* a tick within a tick).                                                  *)
(***************************************************************************)
EXTENDS Integers, Sequences, FiniteSets

CONSTANTS Procs,      \* the user processes
          idle,       \* the idle process, which runs in the kernel without a stack
          BOOT,       \* the code of _entry
          Bursts,     \* the values of burst to consider
          K, RET      \* a value the kernel leaves in a register; a call's result

ASSUME InterruptsAssumption ==
    /\ Bursts \subseteq BOOLEAN
    /\ idle \notin Procs /\ BOOT \notin Procs /\ BOOT # idle

GeneralProtection == 13
PageFault == 14
TIMER_ISR == 32
PS2_KBD_ISR == 33
SYSCALL_ISR == 128
Vectors == {GeneralProtection, PageFault, TIMER_ISR, PS2_KBD_ISR, SYSCALL_ISR}

Owners == Procs \cup {idle, BOOT}

(* The general registers in the order in which pushaq pushes them, popaq    *)
(* pops them, and InterruptStack_t lays them out from the lowest address.   *)
Pushed == <<"rax", "rbx", "rcx", "rdx", "rdi", "rsi", "rbp", "r8",
            "r9", "r10", "r11", "r12", "r13", "r14", "r15">>

Popped == <<"r15", "r14", "r13", "r12", "r11", "r10", "r9", "r8",
            "rbp", "rsi", "rdi", "rdx", "rdx", "rbx">>

InterruptStack == <<"r15", "r14", "r13", "r12", "r11", "r10", "r9", "r8",
                    "rbp", "rsi", "rdi", "rdx", "rcx", "rbx", "rax">>

GPR == {Pushed[i] : i \in 1 .. 15}
Registers == GPR \cup {"ds"}

(* Context_t, and the offsets from which x64_context_switch loads.          *)
Context == <<"rip", "cs", "rsp", "rflags", "ds", "rax", "rbx", "rcx", "rdx", "rdi",
             "rsi", "rbp", "r8", "r9", "r10", "r11", "r12", "r13", "r14", "r15">>

Swapped ==
    [rax |-> 40, rbx |-> 48, rcx |-> 56, rdx |-> 64, rdi |-> 80, rsi |-> 72, rbp |-> 88,
     r8 |-> 96, r9 |-> 104, r10 |-> 112, r11 |-> 120, r12 |-> 128, r13 |-> 136,
     r14 |-> 144, r15 |-> 152, ds |-> 32]

LoadOffset ==
    [rax |-> 40, rbx |-> 48, rcx |-> 56, rdx |-> 64, rdi |-> 72, rsi |-> 80, rbp |-> 88,
     r8 |-> 96, r9 |-> 104, r10 |-> 112, r11 |-> 120, r12 |-> 128, r13 |-> 136,
     r14 |-> 144, r15 |-> 152, ds |-> 32]
--------------------------------------------------------------------------------
VARIABLES
    burst,
    phase,      \* "start", "first" (after STI), "second" (the controllers are
                \* initialised again), "armed" (the timer runs), "run", "panic", "wild"
    cpu,        \* the registers
    intf,       \* the interrupt flag
    base,       \* whose code runs, or is interrupted by the live handlers
    current,    \* currentProcess(): a process, or BOOT for NULL
    acts,       \* the live handlers, the innermost last
    irr, isr,   \* the local APIC: vectors requested, vectors in service
    timer,      \* its timer: "off", "periodic", "oneshot"
    open,       \* the vectors whose line of the I/O APIC is not masked
    handlers,   \* g_handlers: the vectors with a handler
    alive,      \* the processes there are
    ctx,        \* the saved contexts
    lost        \* the registers an owner no longer has as it left them

apic == <<irr, isr, timer, open, handlers>>
vars == <<burst, phase, cpu, intf, base, current, acts, apic, alive, ctx, lost>>

Stacks == {"boot", "rsp0", "ist1", "ist2", "ist3", "user", "none"}

Own(o) == [r \in Registers |-> <<o, r>>]

(* createProcess: zeroed registers, an entry point, the data segment.       *)
Created(o) == [code |-> o, deep |-> 0, regs |-> Own(o)]

Init ==
    /\ burst \in Bursts
    /\ phase = "start" /\ cpu = Own(BOOT) /\ intf = FALSE
    /\ base = BOOT /\ current = BOOT
    /\ acts = <<>>
    /\ irr = {} /\ isr = {} /\ timer = "off" /\ open = {} /\ handlers = {PageFault}
    /\ alive = {} /\ ctx = [o \in Owners |-> Created(o)]
    /\ lost = [o \in Owners |-> {}]
--------------------------------------------------------------------------------
(* The gates.  setAttributes moves the timer and the keyboard to stacks of  *)
(* their own; an IRQ has a trap gate, everything else an interrupt gate.    *)
IsIrq(v) == 32 <= v /\ v <= 47

AllTraps(v) == TRUE

IsTrap(v) == IsIrq(v)

Ist(v) ==
    IF v = TIMER_ISR THEN "ist2" ELSE IF v = PS2_KBD_ISR THEN "ist3"
    ELSE IF IsIrq(v) THEN "ist1" ELSE "none"

(* The stack the CPU is on: that of the innermost handler, or of the owner. *)
OwnerStack == IF base = BOOT THEN "boot" ELSE IF base = idle THEN "none" ELSE "user"

OnStack == IF acts = <<>> THEN OwnerStack ELSE acts[Len(acts)].on

(* Where the frame of an interrupt goes: to the top of its IST stack, to    *)
(* the top of the one kernel stack when user code is interrupted, below     *)
(* what is there otherwise.                                                 *)
FrameOn(v) ==
    IF Ist(v) # "none" THEN Ist(v) ELSE IF OnStack = "user" THEN "rsp0" ELSE OnStack

(* An IST stack always starts at its top: a second frame there overwrites   *)
(* the first, and the handler it belongs to never gets back.                *)
Overwrites(v) == Ist(v) # "none" /\ \E i \in DOMAIN acts : acts[i].on = Ist(v)

(* pushaq and the data segment, the return address and the flag.            *)
Frame == [saved |-> [i \in 1 .. 15 |-> cpu[Pushed[i]]], ds |-> cpu["ds"],
          ret |-> Len(acts), intf |-> intf]

Enter(v) ==
    /\ acts' = Append(acts, [vec |-> v, on |-> FrameOn(v), frame |-> Frame,
                             step |-> "entered"])
    /\ phase' = IF Overwrites(v) THEN "wild" ELSE phase
    /\ cpu' = [r \in Registers |-> K]
    /\ intf' = (intf /\ IsTrap(v))
    /\ UNCHANGED <<burst, base, current, alive, ctx, lost>>

Top == acts[Len(acts)]

InHandler(v, s) == acts # <<>> /\ Top.vec = v /\ Top.step = s

Live(v) == \E i \in DOMAIN acts : acts[i].vec = v

Running == phase \in {"first", "second", "armed", "run"}

(* The code of an owner executes.  A request that can be delivered is taken *)
(* before its next instruction.                                             *)
Executing == acts = <<>> /\ irr = {}
--------------------------------------------------------------------------------
(* Boot.  isr_registerHandler opens the line of an IRQ; the first round     *)
(* registers the keyboard's and the timer's handlers and enables interrupts.*)
FirstInit ==
    /\ phase = "start"
    /\ handlers' = handlers \cup {PS2_KBD_ISR, TIMER_ISR}
    /\ open' = {PS2_KBD_ISR, TIMER_ISR}
    /\ intf' = TRUE
    /\ phase' = "first"
    /\ UNCHANGED <<burst, cpu, base, current, acts, irr, isr, timer, alive, ctx, lost>>

(* apic_init ends the interrupt in service, ioapic_init masks every line.   *)
MaskNone == open

MaskAll == {}

SecondInit ==
    /\ phase = "first" /\ Executing
    /\ isr' = {}
    /\ open' = MaskAll
    /\ phase' = "second"
    /\ UNCHANGED <<burst, cpu, intf, base, current, acts, irr, timer, handlers,
                   alive, ctx, lost>>

(* syscalls_init, process_init, process_create, lapic_timer_periodic.       *)
lapic_timer_periodic ==
    /\ phase = "second" /\ Executing
    /\ handlers' = handlers \cup {SYSCALL_ISR}
    /\ alive' = Procs
    /\ current' = idle
    /\ timer' = "periodic"
    /\ phase' = "armed"
    /\ UNCHANGED <<burst, cpu, intf, base, acts, irr, isr, open, ctx, lost>>
--------------------------------------------------------------------------------
(* The devices.  The LAPIC's timer raises its vector; a key raises its line *)
(* if the line is open.  Nothing is connected to line 0 of the I/O APIC.    *)
TimerFires ==
    /\ Running /\ timer # "off" /\ TIMER_ISR \notin irr
    /\ burst \/ ~Live(TIMER_ISR)
    /\ irr' = irr \cup {TIMER_ISR}
    /\ timer' = IF timer = "oneshot" THEN "off" ELSE timer
    /\ UNCHANGED <<burst, phase, cpu, intf, base, current, acts, isr, open, handlers,
                   alive, ctx, lost>>

KeyPressed ==
    /\ Running /\ PS2_KBD_ISR \in open \ irr
    /\ burst \/ ~Live(PS2_KBD_ISR)
    /\ irr' = irr \cup {PS2_KBD_ISR}
    /\ UNCHANGED <<burst, phase, cpu, intf, base, current, acts, isr, timer, open,
                   handlers, alive, ctx, lost>>

(* The local APIC delivers a vector whose priority class is above all in    *)
(* service.                                                                 *)
Deliver(v) ==
    /\ Running /\ intf /\ v \in irr
    /\ \A w \in isr : w \div 16 < v \div 16
    /\ irr' = irr \ {v} /\ isr' = isr \cup {v}
    /\ Enter(v)
    /\ UNCHANGED <<timer, open, handlers>>

(* A process calls the kernel, touches a page that is absent, or raises     *)
(* another exception.                                                       *)
InProcess == phase = "run" /\ Executing /\ base \in Procs

Raise(v) == InProcess /\ Enter(v) /\ UNCHANGED apic
--------------------------------------------------------------------------------
(* isr_interrupt_handler.                                                   *)
Step(s) == [acts EXCEPT ![Len(acts)].step = s]

(* sendEOI ends what is in service.                                         *)
Ended(v) == IF IsIrq(v) THEN isr \ {v} ELSE isr

EndedLate(v) == isr

EndedFirst(v) == Ended(v)

TimerEOI ==
    /\ Running /\ InHandler(TIMER_ISR, "entered")
    /\ isr' = EndedFirst(TIMER_ISR)
    /\ acts' = Step("ended")
    /\ UNCHANGED <<burst, phase, cpu, intf, base, current, irr, timer, open, handlers,
                   alive, ctx, lost>>

(* A field of InterruptStack_t, which the handler reads from memory.        *)
IndexIn(seq, r) == CHOOSE i \in DOMAIN seq : seq[i] = r

Field(f, r) == IF r = "ds" THEN f.ds ELSE f.saved[16 - IndexIn(InterruptStack, r)]

(* What dispatch stores: every field of the frame, and where it returns to. *)
Saved(f) ==
    [code |-> base, deep |-> f.ret, regs |-> [r \in Registers |-> Field(f, r)]]

(* x64_context_switch: the registers from their offsets, interrupts on.  A  *)
(* context that was not taken from an owner's own code leads astray.        *)
Loaded(c) == [r \in Registers |-> c.regs[Context[LoadOffset[r] \div 8 + 1]]]

SwitchTo(next, contexts) ==
    /\ current' = next
    /\ ctx' = contexts
    /\ base' = contexts[next].code
    /\ cpu' = Loaded(contexts[next])
    /\ intf' = TRUE
    /\ acts' = <<>>
    /\ phase' = IF contexts[next].deep = 0 THEN "run" ELSE "wild"

(* dispatch, lapic_timer_oneshot, yield.  Which process is next is the      *)
(* scheduler's business.  The timer is not armed before there is a process, *)
(* so that the handler always finds one.                                    *)
OneShot == "oneshot"

TimerSwitch ==
    /\ Running /\ InHandler(TIMER_ISR, "ended") /\ current # BOOT
    /\ \E next \in alive \cup {idle} :
           SwitchTo(next, [ctx EXCEPT ![current] = Saved(Top.frame)])
    /\ timer' = OneShot
    /\ UNCHANGED <<burst, irr, isr, open, handlers, alive, lost>>

(* _entry's yield(NULL), and again if a tick had saved _entry as idle.      *)
EntryYields ==
    /\ phase \in {"armed", "run"} /\ Executing /\ base = BOOT
    /\ \E next \in alive \cup {idle} : SwitchTo(next, ctx)
    /\ UNCHANGED <<burst, apic, alive, lost>>

(* ps2_kbd_getc, whose result is dropped, then sendEOI.                     *)
Keyboard ==
    /\ Running /\ InHandler(PS2_KBD_ISR, "entered")
    /\ isr' = Ended(PS2_KBD_ISR)
    /\ acts' = Step("handled")
    /\ UNCHANGED <<burst, phase, cpu, intf, base, current, irr, timer, open, handlers,
                   alive, ctx, lost>>

(* syscallHandler leaves the result in rax (built as configured, with       *)
(* optimisation); a buffer on an absent page is a fault in the kernel and   *)
(* pageFaultHandler panics.                                                 *)
syscallHandler ==
    /\ Running /\ InHandler(SYSCALL_ISR, "entered")
    /\ \/ cpu' = [cpu EXCEPT !["rax"] = RET] /\ UNCHANGED phase
       \/ phase' = "panic" /\ UNCHANGED cpu
    /\ acts' = Step("handled")
    /\ UNCHANGED <<burst, intf, base, current, apic, alive, ctx, lost>>

(* A write maps the page.                                                   *)
pageFaultHandler ==
    /\ Running /\ InHandler(PageFault, "entered")
    /\ acts' = Step("handled")
    /\ UNCHANGED <<burst, phase, cpu, intf, base, current, apic, alive, ctx, lost>>

(* sys_exit, by call, after a read of an absent page, or for an exception   *)
(* without a handler, with the yield(NULL) at its end.  What a tick in the  *)
(* few instructions behind its STI does is in Scheduler.                    *)
Exits(v) == v \in {SYSCALL_ISR, PageFault} \/ v \notin handlers

sys_exit ==
    /\ Running /\ acts # <<>> /\ Top.step = "entered" /\ Exits(Top.vec)
    /\ alive' = alive \ {current}
    /\ \E next \in alive' \cup {idle} : SwitchTo(next, ctx)
    /\ UNCHANGED <<burst, apic, lost>>
--------------------------------------------------------------------------------
(* popaq: the register of the j-th pop gets the j-th value from the top; a  *)
(* register that is never popped keeps what the handler left.  rax is       *)
(* skipped after a call of the kernel.                                      *)
Restored(f, v) ==
    [r \in Registers |->
        LET pops == {j \in DOMAIN Popped : Popped[j] = r} IN
        CASE r = "ds" -> f.ds
          [] r = "rax" -> IF v = SYSCALL_ISR THEN cpu["rax"] ELSE f.saved[1]
          [] pops # {} -> f.saved[16 - (CHOOSE j \in pops : \A i \in pops : i <= j)]
          [] OTHER -> cpu[r]]

Damaged(v) == {"rcx", "rdx"} \cup (IF v = SYSCALL_ISR THEN {"rax"} ELSE {})

iretq ==
    /\ Running /\ acts # <<>> /\ Top.step = "handled"
    /\ cpu' = Restored(Top.frame, Top.vec)
    /\ intf' = Top.frame.intf
    /\ acts' = SubSeq(acts, 1, Len(acts) - 1)
    /\ lost' = [lost EXCEPT ![base] = @ \cup Damaged(Top.vec)]
    /\ UNCHANGED <<burst, phase, base, current, apic, alive, ctx>>

isr_interrupt_handler ==
    \/ TimerEOI \/ TimerSwitch \/ Keyboard
    \/ syscallHandler \/ pageFaultHandler \/ sys_exit

Handling == isr_interrupt_handler \/ iretq

Delivery == \E v \in {TIMER_ISR, PS2_KBD_ISR} : Deliver(v)

Calls == \E v \in {SYSCALL_ISR, PageFault, GeneralProtection} : Raise(v)

Boot == FirstInit \/ SecondInit \/ lapic_timer_periodic \/ EntryYields

Next == Boot \/ TimerFires \/ KeyPressed \/ Delivery \/ Calls \/ Handling

Spec == Init /\ [][Next]_vars

(* The timer counts down, the local APIC delivers, the code runs on.        *)
FairSpec ==
    Spec /\ WF_vars(TimerFires) /\ WF_vars(Deliver(TIMER_ISR)) /\ WF_vars(Handling)
--------------------------------------------------------------------------------
Values == (Owners \X Registers) \cup {K, RET}

TypeOK ==
    /\ burst \in BOOLEAN /\ intf \in BOOLEAN
    /\ phase \in {"start", "first", "second", "armed", "run", "panic", "wild"}
    /\ cpu \in [Registers -> Values]
    /\ base \in Owners /\ current \in Owners
    /\ \A i \in DOMAIN acts : acts[i].vec \in Vectors /\ acts[i].on \in Stacks
    /\ irr \cup isr \subseteq Vectors /\ open \cup handlers \subseteq Vectors
    /\ timer \in {"off", "periodic", "oneshot"}
    /\ alive \subseteq Procs
    /\ lost \in [Owners -> SUBSET GPR]

(* Interrupted code goes on with the registers and the data segment it had: *)
(* all of them after a tick, however many other processes ran in between,   *)
(* all but rcx and rdx after a fault or an IRQ that returns by popaq, and   *)
(* with the result in rax after a call of the kernel.                       *)
Preserved ==
    TypeOK /\ (~burst /\ Running /\ acts = <<>> =>
        /\ \A r \in Registers \ lost[base] : cpu[r] = <<base, r>>
        /\ lost[base] \subseteq {"rax", "rcx", "rdx"}
        /\ cpu["rax"] \in {<<base, "rax">>, RET})

(* Handlers do not nest, and a process is only ever suspended in its own    *)
(* code: that is why one kernel stack in the TSS serves all processes, and  *)
(* why a tick may leave its handler without returning.  Nothing is ever     *)
(* pushed on the stack the idle process does not have.                      *)
OneDeep ==
    ~burst =>
        /\ Len(acts) <= 1 /\ phase # "wild"
        /\ \A o \in Owners : ctx[o].deep = 0
        /\ acts # <<>> => Top.on # "none"

(* Once processes run, the keyboard's line is masked: its handler no longer *)
(* runs, and the only reader of the keyboard is the process that polls it.  *)
PollingOnly == phase \in {"armed", "run"} => PS2_KBD_ISR \notin open

(* Ticks keep coming, and each one is done with, as long as processes run.  *)
InTick == Live(TIMER_ISR)

KeepsTicking ==
    /\ (phase = "run" /\ ~burst) ~> (phase # "run" \/ InTick)
    /\ (phase = "run" /\ ~burst) ~> (phase # "run" \/ ~InTick)
================================================================================
