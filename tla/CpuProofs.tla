------------------------------- MODULE CpuProofs --------------------------------
(***************************************************************************)
(* Proofs about the processors: how they are started, and the interrupts   *)
(* of the one that runs the processes.                                     *)
(*                                                                         *)
(* SmpBoot.  The one launch record is enough: for every MADT, any number   *)
(* of cores and any time-out, if a core leaves the trampoline before the   *)
(* BSP turns to the next one, every core gets its own stack and its own    *)
(* context.                                                                *)
(*                                                                         *)
(* Interrupts, for every set of processes.  Why one kernel stack and one   *)
(* stack per IRQ are enough: if no line is raised again inside its own     *)
(* handler, handlers never nest.  That the keyboard is polled once         *)
(* processes run.  And that interrupted code gets its registers back,      *)
(* wherever they were kept meanwhile.                                      *)
(***************************************************************************)
EXTENDS SmpBoot, Interrupts, SequenceTheorems, TLAPS

LEMMA Consts ==
    /\ Retries \in Nat /\ Prompts \subseteq BOOLEAN /\ Lines \in 1 .. 255
    /\ \A t \in Tables : t \in Seq(Entry) /\ coreIDs(t) \in Seq(Cores)
  BY SmpAssumption, IdsAssumption, ZenonT(40)

LEMMA OverwrittenType ==
    ASSUME NEW e \in Entry
    PROVE  Overwritten(e) \in Entry /\ Overwritten(e).length = 0
<1>1. e.id \in Ids /\ e.enabled \in BOOLEAN
  BY DEF Entry
<1>2. Lines % 256 \in 0 .. 255 /\ Lines \div 256 = 0
  BY Consts
<1> QED BY <1>1, <1>2 DEF Entry, Overwritten

LEMMA StoredType ==
    ASSUME NEW t \in Seq(Entry)
    PROVE  /\ Stored(t) \in Seq(Entry)
           /\ DOMAIN Stored(t) = DOMAIN t
           /\ \A i \in DOMAIN t :
                Stored(t)[i] = IF i > 1 /\ t[i - 1].type = IO_APIC
                               THEN Overwritten(t[i]) ELSE t[i]
<1>1. DOMAIN Stored(t) = DOMAIN t
  BY DEF Stored
<1>2. \A i \in DOMAIN t :
        Stored(t)[i] = IF i > 1 /\ t[i - 1].type = IO_APIC
                       THEN Overwritten(t[i]) ELSE t[i]
  BY DEF Stored
<1>4. \A i \in DOMAIN t : Stored(t)[i] \in Entry
  <2> SUFFICES ASSUME NEW i \in DOMAIN t PROVE Stored(t)[i] \in Entry
    OBVIOUS
  <2>1. t[i] \in Entry
    OBVIOUS
  <2> QED BY <1>2, <2>1, OverwrittenType
<1>5. Stored(t) = [i \in 1 .. Len(t) |-> Stored(t)[i]]
  BY DEF Stored
<1>6. Stored(t) \in Seq(Entry)
  <2> DEFINE S == Stored(t)
  <2>0. DOMAIN t = 1 .. Len(t)
    OBVIOUS
  <2>1. S \in [1 .. Len(t) -> Entry]
    <3>1. \A i \in 1 .. Len(t) : S[i] \in Entry
      BY <1>4, <2>0
    <3>2. S = [i \in 1 .. Len(t) |-> S[i]]
      BY <1>5
    <3> HIDE DEF S
    <3> QED BY <3>1, <3>2
  <2> HIDE DEF S
  <2>2. Len(t) \in Nat
    OBVIOUS
  <2>3. S \in Seq(Entry)
    BY <2>1, <2>2
  <2> QED BY <2>3 DEF S
<1> QED BY <1>1, <1>2, <1>6

(* A table that madt_init gets through after ioapic_init has written to it  *)
(* has not been changed.                                                    *)
LEMMA StoredOnce ==
    ASSUME NEW t \in Seq(Entry), WalkEnds(Stored(t))
    PROVE  Stored(t) = t
<1>1. ASSUME NEW i \in DOMAIN t PROVE Stored(t)[i] = t[i]
  <2>1. Stored(t)[i].length # 0
    BY StoredType DEF WalkEnds
  <2>2. t[i] \in Entry
    OBVIOUS
  <2>3. Overwritten(t[i]).length = 0
    BY <2>2, OverwrittenType
  <2>4. Stored(t)[i] \in {Overwritten(t[i]), t[i]}
    BY StoredType
  <2> QED BY <2>1, <2>3, <2>4
<1>2. Stored(t) = [i \in DOMAIN t |-> Stored(t)[i]]
  BY DEF Stored
<1>3. t = [i \in DOMAIN t |-> t[i]]
  OBVIOUS
<1> QED BY <1>1, <1>2, <1>3
--------------------------------------------------------------------------------
(* Which cores there are to start.                                          *)
Read ==
    /\ IF bsp = "init" /\ round = 1 THEN madt \in Tables /\ APs = <<>>
       ELSE \E t \in Tables : madt = Stored(t) /\ APs = coreIDs(t)
    /\ bsp \in {"clear", "wake", "wait", "fill", "go"} => APs # <<>>

SmpTInv == SmpTypeOK /\ Read

LEMMA CoreKnown ==
    ASSUME SmpTInv, bsp \in {"clear", "wake", "wait", "fill", "go"}
    PROVE  /\ k \in DOMAIN APs /\ core \in Cores
           /\ DOMAIN APs = 1 .. Len(APs) /\ Len(APs) \in Nat
           /\ <<round, core>> \in Launches
<1>1. APs \in Seq(Cores) /\ k \in DOMAIN APs
  BY DEF SmpTInv, SmpTypeOK, Read
<1> QED BY <1>1 DEF core, SmpTInv, SmpTypeOK, Launches

LEMMA InitTypes == SmpInit => SmpTInv
<1> SUFFICES ASSUME SmpInit PROVE SmpTInv
  OBVIOUS
<1>1. madt \in Seq(Entry)
  BY Consts DEF SmpInit
<1>2. ap \in [Cores -> {"off"}] /\ onStack \in [Cores -> {NONE}] /\ inContext \in [Cores -> {NONE}]
  BY DEF SmpInit
<1>3. /\ prompt \in BOOLEAN /\ APs = <<>> /\ APs \in Seq(Cores)
      /\ bsp = "init" /\ round = 1 /\ k = 1 /\ tries \in 0 .. Retries
  BY Consts DEF SmpInit
<1>4. SmpTypeOK
  <2>1. /\ ap \in [Cores -> {"off", "start", "spin", "reset", "stack", "signal",
                           "context", "entry", "halted"}]
        /\ onStack \in [Cores -> Launches \cup {NONE}]
        /\ inContext \in [Cores -> Launches \cup {NONE}]
    BY <1>2
  <2>2. /\ {apStatus, bspStatus} \subseteq 0 .. 1
        /\ {stackTop, context} \subseteq Launches \cup {NONE}
    BY DEF SmpInit
  <2>3. round \in Rounds /\ k \in Nat /\ APs = <<>>
    BY <1>3 DEF Rounds
  <2>4. bspListed \in BOOLEAN /\ coreLock \in BOOLEAN
    BY Zenon DEF SmpInit
  <2> QED BY <1>1, <1>3, <2>1, <2>2, <2>3, <2>4 DEF SmpTypeOK
<1>5. Read
  BY <1>3 DEF SmpInit, Read
<1> QED BY <1>4, <1>5 DEF SmpTInv

(* The beginning of a round, with the table as it was in the first.         *)
LEMMA ApicInitTypes ==
    ASSUME SmpTInv, apic_init
    PROVE  /\ SmpTInv'
           /\ APs' = <<>> \/ 1 \in DOMAIN APs'
           /\ round = 2 => APs' = APs
<1>1. PICK t \in Tables : /\ madt' = Stored(t) /\ APs' = coreIDs(t)
                          /\ round = 2 => APs = coreIDs(t)
  <2>1. CASE round = 1
    <3>1. madt \in Tables /\ madt' = Stored(madt) /\ APs' = coreIDs(madt)
      BY <2>1 DEF apic_init, SmpTInv, Read
    <3> QED BY <2>1, <3>1
  <2>2. CASE round = 2
    <3>1. PICK t \in Tables : madt = Stored(t) /\ APs = coreIDs(t)
      BY <2>2 DEF SmpTInv, Read
    <3>2. WalkEnds(madt) /\ madt' = Stored(madt) /\ APs' = coreIDs(madt)
      BY DEF apic_init
    <3>3. Stored(t) = t
      BY <3>1, <3>2, StoredOnce, Consts
    <3> QED BY <3>1, <3>2, <3>3
  <2> QED BY <2>1, <2>2 DEF SmpTInv, SmpTypeOK, Rounds
<1>2. madt' \in Seq(Entry) /\ APs' \in Seq(Cores)
  BY <1>1, Consts, StoredType
<1>3. APs' = <<>> \/ 1 \in DOMAIN APs'
  BY <1>2
<1>4. /\ round' \in Rounds /\ bsp' \in {"init", "clear", "rest"}
      /\ bsp' = "clear" => APs' # <<>>
      /\ ~(bsp' = "init" /\ round' = 1)
  BY DEF apic_init, RoundEnds, SmpTInv, SmpTypeOK, Rounds
<1>5. /\ k' = 1 /\ apStatus' = 0 /\ bspStatus' = 0 /\ stackTop' = NONE /\ context' = NONE
      /\ bspListed' \in BOOLEAN
      /\ UNCHANGED <<prompt, tries, ap, onStack, inContext, coreLock>>
  BY Zenon DEF apic_init, Listed, taken
<1>6. SmpTypeOK'
  BY <1>2, <1>3, <1>4, <1>5 DEF SmpTInv, SmpTypeOK
<1>7. Read'
  BY <1>1, <1>4 DEF Read
<1> QED BY <1>1, <1>3, <1>6, <1>7 DEF SmpTInv

LEMMA SmpInitTypes ==
    ASSUME SmpTInv, smp_init \/ Rest, UNCHANGED <<madt, APs, prompt>>
    PROVE  SmpTInv'
<1>1. CASE Clear
  BY <1>1 DEF Clear, Cleared, taken, SmpTInv, SmpTypeOK, Read
<1>2. CASE apic_wakeup_core
  <2>1. core \in Cores
    BY <1>2, CoreKnown DEF apic_wakeup_core
  <2>2. /\ ap' = [ap EXCEPT ![core] = "start"]
        /\ onStack' = [onStack EXCEPT ![core] = NONE]
        /\ inContext' = [inContext EXCEPT ![core] = NONE]
        /\ bsp = "wake" /\ bsp' = "wait" /\ tries' = Retries
        /\ UNCHANGED <<round, k, apStatus, bspStatus, stackTop, context, bspListed, coreLock>>
    BY <1>2 DEF apic_wakeup_core, record
  <2> QED BY <2>1, <2>2, Consts DEF SmpTInv, SmpTypeOK, Read
<1>3. CASE WAIT_FOR_CORE
  BY <1>3, Consts DEF WAIT_FOR_CORE, MayRetry, record, taken, SmpTInv, SmpTypeOK, Read
<1>4. CASE Fill
  <2>1. <<round, core>> \in Launches
    BY <1>4, CoreKnown DEF Fill
  <2> QED BY <1>4, <2>1 DEF Fill, taken, SmpTInv, SmpTypeOK, Read
<1>5. CASE Go
  <2>1. k \in 1 .. Len(APs) /\ DOMAIN APs = 1 .. Len(APs) /\ Len(APs) \in Nat
    BY <1>5, CoreKnown DEF Go
  <2>2. round \in {1, 2}
    BY DEF SmpTInv, SmpTypeOK, Rounds
  <2>3. /\ k' \in 1 .. Len(APs) /\ round' \in Rounds /\ bsp' \in {"clear", "init", "rest"}
        /\ ~(bsp' = "init" /\ round' = 1)
    <3>1. CASE k < Len(APs) /\ k' = k + 1 /\ bsp' = "clear" /\ round' = round
      BY <3>1, <2>1, <2>2 DEF Rounds
    <3>2. CASE RoundEnds /\ k' = k
      <4>1. \/ round' = 2 /\ bsp' = "init"
            \/ round' = 2 /\ bsp' = "rest"
        BY <3>2 DEF RoundEnds
      <4>2. 2 \in Rounds
        BY DEF Rounds
      <4> QED BY <2>1, <3>2, <4>1, <4>2
    <3> QED BY <1>5, <3>1, <3>2 DEF Go
  <2>4. /\ k' \in 1 .. Len(APs) /\ round' \in Rounds /\ bsp' \in {"clear", "init", "rest"}
        /\ ~(bsp' = "init" /\ round' = 1) /\ ~(bsp = "init")
        /\ bspStatus' = 1
        /\ UNCHANGED <<tries, apStatus, stackTop, context, ap, onStack, inContext,
                       bspListed, coreLock>>
    BY <1>5, <2>3 DEF Go, taken
  <2>5. APs # <<>>
    BY <2>1
  <2>6. SmpTypeOK'
    BY <2>1, <2>4 DEF SmpTInv, SmpTypeOK
  <2>7. Read'
    BY <2>4, <2>5 DEF SmpTInv, Read
  <2> QED BY <2>6, <2>7 DEF SmpTInv
<1>6. CASE Rest
  BY <1>6, Zenon DEF Rest, LockReleased, record, taken, SmpTInv, SmpTypeOK, Read
<1> QED BY <1>1, <1>2, <1>3, <1>4, <1>5, <1>6 DEF smp_init

LEMMA APTypes ==
    ASSUME SmpTInv, NEW c \in Cores, AP(c)
    PROVE  SmpTInv'
<1>1. UNCHANGED <<madt, APs, prompt, bsp, round, k, tries, bspListed, coreLock>>
  BY DEF AP, trampoline
<1>2. /\ apStatus' \in {0, 1} /\ UNCHANGED <<bspStatus, stackTop, context>>
      /\ ap' \in [Cores -> {"off", "start", "spin", "reset", "stack", "signal",
                            "context", "entry", "halted"}]
      /\ onStack' \in [Cores -> Launches \cup {NONE}]
      /\ inContext' \in [Cores -> Launches \cup {NONE}]
  BY DEF AP, trampoline, Reports, LeavesSpin, ResetsStatus, TakesStack, Signals, TakesContext,
         ap_entry, record, taken, SmpTInv, SmpTypeOK
<1> QED BY <1>1, <1>2 DEF SmpTInv, SmpTypeOK, Read

LEMMA SmpStepTypes == SmpTInv /\ [SmpNext]_smpVars => SmpTInv'
<1> SUFFICES ASSUME SmpTInv, [SmpNext]_smpVars PROVE SmpTInv'
  OBVIOUS
<1>1. CASE BSP
  BY <1>1, ApicInitTypes, SmpInitTypes DEF BSP
<1>2. CASE \E c \in Cores : AP(c)
  BY <1>2, APTypes
<1>3. CASE UNCHANGED smpVars
  BY <1>3 DEF smpVars, record, taken, SmpTInv, SmpTypeOK, Read
<1> QED BY <1>1, <1>2, <1>3 DEF SmpNext
--------------------------------------------------------------------------------
(* The round that wrote the launch record last.                             *)
R == IF bsp = "init" THEN round - 1 ELSE round

(* The inductive invariant for prompt cores.  A core that is still waiting  *)
(* to be told to go has nothing; what a core that may go on will read, or   *)
(* has read, was written for it; and in the second round every core that    *)
(* has been passed was started anew.                                        *)
Handed(c) ==
    InTrampoline(c) => \/ bspStatus = 0 /\ ap[c] \in {"start", "spin"}
                       \/ stackTop = <<R, c>> /\ context = <<R, c>>

Holds(c) ==
    /\ ap[c] \in {"signal", "context"} => onStack[c] = <<R, c>>
    /\ ap[c] \in {"entry", "halted"} =>
          onStack[c] = inContext[c] /\ onStack[c] \in {<<1, c>>, <<R, c>>}

Listening(c) ==
    /\ bsp = "wake" => ~InTrampoline(c)
    /\ bsp \in {"wait", "fill", "go"} /\ InTrampoline(c) =>
          c = core /\ ap[c] \in {"start", "spin"}

Known(c) == ap[c] # "off" => \E j \in DOMAIN APs : APs[j] = c

Passed(j) == j < k \/ (j = k /\ bsp \in {"wait", "fill", "go"}) \/ bsp \in {"rest", "run"}

Renewed ==
    round = 2 /\ bsp # "init" =>
        \A j \in DOMAIN APs : Passed(j) =>
            LET c == APs[j] IN ap[c] \in {"entry", "halted"} => onStack[c] = <<2, c>>

Talking ==
    /\ bsp \in {"wake", "wait", "fill", "go"} => bspStatus = 0
    /\ bsp = "go" => stackTop = <<round, core>> /\ context = <<round, core>>
    /\ bsp \in {"rest", "run"} => round = 2

LaunchInv ==
    /\ \A c \in Cores : Handed(c) /\ Holds(c) /\ Listening(c) /\ Known(c)
    /\ Talking /\ Renewed

LEMMA InitPInv == SmpInit => LaunchInv
  BY DEF SmpInit, LaunchInv, Handed, Holds, Listening, Known, Talking, Renewed, InTrampoline

LEMMA APPInv ==
    ASSUME SmpTInv, LaunchInv, NEW c \in Cores, AP(c)
    PROVE  LaunchInv'
<1> USE DEF SmpTInv
<1>1. UNCHANGED <<APs, bsp, round, k, bspStatus, stackTop, context>>
  BY DEF AP, trampoline, Reports, LeavesSpin, ResetsStatus, TakesStack, Signals, TakesContext,
         ap_entry, record
<1>2. UNCHANGED core /\ UNCHANGED R /\ \A j \in DOMAIN APs : Passed(j)' = Passed(j)
  BY <1>1, Zenon DEF core, R, Passed
<1>3. \A d \in Cores \ {c} : ap'[d] = ap[d] /\ onStack'[d] = onStack[d] /\ inContext'[d] = inContext[d]
  <2>1. \E x : ap' = [ap EXCEPT ![c] = x]
    BY ZenonT(40) DEF AP, trampoline, Reports, LeavesSpin, ResetsStatus, TakesStack, Signals,
                      TakesContext, ap_entry
  <2>2. /\ onStack' = onStack \/ onStack' = [onStack EXCEPT ![c] = stackTop]
        /\ inContext' = inContext \/ inContext' = [inContext EXCEPT ![c] = context]
    BY ZenonT(40) DEF AP, trampoline, Reports, LeavesSpin, ResetsStatus, TakesStack, Signals,
                      TakesContext, ap_entry, taken
  <2>3. DOMAIN ap = Cores /\ DOMAIN onStack = Cores /\ DOMAIN inContext = Cores
    BY ZenonT(40) DEF SmpTypeOK
  <2>4. \A d \in Cores \ {c} : ap'[d] = ap[d]
    BY <2>1, <2>3, ZenonT(40)
  <2>5. \A d \in Cores \ {c} : onStack'[d] = onStack[d] /\ inContext'[d] = inContext[d]
    BY <2>2, <2>3, ZenonT(40)
  <2> QED BY <2>4, <2>5, Zenon
<1>4. ap[c] # "off"
  BY ZenonT(40) DEF AP, trampoline, Reports, LeavesSpin, ResetsStatus, TakesStack, Signals, TakesContext,
         ap_entry
<1>5. \A d \in Cores \ {c} : Handed(d)' /\ Holds(d)' /\ Listening(d)' /\ Known(d)'
  BY <1>1, <1>2, <1>3 DEF LaunchInv, Handed, Holds, Listening, Known, InTrampoline
<1>6. Known(c)'
  BY <1>1, <1>4, Zenon DEF LaunchInv, Known
<1>7. \/ ap[c] = "start" /\ ap'[c] = "spin" /\ UNCHANGED <<onStack, inContext>>
      \/ ap[c] = "spin" /\ bspStatus # 0 /\ ap'[c] = "reset" /\ UNCHANGED <<onStack, inContext>>
      \/ ap[c] = "reset" /\ ap'[c] = "stack" /\ UNCHANGED <<onStack, inContext>>
      \/ ap[c] = "stack" /\ ap'[c] = "signal" /\ onStack'[c] = stackTop
      \/ ap[c] = "signal" /\ ap'[c] = "context" /\ UNCHANGED <<onStack, inContext>>
      \/ ap[c] = "context" /\ ap'[c] = "entry" /\ onStack' = onStack /\ inContext'[c] = context
      \/ ap[c] = "entry" /\ ap'[c] = "halted" /\ UNCHANGED <<onStack, inContext>>
  BY ZenonT(40) DEF AP, trampoline, Reports, LeavesSpin, ResetsStatus, TakesStack, Signals, TakesContext,
         ap_entry, taken, SmpTypeOK
<1>8. Handed(c)' /\ Listening(c)'
  <2>1. Handed(c) /\ Listening(c) /\ (bsp \in {"wait", "fill", "go"} => bspStatus = 0)
    BY ZenonT(40) DEF LaunchInv, Talking
  <2> QED BY <1>1, <1>2, <1>7, <2>1 DEF Handed, Listening, InTrampoline
<1>9. Holds(c)'
  <2>1. Holds(c) /\ Handed(c)
    BY DEF LaunchInv
  <2> QED BY <1>1, <1>2, <1>7, <2>1 DEF Holds, Handed, InTrampoline
<1>10. Talking'
  BY <1>1, <1>2, ZenonT(40) DEF LaunchInv, Talking
<1>11. Renewed'
  <2> SUFFICES ASSUME round = 2, bsp # "init", NEW j \in DOMAIN APs, Passed(j),
                      ap'[APs[j]] \in {"entry", "halted"}
               PROVE  onStack'[APs[j]] = <<2, APs[j]>>
    BY <1>1, <1>2 DEF Renewed
  <2>1. APs[j] \in Cores
    BY DEF SmpTypeOK
  <2>2. ap[APs[j]] \in {"entry", "halted"} => onStack[APs[j]] = <<2, APs[j]>>
    BY DEF LaunchInv, Renewed
  <2>3. CASE APs[j] # c
    BY <1>3, <2>1, <2>2, <2>3, Zenon
  <2>4. CASE APs[j] = c
    <3>1. Holds(c)
      BY DEF LaunchInv
    <3>2. R = 2
      BY DEF R
    <3> QED BY <1>7, <2>2, <2>4, <3>1, <3>2, Zenon DEF Holds
  <2> QED BY <2>3, <2>4
<1> QED BY <1>5, <1>6, <1>8, <1>9, <1>10, <1>11 DEF LaunchInv

LEMMA ApicInitPInv ==
    ASSUME SmpTInv, LaunchInv, apic_init
    PROVE  LaunchInv'
<1>1. \A c \in Cores : ~InTrampoline(c) /\ ~InTrampoline(c)'
  BY DEF apic_init, InTrampoline
<1>2. UNCHANGED <<ap, onStack, inContext>> /\ bsp = "init" /\ bsp' \in {"init", "clear", "rest"}
      /\ k' = 1 /\ round \in {1, 2} /\ (bsp' = "rest" => round' = 2)
  BY DEF apic_init, RoundEnds, taken, SmpTInv, SmpTypeOK, Rounds
<1>3. R = round - 1 /\ R' = round
  BY <1>2 DEF R, apic_init, RoundEnds
<1>4. round = 1 => \A c \in Cores : ap[c] = "off"
  BY <1>2 DEF SmpTInv, Read, LaunchInv, Known
<1>5. \A c \in Cores : Handed(c)' /\ Listening(c)'
  BY <1>1, <1>2 DEF Handed, Listening
<1>6. \A c \in Cores : Holds(c)'
  <2> SUFFICES ASSUME NEW c \in Cores PROVE Holds(c)'
    OBVIOUS
  <2>1. ap[c] \notin {"signal", "context"}
    BY <1>1 DEF InTrampoline
  <2>2. CASE round = 1
    BY <1>2, <1>4, <2>2, Zenon DEF Holds
  <2>3. CASE round = 2
    BY <1>2, <1>3, <2>1, <2>3 DEF LaunchInv, Holds
  <2> QED BY <1>2, <2>2, <2>3
<1>7. \A c \in Cores : Known(c)'
  <2>1. round = 2 => APs' = APs
    BY ApicInitTypes
  <2> QED BY <1>2, <1>4, <2>1 DEF LaunchInv, Known
<1>8. Talking'
  BY <1>2 DEF Talking
<1>9. Renewed'
  <2>1. \A j \in DOMAIN APs' : j \in Nat /\ j >= 1
    BY ApicInitTypes DEF SmpTInv, SmpTypeOK
  <2>2. bsp' = "rest" => APs' = <<>>
    BY DEF apic_init
  <2>3. \A j \in DOMAIN APs' : bsp' # "rest" /\ ~(j < k')
    BY <1>2, <2>1, <2>2
  <2> QED BY <1>2, <2>3 DEF Renewed, Passed
<1> QED BY <1>5, <1>6, <1>7, <1>8, <1>9 DEF LaunchInv

(* The BSP's other steps.  Where the record is about to be written for the  *)
(* next core, nobody is left who might still read it.                       *)
LEMMA ClearPInv ==
    ASSUME SmpTInv, LaunchInv, prompt, Clear, UNCHANGED APs
    PROVE  LaunchInv'
<1>1. /\ bsp = "clear" /\ bsp' = "wake" /\ bspStatus' = 0
      /\ \A c \in Cores : ~InTrampoline(c)
      /\ UNCHANGED <<round, k, ap, onStack, inContext>>
  BY DEF Clear, Cleared, taken
<1>2. R' = R /\ \A c \in Cores : ~InTrampoline(c)'
  BY <1>1, Zenon DEF R, InTrampoline
<1>3. \A c \in Cores : Handed(c)' /\ Holds(c)' /\ Listening(c)' /\ Known(c)'
  BY <1>1, <1>2, Zenon DEF LaunchInv, Handed, Holds, Listening, Known
<1>4. Talking' /\ Renewed'
  BY <1>1 DEF LaunchInv, Talking, Renewed, Passed
<1> QED BY <1>3, <1>4 DEF LaunchInv

LEMMA WakePInv ==
    ASSUME SmpTInv, LaunchInv, apic_wakeup_core, UNCHANGED APs
    PROVE  LaunchInv'
<1>1. core \in Cores /\ k \in DOMAIN APs /\ DOMAIN APs = 1 .. Len(APs) /\ Len(APs) \in Nat
  BY CoreKnown DEF apic_wakeup_core
<1>2. /\ bsp = "wake" /\ bsp' = "wait"
      /\ UNCHANGED <<round, k, bspStatus, stackTop, context>>
      /\ ap'[core] = "start"
      /\ \A c \in Cores \ {core} :
            ap'[c] = ap[c] /\ onStack'[c] = onStack[c] /\ inContext'[c] = inContext[c]
  BY <1>1, Zenon DEF apic_wakeup_core, record, SmpTInv, SmpTypeOK
<1>3. bspStatus = 0 /\ \A c \in Cores : ~InTrampoline(c)
  BY <1>2, Zenon DEF LaunchInv, Talking, Listening
<1>4. R' = R /\ core' = core /\ core = APs[k]
  BY <1>2, Zenon DEF R, core
<1>5. Handed(core)' /\ Holds(core)' /\ Listening(core)' /\ Known(core)'
  BY <1>1, <1>2, <1>3, <1>4, ZenonT(40) DEF Handed, Holds, Listening, Known
<1>6. \A c \in Cores \ {core} : Handed(c)' /\ Holds(c)' /\ Listening(c)' /\ Known(c)'
  BY <1>2, <1>3, <1>4 DEF LaunchInv, Handed, Holds, Listening, Known, InTrampoline
<1>7. Talking'
  BY <1>2, <1>3, Zenon DEF Talking
<1>8. Renewed'
  <2> SUFFICES ASSUME round = 2, NEW j \in DOMAIN APs, Passed(j)',
                      ap'[APs[j]] \in {"entry", "halted"}
               PROVE  onStack'[APs[j]] = <<2, APs[j]>>
    BY <1>2, ZenonT(40) DEF Renewed
  <2>1. APs[j] # core /\ APs[j] \in Cores
    BY <1>2 DEF SmpTInv, SmpTypeOK
  <2>2. j # k
    BY <1>4, <2>1, Zenon
  <2>3. Passed(j)
    BY <1>2, <2>2 DEF Passed
  <2> QED BY <1>2, <2>1, <2>3, Zenon DEF LaunchInv, Renewed
<1> QED BY <1>4, <1>5, <1>6, <1>7, <1>8 DEF LaunchInv

LEMMA WaitPInv ==
    ASSUME SmpTInv, LaunchInv, WAIT_FOR_CORE, UNCHANGED APs
    PROVE  LaunchInv'
<1>1. /\ bsp = "wait" /\ bsp' \in {"wait", "fill", "panic"}
      /\ UNCHANGED <<round, k, bspStatus, stackTop, context, ap, onStack, inContext>>
  BY DEF WAIT_FOR_CORE, record, taken
<1>2. R' = R /\ core' = core /\ \A c \in Cores : InTrampoline(c)' = InTrampoline(c)
  BY <1>1, Zenon DEF R, core, InTrampoline
<1>3. \A c \in Cores : Handed(c)' /\ Holds(c)' /\ Listening(c)' /\ Known(c)'
  BY <1>1, <1>2, Zenon DEF LaunchInv, Handed, Holds, Listening, Known
<1>4. Talking' /\ Renewed'
  BY <1>1 DEF LaunchInv, Talking, Renewed, Passed
<1> QED BY <1>3, <1>4 DEF LaunchInv

LEMMA FillPInv ==
    ASSUME SmpTInv, LaunchInv, Fill, UNCHANGED APs
    PROVE  LaunchInv'
<1>1. /\ bsp = "fill" /\ bsp' = "go"
      /\ stackTop' = <<round, core>> /\ context' = <<round, core>>
      /\ UNCHANGED <<round, k, bspStatus, ap, onStack, inContext>>
  BY DEF Fill, taken
<1>2. R' = R /\ core' = core /\ \A c \in Cores : InTrampoline(c)' = InTrampoline(c)
  BY <1>1 DEF R, core, InTrampoline
<1>3. bspStatus = 0
  BY <1>1, Zenon DEF LaunchInv, Talking
<1>4. \A c \in Cores : Handed(c)' /\ Holds(c)' /\ Listening(c)' /\ Known(c)'
  BY <1>1, <1>2, <1>3, ZenonT(40) DEF LaunchInv, Handed, Holds, Listening, Known
<1>5. Talking' /\ Renewed'
  BY <1>1, <1>2, <1>3 DEF LaunchInv, Talking, Renewed, Passed
<1> QED BY <1>4, <1>5 DEF LaunchInv

LEMMA GoPInv ==
    ASSUME SmpTInv, LaunchInv, Go, UNCHANGED APs
    PROVE  LaunchInv'
<1>1. core \in Cores /\ k \in DOMAIN APs /\ DOMAIN APs = 1 .. Len(APs) /\ Len(APs) \in Nat
  BY CoreKnown DEF Go
<1>2. /\ bsp = "go" /\ bsp' \in {"clear", "init", "rest"}
      /\ UNCHANGED <<stackTop, context, ap, onStack, inContext>>
      /\ \/ bsp' = "clear" /\ k < Len(APs) /\ k' = k + 1 /\ round' = round
         \/ bsp' = "init" /\ round = 1 /\ round' = 2
         \/ bsp' = "rest" /\ k = Len(APs) /\ k' = k /\ round = 2 /\ round' = round
  BY DEF Go, RoundEnds, taken
<1>3. R' = R /\ R = round /\ \A c \in Cores : InTrampoline(c)' = InTrampoline(c)
  BY <1>2 DEF R, InTrampoline
<1>4. \A c \in Cores : InTrampoline(c) => stackTop = <<R, c>> /\ context = <<R, c>>
  BY <1>2, <1>3 DEF LaunchInv, Listening, Talking
<1>5. \A c \in Cores : Handed(c)' /\ Listening(c)'
  BY <1>2, <1>3, <1>4, ZenonT(40) DEF Handed, Listening
<1>6. \A c \in Cores : Holds(c)' /\ Known(c)'
  BY <1>2, <1>3, ZenonT(40) DEF LaunchInv, Holds, Known
<1>7. Talking'
  BY <1>2, Zenon DEF Talking
<1>8. Renewed'
  <2> SUFFICES ASSUME round' = 2, bsp' # "init", NEW j \in DOMAIN APs, Passed(j)',
                      ap[APs[j]] \in {"entry", "halted"}
               PROVE  onStack[APs[j]] = <<2, APs[j]>>
    BY <1>2, ZenonT(40) DEF Renewed
  <2>1. round = 2 /\ bsp # "init"
    BY <1>2, Zenon
  <2>2. Passed(j)
    <3>1. k \in Nat /\ j \in Nat /\ j <= Len(APs) /\ Len(APs) \in Nat
      BY <1>1
    <3>2. CASE bsp' = "clear" /\ k' = k + 1
      <4>1. j < k'
        BY <3>2, Zenon DEF Passed
      <4>2. j < k + 1
        BY <4>1, <3>2, Zenon
      <4>3. j < k \/ j = k
        BY <4>2, <3>1
      <4> QED BY <4>3, <1>2, Zenon DEF Passed
    <3>3. CASE bsp' = "rest" /\ k = Len(APs)
      <4>1. j < k \/ j = k
        BY <3>1, <3>3
      <4> QED BY <4>1, <1>2, Zenon DEF Passed
    <3> QED BY <3>2, <3>3, <1>2, ZenonT(40)
  <2> QED BY <2>1, <2>2, ZenonT(40) DEF LaunchInv, Renewed
<1> QED BY <1>5, <1>6, <1>7, <1>8 DEF LaunchInv

LEMMA RestPInv ==
    ASSUME SmpTInv, LaunchInv, Rest, UNCHANGED APs
    PROVE  LaunchInv'
<1>1. /\ bsp = "rest" /\ bsp' \in {"run", "panic"}
      /\ UNCHANGED <<round, k, bspStatus, stackTop, context, ap, onStack, inContext>>
  BY DEF Rest, record, taken
<1>2. R' = R /\ \A c \in Cores : InTrampoline(c)' = InTrampoline(c)
  BY <1>1, Zenon DEF R, InTrampoline
<1>3. \A c \in Cores : Handed(c)' /\ Holds(c)' /\ Listening(c)' /\ Known(c)'
  BY <1>1, <1>2, Zenon DEF LaunchInv, Handed, Holds, Listening, Known
<1>4. Talking' /\ Renewed'
  BY <1>1 DEF LaunchInv, Talking, Renewed, Passed
<1> QED BY <1>3, <1>4 DEF LaunchInv

LEMMA PromptKept == [SmpNext]_smpVars => prompt' = prompt
  BY DEF SmpNext, BSP, apic_init, AP, smpVars

LEMMA StepPInv == SmpTInv /\ LaunchInv /\ prompt /\ [SmpNext]_smpVars => LaunchInv'
<1> SUFFICES ASSUME SmpTInv, LaunchInv, prompt, [SmpNext]_smpVars PROVE LaunchInv'
  OBVIOUS
<1>1. CASE BSP
  BY <1>1, ApicInitPInv, ClearPInv, WakePInv, WaitPInv, FillPInv, GoPInv, RestPInv, ZenonT(40)
     DEF BSP, smp_init
<1>2. CASE \E c \in Cores : AP(c)
  BY <1>2, APPInv
<1>3. CASE UNCHANGED smpVars
  BY <1>3, ZenonT(40) DEF smpVars, record, taken, LaunchInv, Handed, Holds, Listening, Known, Talking, Renewed,
              Passed, InTrampoline, R, core
<1> QED BY <1>1, <1>2, <1>3 DEF SmpNext

LEMMA PInvOwn == SmpTInv /\ (prompt => LaunchInv) => OwnLaunch
<1> SUFFICES ASSUME SmpTInv, prompt, LaunchInv, NEW c \in Cores, ap[c] \in {"entry", "halted"}
             PROVE  /\ onStack[c] = inContext[c]
                    /\ onStack[c] \in {<<round, c>>, <<1, c>>}
                    /\ bsp \in {"rest", "run"} => onStack[c] = <<2, c>>
  BY DEF SmpTInv, OwnLaunch
<1>1. onStack[c] = inContext[c] /\ onStack[c] \in {<<1, c>>, <<R, c>>}
  BY DEF LaunchInv, Holds
<1>2. PICK j \in DOMAIN APs : APs[j] = c
  BY DEF LaunchInv, Known
<1>3. onStack[c] \in {<<round, c>>, <<1, c>>}
  <2>1. CASE bsp = "init" /\ round = 1
    BY <1>2, <2>1 DEF SmpTInv, Read
  <2>2. CASE ~(bsp = "init" /\ round = 1)
    <3>1. R = round \/ R = 1
      BY <2>2 DEF R, SmpTInv, SmpTypeOK, Rounds
    <3> QED BY <1>1, <3>1
  <2> QED BY <2>1, <2>2
<1>4. ASSUME bsp \in {"rest", "run"} PROVE onStack[c] = <<2, c>>
  <2>1. round = 2 /\ bsp # "init" /\ Passed(j)
    BY <1>4 DEF LaunchInv, Talking, Passed
  <2> QED BY <1>2, <2>1 DEF LaunchInv, Renewed
<1> QED BY <1>1, <1>3, <1>4, ZenonT(40)

(* For every MADT, any number of cores and of retries: a core that enters   *)
(* ap_entry runs on the stack and with the context that smp_init prepared   *)
(* for it, those of the second round once boot goes on, provided that cores *)
(* leave the trampoline before the record is written for the next one.      *)
THEOREM OwnLaunchAlways == SmpSpec => []OwnLaunch
<1> DEFINE Inv == SmpTInv /\ (prompt => LaunchInv)
<1>1. SmpInit => Inv
  BY InitTypes, InitPInv
<1>2. Inv /\ [SmpNext]_smpVars => Inv'
  BY SmpStepTypes, StepPInv, PromptKept
<1>3. Inv => OwnLaunch
  BY PInvOwn
<1> QED BY <1>1, <1>2, <1>3, PTL DEF SmpSpec
--------------------------------------------------------------------------------
(* Interrupts.                                                              *)

(* A live handler: the record that Enter makes, on a stack, returning to    *)
(* code that is itself no handler.                                          *)
ActOK(a) ==
    /\ a = [vec |-> a.vec, on |-> a.on, frame |-> a.frame, step |-> a.step]
    /\ a.vec \in Vectors
    /\ a.on # "none"
    /\ a.frame.ret = 0

Shape == acts = <<>> \/ (acts = <<acts[1]>> /\ ActOK(acts[1]))

(* The inductive invariant.  OneDeep alone is not inductive: that nothing   *)
(* is delivered inside a handler is due to the gates (an exception's or a   *)
(* call's disables interrupts), to the line of the handler being quiet, and *)
(* to the other line: there is no tick before the timer is armed, and no    *)
(* key is reported once the controllers have been initialised again.        *)
Quiet ==
    acts # <<>> => /\ acts[1].vec \notin irr
                   /\ ~IsIrq(acts[1].vec) => ~intf

Early ==
    phase \in {"start", "first", "second"} =>
        /\ timer = "off" /\ TIMER_ISR \notin irr
        /\ current = BOOT
        /\ acts # <<>> => acts[1].vec = PS2_KBD_ISR

Late ==
    /\ phase = "start" => acts = <<>> /\ irr = {} /\ open = {}
    /\ phase = "first" => PS2_KBD_ISR \in handlers
    /\ phase \in {"second", "armed", "run"} =>
        /\ open = {} /\ PS2_KBD_ISR \notin irr
        /\ acts # <<>> => acts[1].vec # PS2_KBD_ISR

Saves ==
    /\ ctx = [o \in Owners |-> ctx[o]]
    /\ \A o \in Owners : ctx[o].deep = 0

Sorts ==
    /\ burst = FALSE
    /\ phase \in {"start", "first", "second", "armed", "run", "panic"}
    /\ irr \subseteq {TIMER_ISR, PS2_KBD_ISR}
    /\ alive \subseteq Procs

IInv == Sorts /\ Shape /\ Quiet /\ Early /\ Late /\ Saves

USE DEF TIMER_ISR, PS2_KBD_ISR, SYSCALL_ISR, PageFault, GeneralProtection

LEMMA ShapeFacts ==
    ASSUME Shape, acts # <<>>
    PROVE  /\ Len(acts) = 1 /\ DOMAIN acts = {1}
           /\ Top = acts[1] /\ ActOK(Top)
           /\ \A v : Live(v) <=> acts[1].vec = v
<1>1. acts = <<acts[1]>> /\ ActOK(acts[1])
  BY DEF Shape
<1>2. Len(<<acts[1]>>) = 1 /\ DOMAIN <<acts[1]>> = {1}
  OBVIOUS
<1>3. Len(acts) = 1 /\ DOMAIN acts = {1}
  BY <1>1, <1>2
<1> QED BY <1>1, <1>3 DEF Top, Live

(* A step within a handler changes nothing else of it.                      *)
LEMMA StepFacts ==
    ASSUME Shape, acts # <<>>, NEW s, acts' = Step(s)
    PROVE  /\ Shape' /\ acts' # <<>>
           /\ acts'[1].vec = acts[1].vec
<1>1. /\ Len(acts) = 1 /\ DOMAIN acts = {1} /\ acts = <<acts[1]>> /\ ActOK(acts[1])
  BY ShapeFacts DEF Shape
<1> DEFINE a == acts[1]
           b == [vec |-> a.vec, on |-> a.on, frame |-> a.frame, step |-> s]
<1>2. [a EXCEPT !.step = s] = b
  BY <1>1 DEF ActOK
<1>3. acts' = [acts EXCEPT ![1] = [a EXCEPT !.step = s]]
  BY <1>1 DEF Step
<1>4. acts' = <<b>>
  BY <1>1, <1>2, <1>3
<1>5. b.vec = a.vec /\ b.on = a.on /\ b.frame = a.frame /\ b.step = s
  OBVIOUS
<1> HIDE DEF b
<1>6. acts'[1] = b /\ acts' # <<>>
  BY <1>4
<1>7. ActOK(b)
  BY <1>1, <1>5, Zenon DEF ActOK, b
<1> QED BY <1>4, <1>5, <1>6, <1>7 DEF Shape

(* An interrupt of code that is no handler.                                 *)
LEMMA EnterFacts ==
    ASSUME acts = <<>>, NEW v \in Vectors, Enter(v), IsIrq(v) \/ base \in Procs
    PROVE  /\ Shape' /\ acts' # <<>> /\ acts'[1].vec = v
           /\ phase' = phase
           /\ ~IsIrq(v) => ~intf'
<1> DEFINE b == [vec |-> v, on |-> FrameOn(v), frame |-> Frame, step |-> "entered"]
<1>1. acts' = <<b>>
  BY DEF Enter
<1>2. b.vec = v /\ b.on = FrameOn(v) /\ b.frame = Frame /\ b.step = "entered"
  OBVIOUS
<1>3. FrameOn(v) # "none"
  <2>1. CASE IsIrq(v)
    BY <2>1 DEF FrameOn, Ist
  <2>2. CASE ~IsIrq(v) /\ base \in Procs
    <3>1. base # BOOT /\ base # idle
      BY <2>2, InterruptsAssumption
    <3>2. OnStack = "user"
      BY <3>1 DEF OnStack, OwnerStack
    <3> QED BY <2>2, <3>2 DEF FrameOn, Ist, IsIrq
  <2> QED BY <2>1, <2>2
<1>4. Frame.ret = 0
  BY ZenonT(40) DEF Frame
<1> HIDE DEF b
<1>5. ActOK(b)
  BY <1>2, <1>3, <1>4 DEF ActOK, b
<1>6. acts'[1] = b /\ acts' # <<>>
  BY <1>1
<1>7. ~Overwrites(v)
  BY DEF Overwrites
<1> QED BY <1>1, <1>2, <1>5, <1>6, <1>7, Zenon DEF Shape, Enter, IsTrap

LEMMA InitInv == Init /\ ~burst => IInv
<1> SUFFICES ASSUME Init, ~burst PROVE IInv
  OBVIOUS
<1>1. burst = FALSE
  BY InterruptsAssumption, Zenon DEF Init
<1>2. Saves
  BY Zenon DEF Init, Saves, Created
<1> QED BY <1>1, <1>2 DEF Init, IInv, Sorts, Shape, Quiet, Early, Late

(* A request of a line that is not in service.                              *)
LEMMA RequestInv == IInv /\ (TimerFires \/ KeyPressed) => IInv'
<1> SUFFICES ASSUME IInv, TimerFires \/ KeyPressed PROVE IInv'
  OBVIOUS
<1> USE DEF IInv, Sorts
<1>1. /\ UNCHANGED <<burst, phase, intf, current, acts, open, handlers, alive, ctx>>
      /\ Running
  BY DEF TimerFires, KeyPressed
<1>2. Shape' /\ Saves'
  BY <1>1, ZenonT(40) DEF Shape, Saves
<1>3. CASE TimerFires
  <2>1. timer # "off" /\ irr' = irr \cup {TIMER_ISR} /\ ~Live(TIMER_ISR)
    BY <1>3, Zenon DEF TimerFires
  <2>2. acts # <<>> => acts[1].vec # TIMER_ISR
    BY <2>1, ShapeFacts, Zenon
  <2>3. phase \in {"armed", "run"}
    BY <1>1, <2>1, Zenon DEF Running, Early
  <2> QED BY <1>1, <1>2, <2>1, <2>2, <2>3 DEF Quiet, Early, Late
<1>4. CASE KeyPressed
  <2>1. PS2_KBD_ISR \in open /\ irr' = irr \cup {PS2_KBD_ISR} /\ ~Live(PS2_KBD_ISR)
        /\ timer' = timer
    BY <1>4 DEF KeyPressed
  <2>2. acts = <<>>
    <3>1. phase = "first"
      BY <1>1, <2>1 DEF Running, Late
    <3>2. SUFFICES ASSUME acts # <<>> PROVE FALSE
      BY ZenonT(40)
    <3> QED BY <2>1, <3>1, <3>2, ShapeFacts DEF Early
  <2>3. phase = "first"
    BY <1>1, <2>1 DEF Running, Late
  <2>4. Quiet' /\ Late'
    BY <1>1, <2>2, <2>3 DEF Quiet, Late
  <2>5. TIMER_ISR \notin irr'
    BY <2>1, <2>3 DEF Early, TIMER_ISR, PS2_KBD_ISR
  <2>6. Early'
    BY <1>1, <2>1, <2>2, <2>3, <2>5 DEF Early
  <2> QED BY <1>1, <1>2, <2>1, <2>4, <2>6
<1> QED BY <1>3, <1>4, Zenon

(* Within a handler, nothing can be delivered.                              *)
LEMMA DeliverOutside ==
    ASSUME IInv, NEW v \in {TIMER_ISR, PS2_KBD_ISR}, Deliver(v)
    PROVE  acts = <<>>
<1> SUFFICES ASSUME acts # <<>> PROVE FALSE
  OBVIOUS
<1>1. Running /\ intf /\ v \in irr
  BY ZenonT(40) DEF Deliver
<1>2. acts[1].vec \in {TIMER_ISR, PS2_KBD_ISR} \ {v}
  <2>1. ActOK(acts[1])
    BY DEF IInv, Shape
  <2>2. IsIrq(acts[1].vec) /\ acts[1].vec # v
    BY <1>1 DEF IInv, Quiet
  <2> QED BY <2>1, <2>2 DEF ActOK, Vectors, IsIrq
<1> QED BY <1>1, <1>2 DEF IInv, Early, Late, Running

LEMMA DeliverInv == IInv /\ Delivery => IInv'
<1> SUFFICES ASSUME IInv, NEW v \in {TIMER_ISR, PS2_KBD_ISR}, Deliver(v) PROVE IInv'
  BY DEF Delivery
<1>1. acts = <<>>
  BY DeliverOutside
<1>2. /\ Running /\ v \in irr /\ irr' = irr \ {v} /\ Enter(v)
      /\ UNCHANGED <<timer, open, handlers>>
  BY DEF Deliver
<1>3. v \in Vectors /\ IsIrq(v)
  BY DEF Vectors, IsIrq
<1>4. Shape' /\ acts' # <<>> /\ acts'[1].vec = v /\ phase' = phase
  BY <1>1, <1>2, <1>3, EnterFacts, Zenon
<1>5. UNCHANGED <<burst, current, alive, ctx>>
  BY <1>2 DEF Enter
<1>6. Sorts' /\ Saves'
  BY <1>2, <1>4, <1>5, Zenon DEF IInv, Sorts, Saves
<1>7. Quiet'
  BY <1>2, <1>3, <1>4, Zenon DEF Quiet
<1>8. Early' /\ Late'
  BY <1>1, <1>2, <1>4, <1>5, ZenonT(40) DEF IInv, Early, Late, Running
<1> QED BY <1>4, <1>6, <1>7, <1>8 DEF IInv

LEMMA RaiseInv == IInv /\ Calls => IInv'
<1> SUFFICES ASSUME IInv, NEW v \in {SYSCALL_ISR, PageFault, GeneralProtection}, Raise(v)
             PROVE  IInv'
  BY DEF Calls
<1>1. acts = <<>> /\ irr = {} /\ phase = "run" /\ base \in Procs /\ Enter(v)
      /\ UNCHANGED <<irr, timer, open, handlers>>
  BY DEF Raise, InProcess, Executing, apic
<1>2. v \in Vectors /\ ~IsIrq(v) /\ v # PS2_KBD_ISR
  BY DEF Vectors, IsIrq
<1>3. Shape' /\ acts' # <<>> /\ acts'[1].vec = v /\ phase' = phase /\ ~intf'
  BY <1>1, <1>2, EnterFacts, Zenon
<1>4. UNCHANGED <<burst, current, alive, ctx>>
  BY <1>1, Zenon DEF Enter
<1> QED BY <1>1, <1>2, <1>3, <1>4 DEF IInv, Sorts, Saves, Quiet, Early, Late

(* The steps that stay within a handler.                                    *)
LEMMA WithinInv ==
    ASSUME IInv, TimerEOI \/ Keyboard \/ syscallHandler \/ pageFaultHandler
    PROVE  IInv'
<1>1. /\ acts # <<>> /\ Running
      /\ UNCHANGED <<burst, intf, current, irr, timer, open, handlers, alive, ctx>>
      /\ phase' = phase \/ phase' = "panic"
  BY ZenonT(40) DEF TimerEOI, Keyboard, syscallHandler, pageFaultHandler, InHandler, apic
<1>2. PICK s \in {"ended", "handled"} : acts' = Step(s)
  BY DEF TimerEOI, Keyboard, syscallHandler, pageFaultHandler
<1>3. Shape' /\ acts' # <<>> /\ acts'[1].vec = acts[1].vec
  BY <1>1, <1>2, StepFacts, ZenonT(40) DEF IInv
<1> QED BY <1>1, <1>3, ZenonT(40) DEF IInv, Sorts, Saves, Quiet, Early, Late

(* A switch to a process that was suspended in its own code.                *)
LEMMA SwitchInv ==
    ASSUME IInv, phase \in {"armed", "run"}, NEW next \in Owners, NEW contexts,
           contexts = [o \in Owners |-> contexts[o]],
           \A o \in Owners : contexts[o].deep = 0,
           SwitchTo(next, contexts), alive' \subseteq Procs,
           UNCHANGED <<burst, irr, open>>
    PROVE  IInv'
<1>1. ctx' = contexts /\ acts' = <<>> /\ phase' = "run"
  BY DEF SwitchTo
<1> QED BY <1>1 DEF IInv, Sorts, Shape, Saves, Quiet, Early, Late

LEMMA TimerSwitchInv == IInv /\ TimerSwitch => IInv'
<1> SUFFICES ASSUME IInv, TimerSwitch PROVE IInv'
  OBVIOUS
<1> DEFINE contexts == [ctx EXCEPT ![current] = Saved(Top.frame)]
<1>1. /\ Running /\ acts # <<>> /\ current # BOOT
      /\ UNCHANGED <<burst, irr, open, alive>>
  BY DEF TimerSwitch, InHandler
<1>2. PICK next \in alive \cup {idle} : SwitchTo(next, contexts)
  BY DEF TimerSwitch
<1>3. phase \in {"armed", "run"}
  BY <1>1, Zenon DEF IInv, Early, Running
<1>4. Saved(Top.frame).deep = 0
  <2>1. Top.frame.ret = 0
    BY <1>1, ShapeFacts DEF IInv, ActOK
  <2> QED BY <2>1 DEF Saved
<1>5. /\ contexts = [o \in Owners |-> contexts[o]]
      /\ \A o \in Owners : contexts[o].deep = 0
  BY <1>4 DEF IInv, Saves
<1>6. next \in Owners /\ alive' \subseteq Procs
  BY <1>1, ZenonT(40) DEF IInv, Sorts, Owners
<1> HIDE DEF contexts
<1> QED BY <1>1, <1>2, <1>3, <1>5, <1>6, SwitchInv

LEMMA ExitInv == IInv /\ sys_exit => IInv'
<1> SUFFICES ASSUME IInv, sys_exit PROVE IInv'
  OBVIOUS
<1>1. /\ Running /\ acts # <<>> /\ Exits(Top.vec) /\ alive' = alive \ {current}
      /\ UNCHANGED <<burst, irr, open>>
  BY DEF sys_exit, apic
<1>2. PICK next \in alive' \cup {idle} : SwitchTo(next, ctx)
  BY DEF sys_exit
<1>3. phase \in {"armed", "run"}
  <2>1. Exits(acts[1].vec)
    BY <1>1, ShapeFacts DEF IInv
  <2> QED BY <1>1, <2>1 DEF IInv, Early, Late, Running, Exits
<1>4. next \in Owners /\ alive' \subseteq Procs
  BY <1>1, ZenonT(40) DEF IInv, Sorts, Owners
<1> QED BY <1>1, <1>2, <1>3, <1>4, SwitchInv DEF IInv, Saves

LEMMA ReturnInv == IInv /\ iretq => IInv'
<1> SUFFICES ASSUME IInv, iretq PROVE IInv'
  OBVIOUS
<1>1. /\ acts # <<>> /\ acts' = SubSeq(acts, 1, Len(acts) - 1)
      /\ UNCHANGED <<burst, phase, current, irr, timer, open, handlers, alive, ctx>>
  BY DEF iretq, apic
<1>2. Len(acts) = 1
  BY <1>1, ShapeFacts DEF IInv
<1>3. acts' = <<>>
  BY <1>1, <1>2
<1> QED BY <1>1, <1>3 DEF IInv, Sorts, Shape, Saves, Quiet, Early, Late

LEMMA BootInv == IInv /\ Boot => IInv'
<1> SUFFICES ASSUME IInv, Boot PROVE IInv'
  OBVIOUS
<1>1. CASE FirstInit
  BY <1>1, Zenon DEF FirstInit, IInv, Sorts, Shape, Saves, Quiet, Early, Late
<1>2. CASE SecondInit
  BY <1>2, Zenon DEF SecondInit, Executing, MaskAll, IInv, Sorts, Shape, Saves, Quiet, Early, Late
<1>3. CASE lapic_timer_periodic
  BY <1>3, Zenon DEF lapic_timer_periodic, Executing, IInv, Sorts, Shape, Saves, Quiet, Early, Late
<1>4. CASE EntryYields
  <2>1. PICK next \in alive \cup {idle} : SwitchTo(next, ctx)
    BY <1>4 DEF EntryYields
  <2>2. phase \in {"armed", "run"} /\ UNCHANGED <<burst, irr, open, alive>>
    BY <1>4 DEF EntryYields, apic
  <2>3. next \in Owners /\ alive' \subseteq Procs
    BY <2>2 DEF IInv, Sorts, Owners
  <2> QED BY <2>1, <2>2, <2>3, SwitchInv DEF IInv, Saves
<1> QED BY <1>1, <1>2, <1>3, <1>4, Zenon DEF Boot

LEMMA StepInv == IInv /\ [Next]_vars => IInv'
<1> SUFFICES ASSUME IInv, [Next]_vars PROVE IInv'
  OBVIOUS
<1>1. CASE Next
  BY <1>1, BootInv, RequestInv, DeliverInv, RaiseInv, WithinInv, TimerSwitchInv, ExitInv,
     ReturnInv, ZenonT(40) DEF Next, Handling, isr_interrupt_handler
<1>2. CASE UNCHANGED vars
  BY <1>2 DEF vars, apic, IInv, Sorts, Shape, Saves, Quiet, Early, Late
<1> QED BY <1>1, <1>2

LEMMA InvOneDeep == IInv => OneDeep /\ PollingOnly
<1> SUFFICES ASSUME IInv PROVE OneDeep /\ PollingOnly
  OBVIOUS
<1>1. CASE acts = <<>>
  BY <1>1 DEF IInv, Sorts, Saves, Late, OneDeep, PollingOnly
<1>2. CASE acts # <<>>
  <2>1. Len(acts) = 1 /\ Top.on # "none"
    BY <1>2, ShapeFacts, Zenon DEF IInv, ActOK
  <2> QED BY <2>1 DEF IInv, Sorts, Saves, Late, OneDeep, PollingOnly
<1> QED BY <1>1, <1>2

(* Nothing changes whether lines are raised within their own handlers.      *)
LEMMA BurstKept == [Next]_vars => burst' = burst
  BY Zenon DEF Next, Boot, FirstInit, SecondInit, lapic_timer_periodic, EntryYields, TimerFires,
         KeyPressed, Delivery, Deliver, Calls, Raise, Enter, Handling,
         isr_interrupt_handler, TimerEOI, TimerSwitch, Keyboard, syscallHandler,
         pageFaultHandler, sys_exit, iretq, vars

(* For every set of processes: handlers do not nest (unless a line is       *)
(* raised within its own handler), every process is suspended in its own    *)
(* code only, and no frame goes to the stack that idle does not have.       *)
THEOREM NeverNested == Spec => []OneDeep
<1> DEFINE Inv == burst \/ IInv
<1>1. Init => Inv
  BY InitInv
<1>2. Inv /\ [Next]_vars => Inv'
  BY StepInv, BurstKept, Zenon
<1>3. Inv => OneDeep
  BY InvOneDeep DEF OneDeep
<1> QED BY <1>1, <1>2, <1>3, PTL DEF Spec
--------------------------------------------------------------------------------
(* The layouts.  pushaq and InterruptStack_t are each other's mirror image, *)
(* and x64_context_switch loads every register from its own field.          *)
LEMMA RegisterNames ==
    /\ GPR = {"rax", "rbx", "rcx", "rdx", "rdi", "rsi", "rbp", "r8",
              "r9", "r10", "r11", "r12", "r13", "r14", "r15"}
    /\ Registers = GPR \cup {"ds"}
<1>1. 1 .. 15 = {1, 2, 3, 4, 5, 6, 7, 8, 9, 10, 11, 12, 13, 14, 15}
  OBVIOUS
<1>2. GPR = {Pushed[i] : i \in {1, 2, 3, 4, 5, 6, 7, 8, 9, 10, 11, 12, 13, 14, 15}}
  BY <1>1 DEF GPR
<1> QED BY <1>2 DEF Registers, Pushed

LEMMA LoadsOwnField ==
    \A r \in Registers : Context[LoadOffset[r] \div 8 + 1] = r
<1>1. ASSUME NEW r \in Registers
      PROVE  Context[LoadOffset[r] \div 8 + 1] = r
  <2>1. \/ r \in {"rax", "rbx", "rcx", "rdx"} \/ r \in {"rdi", "rsi", "rbp", "r8"}
        \/ r \in {"r9", "r10", "r11", "r12"} \/ r \in {"r13", "r14", "r15", "ds"}
    BY RegisterNames, ZenonT(40)
  <2>2. CASE r \in {"rax", "rbx", "rcx", "rdx"}
    BY <2>2, SMTT(20) DEF Context, LoadOffset
  <2>3. CASE r \in {"rdi", "rsi", "rbp", "r8"}
    BY <2>3, SMTT(20) DEF Context, LoadOffset
  <2>4. CASE r \in {"r9", "r10", "r11", "r12"}
    BY <2>4, SMTT(20) DEF Context, LoadOffset
  <2>5. CASE r \in {"r13", "r14", "r15", "ds"}
    BY <2>5, SMTT(20) DEF Context, LoadOffset
  <2> QED BY <2>1, <2>2, <2>3, <2>4, <2>5, Zenon
<1> QED BY <1>1, Zenon

(* Where a register is in the frame: the value that pushaq pushed for it.   *)
LEMMA StackIndex ==
    ASSUME NEW r \in GPR
    PROVE  /\ 16 - IndexIn(InterruptStack, r) \in 1 .. 15
           /\ Pushed[16 - IndexIn(InterruptStack, r)] = r
<1> DEFINE i == IndexIn(InterruptStack, r)
<1>1. DOMAIN InterruptStack = 1 .. 15
  BY DEF InterruptStack
<1>2. \E m \in DOMAIN InterruptStack : InterruptStack[m] = r
  BY <1>1, RegisterNames DEF InterruptStack
<1>3. i \in 1 .. 15 /\ InterruptStack[i] = r
  BY <1>1, <1>2 DEF IndexIn
<1> HIDE DEF i
<1>4. \A m \in 1 .. 15 : InterruptStack[m] = Pushed[16 - m]
  BY DEF InterruptStack, Pushed
<1>5. QED BY <1>3, <1>4 DEF i

(* popaq: every register but rax, rcx and rdx gets the value that pushaq    *)
(* pushed for it; rdx gets one that was pushed.                             *)
Pops(r) == {j \in DOMAIN Popped : Popped[j] = r}

LastPop(r) == CHOOSE j \in Pops(r) : \A i \in Pops(r) : i <= j

LEMMA PopIndex ==
    ASSUME NEW r \in GPR \ {"rax", "rcx"}
    PROVE  /\ Pops(r) # {}
           /\ 16 - LastPop(r) \in 1 .. 15
           /\ r # "rdx" => Pushed[16 - LastPop(r)] = r
<1>1. DOMAIN Popped = 1 .. 14
  BY DEF Popped
<1>2. \E j \in Pops(r) : \A i \in Pops(r) : i <= j
  BY <1>1, RegisterNames DEF Pops, Popped
<1>3. LastPop(r) \in Pops(r)
  BY <1>2 DEF LastPop
<1>4. LastPop(r) \in 1 .. 14 /\ Popped[LastPop(r)] = r
  BY <1>1, <1>3 DEF Pops
<1>5. \A m \in 1 .. 14 : Popped[m] # "rdx" => Popped[m] = Pushed[16 - m]
  BY DEF Popped, Pushed
<1> QED BY <1>3, <1>4, <1>5

LEMMA NeverPopped == Pops("rcx") = {} /\ Pops("rax") = {} /\ Pops("ds") = {}
<1>1. DOMAIN Popped = 1 .. 14
  BY DEF Popped
<1> QED BY <1>1 DEF Pops, Popped

(* What the code restores, register by register.                            *)
LEMMA RestoredValues ==
    ASSUME NEW f, NEW v
    PROVE  /\ Restored(f, v) = [r \in Registers |-> Restored(f, v)[r]]
           /\ Restored(f, v)["ds"] = f.ds
           /\ Restored(f, v)["rax"] = IF v = SYSCALL_ISR THEN cpu["rax"] ELSE f.saved[1]
           /\ Restored(f, v)["rcx"] = cpu["rcx"]
           /\ \A r \in GPR \ {"rax", "rcx"} : Restored(f, v)[r] = f.saved[16 - LastPop(r)]
<1>1. Restored(f, v) =
        [r \in Registers |->
            CASE r = "ds" -> f.ds
              [] r = "rax" -> IF v = SYSCALL_ISR THEN cpu["rax"] ELSE f.saved[1]
              [] Pops(r) # {} -> f.saved[16 - LastPop(r)]
              [] OTHER -> cpu[r]]
  BY Zenon DEF Restored, Pops, LastPop
<1>2. Restored(f, v) = [r \in Registers |-> Restored(f, v)[r]]
  BY <1>1
<1>3. /\ Restored(f, v)["ds"] = f.ds
      /\ Restored(f, v)["rax"] = IF v = SYSCALL_ISR THEN cpu["rax"] ELSE f.saved[1]
  <2>1. "ds" \in Registers /\ "rax" \in Registers
    BY RegisterNames
  <2> QED BY <1>1, <2>1, NeverPopped
<1>4. Restored(f, v)["rcx"] = cpu["rcx"]
  BY <1>1, RegisterNames, NeverPopped, Zenon
<1>5. ASSUME NEW r \in GPR \ {"rax", "rcx"}
      PROVE  Restored(f, v)[r] = f.saved[16 - LastPop(r)]
  BY <1>1, RegisterNames, PopIndex, ZenonT(40)
<1> QED BY <1>2, <1>3, <1>4, <1>5
--------------------------------------------------------------------------------
(* Types, whether or not lines are raised within their own handlers.        *)
FrameSet == [saved : [1 .. 15 -> Values], ds : Values, ret : Nat, intf : BOOLEAN]

Act == [vec : Vectors, on : Stacks, frame : FrameSet,
        step : {"entered", "ended", "handled"}]

ContextSet == [code : Owners, deep : Nat, regs : [Registers -> Values]]

Flags == burst \in BOOLEAN /\ intf \in BOOLEAN

ApicT ==
    /\ irr \subseteq Vectors /\ isr \subseteq Vectors
    /\ open \subseteq Vectors /\ handlers \subseteq Vectors
    /\ timer \in {"off", "periodic", "oneshot"}

PhaseT == phase \in {"start", "first", "second", "armed", "run", "panic", "wild"}

OwnerT == base \in Owners /\ current \in Owners /\ alive \subseteq Procs

LostT == lost \in [Owners -> SUBSET GPR]

TInv ==
    /\ Flags /\ ApicT /\ PhaseT /\ OwnerT /\ LostT
    /\ cpu \in [Registers -> Values]
    /\ acts \in Seq(Act)
    /\ ctx \in [Owners -> ContextSet]

LEMMA TypeOfTInv == TInv => TypeOK
<1> SUFFICES ASSUME TInv PROVE TypeOK
  BY Zenon
<1>1. \A i \in DOMAIN acts : acts[i].vec \in Vectors /\ acts[i].on \in Stacks
  <2> TAKE i \in DOMAIN acts
  <2>1. acts[i] \in Act
    BY DEF TInv
  <2> QED BY <2>1 DEF Act
<1>2. Flags
  BY DEF TInv
<1>3. burst \in BOOLEAN /\ intf \in BOOLEAN
  BY <1>2, Zenon DEF Flags
<1> QED BY <1>1, <1>3 DEF TInv, TypeOK, ApicT, PhaseT, OwnerT, LostT

(* The values the kernel and the owners leave.                              *)
LEMMA ValueFacts ==
    /\ K \in Values /\ RET \in Values
    /\ \A o \in Owners : \A r \in Registers : <<o, r>> \in Values
    /\ BOOT \in Owners /\ idle \in Owners /\ Procs \subseteq Owners
    /\ \A r \in GPR : r \in Registers
  BY DEF Values, Owners, Registers

LEMMA InitT == Init => TInv
<1> SUFFICES ASSUME Init PROVE TInv
  OBVIOUS
<1>1. Flags
  <2>1. burst \in Bursts /\ intf = FALSE
    BY DEF Init
  <2> QED BY <2>1, InterruptsAssumption, Zenon DEF Flags
<1>2. Own(BOOT) \in [Registers -> Values]
  BY ValueFacts, Zenon DEF Own
<1>3. \A o \in Owners : Created(o) \in ContextSet
  BY ValueFacts DEF Created, Own, ContextSet
<1>4. ctx \in [Owners -> ContextSet]
  BY <1>3, Zenon DEF Init
<1>5. ApicT
  BY DEF Init, ApicT, Vectors
<1>6. PhaseT
  BY Zenon DEF Init, PhaseT
<1>7. OwnerT
  BY ValueFacts, Zenon DEF Init, OwnerT
<1>8. LostT
  BY DEF Init, LostT
<1>9. cpu \in [Registers -> Values] /\ acts \in Seq(Act)
  BY <1>2 DEF Init
<1> QED BY <1>1, <1>4, <1>5, <1>6, <1>7, <1>8, <1>9 DEF TInv

LEMMA FrameT == ASSUME TInv PROVE Frame \in FrameSet
<1>1. \A i \in 1 .. 15 : Pushed[i] \in Registers
  BY DEF GPR, Registers
<1>2. cpu \in [Registers -> Values] /\ "ds" \in Registers /\ acts \in Seq(Act)
  BY DEF TInv, Registers
<1>3. [i \in 1 .. 15 |-> cpu[Pushed[i]]] \in [1 .. 15 -> Values] /\ cpu["ds"] \in Values
  BY <1>1, <1>2, Zenon
<1>4. Len(acts) \in Nat
  BY <1>2
<1>5. intf \in BOOLEAN
  BY Zenon DEF TInv, Flags
<1> QED BY <1>3, <1>4, <1>5, Zenon DEF Frame, FrameSet

LEMMA EnterT ==
    ASSUME TInv, NEW v \in Vectors, Enter(v), ApicT'
    PROVE  TInv'
<1> DEFINE b == [vec |-> v, on |-> FrameOn(v), frame |-> Frame, step |-> "entered"]
<1>1. acts \in Seq(Act) /\ acts' = Append(acts, b)
  BY DEF TInv, Enter
<1>2. OnStack \in Stacks
  <2>1. CASE acts = <<>>
    BY <2>1 DEF OnStack, OwnerStack, Stacks
  <2>2. CASE acts # <<>>
    <3>1. acts[Len(acts)] \in Act
      BY <1>1, <2>2
    <3> QED BY <2>2, <3>1, Zenon DEF OnStack, Act
  <2> QED BY <2>1, <2>2
<1>3. FrameOn(v) \in Stacks
  BY <1>2, Zenon DEF FrameOn, Ist, Stacks
<1>4. b \in Act
  BY <1>3, FrameT DEF Act
<1> HIDE DEF b
<1>5. acts' \in Seq(Act)
  BY <1>1, <1>4
<1>6. Flags'
  <2>1. burst' = burst /\ intf' = (intf /\ IsTrap(v)) /\ Flags
    BY Zenon DEF Enter, TInv
  <2> QED BY <2>1, Zenon DEF Flags
<1>7. cpu' \in [Registers -> Values]
  BY ValueFacts, Zenon DEF Enter
<1>8. PhaseT'
  BY DEF TInv, Enter, PhaseT
<1> QED BY <1>5, <1>6, <1>7, <1>8, ZenonT(40) DEF TInv, Enter, OwnerT, LostT

LEMMA TopT ==
    ASSUME TInv, acts # <<>>
    PROVE  /\ Len(acts) \in 1 .. Len(acts) /\ Top \in Act /\ Top.frame \in FrameSet
           /\ Top.vec \in Vectors
<1>1. acts \in Seq(Act)
  BY DEF TInv
<1>2. Len(acts) \in 1 .. Len(acts)
  BY <1>1
<1>3. Top \in Act
  BY <1>1, <1>2 DEF Top
<1> QED BY <1>2, <1>3 DEF Act

LEMMA StepT ==
    ASSUME TInv, acts # <<>>, NEW s \in {"ended", "handled"}, acts' = Step(s)
    PROVE  acts' \in Seq(Act)
<1> DEFINE n == Len(acts)  a == acts[n]
           b == [vec |-> a.vec, on |-> a.on, frame |-> a.frame, step |-> s]
<1>1. acts \in Seq(Act) /\ n \in 1 .. Len(acts) /\ a \in Act
  BY TopT DEF TInv, Top
<1>2. [a EXCEPT !.step = s] = b /\ b \in Act
  BY <1>1 DEF Act
<1>3. acts' = [acts EXCEPT ![n] = [a EXCEPT !.step = s]]
  BY DEF Step
<1> HIDE DEF n, a, b
<1> QED BY <1>1, <1>2, <1>3

LEMMA FieldT ==
    ASSUME NEW f \in FrameSet, NEW r \in Registers
    PROVE  Field(f, r) \in Values
<1>1. CASE r = "ds"
  BY <1>1, Zenon DEF Field, FrameSet
<1>2. CASE r # "ds"
  BY <1>2, RegisterNames, StackIndex, Zenon DEF Field, FrameSet
<1> QED BY <1>1, <1>2

LEMMA SwitchT ==
    ASSUME TInv, NEW next \in Owners, NEW contexts \in [Owners -> ContextSet],
           SwitchTo(next, contexts), burst' = burst, ApicT', LostT', alive' \subseteq Procs
    PROVE  TInv'
<1>1. contexts[next] \in ContextSet
  OBVIOUS
<1>2. contexts[next].code \in Owners /\ contexts[next].regs \in [Registers -> Values]
  BY <1>1, Zenon DEF ContextSet
<1>3. Loaded(contexts[next]) \in [Registers -> Values]
  BY <1>2, LoadsOwnField, Zenon DEF Loaded
<1>4. Flags'
  <2>1. intf' = TRUE /\ Flags
    BY Zenon DEF SwitchTo, TInv
  <2> QED BY <2>1, Zenon DEF Flags
<1>5. OwnerT' /\ PhaseT'
  BY <1>2, Zenon DEF SwitchTo, OwnerT, PhaseT
<1>6. cpu' \in [Registers -> Values] /\ acts' \in Seq(Act) /\ ctx' \in [Owners -> ContextSet]
  BY <1>3 DEF SwitchTo
<1> QED BY <1>4, <1>5, <1>6 DEF TInv

LEMMA TimerSwitchT == TInv /\ TimerSwitch => TInv'
<1> SUFFICES ASSUME TInv, TimerSwitch PROVE TInv'
  OBVIOUS
<1> DEFINE contexts == [ctx EXCEPT ![current] = Saved(Top.frame)]
<1>1. acts # <<>> /\ UNCHANGED <<burst, irr, isr, open, handlers, alive, lost>>
      /\ timer' = "oneshot"
  BY ZenonT(40) DEF TimerSwitch, InHandler, OneShot
<1>2. PICK next \in alive \cup {idle} : SwitchTo(next, contexts)
  BY DEF TimerSwitch
<1>3. Saved(Top.frame) \in ContextSet
  <2>1. Top.frame \in FrameSet
    BY <1>1, TopT
  <2>2. [r \in Registers |-> Field(Top.frame, r)] \in [Registers -> Values]
    BY <2>1, FieldT, ZenonT(40)
  <2>3. Top.frame.ret \in Nat /\ base \in Owners
    <3>1. Top.frame.ret \in Nat
      BY <2>1, Zenon DEF FrameSet
    <3>2. base \in Owners
      BY Zenon DEF TInv, OwnerT
    <3> QED BY <3>1, <3>2, Zenon
  <2> QED BY <2>2, <2>3, Zenon DEF Saved, ContextSet
<1>4. contexts \in [Owners -> ContextSet]
  BY <1>3, ZenonT(40) DEF TInv
<1>5. next \in Owners /\ alive' \subseteq Procs
  BY <1>1, ValueFacts DEF TInv, OwnerT
<1>6. ApicT' /\ LostT'
  BY <1>1 DEF TInv, ApicT, LostT
<1> HIDE DEF contexts
<1> QED BY <1>1, <1>2, <1>4, <1>5, <1>6, SwitchT, Zenon

LEMMA ExitT == TInv /\ sys_exit => TInv'
<1> SUFFICES ASSUME TInv, sys_exit PROVE TInv'
  OBVIOUS
<1>1. alive' = alive \ {current} /\ UNCHANGED <<burst, irr, isr, timer, open, handlers, lost>>
  BY DEF sys_exit, apic
<1>2. PICK next \in alive' \cup {idle} : SwitchTo(next, ctx)
  BY DEF sys_exit
<1>3. next \in Owners /\ alive' \subseteq Procs /\ ctx \in [Owners -> ContextSet]
  BY <1>1, ValueFacts, Zenon DEF TInv, OwnerT
<1>4. ApicT' /\ LostT'
  BY <1>1, Zenon DEF TInv, ApicT, LostT
<1> QED BY <1>1, <1>2, <1>3, <1>4, SwitchT

LEMMA ReturnT == TInv /\ iretq => TInv'
<1> SUFFICES ASSUME TInv, iretq PROVE TInv'
  OBVIOUS
<1>1. /\ acts # <<>> /\ acts' = SubSeq(acts, 1, Len(acts) - 1)
      /\ cpu' = Restored(Top.frame, Top.vec) /\ intf' = Top.frame.intf
      /\ lost' = [lost EXCEPT ![base] = @ \cup Damaged(Top.vec)]
      /\ UNCHANGED <<burst, phase, base, current, irr, isr, timer, open, handlers,
                     alive, ctx>>
  BY DEF iretq, apic
<1>2. Top.frame \in FrameSet
  BY <1>1, TopT, Zenon
<1>3. Restored(Top.frame, Top.vec) \in [Registers -> Values]
  <2>1. cpu \in [Registers -> Values]
    BY DEF TInv
  <2>2. ASSUME NEW r \in Registers PROVE Restored(Top.frame, Top.vec)[r] \in Values
    <3>1. CASE r \in {"ds", "rax", "rcx"}
      BY <1>2, <2>1, <3>1, RestoredValues, RegisterNames DEF FrameSet
    <3>2. CASE r \in GPR \ {"rax", "rcx"}
      BY <1>2, <3>2, RestoredValues, PopIndex DEF FrameSet
    <3> QED BY <3>1, <3>2, RegisterNames, ZenonT(40)
  <2> QED BY <2>2, RestoredValues
<1>4. Flags'
  <2>1. Top.frame.intf \in BOOLEAN
    BY <1>2, Zenon DEF FrameSet
  <2>2. burst \in BOOLEAN
    BY Zenon DEF TInv, Flags
  <2> QED BY <1>1, <2>1, <2>2, Zenon DEF Flags
<1>5. Damaged(Top.vec) \subseteq GPR
  BY RegisterNames, Zenon DEF Damaged
<1>6. LostT'
  BY <1>1, <1>5, Zenon DEF TInv, LostT, OwnerT
<1>7. acts' \in Seq(Act)
  BY <1>1 DEF TInv
<1> QED BY <1>1, <1>3, <1>4, <1>6, <1>7, ZenonT(40) DEF TInv, ApicT, PhaseT, OwnerT

LEMMA WithinT ==
    ASSUME TInv, TimerEOI \/ Keyboard \/ syscallHandler \/ pageFaultHandler
    PROVE  TInv'
<1>1. /\ acts # <<>>
      /\ UNCHANGED <<burst, intf, base, current, irr, timer, open, handlers, alive, ctx, lost>>
      /\ isr' \subseteq isr
      /\ phase' = phase \/ phase' = "panic"
      /\ cpu' = cpu \/ cpu' = [cpu EXCEPT !["rax"] = RET]
  BY DEF TimerEOI, Keyboard, syscallHandler, pageFaultHandler, InHandler, apic, Ended,
         EndedFirst
<1>2. PICK s \in {"ended", "handled"} : acts' = Step(s)
  BY DEF TimerEOI, Keyboard, syscallHandler, pageFaultHandler
<1>3. acts' \in Seq(Act)
  BY <1>1, <1>2, StepT
<1>4. Flags'
  <2>1. Flags
    BY Zenon DEF TInv
  <2> QED BY <1>1, <2>1 DEF Flags
<1>5. cpu' \in [Registers -> Values]
  BY <1>1, ValueFacts DEF TInv
<1> QED BY <1>1, <1>3, <1>4, <1>5, ZenonT(40) DEF TInv, ApicT, PhaseT, OwnerT, LostT

LEMMA BootT == TInv /\ Boot => TInv'
<1> SUFFICES ASSUME TInv, Boot PROVE TInv'
  OBVIOUS
<1>1. CASE FirstInit \/ SecondInit \/ lapic_timer_periodic
  <2>1. /\ UNCHANGED <<burst, cpu, base, acts, irr, ctx, lost>>
        /\ intf' = intf \/ intf' = TRUE
        /\ phase' \in {"first", "second", "armed"}
        /\ current' = current \/ current' = idle
        /\ alive' = alive \/ alive' = Procs
        /\ isr' \subseteq isr
        /\ timer' = timer \/ timer' = "periodic"
        /\ open' = {} \/ open' = open \/ open' = {PS2_KBD_ISR, TIMER_ISR}
        /\ handlers' \subseteq handlers \cup {PS2_KBD_ISR, TIMER_ISR, SYSCALL_ISR}
    BY <1>1 DEF FirstInit, SecondInit, lapic_timer_periodic, MaskAll
  <2>2. Flags'
    <3>1. Flags
      BY Zenon DEF TInv
    <3> QED BY <2>1, <3>1, Zenon DEF Flags
  <2>3. ApicT'
    BY <2>1, ZenonT(40) DEF TInv, ApicT, Vectors
  <2>4. OwnerT' /\ PhaseT'
    BY <2>1, ValueFacts DEF TInv, OwnerT, PhaseT
  <2> QED BY <2>1, <2>2, <2>3, <2>4, ZenonT(40) DEF TInv, LostT
<1>2. CASE EntryYields
  <2>1. PICK next \in alive \cup {idle} : SwitchTo(next, ctx)
    BY <1>2 DEF EntryYields
  <2>2. UNCHANGED <<burst, irr, isr, timer, open, handlers, alive, lost>>
    BY <1>2 DEF EntryYields, apic
  <2>3. next \in Owners /\ alive' \subseteq Procs /\ ctx \in [Owners -> ContextSet]
    BY <2>2, ValueFacts DEF TInv, OwnerT
  <2>4. ApicT' /\ LostT'
    BY <2>2, Zenon DEF TInv, ApicT, LostT
  <2> QED BY <2>1, <2>2, <2>3, <2>4, SwitchT
<1> QED BY <1>1, <1>2, Zenon DEF Boot

LEMMA RequestT == TInv /\ (TimerFires \/ KeyPressed) => TInv'
<1> SUFFICES ASSUME TInv, TimerFires \/ KeyPressed PROVE TInv'
  OBVIOUS
<1>1. /\ UNCHANGED <<burst, phase, cpu, intf, base, current, acts, isr, open, handlers,
                     alive, ctx, lost>>
      /\ irr' \subseteq irr \cup {TIMER_ISR, PS2_KBD_ISR}
      /\ timer' = timer \/ timer' = "off"
  BY DEF TimerFires, KeyPressed
<1>2. Flags'
  <2>1. Flags
    BY Zenon DEF TInv
  <2> QED BY <1>1, <2>1 DEF Flags
<1>3. ApicT'
  BY <1>1 DEF TInv, ApicT, Vectors
<1> QED BY <1>1, <1>2, <1>3, Zenon DEF TInv, PhaseT, OwnerT, LostT

LEMMA InterruptT == TInv /\ (Delivery \/ Calls) => TInv'
<1> SUFFICES ASSUME TInv, Delivery \/ Calls PROVE TInv'
  OBVIOUS
<1>1. PICK v \in Vectors :
        /\ Enter(v)
        /\ irr' \subseteq irr /\ isr' \subseteq isr \cup {v}
        /\ UNCHANGED <<timer, open, handlers>>
  BY DEF Delivery, Calls, Deliver, Raise, Vectors, apic
<1>2. ApicT'
  BY <1>1 DEF TInv, ApicT
<1> QED BY <1>1, <1>2, EnterT, Zenon

LEMMA StepTypes == TInv /\ [Next]_vars => TInv'
<1> SUFFICES ASSUME TInv, [Next]_vars PROVE TInv'
  OBVIOUS
<1>1. CASE Next
  BY <1>1, BootT, RequestT, InterruptT, WithinT, TimerSwitchT, ExitT, ReturnT, ZenonT(40)
     DEF Next, Handling, isr_interrupt_handler
<1>2. CASE UNCHANGED vars
  <2>1. Flags'
    <3>1. Flags /\ burst' = burst /\ intf' = intf
      BY <1>2 DEF TInv, vars
    <3> QED BY <3>1 DEF Flags
  <2> QED BY <1>2, <2>1 DEF vars, apic, TInv, ApicT, PhaseT, OwnerT, LostT
<1> QED BY <1>1, <1>2
--------------------------------------------------------------------------------
(* Why the keyboard stays silent, however fast keys come: before the second *)
(* initialisation masks its line only its own handler runs, there is no     *)
(* process to switch to and no vector without a handler, so that _entry's   *)
(* own code is the only way to a later phase.                               *)
BootOnly ==
    phase \in {"start", "first", "second"} =>
        /\ timer = "off" /\ TIMER_ISR \notin irr
        /\ current = BOOT
        /\ \A i \in DOMAIN acts : acts[i].vec = PS2_KBD_ISR
        /\ phase = "start" => acts = <<>>
        /\ phase # "start" => PS2_KBD_ISR \in handlers

Masked == phase \in {"second", "armed", "run"} => open = {}

PInv == TInv /\ BootOnly /\ Masked

LEMMA TopVec ==
    ASSUME TInv, acts # <<>>, \A i \in DOMAIN acts : acts[i].vec = PS2_KBD_ISR
    PROVE  Top.vec = PS2_KBD_ISR
<1>1. acts \in Seq(Act) /\ Len(acts) \in 1 .. Len(acts)
  BY TopT, Zenon DEF TInv
<1>2. Len(acts) \in DOMAIN acts
  BY <1>1
<1> QED BY <1>2, Zenon DEF Top

LEMMA InitP == Init => PInv
  BY InitT DEF Init, PInv, BootOnly, Masked

LEMMA PhasesP == PInv /\ Boot => BootOnly' /\ Masked'
<1> SUFFICES ASSUME PInv, Boot PROVE BootOnly' /\ Masked'
  BY Zenon
<1>1. CASE FirstInit
  BY <1>1, Zenon DEF FirstInit, PInv, BootOnly, Masked
<1>2. CASE SecondInit
  BY <1>2, Zenon DEF SecondInit, Executing, MaskAll, PInv, BootOnly, Masked
<1>3. CASE lapic_timer_periodic
  BY <1>3, Zenon DEF lapic_timer_periodic, PInv, BootOnly, Masked
<1>4. CASE EntryYields
  BY <1>4, ZenonT(40) DEF EntryYields, SwitchTo, apic, PInv, BootOnly, Masked
<1> QED BY <1>1, <1>2, <1>3, <1>4 DEF Boot

LEMMA RequestsP == PInv /\ (TimerFires \/ KeyPressed) => BootOnly' /\ Masked'
<1> SUFFICES ASSUME PInv, TimerFires \/ KeyPressed PROVE BootOnly' /\ Masked'
  BY Zenon
<1>0. phase' = phase /\ open' = open /\ current' = current /\ acts' = acts /\ handlers' = handlers
  BY Zenon DEF TimerFires, KeyPressed
<1>1. Masked'
  BY <1>0, Zenon DEF PInv, Masked
<1>2. CASE TimerFires
  <2>1. ~(phase \in {"start", "first", "second"})
    BY <1>2, Zenon DEF TimerFires, PInv, BootOnly
  <2> QED BY <2>1, <1>0, <1>1, Zenon DEF BootOnly
<1>3. CASE KeyPressed
  <2>1. timer' = timer /\ irr' = irr \cup {PS2_KBD_ISR}
    BY <1>3, Zenon DEF KeyPressed
  <2>2. TIMER_ISR \notin irr => TIMER_ISR \notin irr'
    <3>1. TIMER_ISR # PS2_KBD_ISR
      BY DEF TIMER_ISR, PS2_KBD_ISR
    <3> QED BY <3>1, <2>1, Zenon
  <2> QED BY <2>1, <2>2, <1>0, <1>1, Zenon DEF PInv, BootOnly
<1> QED BY <1>2, <1>3, Zenon

AppendedTo(t, s, x) ==
    /\ DOMAIN t = 1 .. Len(s) + 1 /\ t[Len(s) + 1] = x
    /\ \A i \in 1 .. Len(s) : t[i] = s[i] /\ i \in DOMAIN s
    /\ \A i \in 1 .. Len(s) + 1 : i \in 1 .. Len(s) \/ i = Len(s) + 1

LEMMA AppendedAt ==
    ASSUME NEW S, NEW s \in Seq(S), NEW x
    PROVE  AppendedTo(Append(s, x), s, x)
BY DEF AppendedTo

LEMMA InterruptsP == PInv /\ (Delivery \/ Calls) => BootOnly' /\ Masked'
<1> SUFFICES ASSUME PInv, Delivery \/ Calls PROVE BootOnly' /\ Masked'
  BY Zenon
<1>1. CASE Delivery
  <2>1. PICK v \in {TIMER_ISR, PS2_KBD_ISR} : Deliver(v)
    BY <1>1, Zenon DEF Delivery
  <2> DEFINE b == [vec |-> v, on |-> FrameOn(v), frame |-> Frame, step |-> "entered"]
  <2>2. /\ Running /\ v \in irr /\ irr' = irr \ {v} /\ UNCHANGED <<timer, open, handlers>>
        /\ acts' = Append(acts, b) /\ current' = current
        /\ phase' = phase \/ phase' = "wild"
    BY <2>1, Zenon DEF Deliver, Enter
  <2>3. acts \in Seq(Act) /\ b.vec = v
    BY Zenon DEF PInv, TInv
  <2> HIDE DEF b
  <2>4. ASSUME phase \in {"first", "second"}
        PROVE  \A i \in DOMAIN acts' : acts'[i].vec = PS2_KBD_ISR
    <3>1. v = PS2_KBD_ISR
      BY <2>2, <2>4, Zenon DEF PInv, BootOnly
    <3>2. /\ DOMAIN acts' = 1 .. Len(acts) + 1 /\ acts'[Len(acts) + 1] = b
          /\ \A i \in 1 .. Len(acts) : acts'[i] = acts[i] /\ i \in DOMAIN acts
          /\ \A i \in 1 .. Len(acts) + 1 : i \in 1 .. Len(acts) \/ i = Len(acts) + 1
      <4>1. AppendedTo(Append(acts, b), acts, b)
        BY <2>3, AppendedAt, Zenon
      <4>2. AppendedTo(acts', acts, b)
        BY <4>1, <2>2, Zenon
      <4> QED BY <4>2, Zenon DEF AppendedTo
    <3>3. phase \in {"start", "first", "second"}
      BY <2>4, Zenon
    <3>4. \A i \in DOMAIN acts : acts[i].vec = PS2_KBD_ISR
      BY <3>3, Zenon DEF PInv, BootOnly
    <3>5. ASSUME NEW i \in DOMAIN acts' PROVE acts'[i].vec = PS2_KBD_ISR
      <4>1. CASE i = Len(acts) + 1
        BY <4>1, <2>3, <3>1, <3>2, Zenon
      <4>2. CASE i \in 1 .. Len(acts)
        <5>1. acts'[i] = acts[i] /\ i \in DOMAIN acts
          BY <4>2, <3>2, Zenon
        <5>2. acts[i].vec = PS2_KBD_ISR
          BY <5>1, <3>4, Zenon
        <5> QED BY <5>1, <5>2, Zenon
      <4> QED BY <4>1, <4>2, <3>2, Zenon
    <3> QED BY <3>5, Zenon
  <2> QED BY <2>2, <2>4, ZenonT(40) DEF PInv, BootOnly, Masked, Running
<1>2. CASE Calls
  BY <1>2, Zenon DEF Calls, Raise, InProcess, Enter, apic, PInv, BootOnly, Masked
<1> QED BY <1>1, <1>2, Zenon

LEMMA WithinP ==
    ASSUME PInv, TimerEOI \/ Keyboard \/ syscallHandler \/ pageFaultHandler
    PROVE  BootOnly' /\ Masked'
<1>1. /\ acts # <<>> /\ Running
      /\ UNCHANGED <<current, irr, timer, open, handlers>>
      /\ phase' = phase \/ phase' = "panic"
  BY Zenon DEF TimerEOI, Keyboard, syscallHandler, pageFaultHandler, InHandler, apic
<1>2. PICK s \in {"ended", "handled"} : acts' = Step(s)
  BY DEF TimerEOI, Keyboard, syscallHandler, pageFaultHandler
<1>3. DOMAIN acts' = DOMAIN acts /\ \A i \in DOMAIN acts : acts'[i].vec = acts[i].vec
  <2> DEFINE n == Len(acts)  b == [acts[n] EXCEPT !.step = s]
  <2>1. acts' = [acts EXCEPT ![n] = b]
    BY <1>2, Zenon DEF Step
  <2>2. n \in DOMAIN acts /\ acts[n] \in Act /\ acts \in Seq(Act)
    BY <1>1, TopT DEF PInv, TInv, Top
  <2>3. b.vec = acts[n].vec
    BY <2>2 DEF Act
  <2> HIDE DEF n, b
  <2>4. DOMAIN acts' = DOMAIN acts
    BY <2>1, <2>2
  <2>5. ASSUME NEW i \in DOMAIN acts PROVE acts'[i].vec = acts[i].vec
    BY <2>1, <2>2, <2>3
  <2> QED BY <2>4, <2>5, Zenon
<1> QED BY <1>1, <1>3, Zenon DEF PInv, BootOnly, Masked, Running

LEMMA LeavesP == PInv /\ (TimerSwitch \/ sys_exit \/ iretq) => BootOnly' /\ Masked'
<1> SUFFICES ASSUME PInv, TimerSwitch \/ sys_exit \/ iretq PROVE BootOnly' /\ Masked'
  BY Zenon
<1>1. CASE TimerSwitch
  BY <1>1, Zenon DEF TimerSwitch, SwitchTo, Running, PInv, BootOnly, Masked
<1>2. CASE sys_exit
  <2>1. Running /\ acts # <<>> /\ Exits(Top.vec) /\ open' = open /\ phase' \in {"run", "wild"}
    BY <1>2, Zenon DEF sys_exit, SwitchTo, apic
  <2>2. phase \notin {"first", "second"}
    <3> SUFFICES ASSUME phase \in {"first", "second"} PROVE FALSE
      BY Zenon
    <3>1. Top.vec = PS2_KBD_ISR /\ PS2_KBD_ISR \in handlers
      BY <2>1, TopVec, Zenon DEF PInv, BootOnly
    <3> QED BY <2>1, <3>1 DEF Exits
  <2> QED BY <2>1, <2>2, Zenon DEF Running, PInv, BootOnly, Masked
<1>3. CASE iretq
  <2>1. /\ acts # <<>> /\ acts' = SubSeq(acts, 1, Len(acts) - 1) /\ Running
        /\ UNCHANGED <<phase, current, irr, timer, open, handlers>>
    BY <1>3, Zenon DEF iretq, apic
  <2>2. acts \in Seq(Act) /\ Len(acts) \in 1 .. Len(acts)
    BY <2>1, TopT DEF PInv, TInv
  <2>3. DOMAIN acts' = 1 .. Len(acts) - 1
    BY <2>1, <2>2
  <2>4. \A i \in DOMAIN acts' : acts'[i] = acts[i] /\ i \in DOMAIN acts
    BY <2>1, <2>2, <2>3
  <2> QED BY <2>1, <2>4, ZenonT(40) DEF Running, PInv, BootOnly, Masked
<1> QED BY <1>1, <1>2, <1>3

LEMMA StepP == PInv /\ [Next]_vars => PInv'
<1> SUFFICES ASSUME PInv, [Next]_vars PROVE PInv'
  OBVIOUS
<1>1. TInv'
  BY StepTypes, Zenon DEF PInv
<1>2. CASE Next
  BY <1>1, <1>2, PhasesP, RequestsP, InterruptsP, WithinP, LeavesP, Zenon
     DEF PInv, Next, Handling, isr_interrupt_handler
<1>3. CASE UNCHANGED vars
  BY <1>1, <1>3, Zenon DEF vars, apic, PInv, BootOnly, Masked
<1> QED BY <1>2, <1>3

(* Once processes run, the keyboard's line is masked and stays so, also if  *)
(* keys arrive within the handler of earlier ones: the process that polls   *)
(* the controller is its only reader.                                       *)
THEOREM KeyboardPolled == Spec => []PollingOnly
<1>1. PInv => PollingOnly
  BY DEF PInv, Masked, PollingOnly
<1> QED BY <1>1, InitP, StepP, PTL DEF Spec
--------------------------------------------------------------------------------
(* Registers.  c holds the registers of o, but for those in l: that is so   *)
(* of the CPU while o's code runs, of the frame while a handler does, and   *)
(* of every saved context.                                                  *)
Kept(c, o, l) ==
    /\ \A r \in Registers \ l[o] : c[r] = <<o, r>>
    /\ c["rax"] \in {<<o, "rax">>, RET}

Fields(f) == [r \in Registers |-> Field(f, r)]

Clobbered == \A o \in Owners : lost[o] \subseteq {"rax", "rcx", "rdx"}

OnCpu == acts = <<>> => Kept(cpu, base, lost)

InFrame == acts # <<>> => Kept(Fields(acts[1].frame), base, lost)

HasResult ==
    acts # <<>> /\ phase # "panic" /\ acts[1].vec = SYSCALL_ISR /\ acts[1].step = "handled"
        => cpu["rax"] = RET

InContexts == \A o \in Owners : Kept(ctx[o].regs, ctx[o].code, lost)

RInv == Clobbered /\ OnCpu /\ InFrame /\ HasResult /\ InContexts

JInv == TInv /\ IInv /\ RInv

LEMMA InitR == Init => RInv
<1> SUFFICES ASSUME Init PROVE RInv
  OBVIOUS
<1>1. "rax" \in Registers
  BY RegisterNames, Zenon
<1>2. \A o \in Owners : Kept(Own(o), o, lost)
  BY <1>1, Zenon DEF Kept, Own
<1>3. cpu = Own(BOOT) /\ base = BOOT /\ acts = <<>> /\ BOOT \in Owners
  BY ValueFacts, ZenonT(40) DEF Init
<1>4. \A o \in Owners : ctx[o].regs = Own(o) /\ ctx[o].code = o
  BY DEF Init, Created
<1>5. Clobbered
  BY ZenonT(40) DEF Init, Clobbered
<1>6. InContexts
  BY <1>2, <1>4 DEF InContexts
<1>7. OnCpu
  BY <1>2, <1>3, Zenon DEF OnCpu
<1> QED BY <1>3, <1>5, <1>6, <1>7 DEF RInv, InFrame, HasResult

(* pushaq and the handler's view of what it pushed.                         *)
LEMMA FrameFields == \A r \in Registers : Field(Frame, r) = cpu[r]
<1> TAKE r \in Registers
<1>1. Frame.ds = cpu["ds"] /\ Frame.saved = [i \in 1 .. 15 |-> cpu[Pushed[i]]]
  BY Zenon DEF Frame
<1>2. CASE r = "ds"
  BY <1>1, <1>2, ZenonT(40) DEF Field
<1>3. CASE r \in GPR
  <2>1. r # "ds"
    BY <1>3, RegisterNames, Zenon
  <2> QED BY <1>1, <1>3, <2>1, StackIndex DEF Field
<1> QED BY <1>2, <1>3, RegisterNames

LEMMA KeptSame ==
    ASSUME NEW c, NEW d, NEW o, NEW l, Kept(c, o, l), \A r \in Registers : d[r] = c[r]
    PROVE  Kept(d, o, l)
  BY RegisterNames, Zenon DEF Kept

LEMMA KeptMore ==
    ASSUME NEW c, NEW o, NEW l, NEW m, Kept(c, o, l), l[o] \subseteq m[o]
    PROVE  Kept(c, o, m)
  BY DEF Kept

LEMMA EnterR ==
    ASSUME JInv, acts = <<>>, NEW v \in Vectors, Enter(v)
    PROVE  RInv'
<1> DEFINE b == [vec |-> v, on |-> FrameOn(v), frame |-> Frame, step |-> "entered"]
<1>1. acts' = <<b>> /\ b.frame = Frame /\ b.step = "entered"
      /\ UNCHANGED <<base, lost, ctx>>
  BY DEF Enter
<1> HIDE DEF b
<1>2. acts' # <<>> /\ acts'[1] = b
  BY <1>1
<1>3. Kept(Fields(Frame), base, lost)
  <2>1. Kept(cpu, base, lost)
    BY DEF JInv, RInv, OnCpu
  <2>2. \A r \in Registers : Fields(Frame)[r] = cpu[r]
    BY FrameFields, Zenon DEF Fields
  <2> QED BY <2>1, <2>2, KeptSame
<1>4. InFrame'
  <2>1. Kept(Fields(acts'[1].frame), base', lost')
    BY <1>1, <1>2, <1>3, Zenon
  <2> QED BY <2>1, Zenon DEF InFrame, Fields, Field
<1>5. HasResult' /\ OnCpu'
  BY <1>1, <1>2, Zenon DEF HasResult, OnCpu
<1>6. Clobbered' /\ InContexts'
  BY <1>1, Zenon DEF JInv, RInv, Clobbered, InContexts
<1> QED BY <1>4, <1>5, <1>6, ZenonT(40) DEF RInv

(* A handler's steps leave its frame alone.                                 *)
LEMMA WithinR ==
    ASSUME JInv, TimerEOI \/ Keyboard \/ syscallHandler \/ pageFaultHandler
    PROVE  RInv'
<1>1. acts # <<>> /\ UNCHANGED <<base, lost, ctx>>
  BY Zenon DEF TimerEOI, Keyboard, syscallHandler, pageFaultHandler, InHandler
<1>2. PICK s \in {"ended", "handled"} : acts' = Step(s)
  BY DEF TimerEOI, Keyboard, syscallHandler, pageFaultHandler
<1>3. /\ Len(acts) = 1 /\ DOMAIN acts = {1} /\ acts = <<acts[1]>> /\ Top = acts[1]
      /\ ActOK(acts[1])
  BY <1>1, ShapeFacts DEF JInv, IInv, Shape
<1> DEFINE a == acts[1]  b == [a EXCEPT !.step = s]
<1>4. b.frame = a.frame /\ b.vec = a.vec
  BY <1>3 DEF ActOK
<1>5. acts' = [acts EXCEPT ![1] = b]
  BY <1>2, <1>3, Zenon DEF Step
<1> HIDE DEF b
<1>6. acts' = <<b>>
  BY <1>3, <1>5
<1>7. acts' # <<>> /\ acts'[1] = b
  BY <1>6, Zenon
<1>8. InFrame'
  <2>1. Kept(Fields(acts'[1].frame), base', lost')
    BY <1>1, <1>4, <1>7, Zenon DEF JInv, RInv, InFrame
  <2> QED BY <2>1, Zenon DEF InFrame, Fields, Field
<1>9. HasResult'
  <2> SUFFICES ASSUME phase' # "panic", acts'[1].vec = SYSCALL_ISR PROVE cpu'["rax"] = RET
    BY Zenon DEF HasResult
  <2>1. syscallHandler
    <3>1. Top.vec = SYSCALL_ISR
      BY <1>3, <1>4, <1>7, Zenon
    <3> QED BY <3>1 DEF TimerEOI, Keyboard, pageFaultHandler, InHandler
  <2>2. cpu' = [cpu EXCEPT !["rax"] = RET]
    BY <2>1, Zenon DEF syscallHandler
  <2>3. cpu \in [Registers -> Values] /\ "rax" \in Registers
    BY RegisterNames, Zenon DEF JInv, TInv
  <2> QED BY <2>2, <2>3, ZenonT(40)
<1>10. Clobbered' /\ InContexts' /\ OnCpu'
  BY <1>1, <1>7, Zenon DEF JInv, RInv, Clobbered, InContexts, OnCpu
<1> QED BY <1>8, <1>9, <1>10, Zenon DEF RInv

(* x64_context_switch into a context that holds what its owner left.        *)
LEMMA SwitchR ==
    ASSUME JInv, NEW next \in Owners, NEW contexts,
           \A o \in Owners : Kept(contexts[o].regs, contexts[o].code, lost),
           SwitchTo(next, contexts), lost' = lost
    PROVE  RInv'
<1>1. /\ acts' = <<>> /\ ctx' = contexts /\ base' = contexts[next].code
      /\ cpu' = Loaded(contexts[next])
  BY Zenon DEF SwitchTo
<1>2. \A r \in Registers : Loaded(contexts[next])[r] = contexts[next].regs[r]
  BY LoadsOwnField, Zenon DEF Loaded
<1>3. Kept(contexts[next].regs, contexts[next].code, lost)
  BY Zenon
<1>4. Kept(Loaded(contexts[next]), contexts[next].code, lost)
  BY <1>2, <1>3, KeptSame, Zenon
<1>5. OnCpu'
  BY <1>1, <1>4, Zenon DEF OnCpu
<1>6. InContexts'
  BY <1>1, Zenon DEF InContexts
<1> QED BY <1>1, <1>5, <1>6, Zenon DEF JInv, RInv, Clobbered, InFrame, HasResult

LEMMA TimerSwitchR == JInv /\ TimerSwitch => RInv'
<1> SUFFICES ASSUME JInv, TimerSwitch PROVE RInv'
  BY Zenon
<1> DEFINE f == Top.frame  contexts == [ctx EXCEPT ![current] = Saved(f)]
<1>1. acts # <<>> /\ lost' = lost /\ alive' = alive
  BY Zenon DEF TimerSwitch, InHandler
<1>2. PICK next \in alive \cup {idle} : SwitchTo(next, contexts)
  BY Zenon DEF TimerSwitch
<1>3. next \in Owners /\ current \in Owners /\ ctx \in [Owners -> ContextSet]
  BY ValueFacts, Zenon DEF JInv, TInv, OwnerT
<1>4. Saved(f).regs = Fields(f) /\ Saved(f).code = base
  BY Zenon DEF Saved, Fields
<1>5. Kept(Fields(f), base, lost)
  BY <1>1, ShapeFacts, Zenon DEF JInv, IInv, RInv, InFrame
<1>6. ASSUME NEW o \in Owners PROVE Kept(contexts[o].regs, contexts[o].code, lost)
  <2>1. CASE o = current
    BY <1>3, <1>4, <1>5, <2>1, Zenon
  <2>2. CASE o # current
    BY <1>3, <2>2, Zenon DEF JInv, RInv, InContexts
  <2> QED BY <2>1, <2>2, Zenon
<1> HIDE DEF contexts
<1> QED BY <1>1, <1>2, <1>3, <1>6, SwitchR, Zenon

LEMMA ExitR == JInv /\ sys_exit => RInv'
<1> SUFFICES ASSUME JInv, sys_exit PROVE RInv'
  OBVIOUS
<1>1. alive' \subseteq alive /\ lost' = lost
  BY Zenon DEF sys_exit
<1>2. PICK next \in alive' \cup {idle} : SwitchTo(next, ctx)
  BY DEF sys_exit
<1>3. next \in Owners
  BY <1>1, ValueFacts, Zenon DEF JInv, TInv, OwnerT
<1>4. \A o \in Owners : Kept(ctx[o].regs, ctx[o].code, lost)
  BY DEF JInv, RInv, InContexts
<1> QED BY <1>1, <1>2, <1>3, <1>4, SwitchR, Zenon

(* popaq undoes pushaq, but for rcx and rdx, and for rax after a call.      *)
LEMMA PushedOnce == \A i, j \in 1 .. 15 : Pushed[i] = Pushed[j] => i = j
  BY DEF Pushed

LEMMA RestoredFields ==
    ASSUME NEW f, NEW v
    PROVE  /\ \A r \in Registers \ {"rax", "rcx", "rdx"} : Restored(f, v)[r] = Fields(f)[r]
           /\ v # SYSCALL_ISR => Restored(f, v)["rax"] = Fields(f)["rax"]
           /\ v = SYSCALL_ISR => Restored(f, v)["rax"] = cpu["rax"]
<1>1. \A r \in GPR : r # "ds" /\ r \in Registers
  BY RegisterNames, Zenon
<1>2. \A r \in GPR : Fields(f)[r] = f.saved[16 - IndexIn(InterruptStack, r)]
  BY <1>1, Zenon DEF Fields, Field
<1>3. ASSUME NEW r \in GPR \ {"rax", "rcx", "rdx"} PROVE Restored(f, v)[r] = Fields(f)[r]
  <2>1. 16 - LastPop(r) = 16 - IndexIn(InterruptStack, r)
    BY StackIndex, PopIndex, PushedOnce, ZenonT(40)
  <2>2. Restored(f, v)[r] = f.saved[16 - LastPop(r)]
    BY RestoredValues
  <2> QED BY <1>2, <2>1, <2>2, Zenon
<1>4. Restored(f, v)["ds"] = Fields(f)["ds"]
  BY RestoredValues, RegisterNames, ZenonT(40) DEF Fields, Field
<1>5. Fields(f)["rax"] = f.saved[1]
  <2>1. "rax" \in GPR /\ Pushed[1] = "rax"
    BY RegisterNames, Zenon DEF Pushed
  <2>2. 16 - IndexIn(InterruptStack, "rax") = 1
    BY <2>1, StackIndex, PushedOnce
  <2> QED BY <1>2, <2>1, <2>2, Zenon
<1> QED BY <1>3, <1>4, <1>5, RestoredValues, RegisterNames

LEMMA ReturnR == JInv /\ iretq => RInv'
<1> SUFFICES ASSUME JInv, iretq PROVE RInv'
  OBVIOUS
<1> DEFINE f == Top.frame  v == Top.vec
<1>1. /\ acts # <<>> /\ Running /\ Top.step = "handled"
      /\ acts' = SubSeq(acts, 1, Len(acts) - 1)
      /\ cpu' = Restored(f, v)
      /\ lost' = [lost EXCEPT ![base] = @ \cup Damaged(v)]
      /\ UNCHANGED <<base, ctx>>
  BY Zenon DEF iretq
<1>2. Len(acts) = 1 /\ Top = acts[1]
  BY <1>1, ShapeFacts, ZenonT(40) DEF JInv, IInv
<1>3. acts' = <<>>
  BY <1>1, <1>2
<1>4. base \in Owners /\ lost \in [Owners -> SUBSET GPR]
  BY Zenon DEF JInv, TInv, OwnerT, LostT
<1>5. lost'[base] = lost[base] \cup Damaged(v) /\ \A o \in Owners : lost[o] \subseteq lost'[o]
  BY <1>1, <1>4, Zenon
<1>6. Kept(Fields(f), base, lost)
  BY <1>1, <1>2, Zenon DEF JInv, RInv, InFrame
<1>7. Kept(Restored(f, v), base, lost')
  <2>1. ASSUME NEW r \in Registers \ lost'[base] PROVE Restored(f, v)[r] = <<base, r>>
    <3>1. r \notin lost[base] /\ r \notin {"rcx", "rdx"} /\ (v = SYSCALL_ISR => r # "rax")
      BY <1>5, ZenonT(40) DEF Damaged
    <3>2. Restored(f, v)[r] = Fields(f)[r]
      <4> HIDE DEF f, v
      <4>1. r = "rax" => v # SYSCALL_ISR
        BY <3>1, Zenon
      <4>2. CASE r = "rax"
        BY <4>1, <4>2, RestoredFields, ZenonT(40)
      <4>3. CASE r # "rax"
        <5>1. r \in Registers \ {"rax", "rcx", "rdx"}
          BY <3>1, <4>3, Zenon
        <5> QED BY <5>1, RestoredFields, Zenon
      <4> QED BY <4>2, <4>3, Zenon
    <3> QED BY <1>6, <3>1, <3>2, Zenon DEF Kept
  <2>2. Restored(f, v)["rax"] \in {<<base, "rax">>, RET}
    <3>1. CASE v = SYSCALL_ISR
      <4>1. cpu["rax"] = RET
        BY <1>1, <1>2, <3>1, Zenon DEF JInv, RInv, HasResult, Running
      <4> QED BY <3>1, <4>1, RestoredFields
    <3>2. CASE v # SYSCALL_ISR
      BY <1>6, <3>2, RestoredFields, ZenonT(40) DEF Kept
    <3> QED BY <3>1, <3>2, ZenonT(40)
  <2> QED BY <2>1, <2>2, Zenon DEF Kept
<1>8. OnCpu'
  BY <1>1, <1>7, Zenon DEF OnCpu
<1>9. Clobbered'
  BY <1>1, <1>4, <1>5, ZenonT(40) DEF JInv, RInv, Clobbered, Damaged
<1>10. InContexts'
  <2>1. ASSUME NEW o \in Owners PROVE Kept(ctx[o].regs, ctx[o].code, lost')
    <3>1. ctx[o] \in ContextSet
      BY Zenon DEF JInv, TInv
    <3>2. ctx[o].code \in Owners
      BY <3>1, ZenonT(40) DEF ContextSet
    <3>3. Kept(ctx[o].regs, ctx[o].code, lost)
      BY DEF JInv, RInv, InContexts
    <3> QED BY <1>5, <3>2, <3>3, KeptMore
  <2> QED BY <1>1, <2>1, Zenon DEF InContexts
<1> QED BY <1>3, <1>8, <1>9, <1>10, Zenon DEF RInv, InFrame, HasResult

LEMMA StepR == JInv /\ [Next]_vars => JInv'
<1> SUFFICES ASSUME JInv, [Next]_vars PROVE JInv'
  OBVIOUS
<1>1. TInv' /\ IInv'
  BY StepTypes, StepInv DEF JInv
<1>2. CASE Boot
  <2>1. CASE EntryYields
    <3>1. PICK next \in alive \cup {idle} : SwitchTo(next, ctx)
      BY <2>1, Zenon DEF EntryYields
    <3>2. next \in Owners /\ lost' = lost
      BY <2>1, ValueFacts, Zenon DEF EntryYields, JInv, TInv, OwnerT
    <3>3. \A o \in Owners : Kept(ctx[o].regs, ctx[o].code, lost)
      BY Zenon DEF JInv, RInv, InContexts
    <3>4. RInv'
      BY <3>1, <3>2, <3>3, SwitchR, Zenon
    <3> QED BY <1>1, <3>4, Zenon DEF JInv
  <2>2. CASE ~EntryYields
    <3>1. UNCHANGED <<cpu, base, acts, ctx, lost>> /\ phase # "panic"
      BY <1>2, <2>2, Zenon DEF Boot, FirstInit, SecondInit, lapic_timer_periodic
    <3> QED BY <1>1, <3>1, Zenon DEF JInv, RInv, Clobbered, OnCpu, InFrame, HasResult, InContexts
  <2> QED BY <2>1, <2>2, Zenon
<1>3. CASE TimerFires \/ KeyPressed
  <2>1. UNCHANGED <<cpu, base, acts, ctx, lost, phase>>
    BY <1>3 DEF TimerFires, KeyPressed
  <2> QED BY <1>1, <2>1, ZenonT(40) DEF JInv, RInv, Clobbered, OnCpu, InFrame, HasResult, InContexts
<1>4. CASE Delivery \/ Calls
  <2>1. PICK v \in Vectors : Enter(v) /\ acts = <<>>
    <3>1. CASE Delivery
      BY <3>1, DeliverOutside DEF Delivery, Deliver, JInv, Vectors
    <3>2. CASE Calls
      BY <3>2 DEF Calls, Raise, InProcess, Executing, Vectors
    <3> QED BY <1>4, <3>1, <3>2, ZenonT(40)
  <2>2. RInv'
    BY <2>1, EnterR, Zenon
  <2> QED BY <1>1, <2>2, Zenon DEF JInv
<1>5. CASE Handling
  BY <1>1, <1>5, WithinR, TimerSwitchR, ExitR, ReturnR, ZenonT(40)
     DEF JInv, Handling, isr_interrupt_handler
<1>6. CASE UNCHANGED vars
  BY <1>1, <1>6, Zenon DEF vars, JInv, RInv, Clobbered, OnCpu, InFrame, HasResult, InContexts
<1> QED BY <1>2, <1>3, <1>4, <1>5, <1>6, ZenonT(40) DEF Next

LEMMA InvPreserved == JInv => Preserved
<1> SUFFICES ASSUME JInv PROVE Preserved
  OBVIOUS
<1>1. TypeOK
  BY TypeOfTInv DEF JInv
<1>2. base \in Owners
  BY DEF JInv, TInv, OwnerT
<1> QED BY <1>1, <1>2, Zenon DEF JInv, RInv, Clobbered, OnCpu, Kept, Preserved

(* For every set of processes and every interleaving of ticks, keys, calls  *)
(* and faults (no line raised within its own handler): code that was        *)
(* interrupted goes on with all its registers and its data segment after    *)
(* any number of switches, all but rcx and rdx after popaq, and with the    *)
(* result in rax after a call.                                              *)
THEOREM RegistersPreserved == Spec => []Preserved
<1> DEFINE Inv == TInv /\ (burst \/ JInv)
<1>1. Init => Inv
  BY InitT, InitInv, InitR, Zenon DEF JInv
<1>2. Inv /\ [Next]_vars => Inv'
  BY StepTypes, StepR, BurstKept, Zenon
<1>3. Inv => Preserved
  BY TypeOfTInv, InvPreserved, Zenon DEF Preserved
<1> QED BY <1>1, <1>2, <1>3, PTL DEF Spec
================================================================================
