------------------------------- MODULE MCSmpBoot -------------------------------
EXTENDS SmpBoot

CONSTANTS c1, c2, c3

Core(c) == [type |-> PROCESSOR_LAPIC, length |-> 8, id |-> c, enabled |-> TRUE]

Disabled(c) == [Core(c) EXCEPT !.enabled = FALSE]

IoApic == [type |-> IO_APIC, length |-> 12, id |-> BspId, enabled |-> TRUE]

Override == [type |-> IO_APIC_OVERRIDE, length |-> 10, id |-> BspId, enabled |-> TRUE]

(* Three other cores, the I/O APIC's entry being the last; one other core,  *)
(* with an interrupt override behind the I/O APIC's entry; and no other.    *)
MCTables == {<<Core(c1), Core(BspId), Core(c2), Disabled(c2), Core(c3), Override, IoApic>>,
             <<Core(BspId), Core(c1), IoApic, Override>>,
             <<Core(BspId), IoApic>>}
================================================================================
