------------------------------ MODULE Hardware ------------------------------
(***************************************************************************)
(* modules/m3/k-hardware.c, hardware_init: the descriptor tables, the two  *)
(* 8259A interrupt controllers and the kernel's page tables, brought up    *)
(* once by the boot loader and again by every soft reboot, and the traps   *)
(* a running process takes afterwards.  The kernel runs with interrupts    *)
(* disabled, so initialisation is interleaved only with devices raising    *)
(* their lines.  The processor and the 8259A are external.                 *)
(***************************************************************************)
EXTENDS Integers, Sequences, FiniteSets

CONSTANTS
    Lines,      \* interrupt lines on which devices raise requests
    BiosMasks,  \* masks the BIOS may leave in a controller
    Ints        \* the n for which a process may execute  int $n

VARIABLES
    pc,                  \* next step of kernel()'s hardware set-up
    interrupts_enabled,  \* bit i: line i is enabled
    pic,                 \* the two controllers
    irr,                 \* requested lines
    segments,            \* privilege level of each code and data segment
    interrupt_descriptors,
    cr3,                 \* the page table the processor uses
    kernel_pagetable,    \* "built" or "cleared"
    mode,                \* what the processor is doing
    trap                 \* the last trap: its cause and what exception() saw

vars == <<pc, interrupts_enabled, pic, irr, segments, interrupt_descriptors,
          cr3, kernel_pagetable, mode, trap>>

INT_GPF == 13
INT_PAGEFAULT == 14
INT_HARDWARE == 32
INT_TIMER == INT_HARDWARE + 0
INT_SYS == 48
IRQ_SLAVE == 2
SEGSEL_KERN_CODE == 8
SEGSEL_APP_CODE == 16
SEGSEL_KERN_DATA == 24
SEGSEL_APP_DATA == 32

Selectors == {SEGSEL_KERN_CODE, SEGSEL_APP_CODE, SEGSEL_KERN_DATA, SEGSEL_APP_DATA}
Vectors == 0 .. 255
NoGate == [handler |-> "none", dpl |-> 0]
NoTrap == [cause |-> "none", n |-> 0, intno |-> 0, whole |-> TRUE]

(***************************************************************************)
(* The 8259A, external.  A write to its first port with bit 4 starts the   *)
(* initialisation sequence and clears the mask; the writes to the second   *)
(* port that follow set vector base, cascade and mode, and later ones are  *)
(* masks.                                                                  *)
(***************************************************************************)
Bit(v, i) == (v \div 2^i) % 2 = 1
Bits(v) == {i \in 0 .. 7 : Bit(v, i)}
Written(p, port, v) ==
    CASE port = 0 /\ Bit(v, 4) -> [p EXCEPT !.icw = 2, !.mask = {}, !.isr = {}]
      [] port = 0 /\ ~Bit(v, 4) -> p
      [] port = 1 /\ p.icw = 2 -> [p EXCEPT !.icw = 3, !.base = v]
      [] port = 1 /\ p.icw = 3 -> [p EXCEPT !.icw = 4]
      [] port = 1 /\ p.icw = 4 -> [p EXCEPT !.icw = 0, !.autoEOI = Bit(v, 1)]
      [] port = 1 /\ p.icw = 0 -> [p EXCEPT !.mask = Bits(v)]

Chip(l) == IF l < 8 THEN "master" ELSE "slave"
Forwarded(l) ==
    /\ l \in irr
    /\ (l % 8) \notin pic[Chip(l)].mask
    /\ \A k \in pic[Chip(l)].isr : l % 8 < k
    /\ l >= 8 => IRQ_SLAVE \notin pic["master"].mask

(***************************************************************************)
(* The set-up as the code performs it: hardware_init, then timer_init and  *)
(* the first run().  A step is one port write or one whole table.          *)
(***************************************************************************)
Outb(c, port, v) == [op |-> "outb", chip |-> c, port |-> port, v |-> v]
interrupt_mask == <<[op |-> "mask", chip |-> "master"], [op |-> "mask", chip |-> "slave"]>>

interrupt_init ==
    <<[op |-> "disable all"]>> \o interrupt_mask
    \o <<Outb("master", 0, 17), Outb("master", 1, INT_HARDWARE),
         Outb("master", 1, 2^IRQ_SLAVE), Outb("master", 1, 3),
         Outb("slave", 0, 17), Outb("slave", 1, INT_HARDWARE + 8),
         Outb("slave", 1, IRQ_SLAVE), Outb("slave", 1, 1),
         Outb("master", 0, 104), Outb("master", 0, 10),
         Outb("slave", 0, 104), Outb("slave", 0, 10)>>
    \o interrupt_mask

timer_init == <<[op |-> "enable timer"]>> \o interrupt_mask

hardware_init ==
    <<[op |-> "segments"]>> \o interrupt_init
    \o <<[op |-> "clear tables"], [op |-> "map"], [op |-> "lcr3"]>>

Setup == hardware_init \o timer_init \o <<[op |-> "run"]>>

Gate(h, d) == [handler |-> h, dpl |-> d]

interrupt_gates_open ==
    [v \in Vectors |->
        CASE v = INT_TIMER -> Gate("timer", 3)
          [] v = INT_GPF -> Gate("gpf", 0)
          [] v = INT_PAGEFAULT -> Gate("pagefault", 0)
          [] v \in INT_SYS .. INT_SYS + 15 -> Gate("sys", 3)
          [] OTHER -> IF v >= 16 THEN Gate("default", 0) ELSE NoGate]

interrupt_gates ==
    [v \in Vectors |->
        CASE v = INT_TIMER -> Gate("timer", 0)
          [] v = INT_GPF -> Gate("gpf", 0)
          [] v = INT_PAGEFAULT -> Gate("pagefault", 0)
          [] v \in INT_SYS .. INT_SYS + 15 -> Gate("sys", 3)
          [] OTHER -> IF v >= 16 THEN Gate("default", 0) ELSE NoGate]

(* The selectors process_init gives a process; their low bits are its level. *)
process_init == [reg_cs |-> SEGSEL_APP_CODE + 3, reg_ss |-> SEGSEL_APP_DATA + 3]

-----------------------------------------------------------------------------
(* The machine as the BIOS and the boot loader leave it. *)
Init ==
    /\ pc = 1
    /\ interrupts_enabled = 0
    /\ \E m \in BiosMasks :
         pic = [c \in {"master", "slave"} |->
                  [icw |-> 0, base |-> IF c = "master" THEN 8 ELSE 112,
                   mask |-> m, autoEOI |-> FALSE, isr |-> {}]]
    /\ irr = {}
    /\ segments = [s \in Selectors |-> 0]
    /\ interrupt_descriptors = [v \in Vectors |-> NoGate]
    /\ cr3 = "boot"
    /\ kernel_pagetable = "cleared"
    /\ mode = "kernel"
    /\ trap = NoTrap

Step(ops) ==
    /\ mode = "kernel" /\ pc <= Len(Setup) /\ Setup[pc].op \in ops
    /\ pc' = pc + 1
    /\ UNCHANGED <<irr, trap>>

segments_init ==
    /\ Step({"segments"})
    /\ segments' = [s \in Selectors |->
                      IF s \in {SEGSEL_APP_CODE, SEGSEL_APP_DATA} THEN 3 ELSE 0]
    /\ interrupt_descriptors' = interrupt_gates
    /\ UNCHANGED <<interrupts_enabled, pic, cr3, kernel_pagetable, mode>>

(* ~interrupts_enabled, the byte of one controller *)
masked(c) ==
    LET m == 65535 - interrupts_enabled
    IN IF c = "master" THEN m % 256 ELSE m \div 256

WritePort ==
    /\ Step({"outb", "mask"})
    /\ LET s == Setup[pc]
       IN pic' = [pic EXCEPT ![s.chip] =
                    IF s.op = "mask" THEN Written(@, 1, masked(s.chip))
                    ELSE Written(@, s.port, s.v)]
    /\ UNCHANGED <<interrupts_enabled, segments, interrupt_descriptors, cr3,
                   kernel_pagetable, mode>>

SetEnabled ==
    /\ Step({"disable all", "enable timer"})
    /\ interrupts_enabled' = IF Setup[pc].op = "disable all" THEN 0
                             ELSE 2^(INT_TIMER - INT_HARDWARE)
    /\ UNCHANGED <<pic, segments, interrupt_descriptors, cr3, kernel_pagetable, mode>>

virtual_memory_init ==
    /\ Step({"clear tables", "map", "lcr3"})
    /\ kernel_pagetable' = CASE Setup[pc].op = "clear tables" -> "cleared"
                             [] Setup[pc].op = "map" -> "built"
                             [] Setup[pc].op = "lcr3" -> kernel_pagetable
    /\ cr3' = IF Setup[pc].op = "lcr3" THEN "kernel" ELSE cr3
    /\ UNCHANGED <<interrupts_enabled, pic, segments, interrupt_descriptors, mode>>

(* set_pagetable's asserts look the kernel up in the table it is to load. *)
set_pagetable == kernel_pagetable = "built"

(* So do those of check_page_table_mappings, in exception(): the kernel's   *)
(* memory and stack are mapped to themselves, data and stack writable.      *)
check_page_table_mappings == kernel_pagetable = "built"

(* run(): set_pagetable, then exception_return, whose iretq checks the      *)
(* selectors it loads.                                                      *)
run ==
    /\ Step({"run"})
    /\ mode' = IF /\ set_pagetable
                  /\ \A s \in {process_init.reg_cs, process_init.reg_ss} :
                        segments[8 * (s \div 8)] = s % 8
               THEN "process" ELSE "asserted"
    /\ UNCHANGED <<interrupts_enabled, pic, segments, interrupt_descriptors, cr3,
                   kernel_pagetable>>

-----------------------------------------------------------------------------
RaiseLine ==
    /\ mode \in {"kernel", "process"}
    /\ \E l \in Lines \ irr : irr' = irr \union {l}
    /\ UNCHANGED <<pc, interrupts_enabled, pic, segments, interrupt_descriptors, cr3,
                   kernel_pagetable, mode, trap>>

(* The processor, external: the vector at which a trap arrives, or a reset. *)
Contributory == {0} \union 10 .. 14
Lands(v, fromInt) ==
    LET g == interrupt_descriptors[v]
    IN CASE g # NoGate /\ (fromInt => g.dpl = 3) -> v
         [] ~fromInt /\ g = NoGate /\ v \in Contributory -> 256
         [] OTHER -> IF interrupt_descriptors[INT_GPF] = NoGate THEN 256 ELSE INT_GPF
PushesError(v) == v \in {8, 17} \union 10 .. 14

(* k-exception.S: the interrupt number each handler pushes. *)
Pushed(v) ==
    CASE interrupt_descriptors[v].handler = "default" -> 0
      [] interrupt_descriptors[v].handler = "timer" -> INT_TIMER
      [] interrupt_descriptors[v].handler = "gpf" -> INT_GPF
      [] interrupt_descriptors[v].handler = "pagefault" -> INT_PAGEFAULT
      [] interrupt_descriptors[v].handler = "sys" -> v

(* exception()'s switch: what does not panic returns to a process. *)
Handled == {INT_PAGEFAULT, INT_TIMER} \union INT_SYS + 1 .. INT_SYS + 3

exception(cause, v, fromInt) ==
    LET at == Lands(v, fromInt)
    IN /\ IF at = 256
          THEN mode' = "reset" /\ trap' = [cause |-> cause, n |-> v, intno |-> 256, whole |-> FALSE]
          ELSE /\ trap' = [cause |-> cause, n |-> v, intno |-> Pushed(at),
                           whole |-> interrupt_descriptors[at].handler # "default"
                                     \/ PushesError(at)]
               /\ mode' = IF ~(set_pagetable /\ check_page_table_mappings) THEN "asserted"
                          ELSE IF Pushed(at) \in Handled THEN mode ELSE "failed"
       /\ UNCHANGED <<pc, interrupts_enabled, segments, interrupt_descriptors, cr3,
                      kernel_pagetable>>

Interrupt ==
    /\ mode = "process"
    /\ \E l \in irr :
         /\ Forwarded(l) /\ \A k \in irr : Forwarded(k) => l <= k
         /\ irr' = irr \ {l}
         /\ pic' = IF pic[Chip(l)].autoEOI THEN pic
                   ELSE [pic EXCEPT ![Chip(l)].isr = @ \union {l % 8}]
         /\ exception("irq", pic[Chip(l)].base + (l % 8), FALSE)

SoftwareInterrupt ==
    /\ mode = "process"
    /\ \E n \in Ints : exception("int", n, TRUE)
    /\ UNCHANGED <<irr, pic>>

(* A process divides by zero, executes an invalid instruction, makes an *)
(* unaligned access (CR0_AM is set) or touches a page it may not.        *)
Fault ==
    /\ mode = "process"
    /\ \E v \in {0, 6, 13, 14, 17} : exception("fault", v, FALSE)
    /\ UNCHANGED <<irr, pic>>


SoftReboot ==
    /\ mode \in {"process", "failed", "asserted"}
    /\ cr3' = "boot" /\ pc' = 1 /\ mode' = "kernel" /\ trap' = NoTrap
    /\ UNCHANGED <<interrupts_enabled, pic, irr, segments, interrupt_descriptors,
                   kernel_pagetable>>

Next ==
    \/ segments_init \/ WritePort \/ SetEnabled \/ virtual_memory_init
    \/ run \/ RaiseLine \/ Interrupt \/ SoftwareInterrupt
    \/ Fault \/ SoftReboot

Spec == Init /\ [][Next]_vars

-----------------------------------------------------------------------------
(* exception() sees a page fault or a timer tick only when there was one: *)
(* a process cannot produce either with int $n, and every system call     *)
(* arrives under its own number.  Only the timer interrupts a process:    *)
(* whatever the BIOS left in the controllers and however often kernel()   *)
(* starts again, no other line gets past the masks.                       *)
TrapsAreGenuine ==
    /\ trap.intno = INT_TIMER => trap.cause = "irq"
    /\ trap.cause = "irq" => trap.n = INT_TIMER /\ trap.intno = INT_TIMER
    /\ trap.intno = INT_PAGEFAULT => trap.cause = "fault" /\ trap.n = INT_PAGEFAULT
    /\ trap.intno \in INT_SYS .. INT_SYS + 15 => trap.cause = "int" /\ trap.n = trap.intno
    /\ trap.cause = "int" /\ trap.n \in INT_SYS .. INT_SYS + 15 => trap.intno = trap.n

=============================================================================
