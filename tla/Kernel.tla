------------------------------- MODULE Kernel -------------------------------
(***************************************************************************)
(* The WeensyOS kernel of modules/m3 (kernel.c, k-loader.c, and the parts of *)
(* k-hardware.c it drives), running p-allocator.c and p-fork.c.  An action  *)
(* is one run of exception(), from the interrupt to the return to user mode, *)
(* or one stretch of a user program between two of its instructions that     *)
(* matter.  Interrupts are disabled in the kernel, so a handler is atomic.   *)
(*                                                                         *)
(* Memory is counted in pages.  Every process uses kernel_pagetable, which   *)
(* maps each page to itself, so a page table is the set of pages it lets     *)
(* user code write; VirtualMemory models how page tables are built.          *)
(***************************************************************************)
EXTENDS Integers, FiniteSets

CONSTANTS
  NPROC,      \* process descriptors; descriptor 0 is never used
  NSetup,     \* how many allocators kernel() starts (4 in the code)
  NPages,     \* MEMSIZE_PHYSICAL / PAGESIZE
  Reserved,   \* pages for which physical_memory_isreserved holds
  KernelPages,\* pages of the kernel's code, data and stack
  KPT,        \* the page of kernel_pagetable
  ProcStart,  \* PROC_START_ADDR
  ProcSize,   \* PROC_SIZE
  ImageSize,  \* pages that program_load fills
  HZ,         \* timer interrupts in a second
  TickMod,    \* the number of values of the unsigned counter ticks
  Limits,     \* the values of TICK_LIMIT the kernel may be built with
  Keys,       \* keys that may be typed, of "a", "f", "e" and "q"
  Builds      \* whether programs other than the repository's may be linked in

Proc == 0 .. NPROC - 1
Page == 0 .. NPages - 1

Base(pid) == ProcStart + ProcSize * (pid - 1)
Image(pid) == Base(pid) .. Base(pid) + ImageSize - 1
StackPage(pid) == Base(pid) + ProcSize - 1

ASSUME ProcAssumption == NPROC \in Nat /\ NSetup \in 1 .. NPROC - 1
ASSUME TimeAssumption ==
  HZ \in Nat \ {0} /\ TickMod \in Nat \ {0} /\ Limits \subseteq 0 .. TickMod - 1
ASSUME UserAssumption ==
  Keys \subseteq {"a", "f", "e", "q"} /\ Builds \subseteq BOOLEAN
(* The linker scripts put each program into a block of its own. *)
ASSUME LayoutAssumption ==
  /\ NPages \in Nat /\ ProcStart \in Nat
  /\ ImageSize \in Nat \ {0} /\ ProcSize \in Nat /\ ImageSize < ProcSize
  /\ Base(NSetup + 1) <= NPages
  /\ Reserved \subseteq 0 .. ProcStart - 1
  /\ KernelPages \subseteq 0 .. ProcStart - 1
  /\ KPT \in KernelPages /\ Reserved \cap KernelPages = {}

PO_FREE == 0
PO_RESERVED == -1
PO_KERNEL == -2

VARIABLES
  TICK_LIMIT,   \* ticks at which an unattended build powers off, 0 for none
  OtherPrograms,\* may user programs also fault, panic, and ask for any page?
  mode,         \* "user", "idle" in schedule(), "panic" in fail(), "off"
  p_state, p_registers,     \* the process descriptors
  owner, refcount,          \* pageinfo
  current,      \* the running process
  cpu,          \* the registers of the processor in user mode
  mypid, heap_top,          \* p and heap_top of each user program
  ticks, last_ticks, showing

pageinfo == <<owner, refcount>>
program == <<mypid, heap_top>>
build == <<TICK_LIMIT, OtherPrograms>>
vars == <<build, mode, p_state, p_registers, pageinfo, current, cpu, program,
          ticks, last_ticks, showing>>

-----------------------------------------------------------------------------
(* Booting: hardware_init, pageinfo_init, process_setup *)

(* The processes that kernel() sets up when a key, or the loader, says so. *)
SetUp(key) == IF key = "a" THEN 1 .. NSetup ELSE {1}

pageinfo_init(pg) == CASE pg \in Reserved -> PO_RESERVED
                       [] pg \in KernelPages \ Reserved -> PO_KERNEL
                       [] OTHER -> PO_FREE

(* program_load and process_setup assign these pages. *)
Loaded(pid) == Image(pid) \cup {StackPage(pid)}

BootOwner(key) ==
  [pg \in Page |-> IF \E pid \in SetUp(key) : pg \in Loaded(pid)
                   THEN CHOOSE pid \in SetUp(key) : pg \in Loaded(pid)
                   ELSE pageinfo_init(pg)]

(* process_setup adds a reference to kernel_pagetable for each process. *)
BootRefcount(key) ==
  [pg \in Page |-> IF pg = KPT THEN 1 + Cardinality(SetUp(key))
                   ELSE IF BootOwner(key)[pg] = PO_FREE THEN 0 ELSE 1]

BootState(key) ==
  [pid \in Proc |-> IF pid \in SetUp(key) THEN "RUNNABLE" ELSE "FREE"]

(* process_init clears the registers, program_load sets the entry point. *)
BootRegisters(key) ==
  [pid \in Proc |->
     [pc |-> IF pid \in SetUp(key) THEN [a |-> "getpid", f |-> "fork", e |-> "forkexit"][key] ELSE "none",
      rax |-> 0]]

Zero == [pid \in Proc |-> 0]

Init ==
  \E key \in {"a", "f", "e"} :
    /\ TICK_LIMIT \in Limits /\ OtherPrograms \in Builds
    /\ p_state = BootState(key)
    /\ p_registers = BootRegisters(key)
    /\ owner = BootOwner(key)
    /\ refcount = BootRefcount(key)
    /\ current = 1 /\ cpu = BootRegisters(key)[1] /\ mode = "user"
    /\ mypid = Zero /\ heap_top = Zero
    /\ ticks = 0 /\ last_ticks = 0 /\ showing = 1

-----------------------------------------------------------------------------
(* What exception() does before it looks at the kind of the interrupt *)

(* The asserts of check_virtual_memory on processes and pageinfo. *)
check_virtual_memory ==
  /\ p_state[0] = "FREE"
  /\ owner[KPT] = PO_KERNEL
  /\ refcount[KPT] = 1 + Cardinality({pid \in Proc : p_state[pid] # "FREE"})
  /\ \A pg \in KernelPages \ {KPT} :
        owner[pg] = PO_KERNEL /\ refcount[pg] = 1
  /\ \A pg \in Page : refcount[pg] > 0 /\ owner[pg] >= 0
                        => p_state[owner[pg]] # "FREE"

(* The loop that passes over free descriptors. *)
SkipFree(s) ==
  CHOOSE x \in s .. 2 * NPROC + 1 :
    /\ x > 2 * NPROC \/ p_state[x % NPROC] # "FREE"
    /\ \A y \in s .. x - 1 : p_state[y % NPROC] = "FREE"

Elapsed == (ticks - last_ticks) % TickMod

(* Mutant: the display does not move on. *)
memshow_virtual_animate_stuck ==
  LET switch == last_ticks = 0 \/ Elapsed >= HZ \div 2
  IN  /\ last_ticks' = IF switch THEN ticks ELSE last_ticks
      /\ showing' = SkipFree(showing) % NPROC

memshow_virtual_animate ==
  LET switch == last_ticks = 0 \/ Elapsed >= HZ \div 2
  IN  /\ last_ticks' = IF switch THEN ticks ELSE last_ticks
      /\ showing' = SkipFree(IF switch THEN showing + 1 ELSE showing) % NPROC

AtLimit == TICK_LIMIT # 0 /\ ticks = TICK_LIMIT

Enter ==
  /\ mode = "user"
  /\ check_virtual_memory
  /\ memshow_virtual_animate
  /\ UNCHANGED build

(* The interrupt did not end the machine. *)
Exception == Enter /\ ~AtLimit

(* current->p_registers = *reg, where execution is to go on at pc *)
Saved(pc) == [p_registers EXCEPT ![current] = [cpu EXCEPT !.pc = pc]]

-----------------------------------------------------------------------------
(* run(p) and schedule(), given the registers saved so far *)

run(p, regs) ==
  /\ mode' = "user"
  /\ current' = p
  /\ cpu' = regs[p]
  /\ p_registers' = regs

(* Mutant: the search begins with the process that has just run. *)
TurnsKeep(p) == (p - current) % NPROC

(* How soon the search of schedule() reaches p. *)
Turns(p) == (p - current - 1) % NPROC

schedule(states, regs) ==
  LET ready == {p \in Proc : states[p] = "RUNNABLE"}
  IN  IF ready = {}
      THEN mode' = "idle" /\ p_registers' = regs /\ UNCHANGED <<current, cpu>>
      ELSE run(CHOOSE p \in ready : \A r \in ready : Turns(p) <= Turns(r), regs)

(* fail() waits for a key, or powers off in an unattended build. *)
panic ==
  /\ mode' = IF TICK_LIMIT = 0 THEN "panic" ELSE "off"
  /\ p_registers' = Saved(cpu.pc)
  /\ UNCHANGED <<p_state, pageinfo, current, cpu, program, ticks>>

-----------------------------------------------------------------------------
(* Where the programs execute the int instruction of a system call: the      *)
(* wrappers of process.h, inlined into them.  forkexit forks or yields.      *)
Calls(call) ==
  CASE call = "getpid" -> {"getpid"}
    [] call = "yield" -> {"loop", "yield", "spin", "forkexit"}
    [] call = "page_alloc" -> {"loop", "spin"}
    [] call = "fork" -> {"fork", "forkexit"}

(* exception(), one action for each case of its switch *)

(* Mutant: two ticks are counted when the interrupt comes late. *)
TimerTwice ==
  /\ Exception
  /\ \E n \in 1 .. 2 : ticks' = (ticks + n) % TickMod
  /\ schedule(p_state, Saved(cpu.pc))
  /\ UNCHANGED <<p_state, pageinfo, program>>

Timer ==
  /\ Exception
  /\ ticks' = (ticks + 1) % TickMod
  /\ schedule(p_state, Saved(cpu.pc))
  /\ UNCHANGED <<p_state, pageinfo, program>>

sys_getpid ==
  /\ Exception
  /\ cpu.pc \in Calls("getpid")
  /\ run(current, [Saved("start") EXCEPT ![current].rax = current])
  /\ UNCHANGED <<p_state, pageinfo, program, ticks>>

(* The body of the loops, and the endless loop after them. *)
sys_yield ==
  /\ Exception
  /\ cpu.pc \in Calls("yield")
  /\ schedule(p_state, Saved(IF cpu.pc = "yield" THEN "loop" ELSE cpu.pc))
  /\ UNCHANGED <<p_state, pageinfo, program, ticks>>

(* Mutant: the owner is tested, and not whether the page is in use. *)
AssignableTaken(pg) == pg < NPages /\ owner[pg] >= PO_FREE

Assignable(pg) == pg < NPages /\ refcount[pg] = 0

assign_physical_page(pg, pid) ==
  IF Assignable(pg)
  THEN /\ owner' = [owner EXCEPT ![pg] = pid]
       /\ refcount' = [refcount EXCEPT ![pg] = 1]
  ELSE UNCHANGED pageinfo

sys_page_alloc(pg, pc) ==
  /\ Exception
  /\ cpu.pc \in Calls("page_alloc")
  /\ assign_physical_page(pg, current)
  /\ run(current, [Saved(pc) EXCEPT ![current].rax =
                     IF Assignable(pg) THEN 0 ELSE -1])
  /\ UNCHANGED <<p_state, program, ticks>>

AllocateHeap ==
  /\ cpu.pc = "loop"
  /\ heap_top[current] # StackPage(current)
  /\ sys_page_alloc(heap_top[current], "alloced")

(* The system calls that exception() does not know. *)
sys_fork ==
  /\ Exception
  /\ cpu.pc \in Calls("fork")
  /\ panic

LimitReached ==
  /\ Enter
  /\ AtLimit
  /\ mode' = "off"
  /\ p_registers' = Saved(cpu.pc)
  /\ UNCHANGED <<p_state, pageinfo, current, cpu, program, ticks>>

-----------------------------------------------------------------------------
(* User programs other than those of the repository *)

PageFault ==
  /\ OtherPrograms
  /\ Exception
  /\ p_state' = [p_state EXCEPT ![current] = "BROKEN"]
  /\ schedule(p_state', Saved(cpu.pc))
  /\ UNCHANGED <<pageinfo, program, ticks>>

sys_panic == OtherPrograms /\ Exception /\ panic

(* A call for any page, made where the program does not use its result. *)
AllocateAny ==
  /\ OtherPrograms
  /\ cpu.pc = "spin"
  /\ \E pg \in Page \cup {NPages} : sys_page_alloc(pg, "spin")

-----------------------------------------------------------------------------
(* The instructions of p-allocator.c between its system calls *)

UserStep(pc) ==
  /\ cpu' = [cpu EXCEPT !.pc = pc]
  /\ UNCHANGED <<build, mode, p_state, p_registers, pageinfo, current, ticks,
                 last_ticks, showing>>

StartProgram ==
  /\ mode = "user" /\ cpu.pc = "start"
  /\ mypid' = [mypid EXCEPT ![current] = cpu.rax]
  /\ heap_top' = [heap_top EXCEPT ![current] = Base(current) + ImageSize]
  /\ UserStep("loop")

HeapFull ==
  /\ mode = "user" /\ cpu.pc = "loop"
  /\ heap_top[current] = StackPage(current)
  /\ UserStep("spin")
  /\ UNCHANGED program

AllocFailed ==
  /\ mode = "user" /\ cpu.pc = "alloced" /\ cpu.rax < 0
  /\ UserStep("spin")
  /\ UNCHANGED program

(* Mutant: heap_top is not moved past the new page. *)
AllocForgotten ==
  /\ mode = "user" /\ cpu.pc = "alloced" /\ cpu.rax >= 0
  /\ UserStep("yield")
  /\ UNCHANGED program

AllocSucceeded ==
  /\ mode = "user" /\ cpu.pc = "alloced" /\ cpu.rax >= 0
  /\ heap_top' = [heap_top EXCEPT ![current] = @ + 1]
  /\ UserStep("yield")
  /\ UNCHANGED mypid

-----------------------------------------------------------------------------
(* check_keyboard, in exception(), schedule() or fail() *)

Polls == \/ Exception
         \/ /\ mode \in {"idle", "panic"}
            /\ UNCHANGED <<build, last_ticks, showing>>

(* Mutant: pageinfo is not initialised again. *)
RebootDirty(key) ==
  /\ Polls
  /\ key \in Keys \ {"q"}
  /\ p_state' = BootState(key)
  /\ run(1, BootRegisters(key))
  /\ mypid' = Zero /\ heap_top' = Zero
  /\ UNCHANGED <<ticks, pageinfo>>

(* The soft reboot runs kernel() again but keeps the static variables. *)
Reboot(key) ==
  /\ Polls
  /\ key \in Keys \ {"q"}
  /\ p_state' = BootState(key)
  /\ owner' = BootOwner(key)
  /\ refcount' = BootRefcount(key)
  /\ run(1, BootRegisters(key))
  /\ mypid' = Zero /\ heap_top' = Zero
  /\ UNCHANGED ticks

poweroff ==
  /\ Polls
  /\ "q" \in Keys
  /\ mode' = "off"
  /\ p_registers' = IF mode = "user" THEN Saved(cpu.pc) ELSE p_registers
  /\ UNCHANGED <<p_state, pageinfo, current, cpu, program, ticks>>

(* Without a key, schedule() and fail() loop forever. *)
Wait == mode \in {"idle", "panic", "off"} /\ UNCHANGED vars

System == \/ Timer \/ sys_getpid \/ sys_yield \/ AllocateHeap \/ sys_fork
          \/ LimitReached
Others == PageFault \/ sys_panic \/ AllocateAny
User == StartProgram \/ HeapFull \/ AllocFailed \/ AllocSucceeded
Keyboard == poweroff \/ \E key \in {"a", "f", "e"} : Reboot(key)

Next == System \/ Others \/ User \/ Keyboard \/ Wait

Spec == Init /\ [][Next]_vars

(* The timer chip interrupts a user program sooner or later; if the limit   *)
(* is reached, that interrupt finds it so.  Nobody reboots for ever.        *)
FairSpec ==
  /\ Spec
  /\ WF_vars(Timer) /\ WF_vars(LimitReached)
  /\ <>[][~Keyboard]_vars

-----------------------------------------------------------------------------
(* Properties *)

Registers ==
  [pc : {"none", "getpid", "start", "loop", "alloced", "yield", "spin",
         "fork", "forkexit"},
   rax : {-1} \cup Proc]

(* Types.  In particular `showing` is a valid index of processes[] whenever *)
(* memshow_virtual_animate has returned, and `current` is never process 0.   *)
TypeOK ==
  /\ TICK_LIMIT \in Limits /\ OtherPrograms \in Builds
  /\ mode \in {"user", "idle", "panic", "off"}
  /\ p_state \in [Proc -> {"FREE", "RUNNABLE", "BROKEN"}]
  /\ p_registers \in [Proc -> Registers]
  /\ owner \in [Page -> {PO_RESERVED, PO_KERNEL} \cup Proc]
  /\ refcount \in [Page -> 0 .. NPROC]
  /\ current \in Proc \ {0}
  /\ cpu \in Registers
  /\ mypid \in [Proc -> Proc]
  /\ heap_top \in [Proc -> 0 .. NPages]
  /\ ticks \in 0 .. TickMod - 1 /\ last_ticks \in 0 .. TickMod - 1
  /\ showing \in Proc

(* The asserts of check_virtual_memory hold at every interrupt, whatever     *)
(* pages processes have asked for, died with, or held across a soft reboot,  *)
(* and every variable keeps its type.                                        *)
KernelConsistent == TypeOK /\ (mode = "user" => check_virtual_memory)

(* The registers of a process: those of the processor while it runs. *)
RegistersOf(pid) ==
  IF pid = current /\ mode = "user" THEN cpu ELSE p_registers[pid]

(* The heap a process believes to have, with the page it has just been given. *)
Heap(pid) ==
  LET r == RegistersOf(pid)
      given == IF r.pc = "alloced" /\ r.rax >= 0 THEN 1 ELSE 0
  IN  Base(pid) + ImageSize .. heap_top[pid] + given - 1

Allocating(pid) ==
  p_state[pid] # "FREE"
    /\ RegistersOf(pid).pc \in {"loop", "alloced", "yield", "spin"}

(* Every page below heap_top, and the code, data and stack of the process,   *)
(* belong to that process alone, whenever a timer interrupt came between     *)
(* sys_page_alloc and the use of its result.                                 *)
HeapOwned ==
  \A pid \in Proc : Allocating(pid) =>
    \A pg \in Loaded(pid) \cup Heap(pid) : owner[pg] = pid /\ refcount[pg] = 1

(* No page is lost: a process that only runs the repository's programs owns   *)
(* exactly what it was loaded with and its heap.                              *)
NothingLeaked ==
  \A pid \in Proc : ~OtherPrograms /\ Allocating(pid) =>
    {pg \in Page : owner[pg] = pid /\ refcount[pg] > 0}
      = Loaded(pid) \cup Heap(pid)

(* schedule() starves nobody: a runnable process runs again, unless it is    *)
(* replaced, or the machine panics or stops.                                 *)
EveryProcessRuns ==
  \A pid \in Proc :
    p_state[pid] = "RUNNABLE"
      ~> \/ mode = "user" /\ current = pid
         \/ mode \in {"panic", "off"} \/ p_state[pid] = "FREE"

(* memshow_virtual_animate comes round to every process in use, although the *)
(* tick counter wraps and 0 doubles as "never switched".                      *)
EveryProcessShown ==
  \A pid \in Proc :
    p_state[pid] # "FREE"
      ~> showing = pid \/ mode # "user" \/ p_state[pid] = "FREE"

(* A build with TICK_LIMIT ends by itself: the test for equality in          *)
(* exception() is not jumped over, reboots or not.                           *)
UnattendedEnds ==
  TICK_LIMIT # 0 /\ ~OtherPrograms => <>(mode = "off")
=============================================================================
