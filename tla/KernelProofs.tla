---------------------------- MODULE KernelProofs ----------------------------
(***************************************************************************)
(* Proofs about Kernel: for any number of processes, any memory and any      *)
(* layout that keeps the programs apart, the asserts of check_virtual_memory *)
(* hold at every interrupt, a process owns its code, its stack and its heap  *)
(* alone, and no page is lost.                                               *)
(***************************************************************************)
EXTENDS Kernel, FiniteSetTheorems, WellFoundedInduction, TLAPS

Live == {pid \in Proc : p_state[pid] # "FREE"}
Programs == {"loop", "alloced", "yield", "spin"}

(* The heap of a process whose registers are r and whose heap ends at top,   *)
(* with the page it has just been given.                                     *)
HeapWith(pid, r, top) ==
  IF r.pc \in Programs
  THEN Base(pid) + ImageSize ..
         top + (IF r.pc = "alloced" /\ r.rax >= 0 THEN 1 ELSE 0) - 1
  ELSE {}

(* A process whose registers are r is where its program can be. *)
Sane(pid, r, top) ==
  /\ r.pc = "start" => r.rax = pid
  /\ r.pc \in Programs => top \in Base(pid) + ImageSize .. StackPage(pid)
  /\ r.pc = "alloced" => top < StackPage(pid)

(* It owns its pages alone and, unless it asks for others, has no others.    *)
Holds(pid, r, top, own, ref) ==
  /\ \A pg \in Loaded(pid) \cup HeapWith(pid, r, top) :
       own[pg] = pid /\ ref[pg] = 1
  /\ ~OtherPrograms =>
       \A pg \in Page : own[pg] = pid /\ ref[pg] > 0
         => pg \in Loaded(pid) \cup HeapWith(pid, r, top)

Accounts(pid) ==
  /\ Sane(pid, RegistersOf(pid), heap_top[pid])
  /\ Holds(pid, RegistersOf(pid), heap_top[pid], owner, refcount)

(* The asserts are inductive once the processes are known to be those that   *)
(* kernel() sets up, process 1 and the running one among them, and every     *)
(* process to account for its pages.                                         *)
IndInv ==
  /\ TypeOK
  /\ Live \subseteq 1 .. NSetup
  /\ 1 \in Live /\ current \in Live
  /\ check_virtual_memory
  /\ \A pid \in Live : Accounts(pid)

-----------------------------------------------------------------------------
(* Every set of numbers that is not empty has a least element. *)
LEMMA LeastNat ==
  ASSUME NEW T, T \subseteq Nat, T # {}
  PROVE  \E m \in T : \A n \in T : m <= n
<1> DEFINE Less == {p \in Nat \X Nat : p[1] < p[2]}
<1>1. Less = OpToRel(<, Nat)
  BY Zenon DEF OpToRel
<1>2. IsWellFoundedOn(Less, Nat)
  BY <1>1, NatLessThanWellFounded, Zenon
<1>3. \A x, y \in Nat : y < x => <<y, x>> \in Less
  BY Zenon
<1> HIDE DEF Less
<1>4. PICK x \in T : \A y \in T : ~(<<y, x>> \in Less)
  BY <1>2, WFMin, Zenon
<1>5. \A y \in T : ~(y < x)
  BY <1>3, <1>4, Zenon
<1>6. \A y \in T : x <= y
  BY <1>5
<1>7. QED
  BY <1>6, Zenon

(* The blocks of the programs lie in memory, above the kernel, one after the *)
(* other.                                                                    *)
LEMMA Blocks ==
  ASSUME NEW p \in 1 .. NSetup
  PROVE  /\ Base(p) \in Nat /\ ProcStart <= Base(p)
         /\ Base(p) + ProcSize <= NPages
         /\ \A q \in 1 .. NSetup : p < q => Base(p) + ProcSize <= Base(q)
<1> USE ProcAssumption, LayoutAssumption
<1>1. \A a, b \in Nat : a <= b => ProcSize * a <= ProcSize * b
  <2> SUFFICES ASSUME NEW a \in Nat, NEW b \in Nat, a <= b
               PROVE  ProcSize * a <= ProcSize * b
    BY Zenon
  <2>1. b - a \in Nat /\ ProcSize * (b - a) \in Nat
    OBVIOUS
  <2>2. ProcSize * b = ProcSize * a + ProcSize * (b - a)
    OBVIOUS
  <2>3. QED
    BY <2>1, <2>2
<1>2. \A a \in Nat : ProcSize * (a + 1) = ProcSize * a + ProcSize /\ ProcSize * a \in Nat
  OBVIOUS
<1>3. p - 1 \in Nat /\ p \in Nat /\ NSetup \in Nat
  OBVIOUS
<1>4. ProcSize * (p - 1) \in Nat /\ ProcSize * p = ProcSize * (p - 1) + ProcSize
  BY <1>2, <1>3
<1>5. ProcSize * p <= ProcSize * NSetup
  BY <1>1, <1>3
<1>6. ProcStart + ProcSize * NSetup <= NPages
  <2>1. Base(NSetup + 1) = ProcStart + ProcSize * NSetup
    BY <1>3 DEF Base
  <2>2. QED
    BY <2>1, Zenon
<1>7. \A q \in 1 .. NSetup : p < q => ProcSize * p <= ProcSize * (q - 1)
  BY <1>1, <1>3
<1>8. \A q \in 1 .. NSetup : Base(q) = ProcStart + ProcSize * (q - 1) /\ ProcSize * (q - 1) \in Nat
  BY <1>2 DEF Base
<1>9. QED
  BY <1>4, <1>5, <1>6, <1>7, <1>8, ProcSize * NSetup \in Nat

(* What a program is loaded with lies in its block, which belongs to nobody  *)
(* else.                                                                     *)
LEMMA LoadedApart ==
  ASSUME NEW p \in 1 .. NSetup
  PROVE  /\ Loaded(p) \subseteq Base(p) .. Base(p) + ProcSize - 1
         /\ Loaded(p) \subseteq Page
         /\ Loaded(p) \cap (KernelPages \cup Reserved) = {}
         /\ \A q \in 1 .. NSetup : q # p => Loaded(q) \cap Loaded(p) = {}
<1> USE ProcAssumption, LayoutAssumption
<1>1. \A q \in 1 .. NSetup :
        /\ Base(q) \in Nat /\ ProcStart <= Base(q) /\ Base(q) + ProcSize <= NPages
        /\ Loaded(q) \subseteq Base(q) .. Base(q) + ProcSize - 1
  BY Blocks DEF Loaded, Image, StackPage
<1>2. Loaded(p) \subseteq Page /\ Loaded(p) \cap (KernelPages \cup Reserved) = {}
  BY <1>1 DEF Page
<1>3. ASSUME NEW q \in 1 .. NSetup, q # p
      PROVE  Loaded(q) \cap Loaded(p) = {}
  <2>1. p < q \/ q < p
    BY <1>3
  <2>2. Base(p) + ProcSize <= Base(q) \/ Base(q) + ProcSize <= Base(p)
    BY <2>1, Blocks, Zenon
  <2>3. QED
    BY <1>1, <2>2
<1>4. QED
  BY <1>1, <1>2, <1>3, Zenon

(* Its heap lies in its block as well, between the image and the stack.      *)
LEMMA HeapInBlock ==
  ASSUME NEW p \in 1 .. NSetup, NEW r \in Registers, NEW top, Sane(p, r, top)
  PROVE  /\ HeapWith(p, r, top) \subseteq Base(p) .. Base(p) + ProcSize - 1
         /\ HeapWith(p, r, top) \subseteq Page
<1>1. Base(p) \in Nat /\ Base(p) + ProcSize <= NPages
  BY Blocks, Zenon
<1>2. CASE r.pc \in Programs
  BY <1>1, <1>2, LayoutAssumption DEF HeapWith, Sane, StackPage, Page
<1>3. CASE r.pc \notin Programs
  BY <1>3, Zenon DEF HeapWith
<1>4. QED
  BY <1>2, <1>3, Zenon

-----------------------------------------------------------------------------
(* Booting *)

Key == {"a", "f", "e"}

LEMMA SetUpIs ==
  ASSUME NEW key \in Key
  PROVE  /\ SetUp(key) \subseteq 1 .. NSetup /\ SetUp(key) \subseteq Proc \ {0}
         /\ 1 \in SetUp(key) /\ IsFiniteSet(SetUp(key))
         /\ Cardinality(SetUp(key)) \in 0 .. NPROC - 1
<1> USE ProcAssumption
<1>1. SetUp(key) \subseteq 1 .. NSetup /\ 1 \in SetUp(key)
  BY DEF SetUp
<1>2. 1 .. NSetup \subseteq Proc \ {0} /\ 1 .. NSetup \subseteq 1 .. NPROC - 1
  BY DEF Proc
<1>3. IsFiniteSet(1 .. NPROC - 1) /\ Cardinality(1 .. NPROC - 1) = NPROC - 1
  BY FS_Interval
<1>4. IsFiniteSet(SetUp(key)) /\ Cardinality(SetUp(key)) <= NPROC - 1
  BY <1>1, <1>2, <1>3, FS_Subset
<1>5. Cardinality(SetUp(key)) \in Nat
  BY <1>4, FS_CardinalityType, Zenon
<1>6. QED
  BY <1>1, <1>2, <1>4, <1>5

(* The states and registers that process_setup leaves.                       *)
LEMMA BootProcesses ==
  ASSUME NEW key \in Key
  PROVE  /\ BootState(key) \in [Proc -> {"FREE", "RUNNABLE", "BROKEN"}]
         /\ {pid \in Proc : BootState(key)[pid] # "FREE"} = SetUp(key)
         /\ BootRegisters(key) \in [Proc -> Registers]
         /\ \A pid \in Proc : BootRegisters(key)[pid].pc \in {"none", "getpid", "fork", "forkexit"}
<1>1. SetUp(key) \subseteq Proc /\ 0 \in Proc
  BY SetUpIs, ProcAssumption DEF Proc
<1>2. /\ BootState(key) \in [Proc -> {"FREE", "RUNNABLE", "BROKEN"}]
      /\ {pid \in Proc : BootState(key)[pid] # "FREE"} = SetUp(key)
  BY <1>1, Zenon DEF BootState
<1>3. [a |-> "getpid", f |-> "fork", e |-> "forkexit"][key] \in {"getpid", "fork", "forkexit"}
  BY DEF Key
<1>4. QED
  BY <1>1, <1>2, <1>3, Zenon DEF BootRegisters, Registers

(* pageinfo_init, program_load and process_setup give every page to the one  *)
(* that is to have it.                                                       *)
LEMMA BootPages ==
  ASSUME NEW key \in Key
  PROVE  /\ BootOwner(key) \in [Page -> {PO_RESERVED, PO_KERNEL} \cup Proc]
         /\ \A pid \in SetUp(key) : \A pg \in Loaded(pid) :
              pg \in Page /\ BootOwner(key)[pg] = pid
         /\ \A pg \in KernelPages : pg \in Page /\ BootOwner(key)[pg] = PO_KERNEL
         /\ \A pg \in Page : BootOwner(key)[pg] \in Proc \ {0} =>
              BootOwner(key)[pg] \in SetUp(key) /\ pg \in Loaded(BootOwner(key)[pg])
<1> USE ProcAssumption, LayoutAssumption
<1> DEFINE own(pg) == BootOwner(key)[pg]
           mine(pg) == {pid \in SetUp(key) : pg \in Loaded(pid)}
<1>1. SetUp(key) \subseteq 1 .. NSetup /\ SetUp(key) \subseteq Proc \ {0}
  BY SetUpIs, Zenon
<1>2. \A pg \in Page : pageinfo_init(pg) \in {PO_RESERVED, PO_KERNEL, PO_FREE}
  BY Zenon DEF pageinfo_init
<1>3. \A pg \in KernelPages : pg \in Page /\ pageinfo_init(pg) = PO_KERNEL
  <2>1. \A pg \in KernelPages : pg \notin Reserved /\ pg \in KernelPages \ Reserved
    BY Zenon
  <2>2. ProcStart <= NPages
    BY Blocks, 1 \in 1 .. NSetup
  <2>3. QED
    BY <2>1, <2>2 DEF pageinfo_init, Page
<1>4. ASSUME NEW pg \in Page, NEW pid \in SetUp(key), pg \in Loaded(pid)
      PROVE  own(pg) = pid
  <2>1. \A q \in SetUp(key) : pg \in Loaded(q) => q = pid
    BY <1>1, <1>4, LoadedApart, Zenon
  <2>2. (CHOOSE q \in SetUp(key) : pg \in Loaded(q)) = pid
    BY <1>4, <2>1, Zenon
  <2>3. QED
    BY <1>4, <2>2, Zenon DEF BootOwner
<1>5. ASSUME NEW pg \in Page, \A pid \in SetUp(key) : pg \notin Loaded(pid)
      PROVE  own(pg) = pageinfo_init(pg)
  BY <1>5, Zenon DEF BootOwner
<1>6. \A pid \in SetUp(key) : Loaded(pid) \subseteq Page /\ Loaded(pid) \cap KernelPages = {}
  BY <1>1, LoadedApart, Zenon
<1>7. \A pg \in Page : own(pg) \in {PO_RESERVED, PO_KERNEL, PO_FREE} \/ \E pid \in SetUp(key) : pg \in Loaded(pid) /\ own(pg) = pid
  BY <1>2, <1>4, <1>5, Zenon
<1>8. BootOwner(key) = [pg \in Page |-> own(pg)]
  BY Zenon DEF BootOwner
<1>9. PO_FREE \in Proc /\ PO_FREE = 0 /\ PO_RESERVED \notin Proc /\ PO_KERNEL \notin Proc
  BY DEF PO_FREE, PO_RESERVED, PO_KERNEL, Proc
<1>10. BootOwner(key) \in [Page -> {PO_RESERVED, PO_KERNEL} \cup Proc]
  BY <1>1, <1>7, <1>8, <1>9, Zenon
<1>11. \A pg \in KernelPages : own(pg) = PO_KERNEL
  BY <1>3, <1>5, <1>6, Zenon
<1>12. \A pg \in Page : own(pg) \in Proc \ {0} => own(pg) \in SetUp(key) /\ pg \in Loaded(own(pg))
  BY <1>7, <1>9, Zenon
<1>13. QED
  BY <1>3, <1>4, <1>6, <1>10, <1>11, <1>12, Zenon

(* After booting each page is counted once, but for the one that holds the   *)
(* page table all processes share.                                           *)
LEMMA BootCounts ==
  ASSUME NEW key \in Key
  PROVE  /\ BootRefcount(key) \in [Page -> 0 .. NPROC]
         /\ BootRefcount(key)[KPT] = 1 + Cardinality(SetUp(key))
         /\ \A pg \in KernelPages \ {KPT} : BootRefcount(key)[pg] = 1
         /\ \A pid \in SetUp(key) : \A pg \in Loaded(pid) : BootRefcount(key)[pg] = 1
         /\ \A pg \in Page : BootOwner(key)[pg] = 0 => BootRefcount(key)[pg] = 0
<1> USE ProcAssumption, LayoutAssumption
<1>1. Cardinality(SetUp(key)) \in 0 .. NPROC - 1
  BY SetUpIs, Zenon
<1>2. \A pg \in Page : BootRefcount(key)[pg] =
        IF pg = KPT THEN 1 + Cardinality(SetUp(key)) ELSE IF BootOwner(key)[pg] = 0 THEN 0 ELSE 1
  BY Zenon DEF BootRefcount, PO_FREE
<1>3. BootRefcount(key) \in [Page -> 0 .. NPROC]
  <2>1. 1 + Cardinality(SetUp(key)) \in 0 .. NPROC /\ 0 \in 0 .. NPROC /\ 1 \in 0 .. NPROC
    BY <1>1
  <2>2. QED
    BY <2>1, Zenon DEF BootRefcount
<1>4. \A pg \in KernelPages : pg \in Page /\ BootOwner(key)[pg] = PO_KERNEL /\ PO_KERNEL # 0
  BY BootPages DEF PO_KERNEL
<1>5. \A pid \in SetUp(key) : \A pg \in Loaded(pid) :
        pg \in Page /\ pg # KPT /\ BootOwner(key)[pg] = pid /\ pid # 0
  BY BootPages, LoadedApart, SetUpIs
<1>6. QED
  BY <1>2, <1>3, <1>4, <1>5, Zenon

(* So every process that kernel() sets up accounts for its pages.            *)
LEMMA BootHolds ==
  ASSUME NEW key \in Key, NEW pid \in SetUp(key), NEW top
  PROVE  /\ Sane(pid, BootRegisters(key)[pid], top)
         /\ \A pg \in Loaded(pid) \cup HeapWith(pid, BootRegisters(key)[pid], top) :
              BootOwner(key)[pg] = pid /\ BootRefcount(key)[pg] = 1
         /\ \A pg \in Page : BootOwner(key)[pg] = pid /\ BootRefcount(key)[pg] > 0
              => pg \in Loaded(pid) \cup HeapWith(pid, BootRegisters(key)[pid], top)
<1>1. pid \in Proc \ {0}
  BY SetUpIs, Zenon
<1>2. BootRegisters(key)[pid].pc \in {"none", "getpid", "fork", "forkexit"}
  BY <1>1, BootProcesses, Zenon
<1>3. HeapWith(pid, BootRegisters(key)[pid], top) = {}
  BY <1>2, Zenon DEF HeapWith, Programs
<1>4. Sane(pid, BootRegisters(key)[pid], top)
  BY <1>2, Zenon DEF Sane, Programs
<1>5. \A pg \in Loaded(pid) : BootOwner(key)[pg] = pid /\ BootRefcount(key)[pg] = 1
  BY BootPages, BootCounts
<1>6. \A pg \in Page : BootOwner(key)[pg] = pid => pg \in Loaded(pid)
  BY <1>1, BootPages
<1>7. QED
  BY <1>3, <1>4, <1>5, <1>6, Zenon

(* The state in which kernel() runs the first process, when the machine is   *)
(* turned on and after a soft reboot.                                        *)
Booted ==
  \E key \in Key :
    /\ TICK_LIMIT \in Limits /\ OtherPrograms \in Builds
    /\ p_state = BootState(key)
    /\ p_registers = BootRegisters(key)
    /\ owner = BootOwner(key)
    /\ refcount = BootRefcount(key)
    /\ current = 1 /\ cpu = BootRegisters(key)[1] /\ mode = "user"
    /\ mypid = Zero /\ heap_top = Zero
    /\ ticks \in 0 .. TickMod - 1 /\ last_ticks \in 0 .. TickMod - 1 /\ showing \in Proc

LEMMA BootedInd == Booted => IndInv
<1> SUFFICES ASSUME Booted PROVE IndInv
  BY Zenon
<1>1. PICK key \in Key :
        /\ TICK_LIMIT \in Limits /\ OtherPrograms \in Builds
        /\ p_state = BootState(key)
        /\ p_registers = BootRegisters(key)
        /\ owner = BootOwner(key)
        /\ refcount = BootRefcount(key)
        /\ current = 1 /\ cpu = BootRegisters(key)[1] /\ mode = "user"
        /\ mypid = Zero /\ heap_top = Zero
        /\ ticks \in 0 .. TickMod - 1 /\ last_ticks \in 0 .. TickMod - 1 /\ showing \in Proc
  BY Zenon DEF Booted
<1> USE ProcAssumption, LayoutAssumption, TimeAssumption
<1>2. 0 \in Proc /\ 1 \in Proc \ {0}
  BY DEF Proc
<1>3. Live = SetUp(key) /\ 1 \in SetUp(key) /\ SetUp(key) \subseteq 1 .. NSetup
  BY <1>1, BootProcesses, SetUpIs, Zenon DEF Live
<1>4. TypeOK
  <2>1. p_state \in [Proc -> {"FREE", "RUNNABLE", "BROKEN"}] /\ p_registers \in [Proc -> Registers]
    BY <1>1, BootProcesses, Zenon
  <2>2. owner \in [Page -> {PO_RESERVED, PO_KERNEL} \cup Proc] /\ refcount \in [Page -> 0 .. NPROC]
    BY <1>1, BootPages, BootCounts, Zenon
  <2>3. cpu \in Registers
    BY <1>1, <1>2, <2>1, Zenon
  <2>4. mypid \in [Proc -> Proc] /\ heap_top \in [Proc -> 0 .. NPages]
    BY <1>1, <1>2 DEF Zero
  <2>5. QED
    BY <1>1, <1>2, <2>1, <2>2, <2>3, <2>4, Zenon DEF TypeOK
<1>5. \A pid \in Live : Accounts(pid)
  <2> SUFFICES ASSUME NEW pid \in Live PROVE Accounts(pid)
    BY Zenon
  <2>1. RegistersOf(pid) = BootRegisters(key)[pid]
    BY <1>1, Zenon DEF RegistersOf
  <2>2. pid \in SetUp(key)
    BY <1>3, Zenon
  <2>3. Sane(pid, RegistersOf(pid), heap_top[pid])
    BY <2>1, <2>2, BootHolds
  <2>4. Holds(pid, RegistersOf(pid), heap_top[pid], owner, refcount)
    <3> DEFINE r == BootRegisters(key)[pid]
               t == heap_top[pid]
    <3>1. /\ \A pg \in Loaded(pid) \cup HeapWith(pid, r, t) :
               BootOwner(key)[pg] = pid /\ BootRefcount(key)[pg] = 1
          /\ \A pg \in Page : BootOwner(key)[pg] = pid /\ BootRefcount(key)[pg] > 0
               => pg \in Loaded(pid) \cup HeapWith(pid, r, t)
      BY <2>2, BootHolds
    <3> HIDE DEF r, t
    <3>2. Holds(pid, r, t, BootOwner(key), BootRefcount(key))
      BY <3>1, Zenon DEF Holds
    <3>3. QED
      BY <1>1, <2>1, <3>2, Zenon DEF r, t
  <2>5. QED
    BY <2>3, <2>4, Zenon DEF Accounts
<1>6. check_virtual_memory
  <2>1. p_state[0] = "FREE"
    BY <1>2, <1>3 DEF Live
  <2>2. \A pg \in KernelPages : owner[pg] = PO_KERNEL
    BY <1>1, BootPages, Zenon
  <2>3. refcount[KPT] = 1 + Cardinality({pid \in Proc : p_state[pid] # "FREE"})
    BY <1>1, <1>3, BootCounts, Zenon DEF Live
  <2>4. \A pg \in KernelPages \ {KPT} : refcount[pg] = 1
    BY <1>1, BootCounts, Zenon
  <2>5. ASSUME NEW pg \in Page, refcount[pg] > 0, owner[pg] >= 0
        PROVE  p_state[owner[pg]] # "FREE"
    <3>1. owner[pg] \in Proc /\ owner[pg] # 0
      BY <1>1, <1>4, <2>5, BootCounts DEF TypeOK, PO_RESERVED, PO_KERNEL
    <3>2. owner[pg] \in Live
      BY <1>1, <1>3, <3>1, BootPages, Zenon
    <3>3. QED
      BY <3>2, Zenon DEF Live
  <2>6. QED
    BY <2>1, <2>2, <2>3, <2>4, <2>5, Zenon DEF check_virtual_memory
<1>7. QED
  BY <1>1, <1>3, <1>4, <1>5, <1>6, Zenon DEF IndInv

LEMMA InitInd == Init => IndInv
<1>1. Init => Booted
  BY ProcAssumption, TimeAssumption DEF Init, Booted, Key, Proc
<1>2. QED
  BY <1>1, BootedInd, Zenon

-----------------------------------------------------------------------------
(* What the parts of exception() do *)

(* memshow_virtual_animate leaves a valid index in showing: the loop that    *)
(* passes over free descriptors ends.                                        *)
LEMMA AnimateType ==
  ASSUME TypeOK, memshow_virtual_animate
  PROVE  showing' \in Proc /\ last_ticks' \in 0 .. TickMod - 1
<1> USE ProcAssumption
<1>1. ASSUME NEW s \in 0 .. NPROC
      PROVE  SkipFree(s) \in Nat
  <2> DEFINE Stops == {x \in s .. 2 * NPROC + 1 : x > 2 * NPROC \/ p_state[x % NPROC] # "FREE"}
  <2>1. Stops \subseteq Nat /\ 2 * NPROC + 1 \in Stops
    BY <1>1
  <2>2. PICK m \in Stops : \A n \in Stops : m <= n
    <3> HIDE DEF Stops
    <3>1. QED
      BY <2>1, LeastNat, Zenon
  <2>3. \A y \in s .. m - 1 : y \notin Stops
    <3>1. m \in Nat /\ \A y \in s .. m - 1 : y < m
      BY <2>1
    <3> HIDE DEF Stops
    <3>2. QED
      BY <2>1, <2>2, <3>1
  <2>4. \A y \in s .. m - 1 : p_state[y % NPROC] = "FREE"
    BY <1>1, <2>3
  <2>5. \E x \in s .. 2 * NPROC + 1 :
          /\ x > 2 * NPROC \/ p_state[x % NPROC] # "FREE"
          /\ \A y \in s .. x - 1 : p_state[y % NPROC] = "FREE"
    BY <2>4, Zenon
  <2>6. SkipFree(s) \in s .. 2 * NPROC + 1
    BY <2>5, Zenon DEF SkipFree
  <2>7. QED
    BY <1>1, <2>6
<1>2. showing \in 0 .. NPROC /\ showing + 1 \in 0 .. NPROC
  BY DEF TypeOK, Proc
<1>3. \A n \in Nat : n % NPROC \in Proc
  BY DEF Proc
<1>4. showing' \in Proc
  BY <1>1, <1>2, <1>3, Zenon DEF memshow_virtual_animate
<1>5. QED
  BY <1>4, Zenon DEF memshow_virtual_animate, TypeOK

(* Where execution goes on, every process has the registers saved for it.    *)
LEMMA RunIs ==
  ASSUME NEW regs \in [Proc -> Registers], NEW p \in Proc, run(p, regs)
  PROVE  /\ mode' = "user" /\ current' = p
         /\ cpu' \in Registers /\ p_registers' \in [Proc -> Registers]
         /\ \A q \in Proc : RegistersOf(q)' = regs[q]
BY Zenon DEF run, RegistersOf

(* schedule() finds a runnable process if there is one. *)
LEMMA ScheduleIs ==
  ASSUME TypeOK, NEW regs \in [Proc -> Registers], NEW states, schedule(states, regs)
  PROVE  /\ mode' \in {"user", "idle"}
         /\ current' = current \/ (current' \in Proc /\ states[current'] = "RUNNABLE")
         /\ cpu' \in Registers /\ p_registers' \in [Proc -> Registers]
         /\ \A q \in Proc : RegistersOf(q)' = regs[q]
<1> DEFINE ready == {p \in Proc : states[p] = "RUNNABLE"}
           best == CHOOSE p \in ready : \A r \in ready : Turns(p) <= Turns(r)
<1>1. CASE ready = {}
  <2>1. mode' = "idle" /\ p_registers' = regs /\ UNCHANGED <<current, cpu>>
    BY <1>1, Zenon DEF schedule
  <2>2. QED
    BY <2>1, Zenon DEF TypeOK, RegistersOf
<1>2. CASE ready # {}
  <2>1. \A p \in ready : Turns(p) \in Nat
    BY ProcAssumption DEF Turns, TypeOK, Proc
  <2> DEFINE T == {Turns(p) : p \in ready}
  <2>2. T \subseteq Nat /\ T # {}
    BY <1>2, <2>1, Zenon
  <2>3. PICK m \in T : \A n \in T : m <= n
    <3> HIDE DEF T
    <3>1. QED
      BY <2>2, LeastNat, Zenon
  <2>4. \E p \in ready : \A r \in ready : Turns(p) <= Turns(r)
    BY <2>3, Zenon
  <2>5. best \in ready
    BY <2>4, Zenon
  <2>6. run(best, regs)
    BY <1>2, Zenon DEF schedule
  <2> HIDE DEF best
  <2>7. best \in Proc /\ states[best] = "RUNNABLE"
    BY <2>5, Zenon
  <2>8. QED
    BY <2>6, <2>7, RunIs, Zenon
<1>3. QED
  BY <1>1, <1>2, Zenon

-----------------------------------------------------------------------------
(* How a step keeps the invariant *)

LEMMA OwnersAre ==
  ASSUME TypeOK
  PROVE  0 \in Proc /\ \A pg \in Page : owner[pg] >= 0 => owner[pg] \in Proc
<1>1. owner \in [Page -> {PO_RESERVED, PO_KERNEL} \cup Proc]
  BY Zenon DEF TypeOK
<1>2. QED
  BY <1>1, ProcAssumption DEF Proc, PO_RESERVED, PO_KERNEL

LEMMA LiveFinite == IsFiniteSet(Proc) /\ IsFiniteSet(Live) /\ Cardinality(Live) \in Nat
<1>1. 0 \in Int /\ NPROC - 1 \in Int
  BY ProcAssumption
<1>2. IsFiniteSet(Proc)
  BY <1>1, FS_Interval, Zenon DEF Proc
<1>3. IsFiniteSet(Live)
  BY <1>2, FS_Subset, Zenon DEF Live
<1>4. QED
  BY <1>2, <1>3, FS_CardinalityType, Zenon

(* A step that gives no page away and that leaves every process the heap it  *)
(* had.                                                                      *)
LEMMA KeepsPages ==
  ASSUME IndInv, TypeOK', Live' = Live, current' \in Live,
         UNCHANGED <<owner, refcount, OtherPrograms>>,
         \A q \in Live :
           /\ Sane(q, RegistersOf(q)', heap_top'[q])
           /\ HeapWith(q, RegistersOf(q)', heap_top'[q]) =
                HeapWith(q, RegistersOf(q), heap_top[q])
  PROVE  IndInv'
<1>1. \A q \in Live : Accounts(q)'
  <2> SUFFICES ASSUME NEW q \in Live PROVE Accounts(q)'
    BY Zenon
  <2>1. Holds(q, RegistersOf(q), heap_top[q], owner, refcount)
    BY Zenon DEF IndInv, Accounts
  <2>2. Holds(q, RegistersOf(q), heap_top[q], owner, refcount)'
    BY <2>1, Zenon DEF Holds
  <2>3. QED
    BY <2>2, Zenon DEF Accounts
<1>2. check_virtual_memory'
  <2>1. {pid \in Proc : p_state[pid] # "FREE"}' = {pid \in Proc : p_state[pid] # "FREE"}
    BY Zenon DEF Live
  <2>2. \A pid \in Proc : p_state'[pid] # "FREE" <=> p_state[pid] # "FREE"
    BY <2>1, Zenon
  <2>3. 0 \in Proc /\ \A pg \in Page : owner[pg] >= 0 => owner[pg] \in Proc
    BY OwnersAre, Zenon DEF IndInv
  <2>4. QED
    BY <2>1, <2>2, <2>3, Zenon DEF check_virtual_memory, IndInv
<1>3. QED
  BY <1>1, <1>2, Zenon DEF IndInv

(* A step that gives the free page x to the running process, which has no    *)
(* other new page in its heap.  Only another program's request may give it a *)
(* page that is not to be part of the heap.                                  *)
LEMMA TakesPage ==
  ASSUME IndInv, TypeOK', Live' = Live, current' \in Live, UNCHANGED OtherPrograms,
         NEW x \in Page, refcount[x] = 0,
         owner' = [owner EXCEPT ![x] = current],
         refcount' = [refcount EXCEPT ![x] = 1],
         \A q \in Live :
           /\ Sane(q, RegistersOf(q)', heap_top'[q])
           /\ \/ /\ q # current \/ OtherPrograms
                 /\ HeapWith(q, RegistersOf(q)', heap_top'[q]) =
                      HeapWith(q, RegistersOf(q), heap_top[q])
              \/ /\ q = current
                 /\ HeapWith(q, RegistersOf(q)', heap_top'[q]) =
                      HeapWith(q, RegistersOf(q), heap_top[q]) \cup {x}
  PROVE  IndInv'
<1>1. /\ owner \in [Page -> {PO_RESERVED, PO_KERNEL} \cup Proc]
      /\ refcount \in [Page -> 0 .. NPROC]
      /\ current \in Proc /\ current >= 0
  BY DEF IndInv, TypeOK, Proc
<1>2. /\ owner'[x] = current /\ refcount'[x] = 1
      /\ \A pg \in Page \ {x} : owner'[pg] = owner[pg] /\ refcount'[pg] = refcount[pg]
  BY <1>1, Zenon
<1>3. ASSUME NEW q \in Live
      PROVE  Accounts(q)'
  <2> DEFINE h == HeapWith(q, RegistersOf(q), heap_top[q])
             g == HeapWith(q, RegistersOf(q)', heap_top'[q])
  <2>1. q \in 1 .. NSetup /\ RegistersOf(q) \in Registers /\ Sane(q, RegistersOf(q), heap_top[q])
    BY Zenon DEF IndInv, Accounts, TypeOK, RegistersOf, Live
  <2>2. Loaded(q) \cup h \subseteq Page
    BY <2>1, LoadedApart, HeapInBlock, Zenon
  <2>3. Holds(q, RegistersOf(q), heap_top[q], owner, refcount)
    BY Zenon DEF IndInv, Accounts
  <2>4. \A pg \in Loaded(q) \cup h : owner[pg] = q /\ refcount[pg] = 1
    BY <2>3, Zenon DEF Holds
  <2>5. x \notin Loaded(q) \cup h
    BY <2>4
  <2>6. ~OtherPrograms => \A pg \in Page : owner[pg] = q /\ refcount[pg] > 0 => pg \in Loaded(q) \cup h
    BY <2>3, Zenon DEF Holds
  <2>7. (q = current /\ g = h \cup {x}) \/ ((q # current \/ OtherPrograms) /\ g = h)
    BY <1>3, Zenon
  <2> HIDE DEF h, g
  <2>8. \A pg \in Loaded(q) \cup g : owner'[pg] = q /\ refcount'[pg] = 1
    BY <1>2, <2>2, <2>4, <2>5, <2>7
  <2>9. ~OtherPrograms => \A pg \in Page : owner'[pg] = q /\ refcount'[pg] > 0 => pg \in Loaded(q) \cup g
    BY <1>2, <2>6, <2>7, Zenon
  <2>10. Holds(q, RegistersOf(q), heap_top[q], owner, refcount)'
    BY <2>8, <2>9, Zenon DEF Holds, g
  <2>11. QED
    BY <1>3, <2>10, Zenon DEF Accounts
<1>4. check_virtual_memory'
  <2>1. {pid \in Proc : p_state[pid] # "FREE"}' = {pid \in Proc : p_state[pid] # "FREE"}
    BY Zenon DEF Live
  <2>2. \A pid \in Proc : p_state'[pid] # "FREE" <=> p_state[pid] # "FREE"
    BY <2>1, Zenon
  <2>3. 0 \in Proc /\ \A pg \in Page : owner[pg] >= 0 => owner[pg] \in Proc
    BY OwnersAre, Zenon DEF IndInv
  <2>4. check_virtual_memory
    BY Zenon DEF IndInv
  <2>5. KernelPages \subseteq Page /\ KPT \in KernelPages /\ x \notin KernelPages
    <3>1. ProcStart <= NPages
      <4>1. 1 \in 1 .. NSetup
        BY ProcAssumption
      <4>2. QED
        BY <4>1, Blocks, LayoutAssumption
    <3>2. KernelPages \subseteq Page /\ KPT \in KernelPages
      BY <3>1, LayoutAssumption DEF Page
    <3>3. Cardinality({pid \in Proc : p_state[pid] # "FREE"}) \in Nat
      BY LiveFinite, Zenon DEF Live
    <3>4. \A pg \in KernelPages : refcount[pg] # 0
      BY <2>4, <3>3 DEF check_virtual_memory
    <3>5. QED
      BY <3>2, <3>4, Zenon
  <2>6. current \in Live /\ p_state'[current] # "FREE"
    BY SMTT(30) DEF IndInv, Live
  <2>7. \A pg \in Page : refcount'[pg] > 0 /\ owner'[pg] >= 0 => p_state'[owner'[pg]] # "FREE"
    BY <1>2, <2>2, <2>3, <2>4, <2>6 DEF check_virtual_memory
  <2>8. /\ owner'[KPT] = owner[KPT] /\ refcount'[KPT] = refcount[KPT]
        /\ \A pg \in KernelPages : owner'[pg] = owner[pg] /\ refcount'[pg] = refcount[pg]
    BY <1>2, <2>5, Zenon
  <2>9. QED
    BY <2>1, <2>2, <2>3, <2>4, <2>7, <2>8, Zenon DEF check_virtual_memory
<1>5. QED
  BY <1>3, <1>4, Zenon DEF IndInv

-----------------------------------------------------------------------------
(* exception() *)

PC == {"none", "getpid", "start", "loop", "alloced", "yield", "spin", "fork", "forkexit"}

LEMMA SavedIs ==
  ASSUME IndInv, NEW pc \in PC
  PROVE  /\ Saved(pc) \in [Proc -> Registers]
         /\ [cpu EXCEPT !.pc = pc] \in Registers
         /\ Saved(pc)[current] = [cpu EXCEPT !.pc = pc]
         /\ \A q \in Proc : q # current => Saved(pc)[q] = p_registers[q]
         /\ Saved(cpu.pc)[current] = cpu
<1>1. cpu \in Registers /\ p_registers \in [Proc -> Registers] /\ current \in Proc
  BY Zenon DEF IndInv, TypeOK
<1>2. [cpu EXCEPT !.pc = pc] \in Registers /\ [cpu EXCEPT !.pc = cpu.pc] = cpu
  BY <1>1, Zenon DEF Registers, PC
<1>3. QED
  BY <1>1, <1>2, Zenon DEF Saved

(* What is in common to the interrupts that leave the pages alone: the       *)
(* running process goes on with registers r and keeps its heap.              *)
LEMMA InterruptInd ==
  ASSUME IndInv, Enter, NEW r \in Registers,
         \A q \in Proc : RegistersOf(q)' = IF q = current THEN r ELSE p_registers[q],
         Sane(current, r, heap_top[current]),
         HeapWith(current, r, heap_top[current]) =
           HeapWith(current, cpu, heap_top[current]),
         mode' \in {"user", "idle", "panic", "off"},
         cpu' \in Registers, p_registers' \in [Proc -> Registers], current' \in Live,
         p_state' \in [Proc -> {"FREE", "RUNNABLE", "BROKEN"}], Live' = Live,
         ticks' \in 0 .. TickMod - 1,
         UNCHANGED <<pageinfo, program>>
  PROVE  IndInv'
<1>1. mode = "user" /\ showing' \in Proc /\ last_ticks' \in 0 .. TickMod - 1 /\ UNCHANGED build
  BY AnimateType, Zenon DEF Enter, IndInv
<1>2. current' \in Proc \ {0}
  <2>1. Live \subseteq Proc \ {0}
    BY Zenon DEF IndInv, Live, check_virtual_memory
  <2>2. QED
    BY <2>1, SMTT(30)
<1>3. TypeOK'
  BY <1>1, <1>2, SMTT(30) DEF TypeOK, IndInv, build, pageinfo, program
<1>4. ASSUME NEW q \in Live
      PROVE  /\ Sane(q, RegistersOf(q)', heap_top'[q])
             /\ HeapWith(q, RegistersOf(q)', heap_top'[q]) =
                  HeapWith(q, RegistersOf(q), heap_top[q])
  <2>1. heap_top' = heap_top /\ q \in Proc
    BY Zenon DEF program, Live
  <2>2. CASE q = current
    <3>1. RegistersOf(q)' = r /\ RegistersOf(q) = cpu
      BY <1>1, <2>1, <2>2, Zenon DEF RegistersOf
    <3>2. QED
      BY <2>1, <2>2, <3>1, Zenon
  <2>3. CASE q # current
    <3>1. RegistersOf(q)' = p_registers[q] /\ RegistersOf(q) = p_registers[q]
      BY <2>1, <2>3, Zenon DEF RegistersOf
    <3>2. Sane(q, RegistersOf(q), heap_top[q])
      BY <1>4, Zenon DEF IndInv, Accounts
    <3>3. QED
      BY <2>1, <3>1, <3>2, Zenon
  <2>4. QED
    BY <2>2, <2>3, Zenon
<1>5. UNCHANGED <<owner, refcount, OtherPrograms>>
  BY <1>1, Zenon DEF build, pageinfo
<1>6. QED
  BY <1>3, <1>4, <1>5, KeepsPages, Zenon

(* Where the running process is, and what its registers are worth. *)
LEMMA RunningIs ==
  ASSUME IndInv, mode = "user"
  PROVE  /\ current \in 1 .. NSetup /\ current \in Proc \ {0} /\ cpu \in Registers
         /\ Sane(current, cpu, heap_top[current])
         /\ Holds(current, cpu, heap_top[current], owner, refcount)
         /\ heap_top[current] \in 0 .. NPages
<1>1. RegistersOf(current) = cpu
  BY Zenon DEF RegistersOf
<1>2. QED
  BY <1>1, Zenon DEF IndInv, Accounts, TypeOK

(* schedule() after the registers of the running process have been saved.    *)
LEMMA ScheduledInd ==
  ASSUME IndInv, Enter, NEW pc \in PC,
         Sane(current, [cpu EXCEPT !.pc = pc], heap_top[current]),
         HeapWith(current, [cpu EXCEPT !.pc = pc], heap_top[current]) =
           HeapWith(current, cpu, heap_top[current]),
         schedule(p_state', Saved(pc)),
         p_state' \in [Proc -> {"FREE", "RUNNABLE", "BROKEN"}], Live' = Live,
         ticks' \in 0 .. TickMod - 1, UNCHANGED <<pageinfo, program>>
  PROVE  IndInv'
<1> DEFINE r == [cpu EXCEPT !.pc = pc]
<1>1. /\ Saved(pc) \in [Proc -> Registers] /\ r \in Registers
      /\ \A q \in Proc : Saved(pc)[q] = IF q = current THEN r ELSE p_registers[q]
  BY SavedIs, Zenon
<1>2. /\ mode' \in {"user", "idle"}
      /\ current' = current \/ (current' \in Proc /\ p_state'[current'] = "RUNNABLE")
      /\ cpu' \in Registers /\ p_registers' \in [Proc -> Registers]
      /\ \A q \in Proc : RegistersOf(q)' = Saved(pc)[q]
  BY <1>1, ScheduleIs, Zenon DEF IndInv
<1>3. current' \in Live
  BY <1>2, Zenon DEF Live, IndInv
<1>4. \A q \in Proc : RegistersOf(q)' = IF q = current THEN r ELSE p_registers[q]
  BY <1>1, <1>2, Zenon
<1>5. Sane(current, r, heap_top[current]) /\ HeapWith(current, r, heap_top[current]) = HeapWith(current, cpu, heap_top[current])
  BY Zenon
<1> HIDE DEF r
<1>6. QED
  BY <1>1, <1>2, <1>3, <1>4, <1>5, InterruptInd, Zenon

LEMMA TimerInd == ASSUME IndInv, Timer PROVE IndInv'
<1>1. mode = "user" /\ Enter
  BY Zenon DEF Timer, Exception, Enter
<1>2. cpu.pc \in PC /\ [cpu EXCEPT !.pc = cpu.pc] = cpu
  BY <1>1, RunningIs, Zenon DEF Registers, PC
<1>3. ticks' \in 0 .. TickMod - 1
  BY TimeAssumption DEF Timer, IndInv, TypeOK
<1>4. schedule(p_state', Saved(cpu.pc)) /\ p_state' = p_state /\ UNCHANGED <<pageinfo, program>>
  BY Zenon DEF Timer, schedule
<1>5. Live' = Live /\ p_state' \in [Proc -> {"FREE", "RUNNABLE", "BROKEN"}]
  BY <1>4, Zenon DEF Live, IndInv, TypeOK
<1>6. Sane(current, [cpu EXCEPT !.pc = cpu.pc], heap_top[current])
  BY <1>1, <1>2, RunningIs, Zenon
<1>7. QED
  BY <1>1, <1>2, <1>3, <1>4, <1>5, <1>6, ScheduledInd, Zenon

LEMMA YieldInd == ASSUME IndInv, sys_yield PROVE IndInv'
<1> DEFINE pc == IF cpu.pc = "yield" THEN "loop" ELSE cpu.pc
<1>1. mode = "user" /\ Enter /\ cpu.pc \in {"loop", "yield", "spin", "forkexit"}
  BY Zenon DEF sys_yield, Exception, Enter, Calls
<1>2. pc \in PC
  BY <1>1, Zenon DEF PC
<1>3. ticks' \in 0 .. TickMod - 1
  BY Zenon DEF sys_yield, IndInv, TypeOK
<1>4. schedule(p_state', Saved(pc)) /\ p_state' = p_state /\ UNCHANGED <<pageinfo, program>>
  BY Zenon DEF sys_yield, schedule
<1>5. Live' = Live /\ p_state' \in [Proc -> {"FREE", "RUNNABLE", "BROKEN"}]
  BY <1>4, Zenon DEF Live, IndInv, TypeOK
<1>6. [cpu EXCEPT !.pc = pc].pc = pc /\ [cpu EXCEPT !.pc = pc].rax = cpu.rax
  BY <1>1, RunningIs, Zenon DEF Registers
<1>7. Sane(current, [cpu EXCEPT !.pc = pc], heap_top[current])
  BY <1>1, <1>6, RunningIs DEF Sane, Programs
<1>8. HeapWith(current, [cpu EXCEPT !.pc = pc], heap_top[current]) = HeapWith(current, cpu, heap_top[current])
  BY <1>1, <1>6 DEF HeapWith, Programs
<1> HIDE DEF pc
<1>9. QED
  BY <1>1, <1>2, <1>3, <1>4, <1>5, <1>7, <1>8, ScheduledInd, Zenon

LEMMA PageFaultInd == ASSUME IndInv, PageFault PROVE IndInv'
<1>1. mode = "user" /\ Enter
  BY Zenon DEF PageFault, Exception, Enter
<1>2. cpu.pc \in PC /\ [cpu EXCEPT !.pc = cpu.pc] = cpu
  BY <1>1, RunningIs, Zenon DEF Registers, PC
<1>3. ticks' \in 0 .. TickMod - 1
  BY Zenon DEF PageFault, IndInv, TypeOK
<1>4. schedule(p_state', Saved(cpu.pc)) /\ UNCHANGED <<pageinfo, program>> /\ p_state' = [p_state EXCEPT ![current] = "BROKEN"]
  BY Zenon DEF PageFault
<1>5. Live' = Live /\ p_state' \in [Proc -> {"FREE", "RUNNABLE", "BROKEN"}]
  BY <1>4, Zenon DEF Live, IndInv, TypeOK
<1>6. Sane(current, [cpu EXCEPT !.pc = cpu.pc], heap_top[current])
  BY <1>1, <1>2, RunningIs, Zenon
<1>7. QED
  BY <1>1, <1>2, <1>3, <1>4, <1>5, <1>6, ScheduledInd, Zenon

(* The interrupts after which nobody runs. *)
LEMMA StopInd ==
  ASSUME IndInv, Enter, mode' \in {"panic", "off"}, p_registers' = Saved(cpu.pc),
         UNCHANGED <<p_state, pageinfo, current, cpu, program, ticks>>
  PROVE  IndInv'
<1>1. mode = "user"
  BY Zenon DEF Enter
<1>2. cpu.pc \in PC
  BY <1>1, RunningIs, Zenon DEF Registers, PC
<1>3. /\ p_registers' \in [Proc -> Registers]
      /\ \A q \in Proc : p_registers'[q] = IF q = current THEN cpu ELSE p_registers[q]
  BY <1>2, SavedIs, Zenon
<1>4. \A q \in Proc : RegistersOf(q)' = IF q = current THEN cpu ELSE p_registers[q]
  BY <1>3, Zenon DEF RegistersOf
<1>5. /\ Live' = Live /\ current' \in Live /\ cpu' \in Registers
      /\ p_state' \in [Proc -> {"FREE", "RUNNABLE", "BROKEN"}] /\ ticks' \in 0 .. TickMod - 1
  BY Zenon DEF Live, IndInv, TypeOK
<1>6. QED
  BY <1>1, <1>3, <1>4, <1>5, RunningIs, InterruptInd, Zenon

LEMMA PanicInd == ASSUME IndInv, Exception, panic PROVE IndInv'
<1>1. mode' \in {"panic", "off"}
  BY Zenon DEF panic
<1>2. QED
  BY <1>1, StopInd, Zenon DEF panic, Exception

LEMMA GetpidInd == ASSUME IndInv, sys_getpid PROVE IndInv'
<1> DEFINE s == [cpu EXCEPT !.pc = "start"]
           r == [s EXCEPT !.rax = current]
           regs == [Saved("start") EXCEPT ![current].rax = current]
<1>1. mode = "user" /\ Enter /\ cpu.pc = "getpid"
  BY Zenon DEF sys_getpid, Exception, Enter, Calls
<1>2. /\ Saved("start") \in [Proc -> Registers] /\ Saved("start")[current] = s /\ s \in Registers
      /\ \A q \in Proc : q # current => Saved("start")[q] = p_registers[q]
  BY SavedIs, Zenon DEF PC
<1>3. current \in Proc /\ r \in Registers /\ r.pc = "start" /\ r.rax = current
  BY <1>1, RunningIs, Zenon DEF Registers
<1>4. regs = [Saved("start") EXCEPT ![current] = r]
  BY <1>2, <1>3, Zenon
<1> HIDE DEF r, s
<1>5. /\ regs \in [Proc -> Registers]
      /\ \A q \in Proc : regs[q] = IF q = current THEN r ELSE p_registers[q]
  BY <1>2, <1>3, <1>4, Zenon
<1>6. run(current, regs)
  BY Zenon DEF sys_getpid
<1> HIDE DEF regs
<1>7. /\ mode' = "user" /\ current' = current /\ cpu' \in Registers
      /\ p_registers' \in [Proc -> Registers]
      /\ \A q \in Proc : RegistersOf(q)' = IF q = current THEN r ELSE p_registers[q]
  BY <1>3, <1>5, <1>6, RunIs, Zenon
<1>8. Sane(current, r, heap_top[current]) /\ HeapWith(current, r, heap_top[current]) = HeapWith(current, cpu, heap_top[current])
  BY <1>1, <1>3, Zenon DEF Sane, HeapWith, Programs
<1>9. /\ Live' = Live /\ current' \in Live /\ UNCHANGED <<pageinfo, program>>
      /\ p_state' \in [Proc -> {"FREE", "RUNNABLE", "BROKEN"}] /\ ticks' \in 0 .. TickMod - 1
  BY <1>7, Zenon DEF sys_getpid, Live, IndInv, TypeOK
<1>10. QED
  BY <1>1, <1>3, <1>7, <1>8, <1>9, InterruptInd, Zenon

(* sys_page_alloc(pg) of a process that goes on at pc. *)
LEMMA PageAllocIs ==
  ASSUME IndInv, NEW pg \in Nat, NEW pc \in PC, sys_page_alloc(pg, pc)
  PROVE  \E r \in Registers :
           /\ r.pc = pc /\ r.rax = IF Assignable(pg) THEN 0 ELSE -1
           /\ mode' = "user" /\ current' = current /\ cpu' \in Registers
           /\ p_registers' \in [Proc -> Registers]
           /\ \A q \in Proc : RegistersOf(q)' = IF q = current THEN r ELSE p_registers[q]
<1> DEFINE v == IF Assignable(pg) THEN 0 ELSE -1
           s == [cpu EXCEPT !.pc = pc]
           r == [s EXCEPT !.rax = v]
           regs == [Saved(pc) EXCEPT ![current].rax = v]
<1>1. mode = "user"
  BY Zenon DEF sys_page_alloc, Exception, Enter
<1>2. /\ Saved(pc) \in [Proc -> Registers] /\ Saved(pc)[current] = s /\ s \in Registers
      /\ \A q \in Proc : q # current => Saved(pc)[q] = p_registers[q]
  BY SavedIs, Zenon
<1>3. v \in {-1} \cup Proc
  BY ProcAssumption DEF Proc
<1> HIDE DEF v
<1>4. current \in Proc /\ r \in Registers /\ r.pc = pc /\ r.rax = v
  BY <1>1, <1>3, RunningIs, Zenon DEF Registers, PC
<1>5. regs = [Saved(pc) EXCEPT ![current] = r]
  BY <1>2, <1>4, Zenon
<1> HIDE DEF r, s
<1>6. /\ regs \in [Proc -> Registers]
      /\ \A q \in Proc : regs[q] = IF q = current THEN r ELSE p_registers[q]
  BY <1>2, <1>4, <1>5, Zenon
<1>7. run(current, regs)
  BY Zenon DEF sys_page_alloc, v
<1> HIDE DEF regs
<1>8. /\ mode' = "user" /\ current' = current /\ cpu' \in Registers
      /\ p_registers' \in [Proc -> Registers]
      /\ \A q \in Proc : RegistersOf(q)' = IF q = current THEN r ELSE p_registers[q]
  BY <1>4, <1>6, <1>7, RunIs, Zenon
<1>9. QED
  BY <1>4, <1>8, Zenon DEF v

(* assign_physical_page fails, or gives the process a page nobody uses.      *)
LEMMA PageAllocInd ==
  ASSUME IndInv, NEW pg \in Nat, NEW pc \in PC, sys_page_alloc(pg, pc),
         \A r \in Registers : r.pc = pc /\ r.rax = (IF Assignable(pg) THEN 0 ELSE -1) =>
           /\ Sane(current, r, heap_top[current])
           /\ \/ /\ ~Assignable(pg) \/ OtherPrograms
                 /\ HeapWith(current, r, heap_top[current]) =
                      HeapWith(current, cpu, heap_top[current])
              \/ /\ Assignable(pg)
                 /\ HeapWith(current, r, heap_top[current]) =
                      HeapWith(current, cpu, heap_top[current]) \cup {pg}
  PROVE  IndInv'
<1>1. /\ mode = "user" /\ Enter /\ assign_physical_page(pg, current)
      /\ UNCHANGED <<p_state, program, ticks>> /\ heap_top' = heap_top
  BY Zenon DEF sys_page_alloc, Exception, Enter, program
<1>2. PICK r \in Registers :
           /\ r.pc = pc /\ r.rax = IF Assignable(pg) THEN 0 ELSE -1
           /\ mode' = "user" /\ current' = current /\ cpu' \in Registers
           /\ p_registers' \in [Proc -> Registers]
           /\ \A q \in Proc : RegistersOf(q)' = IF q = current THEN r ELSE p_registers[q]
  BY PageAllocIs
<1>3. /\ Live' = Live /\ current' \in Live
      /\ p_state' \in [Proc -> {"FREE", "RUNNABLE", "BROKEN"}] /\ ticks' \in 0 .. TickMod - 1
  BY <1>1, <1>2, SMTT(30) DEF Live, IndInv, TypeOK
<1>4. CASE ~Assignable(pg)
  <2>1. UNCHANGED <<pageinfo, program>>
    BY <1>1, <1>4, SMTT(30) DEF assign_physical_page
  <2>2. /\ Sane(current, r, heap_top[current])
        /\ HeapWith(current, r, heap_top[current]) = HeapWith(current, cpu, heap_top[current])
    BY <1>2, <1>4, SMTT(30)
  <2>3. QED
    BY <1>1, <1>2, <1>3, <2>1, <2>2, InterruptInd, Zenon
<1>5. CASE Assignable(pg)
  <2>1. pg \in Page /\ refcount[pg] = 0
    BY <1>5, LayoutAssumption DEF Assignable, Page
  <2>2. owner' = [owner EXCEPT ![pg] = current] /\ refcount' = [refcount EXCEPT ![pg] = 1]
    BY <1>1, <1>5, Zenon DEF assign_physical_page
  <2>3. showing' \in Proc /\ last_ticks' \in 0 .. TickMod - 1 /\ UNCHANGED build
    BY <1>1, AnimateType, Zenon DEF Enter, IndInv
  <2>4. current \in Proc \ {0} /\ 1 \in 0 .. NPROC
    BY <1>1, RunningIs, ProcAssumption
  <2>5. /\ owner' \in [Page -> {PO_RESERVED, PO_KERNEL} \cup Proc]
        /\ refcount' \in [Page -> 0 .. NPROC]
    <3>1. owner \in [Page -> {PO_RESERVED, PO_KERNEL} \cup Proc] /\ refcount \in [Page -> 0 .. NPROC]
      BY Zenon DEF IndInv, TypeOK
    <3>2. QED
      BY <2>2, <2>4, <3>1, Zenon
  <2>6. TypeOK'
    BY <1>1, <1>2, <1>3, <2>3, <2>4, <2>5, Zenon DEF TypeOK, IndInv, build, program
  <2>7. ASSUME NEW q \in Live
        PROVE  /\ Sane(q, RegistersOf(q)', heap_top'[q])
               /\ \/ /\ q # current \/ OtherPrograms
                     /\ HeapWith(q, RegistersOf(q)', heap_top'[q]) =
                          HeapWith(q, RegistersOf(q), heap_top[q])
                  \/ /\ q = current
                     /\ HeapWith(q, RegistersOf(q)', heap_top'[q]) =
                          HeapWith(q, RegistersOf(q), heap_top[q]) \cup {pg}
    <3>1. q \in Proc
      BY SMTT(30) DEF Live
    <3>2. CASE q = current
      <4>1. RegistersOf(q)' = r /\ RegistersOf(q) = cpu
        BY <1>1, <1>2, <3>1, <3>2, SMTT(30) DEF RegistersOf
      <4>2. QED
        BY <1>1, <1>2, <1>5, <3>2, <4>1, Zenon
    <3>3. CASE q # current
      <4>1. RegistersOf(q)' = p_registers[q] /\ RegistersOf(q) = p_registers[q]
        BY <1>2, <3>1, <3>3, Zenon DEF RegistersOf
      <4>2. Sane(q, RegistersOf(q), heap_top[q])
        BY <2>7, Zenon DEF IndInv, Accounts
      <4>3. QED
        BY <1>1, <3>3, <4>1, <4>2, SMTT(30)
    <3>4. QED
      BY <3>2, <3>3, Zenon
  <2>8. UNCHANGED OtherPrograms
    BY <2>3, Zenon DEF build
  <2>9. QED
    BY <1>2, <1>3, <2>1, <2>2, <2>6, <2>7, <2>8, TakesPage, Zenon
<1>6. QED
  BY <1>4, <1>5, Zenon

LEMMA AllocateHeapInd == ASSUME IndInv, AllocateHeap PROVE IndInv'
<1> DEFINE top == heap_top[current]
<1>1. mode = "user" /\ cpu.pc = "loop" /\ top # StackPage(current) /\ sys_page_alloc(top, "alloced")
  BY Zenon DEF AllocateHeap, sys_page_alloc, Exception, Enter
<1>2. current \in 1 .. NSetup /\ cpu \in Registers /\ Sane(current, cpu, top) /\ top \in 0 .. NPages
  BY <1>1, RunningIs, Zenon
<1>3. Base(current) \in Nat /\ StackPage(current) \in Int /\ Base(current) + ImageSize \in Int
  BY <1>2, Blocks, LayoutAssumption DEF StackPage
<1>4. top \in Base(current) + ImageSize .. StackPage(current) /\ top \in Nat
  BY <1>1, <1>2, LayoutAssumption DEF Sane, Programs
<1> HIDE DEF top
<1>5. ASSUME NEW r \in Registers, r.pc = "alloced", r.rax = IF Assignable(top) THEN 0 ELSE -1
      PROVE  /\ Sane(current, r, top)
             /\ \/ ~Assignable(top) /\ HeapWith(current, r, top) = HeapWith(current, cpu, top)
                \/ Assignable(top) /\ HeapWith(current, r, top) = HeapWith(current, cpu, top) \cup {top}
  <2>1. Sane(current, r, top)
    BY <1>1, <1>3, <1>4, <1>5 DEF Sane, Programs
  <2>2. HeapWith(current, cpu, top) = Base(current) + ImageSize .. top - 1
    BY <1>1, <1>3, <1>4 DEF HeapWith, Programs
  <2>3. CASE ~Assignable(top)
    <3>1. HeapWith(current, r, top) = Base(current) + ImageSize .. top - 1
      BY <1>3, <1>4, <1>5, <2>3 DEF HeapWith, Programs
    <3>2. QED
      BY <2>1, <2>2, <2>3, <3>1, Zenon
  <2>4. CASE Assignable(top)
    <3>1. HeapWith(current, r, top) = Base(current) + ImageSize .. top
      BY <1>3, <1>4, <1>5, <2>4 DEF HeapWith, Programs
    <3>2. Base(current) + ImageSize .. top = (Base(current) + ImageSize .. top - 1) \cup {top}
      BY <1>3, <1>4
    <3>3. QED
      BY <2>1, <2>2, <2>4, <3>1, <3>2, Zenon
  <2>5. QED
    BY <2>3, <2>4, Zenon
<1>6. "alloced" \in PC
  BY Zenon DEF PC
<1>7. QED
  BY <1>1, <1>4, <1>5, <1>6, PageAllocInd DEF top

LEMMA AllocateAnyInd == ASSUME IndInv, AllocateAny PROVE IndInv'
<1>1. PICK pg \in Page \cup {NPages} : sys_page_alloc(pg, "spin")
  BY Zenon DEF AllocateAny
<1>2. pg \in Nat /\ "spin" \in PC
  BY LayoutAssumption DEF Page, PC
<1>3. mode = "user" /\ cpu.pc = "spin" /\ OtherPrograms
  BY <1>1, Zenon DEF AllocateAny, sys_page_alloc, Exception, Enter
<1>4. Sane(current, cpu, heap_top[current])
  BY <1>3, RunningIs, Zenon
<1>5. \A r \in Registers : r.pc = "spin" =>
        /\ Sane(current, r, heap_top[current])
        /\ HeapWith(current, r, heap_top[current]) = HeapWith(current, cpu, heap_top[current])
  BY <1>3, <1>4, Zenon DEF Sane, HeapWith, Programs
<1>6. QED
  BY <1>1, <1>2, <1>3, <1>5, PageAllocInd, Zenon

-----------------------------------------------------------------------------
(* The instructions of p-allocator.c *)

LEMMA UserStepInd ==
  ASSUME IndInv, mode = "user", NEW pc \in PC, UserStep(pc), mypid' \in [Proc -> Proc],
         NEW top \in 0 .. NPages, heap_top' = [heap_top EXCEPT ![current] = top],
         \A r \in Registers : r.pc = pc /\ r.rax = cpu.rax =>
           /\ Sane(current, r, top)
           /\ HeapWith(current, r, top) = HeapWith(current, cpu, heap_top[current])
  PROVE  IndInv'
<1> DEFINE r == [cpu EXCEPT !.pc = pc]
<1>1. current \in Proc \ {0} /\ cpu \in Registers /\ heap_top \in [Proc -> 0 .. NPages]
  BY Zenon DEF IndInv, TypeOK
<1>2. r \in Registers /\ r.pc = pc /\ r.rax = cpu.rax
  BY <1>1, Zenon DEF Registers, PC
<1>3. /\ cpu' = r
      /\ UNCHANGED <<build, mode, p_state, p_registers, pageinfo, current, ticks, last_ticks, showing>>
  BY Zenon DEF UserStep
<1> HIDE DEF r
<1>4. TypeOK'
  BY <1>1, <1>2, <1>3, Zenon DEF TypeOK, IndInv, build, pageinfo
<1>5. Live' = Live /\ current' \in Live /\ UNCHANGED <<owner, refcount, OtherPrograms>>
  BY <1>3, Zenon DEF Live, IndInv, build, pageinfo
<1>6. ASSUME NEW q \in Live
      PROVE  /\ Sane(q, RegistersOf(q)', heap_top'[q])
             /\ HeapWith(q, RegistersOf(q)', heap_top'[q]) =
                  HeapWith(q, RegistersOf(q), heap_top[q])
  <2>1. q \in Proc
    BY Zenon DEF Live
  <2>2. CASE q = current
    <3>1. RegistersOf(q)' = r /\ RegistersOf(q) = cpu /\ heap_top'[q] = top
      BY <1>1, <1>3, <2>2, Zenon DEF RegistersOf
    <3>2. QED
      BY <1>2, <2>2, <3>1, Zenon
  <2>3. CASE q # current
    <3>1. RegistersOf(q)' = RegistersOf(q) /\ heap_top'[q] = heap_top[q]
      BY <1>1, <1>3, <2>1, <2>3, Zenon DEF RegistersOf
    <3>2. Sane(q, RegistersOf(q), heap_top[q])
      BY <1>6, Zenon DEF IndInv, Accounts
    <3>3. QED
      BY <3>1, <3>2, Zenon
  <2>4. QED
    BY <2>2, <2>3, Zenon
<1>7. QED
  BY <1>4, <1>5, <1>6, KeepsPages, Zenon

(* What the running program knows of its block. *)
LEMMA RunningBlock ==
  ASSUME IndInv, mode = "user"
  PROVE  /\ Base(current) \in Nat /\ Base(current) + ImageSize \in 0 .. NPages
         /\ StackPage(current) \in 0 .. NPages - 1
         /\ Base(current) + ImageSize <= StackPage(current)
<1>1. Base(current) \in Nat /\ Base(current) + ProcSize <= NPages
  BY RunningIs, Blocks, Zenon
<1>2. QED
  BY <1>1, LayoutAssumption DEF StackPage

LEMMA StartProgramInd == ASSUME IndInv, StartProgram PROVE IndInv'
<1> DEFINE top == Base(current) + ImageSize
<1>1. mode = "user" /\ cpu.pc = "start" /\ UserStep("loop") /\ heap_top' = [heap_top EXCEPT ![current] = top]
  BY Zenon DEF StartProgram
<1>2. cpu.rax = current /\ current \in Proc
  BY <1>1, RunningIs, Zenon DEF Sane
<1>3. mypid' \in [Proc -> Proc]
  BY <1>2, Zenon DEF StartProgram, IndInv, TypeOK
<1>4. top \in 0 .. NPages /\ top <= StackPage(current) /\ StackPage(current) \in Int
  BY <1>1, RunningBlock
<1>5. HeapWith(current, cpu, heap_top[current]) = {}
  BY <1>1, Zenon DEF HeapWith, Programs
<1>6. ASSUME NEW r \in Registers, r.pc = "loop"
      PROVE  Sane(current, r, top) /\ HeapWith(current, r, top) = {}
  <2> DEFINE t == top
  <2>1. HeapWith(current, r, t) = top .. t - 1 \/ HeapWith(current, r, t) = top .. t + 0 - 1
    BY <1>6, Zenon DEF HeapWith, Programs
  <2>2. top .. t - 1 = {} /\ top .. t + 0 - 1 = {}
    BY <1>4
  <2>3. Sane(current, r, top)
    BY <1>4, <1>6 DEF Sane, Programs
  <2>4. QED
    BY <2>1, <2>2, <2>3, Zenon
<1>7. "loop" \in PC
  BY Zenon DEF PC
<1>8. \A r \in Registers : r.pc = "loop" /\ r.rax = cpu.rax =>
        /\ Sane(current, r, top)
        /\ HeapWith(current, r, top) = HeapWith(current, cpu, heap_top[current])
  BY <1>5, <1>6, Zenon
<1> HIDE DEF top
<1>9. QED
  BY <1>1, <1>3, <1>4, <1>7, <1>8, UserStepInd, Zenon

(* The program gives up: its heap is full, or it was refused a page.         *)
LEMMA GivesUpInd == ASSUME IndInv, HeapFull \/ AllocFailed PROVE IndInv'
<1>1. /\ mode = "user" /\ UserStep("spin") /\ UNCHANGED <<mypid, heap_top>>
      /\ cpu.pc = "loop" \/ (cpu.pc = "alloced" /\ cpu.rax < 0)
  BY Zenon DEF HeapFull, AllocFailed, program
<1>2. /\ heap_top \in [Proc -> 0 .. NPages] /\ mypid \in [Proc -> Proc] /\ cpu \in Registers
      /\ current \in Proc /\ Sane(current, cpu, heap_top[current])
  BY <1>1, RunningIs, Zenon DEF IndInv, TypeOK
<1>3. heap_top[current] \in 0 .. NPages /\ heap_top' = [heap_top EXCEPT ![current] = heap_top[current]]
  BY <1>1, <1>2, Zenon
<1>4. cpu.rax \in Int
  BY <1>2, ProcAssumption DEF Registers, Proc
<1>5. ASSUME NEW r \in Registers, r.pc = "spin", r.rax = cpu.rax
      PROVE  /\ Sane(current, r, heap_top[current])
             /\ HeapWith(current, r, heap_top[current]) = HeapWith(current, cpu, heap_top[current])
  BY <1>1, <1>2, <1>4, <1>5 DEF Sane, HeapWith, Programs
<1>6. "spin" \in PC /\ mypid' \in [Proc -> Proc]
  BY <1>1, <1>2, Zenon DEF PC
<1> DEFINE top == heap_top[current]
<1>7. /\ top \in 0 .. NPages /\ heap_top' = [heap_top EXCEPT ![current] = top]
      /\ \A r \in Registers : r.pc = "spin" /\ r.rax = cpu.rax =>
           /\ Sane(current, r, top)
           /\ HeapWith(current, r, top) = HeapWith(current, cpu, heap_top[current])
  BY <1>3, <1>5, Zenon
<1> HIDE DEF top
<1>8. QED
  BY <1>1, <1>6, <1>7, UserStepInd, Zenon

LEMMA AllocSucceededInd == ASSUME IndInv, AllocSucceeded PROVE IndInv'
<1> DEFINE top == heap_top[current] + 1
<1>1. /\ mode = "user" /\ cpu.pc = "alloced" /\ cpu.rax >= 0 /\ UserStep("yield") /\ mypid' = mypid
      /\ heap_top' = [heap_top EXCEPT ![current] = top]
  BY Zenon DEF AllocSucceeded
<1>2. mypid' \in [Proc -> Proc] /\ Sane(current, cpu, heap_top[current]) /\ heap_top[current] \in 0 .. NPages
  BY <1>1, RunningIs, Zenon DEF IndInv, TypeOK
<1>3. heap_top[current] \in Base(current) + ImageSize .. StackPage(current) /\ heap_top[current] < StackPage(current)
  BY <1>1, <1>2, Zenon DEF Sane, Programs
<1>4. /\ Base(current) + ImageSize \in Int /\ StackPage(current) \in 0 .. NPages - 1
      /\ NPages \in Int
  BY <1>1, RunningBlock, LayoutAssumption
<1>5. top \in 0 .. NPages /\ top \in Base(current) + ImageSize .. StackPage(current)
  BY <1>2, <1>3, <1>4
<1>6. HeapWith(current, cpu, heap_top[current]) = Base(current) + ImageSize .. heap_top[current] + 1 - 1
  BY <1>1, Zenon DEF HeapWith, Programs
<1>7. ASSUME NEW r \in Registers, r.pc = "yield"
      PROVE  /\ Sane(current, r, top)
             /\ HeapWith(current, r, top) = HeapWith(current, cpu, heap_top[current])
  <2>1. Sane(current, r, top)
    BY <1>5, <1>7, Zenon DEF Sane, Programs
  <2>2. HeapWith(current, r, top) = Base(current) + ImageSize .. top + 0 - 1
    BY <1>7, Zenon DEF HeapWith, Programs
  <2>3. top + 0 - 1 = heap_top[current] + 1 - 1
    BY <1>2
  <2>4. QED
    BY <1>6, <2>1, <2>2, <2>3, Zenon
<1>8. "yield" \in PC
  BY Zenon DEF PC
<1> HIDE DEF top
<1>9. QED
  BY <1>1, <1>2, <1>5, <1>7, <1>8, UserStepInd, Zenon

-----------------------------------------------------------------------------
(* check_keyboard, and the machine that waits *)

LEMMA RebootInd == ASSUME IndInv, NEW key \in Key, Reboot(key) PROVE IndInv'
<1>1. showing' \in Proc /\ last_ticks' \in 0 .. TickMod - 1 /\ UNCHANGED build
  <2>1. CASE Exception
    BY <2>1, AnimateType, Zenon DEF Exception, Enter, IndInv
  <2>2. CASE UNCHANGED <<build, last_ticks, showing>>
    BY <2>2, Zenon DEF IndInv, TypeOK
  <2>3. QED
    BY <2>1, <2>2, Zenon DEF Reboot, Polls
<1>2. TICK_LIMIT' \in Limits /\ OtherPrograms' \in Builds /\ ticks' \in 0 .. TickMod - 1
  BY <1>1, Zenon DEF IndInv, TypeOK, build, Reboot
<1>3. Booted'
  BY <1>1, <1>2, Zenon DEF Reboot, run, Booted
<1>4. Booted' => IndInv'
  BY BootedInd, PTL
<1>5. QED
  BY <1>3, <1>4, Zenon

LEMMA PoweroffInd == ASSUME IndInv, poweroff PROVE IndInv'
<1>1. CASE mode = "user"
  <2>1. Enter
    BY <1>1, Zenon DEF poweroff, Polls, Exception
  <2>2. QED
    BY <1>1, <2>1, StopInd, Zenon DEF poweroff
<1>2. CASE mode # "user"
  <2>1. /\ UNCHANGED <<build, last_ticks, showing>> /\ mode' = "off" /\ p_registers' = p_registers
        /\ UNCHANGED <<p_state, pageinfo, current, cpu, program, ticks>>
    BY <1>2, Zenon DEF poweroff, Polls, Exception, Enter
  <2>2. TypeOK' /\ Live' = Live /\ current' \in Live /\ heap_top' = heap_top
    BY <2>1, Zenon DEF TypeOK, IndInv, build, pageinfo, program, Live
  <2>3. \A q \in Live : RegistersOf(q)' = RegistersOf(q) /\ Sane(q, RegistersOf(q), heap_top[q])
    BY <1>2, <2>1, Zenon DEF RegistersOf, IndInv, Accounts
  <2>4. QED
    BY <2>1, <2>2, <2>3, KeepsPages, Zenon DEF build, pageinfo
<1>3. QED
  BY <1>1, <1>2, Zenon

LEMMA StutterInd == ASSUME IndInv, UNCHANGED vars PROVE IndInv'
<1>1. TypeOK' /\ Live' = Live /\ current' \in Live /\ heap_top' = heap_top
  BY Zenon DEF TypeOK, IndInv, vars, build, pageinfo, program, Live
<1>2. \A q \in Live : RegistersOf(q)' = RegistersOf(q) /\ Sane(q, RegistersOf(q), heap_top[q])
  BY Zenon DEF RegistersOf, IndInv, Accounts, vars
<1>3. UNCHANGED <<owner, refcount, OtherPrograms>>
  BY Zenon DEF vars, build, pageinfo
<1>4. QED
  BY <1>1, <1>2, <1>3, KeepsPages, SMTT(30)

LEMMA Inductive == IndInv /\ [Next]_vars => IndInv'
<1> SUFFICES ASSUME IndInv, [Next]_vars PROVE IndInv'
  BY Zenon
<1>1. CASE Timer
  BY <1>1, TimerInd, Zenon
<1>2. CASE sys_getpid
  BY <1>2, GetpidInd, Zenon
<1>3. CASE sys_yield
  BY <1>3, YieldInd, Zenon
<1>4. CASE AllocateHeap
  BY <1>4, AllocateHeapInd, Zenon
<1>5. CASE sys_fork \/ sys_panic
  BY <1>5, PanicInd, Zenon DEF sys_fork, sys_panic
<1>6. CASE LimitReached
  BY <1>6, StopInd, Zenon DEF LimitReached
<1>7. CASE PageFault
  BY <1>7, PageFaultInd, Zenon
<1>8. CASE AllocateAny
  BY <1>8, AllocateAnyInd, Zenon
<1>9. CASE User
  BY <1>9, StartProgramInd, GivesUpInd, AllocSucceededInd, Zenon DEF User
<1>10. CASE Keyboard
  BY <1>10, RebootInd, PoweroffInd, Zenon DEF Keyboard, Key
<1>11. CASE Wait \/ UNCHANGED vars
  BY <1>11, StutterInd, Zenon DEF Wait
<1>12. QED
  BY <1>1, <1>2, <1>3, <1>4, <1>5, <1>6, <1>7, <1>8, <1>9, <1>10, <1>11, Zenon DEF Next, System, Others

-----------------------------------------------------------------------------
(* What it says of the kernel *)

(* While a process runs one of the repository's allocators, its heap is the  *)
(* one that the invariant speaks of.                                         *)
LEMMA HeapIs ==
  ASSUME NEW pid \in Proc, Allocating(pid)
  PROVE  pid \in Live /\ Heap(pid) = HeapWith(pid, RegistersOf(pid), heap_top[pid])
BY Zenon DEF Allocating, Heap, HeapWith, Programs, Live

LEMMA AlwaysInd == Spec => []IndInv
BY InitInd, Inductive, PTL DEF Spec

(* The asserts of check_virtual_memory in exception() never fail, and every  *)
(* variable keeps its type: the reference count of kernel_pagetable is one   *)
(* more than the number of processes and no page in use belongs to a free    *)
(* descriptor, whatever the processes ask for and whenever they die.         *)
THEOREM KernelStaysConsistent == Spec => []KernelConsistent
<1>1. IndInv => KernelConsistent
  BY SMTT(30) DEF IndInv, KernelConsistent
<1>2. QED
  BY <1>1, AlwaysInd, PTL

(* A process that allocates owns its code, its stack and every page below    *)
(* heap_top alone, through every interrupt between the system call and the   *)
(* use of its result.                                                        *)
THEOREM HeapStaysOwned == Spec => []HeapOwned
<1>1. IndInv => HeapOwned
  <2> SUFFICES ASSUME IndInv, NEW pid \in Proc, Allocating(pid)
               PROVE  \A pg \in Loaded(pid) \cup Heap(pid) : owner[pg] = pid /\ refcount[pg] = 1
    BY Zenon DEF HeapOwned
  <2>1. Holds(pid, RegistersOf(pid), heap_top[pid], owner, refcount)
    BY HeapIs, Zenon DEF IndInv, Accounts
  <2>2. QED
    BY <2>1, HeapIs, Zenon DEF Holds
<1>2. QED
  BY <1>1, AlwaysInd, PTL

(* With the repository's programs no page is lost: what a process owns is    *)
(* what it was loaded with and its heap, no more.                            *)
THEOREM NothingIsLeaked == Spec => []NothingLeaked
<1>1. IndInv => NothingLeaked
  <2> SUFFICES ASSUME IndInv, NEW pid \in Proc, ~OtherPrograms, Allocating(pid)
               PROVE  {pg \in Page : owner[pg] = pid /\ refcount[pg] > 0} = Loaded(pid) \cup Heap(pid)
    BY Zenon DEF NothingLeaked
  <2>1. /\ Holds(pid, RegistersOf(pid), heap_top[pid], owner, refcount)
        /\ Sane(pid, RegistersOf(pid), heap_top[pid])
        /\ pid \in 1 .. NSetup /\ RegistersOf(pid) \in Registers
    BY HeapIs, Zenon DEF IndInv, Accounts, RegistersOf, TypeOK
  <2>2. Loaded(pid) \cup Heap(pid) \subseteq Page
    BY <2>1, HeapIs, LoadedApart, HeapInBlock
  <2>3. QED
    BY <2>1, <2>2, HeapIs DEF Holds
<1>2. QED
  BY <1>1, AlwaysInd, PTL
=============================================================================
