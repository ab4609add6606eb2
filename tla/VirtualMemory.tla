--------------------------- MODULE VirtualMemory ---------------------------
(***************************************************************************)
(* virtual_memory_map, lookup_l4pagetable and virtual_memory_lookup of      *)
(* modules/m3/k-hardware.c on one page table: a tree of table pages of      *)
(* Fanout entries and Levels levels (512 and 4 in the code).  Addresses are *)
(* counted in pages.  The allocator is the caller's; it may fail, and the   *)
(* page it returns holds whatever was in it.                                *)
(***************************************************************************)
EXTENDS Integers, FiniteSets

CONSTANTS
  Levels,    \* levels of a page table
  Fanout,    \* NPAGETABLEENTRIES
  Tables,    \* pages that can become page tables: 0 .. Tables - 1; 0 is the root
  PPages,    \* physical pages that may be mapped
  MaxSize,   \* bound: pages in one call
  MaxCalls,  \* bound: calls
  Perms      \* the permissions callers ask for

(* Fanout ^ k *)
Power[k \in 0 .. Levels] == IF k = 0 THEN 1 ELSE Fanout * Power[k - 1]

VPages == Power[Levels]
Table == 0 .. Tables - 1
Index == 0 .. Fanout - 1
Full == {"P", "W", "U"}

ASSUME TreeAssumption ==
  /\ Levels \in Nat /\ Levels >= 2 /\ Fanout \in Nat /\ Fanout >= 2
  /\ Tables \in Nat /\ Tables > Levels
ASSUME CallAssumption ==
  /\ PPages \in Nat \ {0} /\ MaxSize \in Nat /\ MaxCalls \in Nat
  /\ Perms \subseteq SUBSET Full

VARIABLES
  entry,      \* entry[t][x]: an entry of a page table, [addr, perm]
  taken,      \* pages the allocator has handed out, with the initial ones
  req,        \* va, pa, sz and perm of the call
  result,     \* its result, 1 until it returns
  allocator,  \* whether the caller passes an allocator
  pc, pt, i,  \* the loop of lookup_l4pagetable
  last_index123, l4pagetable,   \* -1 for NULL
  calls

walk == <<pt, i>>
cache == <<last_index123, l4pagetable>>
vars == <<entry, taken, req, result, allocator, pc, walk, cache, calls>>

Zero == [addr |-> 0, perm |-> {}]
Blank == [x \in Index |-> Zero]
(* What a page that is not in use may hold: it could pass for a page table. *)
Stale == [x \in Index |-> [addr |-> 0, perm |-> Full]]

PAGEINDEX(va, level) == (va \div Power[Levels - 1 - level]) % Fanout
Index123(va) == va \div Fanout

-----------------------------------------------------------------------------
(* kernel_pagetables: a chain of tables, with two tables on the last level. *)
KernelTables ==
  [t \in Table |->
     IF t > Levels THEN Stale
     ELSE [x \in Index |->
             IF t < Levels - 1 /\ x = 0 THEN [addr |-> t + 1, perm |-> Full]
             ELSE IF t = Levels - 2 /\ x = 1 THEN [addr |-> Levels, perm |-> Full]
             ELSE Zero]]

EmptyRoot == [t \in Table |-> IF t = 0 THEN Blank ELSE Stale]

Init ==
  /\ \/ entry = KernelTables /\ taken = 0 .. Levels
     \/ entry = EmptyRoot /\ taken = {0}
  /\ req = [va |-> 0, pa |-> 0, sz |-> 0, perm |-> {}]
  /\ result = 0 /\ allocator = FALSE
  /\ pc = "idle" /\ pt = 0 /\ i = 0
  /\ last_index123 = -1 /\ l4pagetable = -1
  /\ calls = 0

(* The walk of virtual_memory_lookup: the address and the permissions after *)
(* k steps.  It stops at the first entry that is not present, and a         *)
(* permission is granted if every level grants it.                          *)
Step(va, k, up) ==
  LET pe == entry[up.addr][PAGEINDEX(va, k)]
  IN  IF "P" \notin up.perm THEN up
      ELSE [addr |-> pe.addr, perm |-> up.perm \cap pe.perm]

Walk(va) ==
  LET At[k \in 0 .. Levels] ==
        IF k = 0 THEN [addr |-> 0, perm |-> Full] ELSE Step(va, k - 1, At[k - 1])
  IN  At

virtual_memory_lookup(va) ==
  LET vam == Walk(va)[Levels]
  IN  IF "P" \in vam.perm THEN [pa |-> vam.addr, perm |-> vam.perm]
      ELSE [pa |-> -1, perm |-> {}]

-----------------------------------------------------------------------------
Call(va, pa, sz, perm) ==
  /\ pc = "idle" /\ calls < MaxCalls
  /\ va + sz <= VPages /\ ("P" \in perm => pa + sz <= PPages)
  /\ req' = [va |-> va, pa |-> pa, sz |-> sz, perm |-> perm]
  /\ allocator' \in BOOLEAN
  /\ result' = 1
  /\ pc' = "loop"
  /\ last_index123' = -1 /\ l4pagetable' = -1
  /\ calls' = calls + 1
  /\ UNCHANGED <<entry, taken, walk>>

(* Mutant: the table found for the first page is used for all of them. *)
SameTableAlways == last_index123 # -1

SameTable == last_index123 = Index123(req.va)

(* The page lies in a last-level table other than the one at hand. *)
BeginLookup ==
  /\ pc = "loop" /\ req.sz # 0 /\ ~SameTable
  /\ pc' = "walk" /\ pt' = 0 /\ i' = 0
  /\ UNCHANGED <<entry, taken, req, result, allocator, cache, calls>>

Pe == entry[pt][PAGEINDEX(req.va, i)]

Descend ==
  /\ pc = "walk" /\ i < Levels - 1 /\ "P" \in Pe.perm
  /\ pt' = Pe.addr /\ i' = i + 1
  /\ UNCHANGED <<entry, taken, req, result, allocator, pc, cache, calls>>

(* Mutant: the new table is not cleared. *)
AllocateDirty ==
  /\ pc = "walk" /\ i < Levels - 1 /\ "P" \notin Pe.perm
  /\ "P" \in req.perm /\ allocator
  /\ \E t \in Table \ taken :
       /\ \A u \in Table \ taken : t <= u
       /\ entry' = [entry EXCEPT
            ![pt][PAGEINDEX(req.va, i)] = [addr |-> t, perm |-> Full]]
       /\ taken' = taken \cup {t}
       /\ pt' = t
  /\ i' = i + 1
  /\ UNCHANGED <<req, result, allocator, pc, cache, calls>>

(* The allocator returns a page: any other unused page would do as well. *)
Allocate ==
  /\ pc = "walk" /\ i < Levels - 1 /\ "P" \notin Pe.perm
  /\ "P" \in req.perm /\ allocator
  /\ \E t \in Table \ taken :
       /\ \A u \in Table \ taken : t <= u
       /\ entry' = [entry EXCEPT
            ![pt][PAGEINDEX(req.va, i)] = [addr |-> t, perm |-> Full],
            ![t] = Blank]
       /\ taken' = taken \cup {t}
       /\ pt' = t
  /\ i' = i + 1
  /\ UNCHANGED <<req, result, allocator, pc, cache, calls>>

(* lookup_l4pagetable returns NULL: nothing to unmap, no allocator, or the  *)
(* allocator fails.                                                         *)
LookupFails ==
  /\ pc = "walk" /\ i < Levels - 1 /\ "P" \notin Pe.perm
  /\ l4pagetable' = -1
  /\ last_index123' = Index123(req.va)
  /\ pc' = "loop"
  /\ UNCHANGED <<entry, taken, req, result, allocator, walk, calls>>

LookupReturns ==
  /\ pc = "walk" /\ i = Levels - 1
  /\ l4pagetable' = pt
  /\ last_index123' = Index123(req.va)
  /\ pc' = "loop"
  /\ UNCHANGED <<entry, taken, req, result, allocator, walk, calls>>

Advance == [req EXCEPT !.va = @ + 1, !.pa = @ + 1, !.sz = @ - 1]

(* l4pagetable->entry[L4PAGEINDEX(va)] = pa | perm, or perm *)
Store ==
  /\ pc = "loop" /\ req.sz # 0 /\ SameTable /\ l4pagetable # -1
  /\ entry' = [entry EXCEPT ![l4pagetable][PAGEINDEX(req.va, Levels - 1)] =
                 [addr |-> IF "P" \in req.perm THEN req.pa ELSE 0,
                  perm |-> req.perm]]
  /\ req' = Advance
  /\ UNCHANGED <<taken, result, allocator, pc, walk, cache, calls>>

(* There is no table, and the page is to be unmapped: it is so already. *)
Skip ==
  /\ pc = "loop" /\ req.sz # 0 /\ SameTable /\ l4pagetable = -1
  /\ "P" \notin req.perm
  /\ req' = Advance
  /\ UNCHANGED <<entry, taken, result, allocator, pc, walk, cache, calls>>

ReturnFailure ==
  /\ pc = "loop" /\ req.sz # 0 /\ SameTable /\ l4pagetable = -1
  /\ "P" \in req.perm
  /\ result' = -1
  /\ pc' = "idle"
  /\ UNCHANGED <<entry, taken, req, allocator, walk, cache, calls>>

ReturnSuccess ==
  /\ pc = "loop" /\ req.sz = 0
  /\ result' = 0
  /\ pc' = "idle"
  /\ UNCHANGED <<entry, taken, req, allocator, walk, cache, calls>>

Map == BeginLookup \/ Descend \/ Allocate \/ LookupFails \/ LookupReturns
         \/ Store \/ Skip \/ ReturnFailure \/ ReturnSuccess

(* The bound on calls is reached. *)
Done == pc = "idle" /\ calls = MaxCalls /\ UNCHANGED vars

Next ==
  \/ \E va \in 0 .. VPages - 1, pa \in 0 .. PPages - 1, sz \in 0 .. MaxSize,
        perm \in Perms : Call(va, pa, sz, perm)
  \/ Map
  \/ Done

Spec == Init /\ [][Next]_vars

-----------------------------------------------------------------------------
(* Properties *)

(* Types: in particular, the walk only ever stands on a page table. *)
TypeOK ==
  /\ \A t \in Table, x \in Index :
       entry[t][x].addr \in Nat /\ entry[t][x].perm \subseteq Full
  /\ taken \subseteq Table
  /\ req.va \in 0 .. VPages /\ req.sz \in 0 .. MaxSize
  /\ result \in {-1, 0, 1} /\ allocator \in BOOLEAN
  /\ pc \in {"idle", "loop", "walk"}
  /\ pt \in taken /\ i \in 0 .. Levels - 1
  /\ l4pagetable \in taken \cup {-1}
  /\ calls \in 0 .. MaxCalls

AS == INSTANCE AddressSpace
        WITH space <- [va \in 0 .. VPages - 1 |-> virtual_memory_lookup(va)]

(* The tree of tables behaves as one function from pages to mappings: a     *)
(* call changes the pages it was asked for, in order, and no others, even   *)
(* when an allocation fails halfway through the tree; it returns 0 only     *)
(* when it has mapped every page.                                           *)
ImplementsAddressSpace == AS!Spec

(* The entries that link a table of T to one of the level below. *)
Links(T) == {l \in T \X Index : "P" \in entry[l[1]][l[2]].perm}
Linked(T) == {entry[l[1]][l[2]].addr : l \in Links(T)}

(* The tables of levels 0 to k. *)
Upper[k \in 0 .. Levels - 2] ==
  IF k = 0 THEN {0} ELSE LET T == Upper[k - 1] IN T \cup Linked(T)

(* What check_page_table_ownership relies on: every page handed out as a    *)
(* page table is linked from exactly one entry of exactly one table above   *)
(* it (reference count 1), even after a failed call, so that no page is     *)
(* lost or shared; and no link withholds a permission, as the asserts of    *)
(* lookup_l4pagetable demand.  The variables keep their types.              *)
TablesFormTree ==
  LET upper == Upper[Levels - 2]
  IN  /\ TypeOK
      /\ \A l \in Links(upper) : entry[l[1]][l[2]].perm = Full
      /\ Linked(upper) = taken \ {0}
      /\ Cardinality(Links(upper)) = Cardinality(taken) - 1
=============================================================================
