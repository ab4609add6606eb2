---------------------------- MODULE AddressSpace ----------------------------
(***************************************************************************)
(* What virtual_memory_map and virtual_memory_lookup of modules/m3 promise: *)
(* a function from virtual pages to mappings, changed one page at a time,   *)
(* in order, by a call that may give up before any page and only then.      *)
(***************************************************************************)
EXTENDS Integers

CONSTANTS
  VPages,    \* virtual pages: 0 .. VPages - 1
  PPages     \* physical pages: 0 .. PPages - 1

VPage == 0 .. VPages - 1
Perm == SUBSET {"P", "W", "U"}

(* vamapping: { -1, -1, 0 } stands for a page that is not present. *)
Unmapped == [pa |-> -1, perm |-> {}]
Mapping(pa, perm) == IF "P" \in perm THEN [pa |-> pa, perm |-> perm]
                     ELSE Unmapped

VARIABLES
  space,    \* what virtual_memory_lookup returns for each page
  req,      \* what the call under way has still to map
  result    \* what the last call returned; 1 while one is under way

vars == <<req, result, space>>

NoRequest == [va |-> 0, pa |-> 0, sz |-> 0, perm |-> {}]

Init ==
  /\ space = [va \in VPage |-> Unmapped]
  /\ req = NoRequest
  /\ result = 0

(* Only ranges that exist may be mapped: the asserts of virtual_memory_map. *)
Call ==
  /\ result # 1
  /\ req' \in [va : VPage, pa : 0 .. PPages - 1, sz : 0 .. VPages, perm : Perm]
  /\ req'.va + req'.sz <= VPages
  /\ "P" \in req'.perm => req'.pa + req'.sz <= PPages
  /\ result' = 1
  /\ UNCHANGED space

MapPage ==
  /\ result = 1 /\ req.sz # 0
  /\ req' = [req EXCEPT !.va = @ + 1, !.pa = @ + 1, !.sz = @ - 1]
  /\ space' = [space EXCEPT ![req.va] = Mapping(req.pa, req.perm)]
  /\ UNCHANGED result

Return ==
  /\ result = 1 /\ req.sz = 0
  /\ result' = 0
  /\ UNCHANGED <<space, req>>

(* A page table could not be allocated; only mapping needs one. *)
GiveUp ==
  /\ result = 1 /\ req.sz # 0 /\ "P" \in req.perm
  /\ result' = -1
  /\ UNCHANGED <<space, req>>

Next == Call \/ MapPage \/ Return \/ GiveUp

Spec == Init /\ [][Next]_vars
=============================================================================
