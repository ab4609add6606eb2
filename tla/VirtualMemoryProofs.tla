------------------------- MODULE VirtualMemoryProofs -------------------------
(***************************************************************************)
(* Proofs about VirtualMemory, for every number of levels, every fanout and *)
(* every number of pages: the tables form a tree, and the tree implements   *)
(* an address space.  The recursive definitions of the model are opened by  *)
(* least-counterexample arguments over sets of numbers.                     *)
(***************************************************************************)
EXTENDS VirtualMemory, FiniteSetTheorems, FunctionTheorems, WellFoundedInduction, TLAPS

(* A non-empty set of natural numbers has a least element. *)
LEMMA LeastNat ==
  ASSUME NEW T, T \subseteq Nat, T # {}
  PROVE  \E m \in T : \A n \in T : m <= n
<1> DEFINE Less == {p \in Nat \X Nat : p[1] < p[2]}
<1>1. Less = OpToRel(<, Nat)
  BY Zenon DEF OpToRel
<1>2. IsWellFoundedOn(Less, Nat)
  BY <1>1, NatLessThanWellFounded, Zenon
<1>3. \A x, y \in Nat : y < x => <<y, x>> \in Less
  BY Zenon
<1> HIDE DEF Less
<1>4. PICK x \in T : \A y \in T : ~(<<y, x>> \in Less)
  BY <1>2, WFMin, Zenon
<1>5. \A y \in T : ~(y < x)
  BY <1>3, <1>4, Zenon
<1>6. QED
  BY <1>5

(* A set of natural numbers that contains 0 and, with every number, the     *)
(* next one up to n, contains all the numbers up to n.                      *)
LEMMA UpTo ==
  ASSUME NEW n \in Nat, NEW S, 0 \in S,
         \A m \in 0 .. n - 1 : m \in S => m + 1 \in S
  PROVE  \A m \in 0 .. n : m \in S
<1> DEFINE Bad == {m \in 0 .. n : m \notin S}
<1> SUFFICES ASSUME Bad # {} PROVE FALSE
  BY Zenon
<1>1. Bad \subseteq Nat
  OBVIOUS
<1>2. PICK m \in Bad : \A k \in Bad : m <= k
  BY <1>1, LeastNat, Zenon
<1>3. m # 0 /\ m \in 1 .. n /\ m \notin S
  OBVIOUS
<1>4. m - 1 \in S
  BY <1>2, <1>3
<1>5. m - 1 \in 0 .. n - 1 /\ (m - 1) + 1 = m
  BY <1>3
<1>6. QED
  BY <1>3, <1>4, <1>5, Zenon

-----------------------------------------------------------------------------
(* Powers of the fanout, and the digits of an address                       *)

(* Power satisfies its defining equation. *)
LEMMA PowerEquation ==
  Power = [k \in 0 .. Levels |-> IF k = 0 THEN 1 ELSE Fanout * Power[k - 1]]
<1> DEFINE Solves(g, n) ==
      g = [k \in 0 .. n |-> IF k = 0 THEN 1 ELSE Fanout * g[k - 1]]
           S == {n \in Nat : \E g : Solves(g, n)}
<1>1. 0 \in S
  <2>1. Solves([k \in 0 .. 0 |-> 1], 0)
    OBVIOUS
  <2>2. QED
    BY <2>1, Zenon
<1>2. ASSUME NEW n \in Nat, n \in S PROVE n + 1 \in S
  <2>1. PICK g : Solves(g, n)
    BY <1>2, Zenon
  <2> DEFINE h == [k \in 0 .. n + 1 |->
                     IF k = n + 1 THEN Fanout * g[n] ELSE g[k]]
  <2>2. \A k \in 0 .. n + 1 :
          h[k] = IF k = 0 THEN 1 ELSE Fanout * h[k - 1]
    BY <2>1
  <2>3. Solves(h, n + 1)
    BY <2>2, Zenon
  <2> HIDE DEF h
  <2>4. n + 1 \in Nat /\ \E f : Solves(f, n + 1)
    BY <2>3
  <2>5. QED
    BY <2>4, Zenon
<1>3. Levels \in Nat
  BY TreeAssumption, Zenon
<1> HIDE DEF S
<1>4. \A n \in 0 .. Levels : n \in S
  BY <1>1, <1>2, <1>3, UpTo
<1>5. \E g : Solves(g, Levels)
  BY <1>3, <1>4 DEF S
<1>6. QED
  BY <1>5, Zenon DEF Power

(* The powers are positive, and each is the fanout times the one before. *)
LEMMA PowerFacts ==
  /\ Power[0] = 1 /\ Power[1] = Fanout
  /\ \A k \in 0 .. Levels : Power[k] \in Nat /\ Power[k] >= 1
  /\ \A k \in 1 .. Levels : Power[k] = Fanout * Power[k - 1]
<1> USE TreeAssumption
<1>1. Power[0] = 1
  BY PowerEquation
<1>2. \A k \in 1 .. Levels : Power[k] = Fanout * Power[k - 1]
  BY PowerEquation
<1> DEFINE S == {k \in 0 .. Levels : Power[k] \in Nat /\ Power[k] >= 1}
<1>3. 0 \in S
  BY <1>1
<1>4. ASSUME NEW k \in 0 .. Levels - 1, k \in S PROVE k + 1 \in S
  <2>1. Power[k + 1] = Fanout * Power[k]
    BY <1>2
  <2>2. Power[k] \in Nat /\ Power[k] >= 1
    BY <1>4, Zenon
  <2>3. \A p \in Nat : p >= 1 => Fanout * p \in Nat /\ Fanout * p >= 1
    OBVIOUS
  <2>4. QED
    BY <2>1, <2>2, <2>3
<1> HIDE DEF S
<1>5. \A k \in 0 .. Levels : k \in S
  BY <1>3, <1>4, UpTo, Zenon
<1>6. Power[1] = Fanout
  BY <1>1, <1>2
<1>7. QED
  BY <1>1, <1>2, <1>5, <1>6, Zenon DEF S

(* Division with remainder. *)
LEMMA DivMod ==
  ASSUME NEW a \in Nat, NEW b \in Nat, b >= 1
  PROVE  /\ a \div b \in Nat /\ a % b \in 0 .. b - 1
         /\ a = b * (a \div b) + (a % b)
OBVIOUS

(* The quotient is determined by its remainder being in range. *)
LEMMA DivUnique ==
  ASSUME NEW b \in Nat, b >= 1, NEW q \in Nat, NEW r \in 0 .. b - 1
  PROVE  (b * q + r) \div b = q
OBVIOUS

(* Dividing twice is dividing by the product. *)
LEMMA DivDiv ==
  ASSUME NEW a \in Nat, NEW b \in Nat, b >= 1, NEW c \in Nat, c >= 1
  PROVE  (a \div b) \div c = a \div (c * b)
OBVIOUS

(* The leading k digits of an address, as a number. *)
Prefix(va, k) == va \div Power[Levels - k]

(* Every digit of an address is an index into a table. *)
LEMMA PageIndexType ==
  ASSUME NEW va \in Nat, NEW k \in 0 .. Levels - 1
  PROVE  PAGEINDEX(va, k) \in Index
<1>1. Levels - 1 - k \in 0 .. Levels
  BY TreeAssumption
<1>2. Power[Levels - 1 - k] \in Nat /\ Power[Levels - 1 - k] >= 1
  BY <1>1, PowerFacts, Zenon
<1>3. va \div Power[Levels - 1 - k] \in Nat
  BY <1>2, DivMod, Zenon
<1>4. QED
  BY <1>3, TreeAssumption, DivMod DEF PAGEINDEX, Index

(* An address is put together from its digits, the highest first. *)
LEMMA Digits ==
  ASSUME NEW va \in 0 .. VPages - 1
  PROVE  /\ Prefix(va, 0) = 0 /\ Prefix(va, Levels) = va
         /\ Prefix(va, Levels - 1) = Index123(va)
         /\ \A k \in 0 .. Levels : Prefix(va, k) \in Nat
         /\ \A k \in 0 .. Levels - 1 :
              Prefix(va, k + 1) = Fanout * Prefix(va, k) + PAGEINDEX(va, k)
<1> USE TreeAssumption
<1>1. VPages \in Nat /\ VPages >= 1 /\ va \in Nat /\ va < VPages
  BY PowerFacts DEF VPages
<1>2. Prefix(va, 0) = 0
  BY <1>1 DEF Prefix, VPages
<1>3. Prefix(va, Levels) = va
  <2>1. Levels - Levels = 0
    OBVIOUS
  <2>2. QED
    BY <1>1, <2>1, PowerFacts DEF Prefix
<1>4. Prefix(va, Levels - 1) = Index123(va)
  <2>1. Levels - (Levels - 1) = 1
    OBVIOUS
  <2>2. QED
    BY <2>1, PowerFacts, Zenon DEF Prefix, Index123
<1>5. \A k \in 0 .. Levels : Prefix(va, k) \in Nat
  <2>1. SUFFICES ASSUME NEW k \in 0 .. Levels PROVE Prefix(va, k) \in Nat
    BY Zenon
  <2>2. Levels - k \in 0 .. Levels
    OBVIOUS
  <2>3. QED
    BY <1>1, <2>2, PowerFacts, DivMod, Zenon DEF Prefix
<1>6. ASSUME NEW k \in 0 .. Levels - 1
      PROVE  Prefix(va, k + 1) = Fanout * Prefix(va, k) + PAGEINDEX(va, k)
  <2> DEFINE P == Power[Levels - 1 - k]
  <2>1. Levels - (k + 1) = Levels - 1 - k /\ Levels - k \in 1 .. Levels
        /\ (Levels - k) - 1 = Levels - 1 - k /\ Levels - 1 - k \in 0 .. Levels
    OBVIOUS
  <2>2. P \in Nat /\ P >= 1 /\ Power[Levels - k] = Fanout * P
    BY <2>1, PowerFacts, Zenon
  <2>3. Prefix(va, k + 1) = va \div P
    BY <2>1, Zenon DEF Prefix
  <2>4. Prefix(va, k) = va \div (Fanout * P)
    BY <2>2, Zenon DEF Prefix
  <2>5. PAGEINDEX(va, k) = (va \div P) % Fanout
    BY Zenon DEF PAGEINDEX
  <2> HIDE DEF P
  <2>6. Prefix(va, k) = (va \div P) \div Fanout
    <3>1. Fanout \in Nat /\ Fanout >= 1
      OBVIOUS
    <3>2. (va \div P) \div Fanout = va \div (Fanout * P)
      BY <1>1, <2>2, <3>1, DivDiv, Zenon
    <3>3. QED
      BY <2>4, <3>2, Zenon
  <2>7. va \div P \in Nat
    BY <1>1, <2>2, DivMod, Zenon
  <2>8. Fanout \in Nat /\ Fanout >= 1
    OBVIOUS
  <2>9. va \div P = Fanout * ((va \div P) \div Fanout) + ((va \div P) % Fanout)
    BY <2>7, <2>8, DivMod, Zenon
  <2>10. QED
    BY <2>3, <2>5, <2>6, <2>9, Zenon
<1>7. QED
  BY <1>2, <1>3, <1>4, <1>5, <1>6, Zenon

-----------------------------------------------------------------------------
(* The walk through given tables                                            *)

Entry == [addr : Nat, perm : SUBSET Full]
Root == [addr |-> 0, perm |-> Full]

StepOf(E, va, k, up) ==
  LET pe == E[up.addr][PAGEINDEX(va, k)]
  IN  IF "P" \notin up.perm THEN up
      ELSE [addr |-> pe.addr, perm |-> up.perm \cap pe.perm]

WalkOf(E, va) ==
  LET At[k \in 0 .. Levels] ==
        IF k = 0 THEN [addr |-> 0, perm |-> Full]
        ELSE StepOf(E, va, k - 1, At[k - 1])
  IN  At

LookupOf(E, va) ==
  LET vam == WalkOf(E, va)[Levels]
  IN  IF "P" \in vam.perm THEN [pa |-> vam.addr, perm |-> vam.perm]
      ELSE [pa |-> -1, perm |-> {}]

(* The tables T form a tree, lev giving the level of each: the root has     *)
(* level 0, every link of a table above the last level is full and leads to *)
(* a table one level below, no two links lead to the same table, and every  *)
(* table but the root is linked.                                            *)
Inner(T, lev) == {t \in T : lev[t] < Levels - 1}
Linking(E, t, x) == "P" \in E[t][x].perm
Tree(E, T, lev) ==
  /\ 0 \in T /\ lev[0] = 0
  /\ \A t \in Inner(T, lev), x \in Index : Linking(E, t, x) =>
       /\ E[t][x].perm = Full
       /\ E[t][x].addr \in T \ {0}
       /\ lev[E[t][x].addr] = lev[t] + 1
  /\ \A t, u \in Inner(T, lev), x, y \in Index :
       Linking(E, t, x) /\ Linking(E, u, y) /\ E[t][x].addr = E[u][y].addr
         => t = u /\ x = y
  /\ \A s \in T \ {0} : \E t \in Inner(T, lev), x \in Index :
       Linking(E, t, x) /\ E[t][x].addr = s
Leveling == [Table -> 0 .. Levels - 1]

(* What the loop of virtual_memory_map knows of the table at hand. *)
Cached(va) ==
  IF l4pagetable = -1 THEN "P" \notin WalkOf(entry, va)[Levels - 1].perm
  ELSE WalkOf(entry, va)[Levels - 1] = [addr |-> l4pagetable, perm |-> Full]

(* The inductive invariant. *)
MapTypeOK ==
  /\ entry \in [Table -> [Index -> Entry]]
  /\ taken \subseteq Table
  /\ req \in [va : Nat, pa : Nat, sz : Nat, perm : SUBSET Full]
  /\ req.va + req.sz <= VPages /\ req.sz <= MaxSize
  /\ result \in {-1, 0, 1} /\ allocator \in BOOLEAN
  /\ pc \in {"idle", "loop", "walk"}
  /\ pt \in taken /\ i \in 0 .. Levels - 1
  /\ l4pagetable \in taken \cup {-1}
  /\ calls \in 0 .. MaxCalls
  /\ result = 1 <=> pc # "idle"
TreeInv == \E lev \in Leveling : Tree(entry, taken, lev)
WalkInv ==
  pc = "walk" => /\ req.sz # 0
                 /\ WalkOf(entry, req.va)[i] = [addr |-> pt, perm |-> Full]
CacheInv ==
  pc = "loop" =>
    \A va \in 0 .. VPages - 1 : Index123(va) = last_index123 => Cached(va)
MapInv == MapTypeOK /\ TreeInv /\ WalkInv /\ CacheInv

(* The model's walk is the walk through its tables. *)
LEMMA WalkIsWalkOf ==
  ASSUME NEW va
  PROVE  /\ Walk(va) = WalkOf(entry, va)
         /\ virtual_memory_lookup(va) = LookupOf(entry, va)
BY Zenon DEF Walk, WalkOf, Step, StepOf, virtual_memory_lookup, LookupOf

(* The walk starts at the root and takes one step after the other. *)
LEMMA WalkEquation ==
  ASSUME NEW E, NEW va
  PROVE  /\ WalkOf(E, va)[0] = Root
         /\ \A k \in 0 .. Levels - 1 :
              WalkOf(E, va)[k + 1] = StepOf(E, va, k, WalkOf(E, va)[k])
<1> DEFINE Solves(g, n) ==
      g = [k \in 0 .. n |-> IF k = 0 THEN [addr |-> 0, perm |-> Full]
                            ELSE StepOf(E, va, k - 1, g[k - 1])]
           S == {n \in Nat : \E g : Solves(g, n)}
<1>1. 0 \in S
  <2>1. Solves([k \in 0 .. 0 |-> [addr |-> 0, perm |-> Full]], 0)
    OBVIOUS
  <2>2. QED
    BY <2>1, Zenon
<1>2. ASSUME NEW n \in Nat, n \in S PROVE n + 1 \in S
  <2>1. PICK g : Solves(g, n)
    BY <1>2, Zenon
  <2> DEFINE h == [k \in 0 .. n + 1 |->
                     IF k = n + 1 THEN StepOf(E, va, n, g[n]) ELSE g[k]]
  <2>2. \A k \in 0 .. n + 1 :
          h[k] = IF k = 0 THEN [addr |-> 0, perm |-> Full]
                 ELSE StepOf(E, va, k - 1, h[k - 1])
    BY <2>1
  <2>3. Solves(h, n + 1)
    BY <2>2, Zenon
  <2> HIDE DEF h
  <2>4. n + 1 \in Nat /\ \E f : Solves(f, n + 1)
    BY <2>3
  <2>5. QED
    BY <2>4, Zenon
<1>3. Levels \in Nat
  BY TreeAssumption, Zenon
<1> HIDE DEF S
<1>4. \A n \in 0 .. Levels : n \in S
  BY <1>1, <1>2, <1>3, UpTo
<1>5. \E g : Solves(g, Levels)
  BY <1>3, <1>4 DEF S
<1>6. Solves(WalkOf(E, va), Levels)
  BY <1>5, Zenon DEF WalkOf
<1>7. QED
  BY <1>3, <1>6 DEF Root

(* The permissions granted by both of two levels. *)
Both(p, q) == p \cap q

(* The entry that the walk reads next. *)
Read(E, va, k) == E[WalkOf(E, va)[k].addr][PAGEINDEX(va, k)]

(* One step of the walk: nothing changes after an entry that is not         *)
(* present, and otherwise the next entry is read.                           *)
LEMMA WalkStep ==
  ASSUME NEW E, NEW va
  PROVE  /\ \A k \in 0 .. Levels - 1 : "P" \notin WalkOf(E, va)[k].perm =>
              WalkOf(E, va)[k + 1] = WalkOf(E, va)[k]
         /\ \A k \in 0 .. Levels - 1 : "P" \in WalkOf(E, va)[k].perm =>
              /\ WalkOf(E, va)[k + 1] =
                   [addr |-> Read(E, va, k).addr,
                    perm |-> Both(WalkOf(E, va)[k].perm, Read(E, va, k).perm)]
              /\ WalkOf(E, va)[k + 1].addr = Read(E, va, k).addr
              /\ WalkOf(E, va)[k + 1].perm =
                   Both(WalkOf(E, va)[k].perm, Read(E, va, k).perm)
<1>1. SUFFICES ASSUME NEW k \in 0 .. Levels - 1
      PROVE  /\ "P" \notin WalkOf(E, va)[k].perm =>
                  WalkOf(E, va)[k + 1] = WalkOf(E, va)[k]
             /\ "P" \in WalkOf(E, va)[k].perm =>
                  /\ WalkOf(E, va)[k + 1] =
                       [addr |-> Read(E, va, k).addr,
                        perm |-> Both(WalkOf(E, va)[k].perm, Read(E, va, k).perm)]
                  /\ WalkOf(E, va)[k + 1].addr = Read(E, va, k).addr
                  /\ WalkOf(E, va)[k + 1].perm =
                       Both(WalkOf(E, va)[k].perm, Read(E, va, k).perm)
  BY Zenon
<1> DEFINE up == WalkOf(E, va)[k]
           down == WalkOf(E, va)[k + 1]
           pe == Read(E, va, k)
<1>2. down = StepOf(E, va, k, up)
  BY WalkEquation, Zenon
<1>3. pe = E[up.addr][PAGEINDEX(va, k)]
  BY Zenon DEF Read
<1> HIDE DEF up, down, pe
<1>4. "P" \notin up.perm => down = up
  BY <1>2, Zenon DEF StepOf
<1>5. "P" \in up.perm => down = [addr |-> pe.addr, perm |-> Both(up.perm, pe.perm)]
  BY <1>2, <1>3, Zenon DEF StepOf, Both
<1>6. "P" \in up.perm => down.addr = pe.addr /\ down.perm = Both(up.perm, pe.perm)
  BY <1>5
<1>7. QED
  BY <1>4, <1>5, <1>6, Zenon DEF up, down, pe

(* Once the walk has met an entry that is not present, it stays there. *)
LEMMA WalkStays ==
  ASSUME NEW E, NEW va, NEW j \in 0 .. Levels,
         "P" \notin WalkOf(E, va)[j].perm
  PROVE  \A k \in j .. Levels : WalkOf(E, va)[k] = WalkOf(E, va)[j]
<1> DEFINE W == WalkOf(E, va)
           S == {d \in 0 .. Levels - j : W[j + d] = W[j]}
<1> USE TreeAssumption
<1>1. Levels - j \in Nat /\ 0 \in S
  OBVIOUS
<1>2. ASSUME NEW d \in 0 .. (Levels - j) - 1, d \in S PROVE d + 1 \in S
  <2>1. j + d \in 0 .. Levels - 1 /\ j + (d + 1) = (j + d) + 1
        /\ d + 1 \in 0 .. Levels - j
    OBVIOUS
  <2>2. W[j + d] = W[j]
    BY <1>2, Zenon
  <2>3. W[(j + d) + 1] = W[j + d]
    <3>1. "P" \notin W[j + d].perm
      BY <2>2, Zenon
    <3>2. QED
      BY <2>1, <3>1, WalkStep
  <2>4. QED
    BY <2>1, <2>2, <2>3, Zenon
<1> HIDE DEF S
<1>3. \A d \in 0 .. Levels - j : d \in S
  BY <1>1, <1>2, UpTo, Zenon
<1>4. ASSUME NEW k \in j .. Levels PROVE W[k] = W[j]
  <2>1. k - j \in 0 .. Levels - j /\ j + (k - j) = k
    OBVIOUS
  <2>2. QED
    BY <1>3, <2>1 DEF S
<1>5. QED
  BY <1>4, Zenon

(* As long as the walk meets entries that are present it stands on a table  *)
(* of the level it has reached, with all permissions.                       *)
LEMMA WalkTree ==
  ASSUME NEW E, NEW T, NEW lev \in Leveling, T \subseteq Table,
         Tree(E, T, lev), NEW va \in Nat
  PROVE  \A k \in 0 .. Levels - 1 : "P" \in WalkOf(E, va)[k].perm =>
           /\ WalkOf(E, va)[k].addr \in T
           /\ lev[WalkOf(E, va)[k].addr] = k
           /\ WalkOf(E, va)[k].perm = Full
<1> DEFINE W == WalkOf(E, va)
           Stands(k) == "P" \in W[k].perm =>
             W[k].addr \in T /\ lev[W[k].addr] = k /\ W[k].perm = Full
           S == {k \in 0 .. Levels - 1 : Stands(k)}
<1> USE TreeAssumption
<1>1. Levels - 1 \in Nat /\ 0 \in S
  BY WalkEquation DEF Root, Tree
<1>2. ASSUME NEW k \in 0 .. (Levels - 1) - 1, k \in S PROVE k + 1 \in S
  <2>1. k \in 0 .. Levels - 1 /\ k + 1 \in 0 .. Levels - 1 /\ k < Levels - 1
    OBVIOUS
  <2>2. SUFFICES ASSUME "P" \in W[k + 1].perm
                 PROVE  /\ W[k + 1].addr \in T /\ lev[W[k + 1].addr] = k + 1
                        /\ W[k + 1].perm = Full
    BY <2>1, Zenon
  <2> DEFINE t == W[k].addr  x == PAGEINDEX(va, k)
  <2>3. /\ "P" \notin W[k].perm => W[k + 1] = W[k]
        /\ "P" \in W[k].perm => /\ W[k + 1].addr = E[t][x].addr
                                 /\ W[k + 1].perm = Both(W[k].perm, E[t][x].perm)
    <3>1. "P" \notin W[k].perm => W[k + 1] = W[k]
      BY <2>1, WalkStep
    <3>2. "P" \in W[k].perm => /\ W[k + 1].addr = Read(E, va, k).addr
                                  /\ W[k + 1].perm = Both(W[k].perm, Read(E, va, k).perm)
      BY <2>1, WalkStep, Zenon
    <3>3. Read(E, va, k) = E[t][x]
      BY Zenon DEF Read
    <3> HIDE DEF W, t, x
    <3>4. QED
      BY <3>1, <3>2, <3>3, Zenon
  <2>4. "P" \in W[k].perm
    BY <2>2, <2>3, Zenon
  <2>5. W[k].addr \in T /\ lev[W[k].addr] = k /\ W[k].perm = Full
    BY <1>2, <2>4, Zenon
  <2>6. t \in Inner(T, lev) /\ x \in Index
    BY <2>1, <2>5, PageIndexType, Zenon DEF Inner
  <2> HIDE DEF t, x, W
  <2>8. W[k + 1].addr = E[t][x].addr /\ W[k + 1].perm = Full \cap E[t][x].perm
    BY <2>3, <2>4, <2>5, Zenon DEF Both
  <2>9. Linking(E, t, x)
    BY <2>2, <2>8, Zenon DEF Linking
  <2>10. E[t][x].perm = Full /\ E[t][x].addr \in T /\ lev[E[t][x].addr] = lev[t] + 1
    BY <2>6, <2>9, Zenon DEF Tree
  <2>11. lev[t] = k
    BY <2>5, Zenon DEF t
  <2>12. QED
    BY <2>8, <2>10, <2>11, Zenon
<1> HIDE DEF S
<1>3. \A k \in 0 .. Levels - 1 : k \in S
  BY <1>1, <1>2, UpTo, Zenon
<1>4. QED
  BY <1>3, Zenon DEF S

(* Walks of addresses with the same leading digits are the same so far. *)
LEMMA WalkDeterministic ==
  ASSUME NEW E, NEW va \in 0 .. VPages - 1, NEW vb \in 0 .. VPages - 1,
         NEW n \in 0 .. Levels, Prefix(va, n) = Prefix(vb, n)
  PROVE  WalkOf(E, va)[n] = WalkOf(E, vb)[n]
<1> DEFINE S == {k \in 0 .. Levels : Prefix(va, k) = Prefix(vb, k) =>
                   WalkOf(E, va)[k] = WalkOf(E, vb)[k]}
<1> USE TreeAssumption
<1>0. va \in Nat /\ vb \in Nat /\ Levels \in Nat
  BY PowerFacts DEF VPages
<1>1. 0 \in S
  BY WalkEquation
<1>2. ASSUME NEW k \in 0 .. Levels - 1, k \in S PROVE k + 1 \in S
  <2>1. k + 1 \in 0 .. Levels /\ k \in 0 .. Levels
    OBVIOUS
  <2>2. SUFFICES ASSUME Prefix(va, k + 1) = Prefix(vb, k + 1)
                 PROVE  WalkOf(E, va)[k + 1] = WalkOf(E, vb)[k + 1]
    BY <2>1, Zenon
  <2>3. Prefix(va, k) = Prefix(vb, k) /\ PAGEINDEX(va, k) = PAGEINDEX(vb, k)
    <3>1. /\ Prefix(va, k + 1) = Fanout * Prefix(va, k) + PAGEINDEX(va, k)
          /\ Prefix(vb, k + 1) = Fanout * Prefix(vb, k) + PAGEINDEX(vb, k)
          /\ Prefix(va, k) \in Nat /\ Prefix(vb, k) \in Nat
      BY <2>1, Digits, Zenon
    <3>2. PAGEINDEX(va, k) \in 0 .. Fanout - 1 /\ PAGEINDEX(vb, k) \in 0 .. Fanout - 1
      BY <1>0, PageIndexType, Zenon DEF Index
    <3>3. \A p, q \in Nat : \A x, y \in 0 .. Fanout - 1 :
            Fanout * p + x = Fanout * q + y => p = q /\ x = y
      <4>1. SUFFICES ASSUME NEW p \in Nat, NEW q \in Nat,
                            NEW x \in 0 .. Fanout - 1, NEW y \in 0 .. Fanout - 1,
                            Fanout * p + x = Fanout * q + y
                     PROVE  p = q /\ x = y
        BY Zenon
      <4>2. (Fanout * p + x) \div Fanout = p /\ (Fanout * q + y) \div Fanout = q
        BY DivUnique
      <4>3. p = q
        BY <4>1, <4>2, Zenon
      <4>4. QED
        BY <4>1, <4>3
    <3>4. Fanout * Prefix(va, k) + PAGEINDEX(va, k)
            = Fanout * Prefix(vb, k) + PAGEINDEX(vb, k)
      BY <2>2, <3>1, Zenon
    <3> DEFINE p == Prefix(va, k)  x == PAGEINDEX(va, k)
               q == Prefix(vb, k)  y == PAGEINDEX(vb, k)
    <3>5. /\ p \in Nat /\ q \in Nat
          /\ x \in 0 .. Fanout - 1 /\ y \in 0 .. Fanout - 1
          /\ Fanout * p + x = Fanout * q + y
      BY <3>1, <3>2, <3>4, Zenon
    <3> HIDE DEF p, q, x, y
    <3>6. p = q /\ x = y
      BY <3>3, <3>5
    <3>7. QED
      BY <3>6, Zenon DEF p, q, x, y
  <2>4. WalkOf(E, va)[k] = WalkOf(E, vb)[k]
    BY <1>2, <2>3, Zenon
  <2>5. StepOf(E, va, k, WalkOf(E, va)[k]) = StepOf(E, vb, k, WalkOf(E, vb)[k])
    BY <2>3, <2>4, Zenon DEF StepOf
  <2>6. QED
    BY <2>5, WalkEquation, Zenon
<1> HIDE DEF S
<1>3. \A k \in 0 .. Levels : k \in S
  BY <1>0, <1>1, <1>2, UpTo, Zenon
<1>4. QED
  BY <1>3, Zenon DEF S

(* Walks that reach the same table come from the same leading digits. *)
LEMMA WalkInjective ==
  ASSUME NEW E, NEW T, NEW lev \in Leveling, T \subseteq Table,
         Tree(E, T, lev), NEW va \in 0 .. VPages - 1, NEW vb \in 0 .. VPages - 1,
         NEW n \in 0 .. Levels - 1,
         "P" \in WalkOf(E, va)[n].perm, "P" \in WalkOf(E, vb)[n].perm,
         WalkOf(E, va)[n].addr = WalkOf(E, vb)[n].addr
  PROVE  Prefix(va, n) = Prefix(vb, n)
<1> DEFINE V == WalkOf(E, va)
           W == WalkOf(E, vb)
           Same(k) == "P" \in V[k].perm /\ "P" \in W[k].perm
                        /\ V[k].addr = W[k].addr => Prefix(va, k) = Prefix(vb, k)
           S == {k \in 0 .. Levels - 1 : Same(k)}
<1> USE TreeAssumption
<1>0. va \in Nat /\ vb \in Nat /\ Levels - 1 \in Nat
  BY PowerFacts DEF VPages
<1>1. 0 \in S
  BY <1>0, Digits
<1>2. ASSUME NEW k \in 0 .. (Levels - 1) - 1, k \in S PROVE k + 1 \in S
  <2>1. k + 1 \in 0 .. Levels - 1 /\ k \in 0 .. Levels - 1 /\ k < Levels - 1
    OBVIOUS
  <2>2. SUFFICES ASSUME "P" \in V[k + 1].perm, "P" \in W[k + 1].perm,
                        V[k + 1].addr = W[k + 1].addr
                 PROVE  Prefix(va, k + 1) = Prefix(vb, k + 1)
    BY <2>1, Zenon
  <2> DEFINE t == V[k].addr  x == PAGEINDEX(va, k)
             u == W[k].addr  y == PAGEINDEX(vb, k)
  <2>3. /\ "P" \notin V[k].perm => V[k + 1] = V[k]
        /\ "P" \in V[k].perm => /\ V[k + 1].addr = E[t][x].addr
                                 /\ V[k + 1].perm = Both(V[k].perm, E[t][x].perm)
    <3>1. "P" \notin V[k].perm => V[k + 1] = V[k]
      BY <2>1, WalkStep
    <3>2. "P" \in V[k].perm => /\ V[k + 1].addr = Read(E, va, k).addr
                                  /\ V[k + 1].perm = Both(V[k].perm, Read(E, va, k).perm)
      BY <2>1, WalkStep, Zenon
    <3>3. Read(E, va, k) = E[t][x]
      BY Zenon DEF Read
    <3> HIDE DEF V, t, x
    <3>4. QED
      BY <3>1, <3>2, <3>3, Zenon
  <2>4. /\ "P" \notin W[k].perm => W[k + 1] = W[k]
        /\ "P" \in W[k].perm => /\ W[k + 1].addr = E[u][y].addr
                                 /\ W[k + 1].perm = Both(W[k].perm, E[u][y].perm)
    <3>1. "P" \notin W[k].perm => W[k + 1] = W[k]
      BY <2>1, WalkStep
    <3>2. "P" \in W[k].perm => /\ W[k + 1].addr = Read(E, vb, k).addr
                                  /\ W[k + 1].perm = Both(W[k].perm, Read(E, vb, k).perm)
      BY <2>1, WalkStep, Zenon
    <3>3. Read(E, vb, k) = E[u][y]
      BY Zenon DEF Read
    <3> HIDE DEF W, u, y
    <3>4. QED
      BY <3>1, <3>2, <3>3, Zenon
  <2>5. "P" \in V[k].perm /\ "P" \in W[k].perm
    BY <2>2, <2>3, <2>4, Zenon
  <2>6. /\ t \in T /\ lev[t] = k
        /\ u \in T /\ lev[u] = k
    BY <1>0, <2>1, <2>5, WalkTree
  <2>7. x \in Index /\ y \in Index
    BY <1>0, <2>1, PageIndexType, Zenon
  <2>8. Same(k)
    BY <1>2, Zenon
  <2>9. t = u => Prefix(va, k) = Prefix(vb, k)
    BY <2>5, <2>8, Zenon
  <2> HIDE DEF t, x, u, y, V, W
  <2>10. t \in Inner(T, lev) /\ u \in Inner(T, lev)
    BY <2>1, <2>6, Zenon DEF Inner
  <2>11. E[t][x].addr = E[u][y].addr
    BY <2>2, <2>3, <2>4, <2>5, Zenon
  <2>12. Linking(E, t, x) /\ Linking(E, u, y)
    BY <2>2, <2>3, <2>4, <2>5, Zenon DEF Linking, Both
  <2>13. t = u /\ x = y
    BY <2>7, <2>10, <2>11, <2>12 DEF Tree
  <2>14. /\ Prefix(va, k + 1) = Fanout * Prefix(va, k) + PAGEINDEX(va, k)
         /\ Prefix(vb, k + 1) = Fanout * Prefix(vb, k) + PAGEINDEX(vb, k)
    BY <2>1, Digits, Zenon
  <2>15. QED
    BY <2>9, <2>13, <2>14, Zenon DEF x, y
<1> HIDE DEF S
<1>3. \A k \in 0 .. Levels - 1 : k \in S
  BY <1>0, <1>1, <1>2, UpTo, Zenon
<1>4. Same(n)
  BY <1>3, Zenon DEF S
<1>5. QED
  BY <1>4, Zenon

(* E and F agree on the first n entries that the walk of va reads. *)
Agree(E, F, va, n) ==
  \A k \in 0 .. n - 1 : "P" \in WalkOf(E, va)[k].perm =>
    F[WalkOf(E, va)[k].addr][PAGEINDEX(va, k)]
      = E[WalkOf(E, va)[k].addr][PAGEINDEX(va, k)]

(* A walk depends on the entries it reads only. *)
LEMMA WalkAgrees ==
  ASSUME NEW E, NEW F, NEW va, NEW n \in 0 .. Levels, Agree(E, F, va, n)
  PROVE  \A k \in 0 .. n : WalkOf(F, va)[k] = WalkOf(E, va)[k]
<1> DEFINE W == WalkOf(E, va)
           S == {k \in 0 .. n : WalkOf(F, va)[k] = W[k]}
<1> USE TreeAssumption
<1>1. n \in Nat /\ 0 \in S
  BY WalkEquation
<1>2. ASSUME NEW k \in 0 .. n - 1, k \in S PROVE k + 1 \in S
  <2>1. k \in 0 .. Levels - 1 /\ k + 1 \in 0 .. n
    OBVIOUS
  <2>2. WalkOf(F, va)[k] = W[k]
    BY <1>2, Zenon
  <2>3. StepOf(F, va, k, W[k]) = StepOf(E, va, k, W[k])
    <3>1. "P" \in W[k].perm =>
            F[W[k].addr][PAGEINDEX(va, k)] = E[W[k].addr][PAGEINDEX(va, k)]
      BY Zenon DEF Agree
    <3> HIDE DEF W
    <3>2. QED
      BY <3>1, Zenon DEF StepOf
  <2>4. WalkOf(F, va)[k + 1] = W[k + 1]
    BY <2>1, <2>2, <2>3, WalkEquation
  <2>5. QED
    BY <2>1, <2>4, Zenon
<1> HIDE DEF S
<1>3. \A k \in 0 .. n : k \in S
  BY <1>1, <1>2, UpTo, Zenon
<1>4. QED
  BY <1>3, Zenon DEF S

-----------------------------------------------------------------------------
(* What a new table and a new last-level entry do to the tree and the walks *)

(* F is E with the unused page t as a new, empty table below p. *)
Grown(E, F, T, p, x, t) ==
  /\ F \in [Table -> [Index -> Entry]]
  /\ t \in Table \ T
  /\ F[p][x] = [addr |-> t, perm |-> Full]
  /\ \A y \in Index : F[t][y] = Zero
  /\ \A u \in T, y \in Index : (u = p /\ y = x) \/ F[u][y] = E[u][y]

(* The assignments of the allocation are such a change. *)
LEMMA GrownBy ==
  ASSUME NEW E \in [Table -> [Index -> Entry]], NEW T, T \subseteq Table,
         NEW p \in T, NEW x \in Index, NEW t \in Table \ T
  PROVE  Grown(E, [E EXCEPT ![p][x] = [addr |-> t, perm |-> Full],
                            ![t] = Blank], T, p, x, t)
<1> DEFINE e == [addr |-> t, perm |-> Full]
           F == [E EXCEPT ![p][x] = e, ![t] = Blank]
<1>1. e \in Entry /\ Blank \in [Index -> Entry] /\ \A y \in Index : Blank[y] = Zero
  BY TreeAssumption DEF Entry, Blank, Zero, Table
<1>2. e = [addr |-> t, perm |-> Full]
  BY Zenon
<1>3. p # t /\ p \in Table /\ t \in Table
  BY Zenon
<1> HIDE DEF e
<1>4. F = [u \in Table |-> IF u = t THEN Blank ELSE IF u = p
            THEN [y \in Index |-> IF y = x THEN e ELSE E[p][y]] ELSE E[u]]
  BY <1>3, Zenon
<1> HIDE DEF F
<1>5. F \in [Table -> [Index -> Entry]]
  BY <1>1, <1>4, Zenon
<1>6. F[p][x] = e /\ \A y \in Index : F[t][y] = Zero
  BY <1>1, <1>3, <1>4, Zenon
<1>7. \A u \in T, y \in Index : (u = p /\ y = x) \/ F[u][y] = E[u][y]
  BY <1>4, Zenon
<1>8. QED
  BY <1>2, <1>5, <1>6, <1>7, Zenon DEF Grown, F

(* The tables still form a tree: the new one is a leaf of it. *)
LEMMA GrownTree ==
  ASSUME NEW E, NEW F, NEW T, T \subseteq Table, NEW lev \in Leveling,
         Tree(E, T, lev), NEW j \in 0 .. Levels - 2, NEW p \in T, lev[p] = j,
         NEW x \in Index, "P" \notin E[p][x].perm, NEW t, Grown(E, F, T, p, x, t)
  PROVE  \E m \in Leveling : Tree(F, T \cup {t}, m)
<1> DEFINE m == [lev EXCEPT ![t] = j + 1]
           U == T \cup {t}
<1> USE TreeAssumption
<1>1. t \in Table /\ t \notin T
  BY Zenon DEF Grown
<1>2. m \in Leveling
  <2>1. j + 1 \in 0 .. Levels - 1
    OBVIOUS
  <2>2. QED
    BY <2>1, Zenon DEF Leveling
<1>3. m[t] = j + 1 /\ \A u \in T : m[u] = lev[u]
  BY <1>1, Zenon DEF Leveling
<1>4. \A u \in T : lev[u] \in 0 .. Levels - 1
  BY Zenon DEF Leveling
<1> HIDE DEF m
<1>5. \A y \in Index : ~Linking(F, t, y)
  BY DEF Grown, Linking, Zero
<1>6. Linking(F, p, x) /\ F[p][x].addr = t /\ F[p][x].perm = Full
  BY DEF Grown, Linking, Full
<1>7. \A u \in T : u \in Inner(U, m) <=> u \in Inner(T, lev)
  BY <1>3, Zenon DEF Inner
<1>8. p \in Inner(T, lev)
  BY DEF Inner
<1>9. ASSUME NEW u \in Inner(U, m), NEW y \in Index, Linking(F, u, y)
      PROVE  /\ u \in Inner(T, lev)
             /\ \/ u = p /\ y = x
                \/ F[u][y] = E[u][y] /\ Linking(E, u, y)
  <2>1. u # t /\ u \in T
    BY <1>5, <1>9, Zenon DEF Inner
  <2>2. (u = p /\ y = x) \/ F[u][y] = E[u][y]
    BY <2>1, Zenon DEF Grown
  <2>3. QED
    BY <1>7, <1>9, <2>1, <2>2, Zenon DEF Linking
<1>10. \A u \in Inner(T, lev), y \in Index : Linking(E, u, y) =>
         F[u][y] = E[u][y] /\ Linking(F, u, y)
  <2>1. SUFFICES ASSUME NEW u \in Inner(T, lev), NEW y \in Index, Linking(E, u, y)
                 PROVE  F[u][y] = E[u][y]
    BY Zenon DEF Linking
  <2>2. ~(u = p /\ y = x) /\ u \in T
    BY <2>1, Zenon DEF Linking, Inner
  <2>3. QED
    BY <2>2, Zenon DEF Grown
<1>11. 0 \in U /\ m[0] = 0
  BY <1>3, Zenon DEF Tree
<1>12. ASSUME NEW u \in Inner(U, m), NEW y \in Index, Linking(F, u, y)
       PROVE  /\ F[u][y].perm = Full /\ F[u][y].addr \in U \ {0}
              /\ m[F[u][y].addr] = m[u] + 1
  <2>1. m[u] = lev[u] /\ u \in T
    BY <1>3, <1>9, <1>12, Zenon DEF Inner
  <2>2. CASE u = p /\ y = x
    <3>1. t # 0
      BY <1>1, Zenon DEF Tree
    <3>2. QED
      BY <1>3, <1>6, <2>1, <2>2, <3>1, Zenon
  <2>3. CASE F[u][y] = E[u][y] /\ Linking(E, u, y)
    <3>1. /\ E[u][y].perm = Full /\ E[u][y].addr \in T \ {0}
          /\ lev[E[u][y].addr] = lev[u] + 1
      BY <1>9, <1>12, <2>3, Zenon DEF Tree
    <3>2. QED
      BY <1>3, <2>1, <2>3, <3>1, Zenon
  <2>4. QED
    BY <1>9, <1>12, <2>2, <2>3, Zenon
<1>13. ASSUME NEW u \in Inner(U, m), NEW y \in Index, Linking(F, u, y),
              NEW v \in Inner(U, m), NEW z \in Index, Linking(F, v, z),
              F[u][y].addr = F[v][z].addr
       PROVE  u = v /\ y = z
  <2>1. /\ u \in Inner(T, lev) /\ v \in Inner(T, lev)
        /\ (u = p /\ y = x) \/ (F[u][y] = E[u][y] /\ Linking(E, u, y))
        /\ (v = p /\ z = x) \/ (F[v][z] = E[v][z] /\ Linking(E, v, z))
    BY <1>9, <1>13, Zenon
  <2>2. \A w \in Inner(T, lev), a \in Index :
          Linking(E, w, a) => E[w][a].addr \in T
    BY Zenon DEF Tree
  <2>3. CASE (u = p /\ y = x) \/ (v = p /\ z = x)
    BY <1>1, <1>6, <1>13, <2>1, <2>2, <2>3, Zenon
  <2>4. CASE /\ F[u][y] = E[u][y] /\ Linking(E, u, y)
             /\ F[v][z] = E[v][z] /\ Linking(E, v, z)
    BY <1>13, <2>1, <2>4 DEF Tree
  <2>5. QED
    BY <2>1, <2>3, <2>4, Zenon
<1>14. ASSUME NEW s \in U \ {0}
       PROVE  \E u \in Inner(U, m), y \in Index :
                Linking(F, u, y) /\ F[u][y].addr = s
  <2>1. CASE s = t
    BY <1>6, <1>7, <1>8, <2>1, Zenon
  <2>2. CASE s \in T
    <3>1. PICK u \in Inner(T, lev), y \in Index :
            Linking(E, u, y) /\ E[u][y].addr = s
      BY <2>2, Zenon DEF Tree
    <3>2. u \in Inner(U, m)
      BY <1>7, Zenon DEF Inner
    <3>3. QED
      BY <1>10, <3>1, <3>2, Zenon
  <2>3. QED
    BY <2>1, <2>2, Zenon
<1> HIDE DEF U
<1>15. Tree(F, U, m)
  <2>1. \A u \in Inner(U, m), y \in Index : Linking(F, u, y) =>
          /\ F[u][y].perm = Full
          /\ F[u][y].addr \in U \ {0}
          /\ m[F[u][y].addr] = m[u] + 1
    BY <1>12, Zenon
  <2>2. \A u, v \in Inner(U, m), y, z \in Index :
          Linking(F, u, y) /\ Linking(F, v, z) /\ F[u][y].addr = F[v][z].addr
            => u = v /\ y = z
    BY <1>13, Zenon
  <2>3. \A s \in U \ {0} : \E u \in Inner(U, m), y \in Index :
          Linking(F, u, y) /\ F[u][y].addr = s
    BY <1>14, Zenon
  <2>4. QED
    BY <1>11, <2>1, <2>2, <2>3, Zenon DEF Tree
<1>16. QED
  BY <1>2, <1>15, Zenon DEF U

(* The walk to the new table, and what the walks of all addresses end in:   *)
(* those that pass through the new table met an entry that was not present, *)
(* and now meet the first entry of the new table, which is not.             *)
LEMMA GrownWalk ==
  ASSUME NEW E, NEW F, NEW T, T \subseteq Table, NEW lev \in Leveling,
         Tree(E, T, lev), NEW v0 \in Nat, NEW j \in 0 .. Levels - 2, NEW p,
         WalkOf(E, v0)[j] = [addr |-> p, perm |-> Full],
         "P" \notin E[p][PAGEINDEX(v0, j)].perm,
         NEW t, Grown(E, F, T, p, PAGEINDEX(v0, j), t)
  PROVE  /\ WalkOf(F, v0)[j + 1] = [addr |-> t, perm |-> Full]
         /\ \A va \in Nat : LookupOf(F, va) = LookupOf(E, va)
<1> DEFINE x == PAGEINDEX(v0, j)
<1> USE TreeAssumption
<1>1. /\ WalkOf(E, v0)[j].addr = p /\ WalkOf(E, v0)[j].perm = Full
      /\ "P" \in WalkOf(E, v0)[j].perm
  BY DEF Full
<1>2. j \in 0 .. Levels - 1 /\ j + 1 \in 0 .. Levels - 1 /\ j \in 0 .. Levels
      /\ j + 2 \in 0 .. Levels /\ (j + 1) + 1 = j + 2 /\ j + 1 \in 0 .. Levels
  OBVIOUS
<1>3. p \in T /\ lev[p] = j
  BY <1>1, <1>2, WalkTree
<1>4. x \in Index
  BY <1>2, PageIndexType, Zenon
<1>5. /\ t \in Table /\ t \notin T
      /\ F[p][x] = [addr |-> t, perm |-> Full]
      /\ \A y \in Index : F[t][y] = Zero
      /\ \A u \in T, y \in Index : (u = p /\ y = x) \/ F[u][y] = E[u][y]
  BY Zenon DEF Grown
<1>6. "P" \notin E[p][x].perm
  BY Zenon
<1> HIDE DEF x
<1>7. ASSUME NEW va \in Nat, NEW k \in 0 .. Levels - 1,
             "P" \in WalkOf(E, va)[k].perm, k # j \/ WalkOf(E, va)[k].addr # p
                                                  \/ PAGEINDEX(va, k) # x
      PROVE  F[WalkOf(E, va)[k].addr][PAGEINDEX(va, k)]
               = E[WalkOf(E, va)[k].addr][PAGEINDEX(va, k)]
  <2>1. WalkOf(E, va)[k].addr \in T /\ lev[WalkOf(E, va)[k].addr] = k
    BY <1>7, WalkTree
  <2>2. PAGEINDEX(va, k) \in Index
    BY PageIndexType, Zenon
  <2>3. ~(WalkOf(E, va)[k].addr = p /\ PAGEINDEX(va, k) = x)
    BY <1>3, <1>7, <2>1, Zenon
  <2>4. QED
    BY <1>5, <2>1, <2>2, <2>3, Zenon
<1>8. ASSUME NEW va \in Nat
      PROVE  WalkOf(F, va)[j] = WalkOf(E, va)[j]
  <2>1. Agree(E, F, va, j)
    <3>1. SUFFICES ASSUME NEW k \in 0 .. j - 1, "P" \in WalkOf(E, va)[k].perm
                   PROVE  F[WalkOf(E, va)[k].addr][PAGEINDEX(va, k)]
                            = E[WalkOf(E, va)[k].addr][PAGEINDEX(va, k)]
      BY Zenon DEF Agree
    <3>2. k \in 0 .. Levels - 1 /\ k # j
      OBVIOUS
    <3>3. QED
      BY <1>7, <3>1, <3>2, Zenon
  <2>2. \A k \in 0 .. j : WalkOf(F, va)[k] = WalkOf(E, va)[k]
    BY <1>2, <2>1, WalkAgrees
  <2>3. QED
    BY <2>2
<1>9. ASSUME NEW va \in Nat, WalkOf(E, va)[j].addr = p, PAGEINDEX(va, j) = x,
             "P" \in WalkOf(E, va)[j].perm
      PROVE  /\ WalkOf(F, va)[j + 1] = [addr |-> t, perm |-> Full]
             /\ "P" \notin WalkOf(F, va)[Levels].perm
             /\ "P" \notin WalkOf(E, va)[Levels].perm
  <2>1. WalkOf(E, va)[j].perm = Full
    BY <1>2, <1>9, WalkTree
  <2>2. /\ WalkOf(F, va)[j].addr = p /\ WalkOf(F, va)[j].perm = Full
        /\ "P" \in WalkOf(F, va)[j].perm
    BY <1>8, <1>9, <2>1, Zenon
  <2>3. Read(F, va, j) = [addr |-> t, perm |-> Full] /\ Read(E, va, j) = E[p][x]
    BY <1>5, <1>9, <2>2, Zenon DEF Read
  <2>4. Read(F, va, j).addr = t /\ Read(F, va, j).perm = Full
    BY <2>3
  <2>5. Both(Full, Full) = Full
    BY Zenon DEF Both
  <2>6. WalkOf(F, va)[j + 1] = [addr |-> t, perm |-> Full]
    <3>1. WalkOf(F, va)[j + 1] = [addr |-> Read(F, va, j).addr,
             perm |-> Both(WalkOf(F, va)[j].perm, Read(F, va, j).perm)]
      BY <1>2, <2>2, WalkStep, Zenon
    <3>2. QED
      BY <2>2, <2>4, <2>5, <3>1, Zenon
  <2>7. /\ WalkOf(F, va)[j + 1].addr = t /\ WalkOf(F, va)[j + 1].perm = Full
        /\ "P" \in WalkOf(F, va)[j + 1].perm
    BY <2>6 DEF Full
  <2>8. Read(F, va, j + 1) = Zero
    <3>1. PAGEINDEX(va, j + 1) \in Index
      BY <1>2, PageIndexType, Zenon
    <3>2. QED
      BY <1>5, <2>7, <3>1, Zenon DEF Read
  <2>9. WalkOf(F, va)[j + 2].perm = Both(Full, Zero.perm)
    <3> DEFINE l == j + 1
    <3>1. l \in 0 .. Levels - 1 /\ "P" \in WalkOf(F, va)[l].perm
      BY <1>2, <2>7, Zenon
    <3> HIDE DEF l
    <3>2. WalkOf(F, va)[l + 1].perm = Both(WalkOf(F, va)[l].perm, Read(F, va, l).perm)
      BY <3>1, WalkStep, Zenon
    <3>3. l + 1 = j + 2 /\ l = j + 1
      BY <1>2, Zenon DEF l
    <3>4. QED
      BY <2>7, <2>8, <3>2, <3>3, Zenon
  <2>10. "P" \notin WalkOf(F, va)[j + 2].perm
    BY <2>9, Zenon DEF Both, Zero
  <2>11. WalkOf(E, va)[j + 1].perm =
           Both(WalkOf(E, va)[j].perm, Read(E, va, j).perm)
    BY <1>2, <1>9, WalkStep, Zenon
  <2>12. "P" \notin WalkOf(E, va)[j + 1].perm
    BY <1>6, <2>3, <2>11, Zenon DEF Both
  <2>13. Levels \in (j + 2) .. Levels /\ Levels \in (j + 1) .. Levels
    OBVIOUS
  <2>14. /\ WalkOf(F, va)[Levels] = WalkOf(F, va)[j + 2]
         /\ WalkOf(E, va)[Levels] = WalkOf(E, va)[j + 1]
    <3>1. WalkOf(F, va)[Levels] = WalkOf(F, va)[j + 2]
      BY <1>2, <2>10, <2>13, WalkStays
    <3>2. WalkOf(E, va)[Levels] = WalkOf(E, va)[j + 1]
      BY <1>2, <2>12, <2>13, WalkStays
    <3>3. QED
      BY <3>1, <3>2, Zenon
  <2>15. QED
    BY <2>6, <2>10, <2>12, <2>14, Zenon
<1>10. WalkOf(F, v0)[j + 1] = [addr |-> t, perm |-> Full]
  BY <1>1, <1>9, Zenon DEF x
<1>11. ASSUME NEW va \in Nat PROVE LookupOf(F, va) = LookupOf(E, va)
  <2>1. CASE /\ WalkOf(E, va)[j].addr = p /\ PAGEINDEX(va, j) = x
             /\ "P" \in WalkOf(E, va)[j].perm
    <3>1. /\ "P" \notin WalkOf(F, va)[Levels].perm
          /\ "P" \notin WalkOf(E, va)[Levels].perm
      BY <1>9, <2>1, Zenon
    <3>2. QED
      BY <3>1, Zenon DEF LookupOf
  <2>2. CASE ~(/\ WalkOf(E, va)[j].addr = p /\ PAGEINDEX(va, j) = x
               /\ "P" \in WalkOf(E, va)[j].perm)
    <3>1. Agree(E, F, va, Levels)
      BY <1>7, <2>2, Zenon DEF Agree
    <3>2. Levels \in 0 .. Levels
      OBVIOUS
    <3>3. WalkOf(F, va)[Levels] = WalkOf(E, va)[Levels]
      BY <3>1, <3>2, WalkAgrees
    <3>4. QED
      BY <3>3, Zenon DEF LookupOf
  <2>3. QED
    BY <2>1, <2>2, Zenon
<1>12. QED
  BY <1>10, <1>11, Zenon

(* F is E with another entry in the last-level table l. *)
Stored(E, F, T, l, x, e) ==
  /\ F \in [Table -> [Index -> Entry]]
  /\ F[l][x] = e
  /\ \A u \in T, y \in Index : (u = l /\ y = x) \/ F[u][y] = E[u][y]

(* The assignment to an entry is such a change. *)
LEMMA StoredBy ==
  ASSUME NEW E \in [Table -> [Index -> Entry]], NEW T, T \subseteq Table,
         NEW l \in T, NEW x \in Index, NEW e \in Entry
  PROVE  Stored(E, [E EXCEPT ![l][x] = e], T, l, x, e)
<1> DEFINE F == [E EXCEPT ![l][x] = e]
<1>1. F = [u \in Table |-> IF u = l
            THEN [y \in Index |-> IF y = x THEN e ELSE E[l][y]] ELSE E[u]]
  BY Zenon
<1> HIDE DEF F
<1>2. F \in [Table -> [Index -> Entry]]
  BY <1>1, Zenon
<1>3. F[l][x] = e
  BY <1>1, Zenon
<1>4. \A u \in T, y \in Index : (u = l /\ y = x) \/ F[u][y] = E[u][y]
  BY <1>1, Zenon
<1>5. QED
  BY <1>2, <1>3, <1>4, Zenon DEF Stored, F

(* The tree is that of the upper levels, which are untouched. *)
LEMMA StoredTree ==
  ASSUME NEW E, NEW F, NEW T, T \subseteq Table, NEW lev \in Leveling,
         Tree(E, T, lev), NEW l \in T, lev[l] = Levels - 1,
         NEW x, NEW e, Stored(E, F, T, l, x, e)
  PROVE  Tree(F, T, lev)
<1>1. \A u \in Inner(T, lev) : u \in T /\ u # l
  BY TreeAssumption DEF Inner, Leveling
<1>2. \A u \in Inner(T, lev), y \in Index : F[u][y] = E[u][y]
  BY <1>1, Zenon DEF Stored
<1>3. \A u \in Inner(T, lev), y \in Index : Linking(F, u, y) <=> Linking(E, u, y)
  BY <1>2, Zenon DEF Linking
<1>4. 0 \in T /\ lev[0] = 0
  BY Zenon DEF Tree
<1>5. \A u \in Inner(T, lev), y \in Index : Linking(F, u, y) =>
        /\ F[u][y].perm = Full
        /\ F[u][y].addr \in T \ {0}
        /\ lev[F[u][y].addr] = lev[u] + 1
  BY <1>2, <1>3 DEF Tree
<1>6. \A u, v \in Inner(T, lev), y, z \in Index :
        Linking(F, u, y) /\ Linking(F, v, z) /\ F[u][y].addr = F[v][z].addr
          => u = v /\ y = z
  BY <1>2, <1>3 DEF Tree
<1>7. \A s \in T \ {0} : \E u \in Inner(T, lev), y \in Index :
        Linking(F, u, y) /\ F[u][y].addr = s
  BY <1>2, <1>3 DEF Tree
<1>8. QED
  BY <1>4, <1>5, <1>6, <1>7, Zenon DEF Tree

(* Storing into the last-level table of v0 changes what v0 is mapped to and *)
(* nothing else: no other address reads that entry.                         *)
LEMMA StoredWalk ==
  ASSUME NEW E, NEW F, NEW T, T \subseteq Table, NEW lev \in Leveling,
         Tree(E, T, lev), NEW v0 \in 0 .. VPages - 1, NEW l,
         WalkOf(E, v0)[Levels - 1] = [addr |-> l, perm |-> Full],
         NEW e \in Entry, Stored(E, F, T, l, PAGEINDEX(v0, Levels - 1), e)
  PROVE  /\ \A va \in 0 .. VPages - 1 :
              WalkOf(F, va)[Levels - 1] = WalkOf(E, va)[Levels - 1]
         /\ WalkOf(F, v0)[Levels].addr = e.addr
         /\ WalkOf(F, v0)[Levels].perm = e.perm
         /\ \A va \in (0 .. VPages - 1) \ {v0} : LookupOf(F, va) = LookupOf(E, va)
<1> DEFINE L == Levels - 1
           x == PAGEINDEX(v0, L)
<1> USE TreeAssumption
<1>1. /\ L \in 0 .. Levels - 1 /\ L \in 0 .. Levels /\ L + 1 = Levels
      /\ Levels \in 0 .. Levels /\ Levels \in Nat
  OBVIOUS
<1>2. \A va \in 0 .. VPages - 1 : va \in Nat
  OBVIOUS
<1>3. /\ WalkOf(E, v0)[L].addr = l /\ WalkOf(E, v0)[L].perm = Full
      /\ "P" \in WalkOf(E, v0)[L].perm
  BY DEF Full
<1>4. /\ F[l][x] = e
      /\ \A u \in T, y \in Index : (u = l /\ y = x) \/ F[u][y] = E[u][y]
  BY Zenon DEF Stored
<1> HIDE DEF L, x
<1>5. l \in T /\ lev[l] = L
  BY <1>1, <1>2, <1>3, WalkTree
<1>6. x \in Index
  BY <1>1, <1>2, PageIndexType, Zenon DEF x, L
<1>7. ASSUME NEW va \in 0 .. VPages - 1, NEW k \in 0 .. Levels - 1,
             "P" \in WalkOf(E, va)[k].perm, k # L \/ va # v0
      PROVE  F[WalkOf(E, va)[k].addr][PAGEINDEX(va, k)]
               = E[WalkOf(E, va)[k].addr][PAGEINDEX(va, k)]
  <2>1. WalkOf(E, va)[k].addr \in T /\ lev[WalkOf(E, va)[k].addr] = k
    BY <1>2, <1>7, WalkTree
  <2>2. PAGEINDEX(va, k) \in Index
    BY <1>2, PageIndexType, Zenon
  <2>3. ~(WalkOf(E, va)[k].addr = l /\ PAGEINDEX(va, k) = x)
    <3>1. SUFFICES ASSUME WalkOf(E, va)[k].addr = l, PAGEINDEX(va, k) = x
                   PROVE  FALSE
      BY Zenon
    <3>2. k = L
      BY <1>5, <2>1, <3>1, Zenon
    <3>3. Prefix(va, L) = Prefix(v0, L)
      BY <1>1, <1>3, <1>7, <3>1, <3>2, WalkInjective
    <3>4. /\ Prefix(va, L + 1) = Fanout * Prefix(va, L) + PAGEINDEX(va, L)
          /\ Prefix(v0, L + 1) = Fanout * Prefix(v0, L) + PAGEINDEX(v0, L)
          /\ Prefix(va, Levels) = va /\ Prefix(v0, Levels) = v0
      BY <1>1, Digits, Zenon
    <3>5. va = v0
      BY <1>1, <3>1, <3>2, <3>3, <3>4, Zenon DEF x
    <3>6. QED
      BY <1>7, <3>2, <3>5, Zenon
  <2>4. QED
    BY <1>4, <2>1, <2>2, <2>3, Zenon
<1>8. ASSUME NEW va \in 0 .. VPages - 1
      PROVE  WalkOf(F, va)[L] = WalkOf(E, va)[L]
  <2>1. \A k \in 0 .. L - 1 : k \in 0 .. Levels - 1 /\ k # L
    BY <1>1
  <2>2. Agree(E, F, va, L)
    BY <1>7, <2>1, Zenon DEF Agree
  <2>3. \A k \in 0 .. L : WalkOf(F, va)[k] = WalkOf(E, va)[k]
    BY <1>1, <2>2, WalkAgrees
  <2>4. QED
    BY <1>1, <2>3
<1>9. WalkOf(F, v0)[Levels].addr = e.addr /\ WalkOf(F, v0)[Levels].perm = e.perm
  <2>1. Read(F, v0, L) = e
    BY <1>3, <1>4, <1>8, Zenon DEF Read, x
  <2>2. WalkOf(F, v0)[L] = WalkOf(E, v0)[L]
    BY <1>8, Zenon
  <2>3. /\ WalkOf(F, v0)[L + 1].addr = Read(F, v0, L).addr
        /\ WalkOf(F, v0)[L + 1].perm
             = Both(WalkOf(F, v0)[L].perm, Read(F, v0, L).perm)
    BY <1>1, <1>3, <2>2, WalkStep, Zenon
  <2>4. Both(Full, e.perm) = e.perm
    BY Zenon DEF Both, Entry
  <2>5. QED
    BY <1>1, <1>3, <2>1, <2>2, <2>3, <2>4, Zenon
<1>10. ASSUME NEW va \in (0 .. VPages - 1) \ {v0}
       PROVE  LookupOf(F, va) = LookupOf(E, va)
  <2>1. va \in 0 .. VPages - 1 /\ va # v0
    BY Zenon
  <2>2. Agree(E, F, va, Levels)
    BY <1>7, <2>1, Zenon DEF Agree
  <2>3. WalkOf(F, va)[Levels] = WalkOf(E, va)[Levels]
    BY <1>1, <2>2, WalkAgrees
  <2>4. QED
    BY <2>3, Zenon DEF LookupOf
<1>11. QED
  BY <1>8, <1>9, <1>10, Zenon DEF L

-----------------------------------------------------------------------------
(* The invariant holds initially and is preserved                           *)

(* Both the kernel's page table and a new process's are trees whose last    *)
(* level is empty.                                                          *)
LEMMA InitTree ==
  ASSUME Init
  PROVE  /\ entry \in [Table -> [Index -> Entry]] /\ taken \subseteq Table
         /\ 0 \in taken
         /\ \E lev \in Leveling :
              /\ Tree(entry, taken, lev)
              /\ \A t \in taken, x \in Index :
                   lev[t] = Levels - 1 => "P" \notin entry[t][x].perm
<1> USE TreeAssumption
<1>1. /\ Zero \in Entry /\ Zero.perm = {} /\ Full \in SUBSET Full /\ "P" \in Full
      /\ \A a \in Nat : [addr |-> a, perm |-> Full] \in Entry
  BY Zenon DEF Zero, Entry, Full
<1>2. CASE entry = KernelTables /\ taken = 0 .. Levels
  <2> DEFINE lev == [t \in Table |-> IF t < Levels THEN t ELSE Levels - 1]
  <2>1. lev \in Leveling
    BY DEF Leveling, Table
  <2>2. taken \subseteq Table /\ 0 \in taken
    BY <1>2 DEF Table
  <2>3. \A t \in taken : lev[t] = IF t < Levels THEN t ELSE Levels - 1
    BY <2>2, Zenon
  <2> HIDE DEF lev
  <2>4. ASSUME NEW t \in taken, NEW x \in Index
        PROVE  /\ t < Levels - 1 /\ x = 0 =>
                    entry[t][x] = [addr |-> t + 1, perm |-> Full]
               /\ t = Levels - 2 /\ x = 1 =>
                    entry[t][x] = [addr |-> Levels, perm |-> Full]
               /\ ~(t < Levels - 1 /\ x = 0) /\ ~(t = Levels - 2 /\ x = 1) =>
                    entry[t][x] = Zero
    <3>1. t \in Table /\ ~(t > Levels)
      BY <1>2, <2>2
    <3>2. entry[t][x] =
            IF t < Levels - 1 /\ x = 0 THEN [addr |-> t + 1, perm |-> Full]
            ELSE IF t = Levels - 2 /\ x = 1
                 THEN [addr |-> Levels, perm |-> Full] ELSE Zero
      BY <1>2, <3>1, Zenon DEF KernelTables
    <3>3. x = 1 => x # 0
      OBVIOUS
    <3>4. QED
      BY <3>2, <3>3, Zenon
  <2>5. entry \in [Table -> [Index -> Entry]]
    <3>1. Stale \in [Index -> Entry]
      BY <1>1, Zenon DEF Stale
    <3>2. \A t \in Table : t + 1 \in Nat /\ Levels \in Nat
      BY DEF Table
    <3>3. \A t \in Table : [x \in Index |->
             IF t < Levels - 1 /\ x = 0 THEN [addr |-> t + 1, perm |-> Full]
             ELSE IF t = Levels - 2 /\ x = 1
                  THEN [addr |-> Levels, perm |-> Full] ELSE Zero]
            \in [Index -> Entry]
      BY <1>1, <3>2, Zenon
    <3>4. QED
      BY <1>2, <3>1, <3>3, Zenon DEF KernelTables
  <2>6. 0 \in Index /\ 1 \in Index
    BY DEF Index
  <2>7. ASSUME NEW t \in taken, NEW x \in Index, Linking(entry, t, x)
        PROVE  /\ t \in 0 .. Levels - 2 /\ entry[t][x].perm = Full
               /\ \/ x = 0 /\ entry[t][x].addr = t + 1
                  \/ x = 1 /\ t = Levels - 2 /\ entry[t][x].addr = Levels
    <3>1. t \in 0 .. Levels /\ x \in Int
      BY <1>2 DEF Index
    <3>2. CASE t < Levels - 1 /\ x = 0
      <4>1. entry[t][x] = [addr |-> t + 1, perm |-> Full]
        BY <2>4, <3>2, Zenon
      <4>2. QED
        BY <3>1, <3>2, <4>1
    <3>3. CASE t = Levels - 2 /\ x = 1
      <4>1. entry[t][x] = [addr |-> Levels, perm |-> Full]
        BY <2>4, <3>3, Zenon
      <4>2. QED
        BY <3>1, <3>3, <4>1
    <3>4. CASE ~(t < Levels - 1 /\ x = 0) /\ ~(t = Levels - 2 /\ x = 1)
      <4>1. entry[t][x] = Zero
        BY <2>4, <3>4, Zenon
      <4>2. QED
        BY <1>1, <2>7, <4>1, Zenon DEF Linking
    <3>5. QED
      BY <3>2, <3>3, <3>4, Zenon
  <2>8. \A t \in 0 .. Levels - 2 :
          /\ Linking(entry, t, 0) /\ entry[t][0].addr = t + 1
          /\ t = Levels - 2 => Linking(entry, t, 1) /\ entry[t][1].addr = Levels
    <3>1. SUFFICES ASSUME NEW t \in 0 .. Levels - 2
                   PROVE  /\ Linking(entry, t, 0) /\ entry[t][0].addr = t + 1
                          /\ t = Levels - 2 =>
                               Linking(entry, t, 1) /\ entry[t][1].addr = Levels
      BY Zenon
    <3>2. t \in taken /\ t < Levels - 1
      BY <1>2
    <3>3. entry[t][0] = [addr |-> t + 1, perm |-> Full]
      BY <2>4, <2>6, <3>2, Zenon
    <3>4. t = Levels - 2 => entry[t][1] = [addr |-> Levels, perm |-> Full]
      BY <2>4, <2>6, <3>2, Zenon
    <3>5. QED
      BY <1>1, <3>3, <3>4 DEF Linking
  <2>9. Inner(taken, lev) = 0 .. Levels - 2
    BY <1>2, <2>3 DEF Inner
  <2>10. \A t \in Inner(taken, lev), x \in Index : Linking(entry, t, x) =>
           /\ entry[t][x].perm = Full
           /\ entry[t][x].addr \in taken \ {0}
           /\ lev[entry[t][x].addr] = lev[t] + 1
    BY <1>2, <2>3, <2>7, <2>9
  <2>11. \A t, u \in Inner(taken, lev), x, y \in Index :
           Linking(entry, t, x) /\ Linking(entry, u, y)
             /\ entry[t][x].addr = entry[u][y].addr => t = u /\ x = y
    BY <1>2, <2>7, <2>9
  <2>12. \A s \in taken \ {0} : \E t \in Inner(taken, lev), x \in Index :
           Linking(entry, t, x) /\ entry[t][x].addr = s
    <3>1. SUFFICES ASSUME NEW s \in taken \ {0}
                   PROVE  \E t \in Inner(taken, lev), x \in Index :
                            Linking(entry, t, x) /\ entry[t][x].addr = s
      BY Zenon
    <3>2. CASE s = Levels
      <4>1. Levels - 2 \in 0 .. Levels - 2
        OBVIOUS
      <4>2. QED
        BY <2>6, <2>8, <2>9, <3>2, <4>1, Zenon
    <3>3. CASE s # Levels
      <4>1. s - 1 \in 0 .. Levels - 2 /\ (s - 1) + 1 = s
        BY <1>2, <3>3
      <4>2. QED
        BY <2>6, <2>8, <2>9, <4>1, Zenon
    <3>4. QED
      BY <3>2, <3>3, Zenon
  <2>13. lev[0] = 0
    BY <2>2, <2>3
  <2>14. Tree(entry, taken, lev)
    BY <2>2, <2>10, <2>11, <2>12, <2>13, Zenon DEF Tree
  <2>15. \A t \in taken, x \in Index :
           lev[t] = Levels - 1 => "P" \notin entry[t][x].perm
    BY <1>2, <2>3, <2>7 DEF Linking
  <2>16. QED
    BY <2>1, <2>2, <2>5, <2>14, <2>15, Zenon
<1>3. CASE entry = EmptyRoot /\ taken = {0}
  <2> DEFINE lev == [t \in Table |-> 0]
  <2>1. lev \in Leveling /\ 0 \in Table
    BY DEF Leveling, Table
  <2>2. \A x \in Index : entry[0][x] = Zero
    BY <1>3, <2>1, Zenon DEF EmptyRoot, Blank
  <2>3. \A t \in taken : t = 0 /\ lev[t] = 0
    BY <1>3, <2>1, Zenon
  <2>4. \A t \in taken, x \in Index : "P" \notin entry[t][x].perm
    BY <1>1, <1>3, <2>2, Zenon
  <2>5. entry \in [Table -> [Index -> Entry]]
    <3>1. Stale \in [Index -> Entry] /\ Blank \in [Index -> Entry]
      BY <1>1, Zenon DEF Stale, Blank
    <3>2. QED
      BY <1>3, <3>1, Zenon DEF EmptyRoot
  <2> HIDE DEF lev
  <2>6. Tree(entry, taken, lev)
    BY <1>3, <2>3, <2>4, Zenon DEF Tree, Inner, Linking
  <2>7. QED
    BY <1>3, <2>1, <2>4, <2>5, <2>6, Zenon
<1>4. QED
  BY <1>2, <1>3, Zenon DEF Init

(* The invariant holds initially. *)
LEMMA MapInit == Init => MapInv
<1> SUFFICES ASSUME Init PROVE MapInv
  BY Zenon
<1> USE TreeAssumption, CallAssumption
<1>1. /\ entry \in [Table -> [Index -> Entry]] /\ taken \subseteq Table /\ 0 \in taken
      /\ TreeInv
  BY InitTree, Zenon DEF TreeInv
<1>2. VPages \in Nat
  BY PowerFacts DEF VPages
<1>3. /\ req \in [va : Nat, pa : Nat, sz : Nat, perm : SUBSET Full]
      /\ req.va + req.sz <= VPages /\ req.sz <= MaxSize
  BY <1>2 DEF Init
<1>4. MapTypeOK
  <2>1. /\ result = 0 /\ allocator = FALSE /\ pc = "idle" /\ pt = 0 /\ i = 0
        /\ l4pagetable = -1 /\ calls = 0
    BY Zenon DEF Init
  <2>2. /\ result \in {-1, 0, 1} /\ allocator \in BOOLEAN
        /\ pc \in {"idle", "loop", "walk"}
        /\ pt \in taken /\ i \in 0 .. Levels - 1
        /\ l4pagetable \in taken \cup {-1}
        /\ calls \in 0 .. MaxCalls
    <3>1. allocator \in BOOLEAN
      BY <2>1, Zenon
    <3>2. i \in 0 .. Levels - 1 /\ calls \in 0 .. MaxCalls
      BY <2>1
    <3>3. pt \in taken
      BY <1>1, <2>1, Zenon
    <3>4. QED
      BY <2>1, <3>1, <3>2, <3>3, Zenon
  <2>3. result = 1 <=> pc # "idle"
    BY <2>1
  <2>4. QED
    BY <1>1, <1>3, <2>2, <2>3, Zenon DEF MapTypeOK
<1>5. WalkInv /\ CacheInv
  BY Zenon DEF Init, WalkInv, CacheInv
<1>6. QED
  BY <1>1, <1>4, <1>5, Zenon DEF MapInv

(* A page still to be mapped is a page of the address space. *)
LEMMA PageInRange ==
  ASSUME MapTypeOK
  PROVE  /\ VPages \in Nat /\ req.va \in Nat /\ req.pa \in Nat /\ req.sz \in Nat
         /\ req.perm \in SUBSET Full
         /\ req.sz # 0 => req.va \in 0 .. VPages - 1
<1>1. VPages \in Nat
  BY TreeAssumption, PowerFacts DEF VPages
<1>2. /\ req.va \in Nat /\ req.pa \in Nat /\ req.sz \in Nat
      /\ req.perm \in SUBSET Full /\ req.va + req.sz <= VPages
  BY Zenon DEF MapTypeOK
<1>3. QED
  BY <1>1, <1>2

(* A call starts without a table at hand. *)
LEMMA CallInv ==
  ASSUME MapInv,
         NEW va \in 0 .. VPages - 1, NEW pa \in 0 .. PPages - 1,
         NEW sz \in 0 .. MaxSize, NEW perm \in Perms, Call(va, pa, sz, perm)
  PROVE  MapInv'
<1> USE TreeAssumption, CallAssumption
<1>1. /\ entry' = entry /\ taken' = taken /\ pt' = pt /\ i' = i
      /\ req' = [va |-> va, pa |-> pa, sz |-> sz, perm |-> perm]
      /\ result' = 1 /\ pc' = "loop" /\ l4pagetable' = -1 /\ last_index123' = -1
      /\ calls < MaxCalls /\ calls' = calls + 1 /\ va + sz <= VPages
  BY Zenon DEF Call, walk
<1>2. allocator' \in BOOLEAN
  BY Zenon DEF Call
<1>3. VPages \in Nat
  BY PowerFacts DEF VPages
<1>4. perm \in SUBSET Full /\ va \in Nat /\ pa \in Nat /\ sz \in Nat /\ sz <= MaxSize
  OBVIOUS
<1>5. /\ req' \in [va : Nat, pa : Nat, sz : Nat, perm : SUBSET Full]
      /\ req'.va + req'.sz <= VPages /\ req'.sz <= MaxSize
  BY <1>1, <1>4, Zenon
<1>6. calls' \in 0 .. MaxCalls
  BY <1>1 DEF MapInv, MapTypeOK
<1>7. MapTypeOK'
  <2>1. /\ entry \in [Table -> [Index -> Entry]] /\ taken \subseteq Table
        /\ pt \in taken /\ i \in 0 .. Levels - 1
    BY Zenon DEF MapInv, MapTypeOK
  <2>2. result' = 1 /\ pc' # "idle" /\ pc' \in {"idle", "loop", "walk"}
        /\ result' \in {-1, 0, 1} /\ l4pagetable' \in taken \cup {-1}
    BY <1>1, Zenon
  <2>3. QED
    BY <1>1, <1>2, <1>5, <1>6, <2>1, <2>2, Zenon DEF MapTypeOK
<1>8. TreeInv'
  BY <1>1, Zenon DEF MapInv, TreeInv
<1>9. WalkInv'
  BY <1>1, Zenon DEF WalkInv
<1>10. CacheInv'
  <2>1. \A v \in 0 .. VPages - 1 : Index123(v) \in Nat
    BY <1>3, DivMod DEF Index123
  <2>2. \A v \in 0 .. VPages - 1 : Index123(v) # last_index123'
    BY <1>1, <2>1
  <2>3. QED
    BY <2>2, Zenon DEF CacheInv
<1>11. QED
  BY <1>7, <1>8, <1>9, <1>10, Zenon DEF MapInv

(* The walk starts at the root. *)
LEMMA BeginLookupInv ==
  ASSUME MapInv, BeginLookup
  PROVE  MapInv'
<1> USE TreeAssumption
<1>1. /\ entry' = entry /\ taken' = taken /\ req' = req /\ result' = result
      /\ allocator' = allocator /\ l4pagetable' = l4pagetable /\ calls' = calls
      /\ pc = "loop" /\ pc' = "walk" /\ pt' = 0 /\ i' = 0 /\ req.sz # 0
  BY Zenon DEF BeginLookup, cache
<1>2. 0 \in taken
  BY Zenon DEF MapInv, TreeInv, Tree
<1>3. MapTypeOK'
  <2>1. i' \in 0 .. Levels - 1 /\ pt' \in taken
    BY <1>1, <1>2
  <2>2. result' = 1 <=> pc' # "idle"
    BY <1>1, Zenon DEF MapInv, MapTypeOK
  <2>3. pc' \in {"idle", "loop", "walk"}
    BY <1>1, Zenon
  <2>4. QED
    BY <1>1, <2>1, <2>2, <2>3, Zenon DEF MapInv, MapTypeOK
<1>4. TreeInv'
  BY <1>1, Zenon DEF MapInv, TreeInv
<1>5. WalkInv'
  <2>1. WalkOf(entry, req.va)[0] = [addr |-> 0, perm |-> Full]
    BY WalkEquation, Zenon DEF Root
  <2>2. QED
    BY <1>1, <2>1, Zenon DEF WalkInv
<1>6. CacheInv'
  BY <1>1, Zenon DEF CacheInv
<1>7. QED
  BY <1>3, <1>4, <1>5, <1>6, Zenon DEF MapInv

(* One step down the tree. *)
LEMMA DescendInv ==
  ASSUME MapInv, Descend
  PROVE  MapInv'
<1> USE TreeAssumption
<1>1. /\ entry' = entry /\ taken' = taken /\ req' = req /\ result' = result
      /\ allocator' = allocator /\ l4pagetable' = l4pagetable /\ calls' = calls
      /\ pc = "walk" /\ pc' = pc /\ pt' = Pe.addr /\ i' = i + 1 /\ i < Levels - 1
      /\ "P" \in Pe.perm
  BY Zenon DEF Descend, cache
<1>2. /\ MapTypeOK /\ req.sz # 0
      /\ WalkOf(entry, req.va)[i] = [addr |-> pt, perm |-> Full]
      /\ taken \subseteq Table
  BY <1>1, Zenon DEF MapInv, WalkInv, MapTypeOK
<1>3. /\ WalkOf(entry, req.va)[i].addr = pt /\ WalkOf(entry, req.va)[i].perm = Full
      /\ "P" \in WalkOf(entry, req.va)[i].perm
  BY <1>2 DEF Full
<1>4. i \in 0 .. Levels - 1 /\ i + 1 \in 0 .. Levels - 1
  BY <1>1, <1>2 DEF MapTypeOK
<1>5. PICK lev \in Leveling : Tree(entry, taken, lev)
  BY Zenon DEF MapInv, TreeInv
<1>6. req.va \in Nat
  BY <1>2, PageInRange, Zenon
<1>7. Read(entry, req.va, i) = Pe
  BY <1>3, Zenon DEF Read, Pe
<1> HIDE DEF Pe
<1>8. WalkOf(entry, req.va)[i + 1] = [addr |-> Pe.addr, perm |-> Both(Full, Pe.perm)]
  BY <1>3, <1>4, <1>7, WalkStep, Zenon
<1>9. /\ WalkOf(entry, req.va)[i + 1].addr = Pe.addr
      /\ WalkOf(entry, req.va)[i + 1].perm = Both(Full, Pe.perm)
      /\ "P" \in WalkOf(entry, req.va)[i + 1].perm
  BY <1>1, <1>8 DEF Both, Full
<1>10. Pe.addr \in taken /\ Both(Full, Pe.perm) = Full
  <2>1. /\ WalkOf(entry, req.va)[i + 1].addr \in taken
        /\ WalkOf(entry, req.va)[i + 1].perm = Full
    BY <1>2, <1>4, <1>5, <1>6, <1>9, WalkTree
  <2>2. QED
    BY <1>9, <2>1, Zenon
<1>11. MapTypeOK'
  <2>1. i' \in 0 .. Levels - 1 /\ pt' \in taken
    BY <1>1, <1>4, <1>10, Zenon
  <2>2. QED
    BY <1>1, <1>2, <2>1, Zenon DEF MapTypeOK
<1>12. TreeInv'
  BY <1>1, Zenon DEF MapInv, TreeInv
<1>13. WalkInv'
  BY <1>1, <1>2, <1>8, <1>10, Zenon DEF WalkInv
<1>14. CacheInv'
  BY <1>1, Zenon DEF CacheInv
<1>15. QED
  BY <1>11, <1>12, <1>13, <1>14, Zenon DEF MapInv

(* What is known of the walk under way. *)
LEMMA WalkUnderWay ==
  ASSUME MapInv, pc = "walk"
  PROVE  /\ MapTypeOK /\ req.sz # 0 /\ req.va \in 0 .. VPages - 1
         /\ taken \subseteq Table /\ i \in 0 .. Levels - 1
         /\ WalkOf(entry, req.va)[i] = [addr |-> pt, perm |-> Full]
         /\ WalkOf(entry, req.va)[i].addr = pt
         /\ WalkOf(entry, req.va)[i].perm = Full
         /\ "P" \in WalkOf(entry, req.va)[i].perm
         /\ Read(entry, req.va, i) = Pe
<1>1. /\ MapTypeOK /\ req.sz # 0 /\ taken \subseteq Table /\ i \in 0 .. Levels - 1
      /\ WalkOf(entry, req.va)[i] = [addr |-> pt, perm |-> Full]
  BY Zenon DEF MapInv, WalkInv, MapTypeOK
<1>2. req.va \in 0 .. VPages - 1
  BY <1>1, PageInRange, Zenon
<1>3. /\ WalkOf(entry, req.va)[i].addr = pt /\ WalkOf(entry, req.va)[i].perm = Full
      /\ "P" \in WalkOf(entry, req.va)[i].perm
  BY <1>1 DEF Full
<1>4. Read(entry, req.va, i) = Pe
  BY <1>3, Zenon DEF Read, Pe
<1>5. QED
  BY <1>1, <1>2, <1>3, <1>4, Zenon

(* Allocating a table keeps the tree and what every page is mapped to. *)
LEMMA AllocateInv ==
  ASSUME MapInv, Allocate
  PROVE  MapInv' /\ \A va \in Nat : LookupOf(entry', va) = LookupOf(entry, va)
<1> USE TreeAssumption
<1> DEFINE x == PAGEINDEX(req.va, i)
<1>1. PICK t \in Table \ taken :
        /\ entry' = [entry EXCEPT ![pt][x] = [addr |-> t, perm |-> Full],
                                  ![t] = Blank]
        /\ taken' = taken \cup {t} /\ pt' = t
  BY Zenon DEF Allocate
<1>2. /\ req' = req /\ result' = result /\ pc = "walk" /\ pc' = pc /\ i' = i + 1
      /\ allocator' = allocator /\ l4pagetable' = l4pagetable /\ calls' = calls
      /\ i < Levels - 1 /\ "P" \notin Pe.perm
  BY Zenon DEF Allocate, cache
<1>3. /\ MapTypeOK /\ req.sz # 0 /\ req.va \in 0 .. VPages - 1
      /\ taken \subseteq Table /\ i \in 0 .. Levels - 1
      /\ WalkOf(entry, req.va)[i] = [addr |-> pt, perm |-> Full]
      /\ WalkOf(entry, req.va)[i].addr = pt
      /\ "P" \in WalkOf(entry, req.va)[i].perm
  BY <1>2, WalkUnderWay, Zenon
<1>4. /\ entry \in [Table -> [Index -> Entry]] /\ pt \in taken
      /\ l4pagetable \in taken \cup {-1}
  BY <1>3, Zenon DEF MapTypeOK
<1>5. req.va \in Nat /\ i \in 0 .. Levels - 2 /\ i + 1 \in 0 .. Levels - 1
  BY <1>2, <1>3, PageInRange
<1>6. x \in Index
  BY <1>3, <1>5, PageIndexType, Zenon
<1>7. "P" \notin entry[pt][x].perm
  BY <1>2, Zenon DEF Pe
<1>8. PICK lev \in Leveling : Tree(entry, taken, lev)
  BY Zenon DEF MapInv, TreeInv
<1>9. lev[pt] = i
  BY <1>3, <1>5, <1>8, WalkTree
<1>10. Grown(entry, entry', taken, pt, x, t)
  <2> HIDE DEF x
  <2>1. Grown(entry, [entry EXCEPT ![pt][x] = [addr |-> t, perm |-> Full],
                                   ![t] = Blank], taken, pt, x, t)
    BY <1>3, <1>4, <1>6, GrownBy, Zenon
  <2>2. QED
    BY <1>1, <2>1, Zenon
<1>11. /\ WalkOf(entry', req.va)[i + 1] = [addr |-> t, perm |-> Full]
       /\ \A va \in Nat : LookupOf(entry', va) = LookupOf(entry, va)
  BY <1>3, <1>5, <1>7, <1>8, <1>10, GrownWalk, Zenon
<1>12. TreeInv'
  <2> HIDE DEF x
  <2>1. \E m \in Leveling : Tree(entry', taken \cup {t}, m)
    BY <1>3, <1>4, <1>5, <1>6, <1>7, <1>8, <1>9, <1>10, GrownTree, Zenon
  <2>2. QED
    BY <1>1, <2>1, Zenon DEF TreeInv
<1>13. MapTypeOK'
  <2>1. entry' \in [Table -> [Index -> Entry]]
    BY <1>10, Zenon DEF Grown
  <2>2. taken' \subseteq Table /\ pt' \in taken' /\ l4pagetable' \in taken' \cup {-1}
    BY <1>1, <1>2, <1>3, <1>4, Zenon
  <2>3. i' \in 0 .. Levels - 1
    BY <1>2, <1>5, Zenon
  <2>4. QED
    BY <1>2, <1>3, <2>1, <2>2, <2>3, Zenon DEF MapTypeOK
<1>14. WalkInv'
  BY <1>1, <1>2, <1>3, <1>11, Zenon DEF WalkInv
<1>15. CacheInv'
  BY <1>2, Zenon DEF CacheInv
<1>16. QED
  BY <1>11, <1>12, <1>13, <1>14, <1>15, Zenon DEF MapInv

(* Pages of the same last-level table have the same walk down to it. *)
LEMMA SameLastTable ==
  ASSUME NEW E, NEW va \in 0 .. VPages - 1, NEW vb \in 0 .. VPages - 1,
         Index123(va) = Index123(vb)
  PROVE  WalkOf(E, va)[Levels - 1] = WalkOf(E, vb)[Levels - 1]
<1>1. Prefix(va, Levels - 1) = Prefix(vb, Levels - 1)
  BY Digits, Zenon
<1>2. Levels - 1 \in 0 .. Levels
  BY TreeAssumption
<1>3. QED
  BY <1>1, <1>2, WalkDeterministic, Zenon

(* The walk ended at an entry that is not present: none of the pages of     *)
(* that last-level table is mapped.                                         *)
LEMMA LookupFailsInv ==
  ASSUME MapInv, LookupFails
  PROVE  MapInv'
<1> USE TreeAssumption
<1>1. /\ entry' = entry /\ taken' = taken /\ req' = req /\ result' = result
      /\ allocator' = allocator /\ calls' = calls /\ pt' = pt /\ i' = i
      /\ pc = "walk" /\ pc' = "loop" /\ i < Levels - 1 /\ "P" \notin Pe.perm
      /\ l4pagetable' = -1 /\ last_index123' = Index123(req.va)
  BY Zenon DEF LookupFails, walk
<1>2. /\ MapTypeOK /\ req.va \in 0 .. VPages - 1 /\ i \in 0 .. Levels - 1
      /\ "P" \in WalkOf(entry, req.va)[i].perm /\ Read(entry, req.va, i) = Pe
      /\ WalkOf(entry, req.va)[i].perm = Full
  BY <1>1, WalkUnderWay, Zenon
<1>3. "P" \notin WalkOf(entry, req.va)[i + 1].perm
  <2> HIDE DEF Pe
  <2>1. WalkOf(entry, req.va)[i + 1].perm = Both(Full, Pe.perm)
    BY <1>2, WalkStep, Zenon
  <2>2. QED
    BY <1>1, <2>1, Zenon DEF Both
<1>4. "P" \notin WalkOf(entry, req.va)[Levels - 1].perm
  <2>1. i + 1 \in 0 .. Levels /\ Levels - 1 \in (i + 1) .. Levels
    BY <1>1, <1>2
  <2>2. WalkOf(entry, req.va)[Levels - 1] = WalkOf(entry, req.va)[i + 1]
    BY <1>3, <2>1, WalkStays
  <2>3. QED
    BY <1>3, <2>2, Zenon
<1>5. CacheInv'
  <2>1. ASSUME NEW va \in 0 .. VPages - 1, Index123(va) = Index123(req.va)
        PROVE  "P" \notin WalkOf(entry, va)[Levels - 1].perm
    BY <1>2, <1>4, <2>1, SameLastTable, Zenon
  <2>2. QED
    BY <1>1, <2>1, Zenon DEF CacheInv, Cached
<1>6. MapTypeOK'
  <2>1. pc' \in {"idle", "loop", "walk"} /\ l4pagetable' \in taken \cup {-1}
    BY <1>1, Zenon
  <2>2. result' = 1 <=> pc' # "idle"
    BY <1>1, <1>2, Zenon DEF MapTypeOK
  <2>3. QED
    BY <1>1, <1>2, <2>1, <2>2, Zenon DEF MapTypeOK
<1>7. TreeInv'
  BY <1>1, Zenon DEF MapInv, TreeInv
<1>8. WalkInv'
  BY <1>1, Zenon DEF WalkInv
<1>9. QED
  BY <1>5, <1>6, <1>7, <1>8, Zenon DEF MapInv

(* The walk reached the last level. *)
LEMMA LookupReturnsInv ==
  ASSUME MapInv, LookupReturns
  PROVE  MapInv'
<1> USE TreeAssumption
<1>1. /\ entry' = entry /\ taken' = taken /\ req' = req /\ result' = result
      /\ allocator' = allocator /\ calls' = calls /\ pt' = pt /\ i' = i
      /\ pc = "walk" /\ pc' = "loop" /\ i = Levels - 1
      /\ l4pagetable' = pt /\ last_index123' = Index123(req.va)
  BY Zenon DEF LookupReturns, walk
<1>2. /\ MapTypeOK /\ req.va \in 0 .. VPages - 1 /\ taken \subseteq Table
      /\ WalkOf(entry, req.va)[i] = [addr |-> pt, perm |-> Full]
  BY <1>1, WalkUnderWay, Zenon
<1>3. pt \in taken /\ \A t \in taken : t # -1
  BY <1>2 DEF MapTypeOK, Table
<1>4. CacheInv'
  <2>1. ASSUME NEW va \in 0 .. VPages - 1, Index123(va) = Index123(req.va)
        PROVE  WalkOf(entry, va)[Levels - 1] = [addr |-> pt, perm |-> Full]
    BY <1>1, <1>2, <2>1, SameLastTable, Zenon
  <2>2. pt # -1
    BY <1>3, Zenon
  <2>3. QED
    BY <1>1, <2>1, <2>2, Zenon DEF CacheInv, Cached
<1>5. MapTypeOK'
  <2>1. pc' \in {"idle", "loop", "walk"} /\ l4pagetable' \in taken \cup {-1}
    BY <1>1, <1>3, Zenon
  <2>2. result' = 1 <=> pc' # "idle"
    BY <1>1, <1>2, Zenon DEF MapTypeOK
  <2>3. QED
    BY <1>1, <1>2, <2>1, <2>2, Zenon DEF MapTypeOK
<1>6. TreeInv'
  BY <1>1, Zenon DEF MapInv, TreeInv
<1>7. WalkInv'
  BY <1>1, Zenon DEF WalkInv
<1>8. QED
  BY <1>4, <1>5, <1>6, <1>7, Zenon DEF MapInv

(* The rest of the request is a request. *)
LEMMA AdvanceType ==
  ASSUME MapTypeOK, req.sz # 0
  PROVE  /\ Advance \in [va : Nat, pa : Nat, sz : Nat, perm : SUBSET Full]
         /\ Advance.va + Advance.sz <= VPages /\ Advance.sz <= MaxSize
<1>1. /\ req \in [va : Nat, pa : Nat, sz : Nat, perm : SUBSET Full]
      /\ req.va + req.sz <= VPages /\ req.sz <= MaxSize
  BY Zenon DEF MapTypeOK
<1>2. VPages \in Nat /\ MaxSize \in Nat
  BY PageInRange, CallAssumption, Zenon
<1>3. Advance.va = req.va + 1 /\ Advance.sz = req.sz - 1
  BY <1>1, Zenon DEF Advance
<1>4. req.va + 1 \in Nat /\ req.pa + 1 \in Nat /\ req.sz - 1 \in Nat
  BY <1>1
<1>5. Advance \in [va : Nat, pa : Nat, sz : Nat, perm : SUBSET Full]
  BY <1>1, <1>4, Zenon DEF Advance
<1>6. QED
  BY <1>1, <1>2, <1>3, <1>5

(* Storing an entry maps the page at hand and no other. *)
LEMMA StoreInv ==
  ASSUME MapInv, Store
  PROVE  /\ MapInv' /\ req.va \in 0 .. VPages - 1
         /\ \A va \in (0 .. VPages - 1) \ {req.va} :
              LookupOf(entry', va) = LookupOf(entry, va)
         /\ LookupOf(entry', req.va) =
              IF "P" \in req.perm THEN [pa |-> req.pa, perm |-> req.perm]
              ELSE [pa |-> -1, perm |-> {}]
<1> USE TreeAssumption
<1> DEFINE x == PAGEINDEX(req.va, Levels - 1)
           e == [addr |-> IF "P" \in req.perm THEN req.pa ELSE 0,
                 perm |-> req.perm]
<1>1. entry' = [entry EXCEPT ![l4pagetable][x] = e]
  BY Zenon DEF Store
<1>2. /\ taken' = taken /\ req' = Advance /\ result' = result /\ pc' = pc
      /\ allocator' = allocator /\ calls' = calls /\ pt' = pt /\ i' = i
      /\ l4pagetable' = l4pagetable /\ last_index123' = last_index123
      /\ pc = "loop" /\ req.sz # 0 /\ last_index123 = Index123(req.va)
      /\ l4pagetable # -1
  BY Zenon DEF Store, SameTable, walk, cache
<1>3. MapTypeOK /\ taken \subseteq Table /\ l4pagetable \in taken
      /\ entry \in [Table -> [Index -> Entry]]
  BY <1>2, Zenon DEF MapInv, MapTypeOK
<1>4. /\ req.va \in 0 .. VPages - 1 /\ req.va \in Nat /\ req.pa \in Nat
      /\ req.perm \in SUBSET Full
  BY <1>2, <1>3, PageInRange, Zenon
<1>5. e \in Entry /\ e.perm = req.perm /\ ("P" \in req.perm => e.addr = req.pa)
  BY <1>4, Zenon DEF Entry
<1>6. x \in Index
  <2>1. Levels - 1 \in 0 .. Levels - 1
    OBVIOUS
  <2>2. QED
    BY <1>4, <2>1, PageIndexType, Zenon
<1>7. WalkOf(entry, req.va)[Levels - 1] = [addr |-> l4pagetable, perm |-> Full]
  BY <1>2, <1>4, Zenon DEF MapInv, CacheInv, Cached
<1>8. PICK lev \in Leveling : Tree(entry, taken, lev)
  BY Zenon DEF MapInv, TreeInv
<1>9. lev[l4pagetable] = Levels - 1
  <2>1. /\ WalkOf(entry, req.va)[Levels - 1].addr = l4pagetable
        /\ "P" \in WalkOf(entry, req.va)[Levels - 1].perm
    BY <1>7 DEF Full
  <2>2. Levels - 1 \in 0 .. Levels - 1
    OBVIOUS
  <2>3. QED
    BY <1>3, <1>4, <1>8, <2>1, <2>2, WalkTree
<1> HIDE DEF e
<1>10. Stored(entry, entry', taken, l4pagetable, x, e)
  <2> HIDE DEF x
  <2>1. Stored(entry, [entry EXCEPT ![l4pagetable][x] = e], taken,
               l4pagetable, x, e)
    BY <1>3, <1>5, <1>6, StoredBy, Zenon
  <2>2. QED
    BY <1>1, <2>1, Zenon
<1>11. /\ \A va \in 0 .. VPages - 1 :
            WalkOf(entry', va)[Levels - 1] = WalkOf(entry, va)[Levels - 1]
       /\ WalkOf(entry', req.va)[Levels].addr = e.addr
       /\ WalkOf(entry', req.va)[Levels].perm = e.perm
       /\ \A va \in (0 .. VPages - 1) \ {req.va} :
            LookupOf(entry', va) = LookupOf(entry, va)
  <2> DEFINE E == entry  F == entry'  l == l4pagetable  v0 == req.va
  <2>1. /\ taken \subseteq Table /\ lev \in Leveling /\ Tree(E, taken, lev)
        /\ v0 \in 0 .. VPages - 1
        /\ WalkOf(E, v0)[Levels - 1] = [addr |-> l, perm |-> Full]
        /\ e \in Entry /\ Stored(E, F, taken, l, PAGEINDEX(v0, Levels - 1), e)
    BY <1>3, <1>4, <1>5, <1>7, <1>8, <1>10, Zenon
  <2> HIDE DEF E, F, l, v0
  <2>2. /\ \A va \in 0 .. VPages - 1 :
             WalkOf(F, va)[Levels - 1] = WalkOf(E, va)[Levels - 1]
        /\ WalkOf(F, v0)[Levels].addr = e.addr
        /\ WalkOf(F, v0)[Levels].perm = e.perm
        /\ \A va \in (0 .. VPages - 1) \ {v0} : LookupOf(F, va) = LookupOf(E, va)
    BY <2>1, StoredWalk, Zenon
  <2>3. QED
    BY <2>2, Zenon DEF E, F, l, v0
<1>12. LookupOf(entry', req.va) =
         IF "P" \in req.perm THEN [pa |-> req.pa, perm |-> req.perm]
         ELSE [pa |-> -1, perm |-> {}]
  BY <1>5, <1>11, Zenon DEF LookupOf
<1>13. TreeInv'
  <2> HIDE DEF x
  <2>1. Tree(entry', taken, lev)
    BY <1>3, <1>8, <1>9, <1>10, StoredTree, Zenon
  <2>2. QED
    BY <1>2, <1>8, <2>1, Zenon DEF TreeInv
<1>14. MapTypeOK'
  <2>1. entry' \in [Table -> [Index -> Entry]]
    BY <1>10, Zenon DEF Stored
  <2>2. /\ req' \in [va : Nat, pa : Nat, sz : Nat, perm : SUBSET Full]
        /\ req'.va + req'.sz <= VPages /\ req'.sz <= MaxSize
    BY <1>2, <1>3, AdvanceType, Zenon
  <2>3. QED
    BY <1>2, <1>3, <2>1, <2>2, Zenon DEF MapTypeOK
<1>15. WalkInv'
  BY <1>2, Zenon DEF WalkInv
<1>16. CacheInv'
  BY <1>2, <1>11, Zenon DEF MapInv, CacheInv, Cached
<1>17. QED
  BY <1>4, <1>11, <1>12, <1>13, <1>14, <1>15, <1>16, Zenon DEF MapInv

(* A page without a last-level table is not mapped. *)
LEMMA SkipInv ==
  ASSUME MapInv, Skip
  PROVE  /\ MapInv' /\ req.va \in 0 .. VPages - 1
         /\ LookupOf(entry, req.va) = [pa |-> -1, perm |-> {}]
<1> USE TreeAssumption
<1>1. /\ entry' = entry /\ taken' = taken /\ req' = Advance /\ result' = result
      /\ pc' = pc /\ allocator' = allocator /\ calls' = calls /\ pt' = pt /\ i' = i
      /\ l4pagetable' = l4pagetable /\ last_index123' = last_index123
      /\ pc = "loop" /\ req.sz # 0 /\ last_index123 = Index123(req.va)
      /\ l4pagetable = -1
  BY Zenon DEF Skip, SameTable, walk, cache
<1>2. MapTypeOK
  BY Zenon DEF MapInv
<1>3. req.va \in 0 .. VPages - 1
  BY <1>1, <1>2, PageInRange, Zenon
<1>4. "P" \notin WalkOf(entry, req.va)[Levels - 1].perm
  BY <1>1, <1>3, Zenon DEF MapInv, CacheInv, Cached
<1>5. "P" \notin WalkOf(entry, req.va)[Levels].perm
  <2>1. Levels - 1 \in 0 .. Levels /\ Levels \in (Levels - 1) .. Levels
    OBVIOUS
  <2>2. WalkOf(entry, req.va)[Levels] = WalkOf(entry, req.va)[Levels - 1]
    BY <1>4, <2>1, WalkStays
  <2>3. QED
    BY <1>4, <2>2, Zenon
<1>6. LookupOf(entry, req.va) = [pa |-> -1, perm |-> {}]
  BY <1>5, Zenon DEF LookupOf
<1>7. MapTypeOK'
  <2>1. /\ req' \in [va : Nat, pa : Nat, sz : Nat, perm : SUBSET Full]
        /\ req'.va + req'.sz <= VPages /\ req'.sz <= MaxSize
    BY <1>1, <1>2, AdvanceType, Zenon
  <2>2. QED
    BY <1>1, <1>2, <2>1, Zenon DEF MapTypeOK
<1>8. TreeInv'
  BY <1>1, Zenon DEF MapInv, TreeInv
<1>9. WalkInv'
  BY <1>1, Zenon DEF WalkInv
<1>10. CacheInv'
  BY <1>1, Zenon DEF MapInv, CacheInv, Cached
<1>11. QED
  BY <1>3, <1>6, <1>7, <1>8, <1>9, <1>10, Zenon DEF MapInv

(* Returning changes the result only. *)
LEMMA ReturnInv ==
  ASSUME MapInv, ReturnFailure \/ ReturnSuccess
  PROVE  MapInv'
<1>1. /\ entry' = entry /\ taken' = taken /\ req' = req
      /\ allocator' = allocator /\ calls' = calls /\ pt' = pt /\ i' = i
      /\ l4pagetable' = l4pagetable /\ pc' = "idle" /\ result' \in {-1, 0}
  BY Zenon DEF ReturnFailure, ReturnSuccess, walk, cache
<1>2. MapTypeOK'
  <2>1. result' \in {-1, 0, 1} /\ result' # 1 /\ pc' \in {"idle", "loop", "walk"}
    BY <1>1
  <2>2. QED
    BY <1>1, <2>1, Zenon DEF MapInv, MapTypeOK
<1>3. TreeInv'
  BY <1>1, Zenon DEF MapInv, TreeInv
<1>4. WalkInv' /\ CacheInv'
  BY <1>1, Zenon DEF WalkInv, CacheInv
<1>5. QED
  BY <1>2, <1>3, <1>4, Zenon DEF MapInv

(* The invariant is preserved by every step. *)
LEMMA MapNext == MapInv /\ [Next]_vars => MapInv'
<1> SUFFICES ASSUME MapInv, [Next]_vars PROVE MapInv'
  BY Zenon
<1>1. CASE \E va \in 0 .. VPages - 1, pa \in 0 .. PPages - 1, sz \in 0 .. MaxSize,
              perm \in Perms : Call(va, pa, sz, perm)
  BY <1>1, CallInv, Zenon
<1>2. CASE Map
  BY <1>2, BeginLookupInv, DescendInv, AllocateInv, LookupFailsInv,
     LookupReturnsInv, StoreInv, SkipInv, ReturnInv, Zenon DEF Map
<1>3. CASE UNCHANGED vars
  <2>1. /\ entry' = entry /\ taken' = taken /\ req' = req /\ result' = result
        /\ allocator' = allocator /\ calls' = calls /\ pt' = pt /\ i' = i
        /\ pc' = pc /\ l4pagetable' = l4pagetable
        /\ last_index123' = last_index123
    BY <1>3, Zenon DEF vars, walk, cache
  <2>2. MapTypeOK' /\ TreeInv' /\ WalkInv' /\ CacheInv'
    BY <2>1, Zenon DEF MapInv, MapTypeOK, TreeInv, WalkInv, CacheInv, Cached
  <2>3. QED
    BY <2>2, Zenon DEF MapInv
<1>4. QED
  BY <1>1, <1>2, <1>3, Zenon DEF Next, Done

-----------------------------------------------------------------------------
(* The tables form a tree                                                   *)

(* The tables found from the root in Levels - 2 steps are those above the   *)
(* last level.                                                              *)
LEMMA UpperIsInner ==
  ASSUME taken \subseteq Table, NEW lev \in Leveling, Tree(entry, taken, lev)
  PROVE  Upper[Levels - 2] = Inner(taken, lev)
<1> USE TreeAssumption
<1> DEFINE At(k) == {t \in taken : lev[t] <= k}
           Solves(g) == g = [k \in 0 .. Levels - 2 |-> IF k = 0 THEN {0}
                               ELSE LET T == g[k - 1] IN T \cup Linked(T)]
<1>1. \A t \in taken : lev[t] \in 0 .. Levels - 1
  BY Zenon DEF Leveling
<1>2. \A t \in taken \ {0} : \E u \in taken, x \in Index :
        /\ Linking(entry, u, x) /\ entry[u][x].addr = t
        /\ lev[u] < Levels - 1 /\ lev[t] = lev[u] + 1
  BY DEF Tree, Inner
<1>3. At(0) = {0}
  <2>1. 0 \in taken /\ lev[0] = 0
    BY Zenon DEF Tree
  <2>2. \A t \in taken \ {0} : lev[t] >= 1
    BY <1>1, <1>2
  <2>3. QED
    BY <1>1, <2>1, <2>2
<1>4. ASSUME NEW k \in 1 .. Levels - 2
      PROVE  At(k) = At(k - 1) \cup Linked(At(k - 1))
  <2>1. ASSUME NEW t \in At(k), t \notin At(k - 1)
        PROVE  t \in Linked(At(k - 1))
    <3>1. lev[t] = k /\ t \in taken
      BY <1>1, <2>1
    <3>2. t # 0
      BY <3>1 DEF Tree
    <3>3. PICK u \in taken, x \in Index :
            /\ Linking(entry, u, x) /\ entry[u][x].addr = t
            /\ lev[t] = lev[u] + 1
      BY <1>2, <3>1, <3>2, Zenon
    <3>4. u \in At(k - 1)
      BY <1>1, <3>1, <3>3
    <3>5. <<u, x>> \in Links(At(k - 1))
      BY <3>3, <3>4, Zenon DEF Links, Linking
    <3>6. <<u, x>>[1] = u /\ <<u, x>>[2] = x
      BY Zenon
    <3>7. QED
      BY <3>3, <3>5, <3>6, Zenon DEF Linked
  <2>2. ASSUME NEW t \in Linked(At(k - 1)) PROVE t \in At(k)
    <3>1. PICK l \in Links(At(k - 1)) : t = entry[l[1]][l[2]].addr
      BY <2>2, Zenon DEF Linked
    <3>2. l[1] \in At(k - 1) /\ l[2] \in Index /\ Linking(entry, l[1], l[2])
      BY <3>1, Zenon DEF Links, Linking
    <3>3. l[1] \in Inner(taken, lev)
      BY <1>1, <3>2 DEF Inner
    <3>4. t \in taken /\ lev[t] = lev[l[1]] + 1
      BY <3>1, <3>2, <3>3 DEF Tree
    <3>5. QED
      BY <1>1, <3>2, <3>4
  <2>3. At(k - 1) \subseteq At(k)
    BY <1>1
  <2> HIDE DEF At
  <2>4. QED
    BY <2>1, <2>2, <2>3, Zenon
<1> HIDE DEF At
<1>5. \E g : Solves(g)
  <2> DEFINE g == [k \in 0 .. Levels - 2 |-> At(k)]
  <2>1. ASSUME NEW k \in 0 .. Levels - 2
        PROVE  g[k] = IF k = 0 THEN {0} ELSE LET T == g[k - 1] IN T \cup Linked(T)
    <3>1. CASE k = 0
      BY <1>3, <3>1, Zenon
    <3>2. CASE k # 0
      <4>1. k \in 1 .. Levels - 2 /\ k - 1 \in 0 .. Levels - 2
        BY <3>2
      <4>2. g[k] = At(k) /\ g[k - 1] = At(k - 1)
        BY <4>1, Zenon
      <4> HIDE DEF g
      <4>3. g[k] = g[k - 1] \cup Linked(g[k - 1])
        BY <1>4, <4>1, <4>2, Zenon
      <4>4. QED
        BY <3>2, <4>3, Zenon
    <3>3. QED
      BY <3>1, <3>2, Zenon
  <2>2. g = [k \in 0 .. Levels - 2 |-> g[k]]
    BY Zenon
  <2>3. Solves(g)
    <3> DEFINE h == [k \in 0 .. Levels - 2 |-> IF k = 0 THEN {0}
                       ELSE LET T == g[k - 1] IN T \cup Linked(T)]
    <3> HIDE DEF g
    <3>1. h = [k \in 0 .. Levels - 2 |-> g[k]]
      BY <2>1, Zenon
    <3>2. QED
      BY <2>2, <3>1, Zenon
  <2>4. QED
    BY <2>3, Zenon
<1>6. Solves(Upper)
  BY <1>5, Zenon DEF Upper
<1>7. /\ Upper[0] = {0}
      /\ \A k \in 1 .. Levels - 2 : Upper[k] = Upper[k - 1] \cup Linked(Upper[k - 1])
  <2>1. \A k \in 0 .. Levels - 2 : Upper[k] = IF k = 0 THEN {0}
          ELSE LET T == Upper[k - 1] IN T \cup Linked(T)
    BY <1>6, Zenon
  <2>2. 0 \in 0 .. Levels - 2 /\ \A k \in 1 .. Levels - 2 : k \in 0 .. Levels - 2 /\ k # 0
    OBVIOUS
  <2>3. QED
    BY <2>1, <2>2, Zenon
<1> DEFINE S == {k \in 0 .. Levels - 2 : Upper[k] = At(k)}
<1>8. 0 \in S
  <2>1. 0 \in 0 .. Levels - 2
    OBVIOUS
  <2>2. QED
    BY <1>3, <1>7, <2>1, Zenon
<1>9. ASSUME NEW k \in 0 .. (Levels - 2) - 1, k \in S PROVE k + 1 \in S
  <2>1. k + 1 \in 1 .. Levels - 2 /\ (k + 1) - 1 = k /\ k + 1 \in 0 .. Levels - 2
    OBVIOUS
  <2>2. Upper[k + 1] = Upper[k] \cup Linked(Upper[k])
    BY <1>7, <2>1, Zenon
  <2>3. At(k + 1) = At(k) \cup Linked(At(k))
    BY <1>4, <2>1, Zenon
  <2>4. Upper[k] = At(k)
    BY <1>9, Zenon
  <2>5. QED
    BY <2>1, <2>2, <2>3, <2>4, Zenon
<1> HIDE DEF S
<1>10. Levels - 2 \in Nat /\ Levels - 2 \in 0 .. Levels - 2
  OBVIOUS
<1>11. Levels - 2 \in S
  BY <1>8, <1>9, <1>10, UpTo, Zenon
<1>12. At(Levels - 2) = Inner(taken, lev)
  BY <1>1 DEF At, Inner
<1>13. QED
  BY <1>11, <1>12, Zenon DEF S

(* The invariant says that the tables form a tree. *)
LEMMA InvImpliesTree == MapInv => TablesFormTree
<1> SUFFICES ASSUME MapInv PROVE TablesFormTree
  BY Zenon
<1> USE TreeAssumption, CallAssumption
<1>1. PICK lev \in Leveling : Tree(entry, taken, lev)
  BY Zenon DEF MapInv, TreeInv
<1>2. MapTypeOK /\ taken \subseteq Table
  BY Zenon DEF MapInv, MapTypeOK
<1> DEFINE upper == Upper[Levels - 2]
           addr(l) == entry[l[1]][l[2]].addr
<1>3. upper = Inner(taken, lev)
  BY <1>1, <1>2, UpperIsInner, Zenon
<1> HIDE DEF upper
<1>4. TypeOK
  <2>1. \A t \in Table, x \in Index :
          entry[t][x].addr \in Nat /\ entry[t][x].perm \subseteq Full
    BY <1>2 DEF MapTypeOK, Entry
  <2>2. req.va \in 0 .. VPages /\ req.sz \in 0 .. MaxSize
    <3>1. /\ VPages \in Nat /\ req.va \in Nat /\ req.sz \in Nat
          /\ req.va + req.sz <= VPages /\ req.sz <= MaxSize
      BY <1>2, PageInRange, Zenon DEF MapTypeOK
    <3>2. QED
      BY <3>1
  <2>3. QED
    BY <1>2, <2>1, <2>2, Zenon DEF MapTypeOK, TypeOK
<1>5. ASSUME NEW l \in Links(upper)
      PROVE  /\ l[1] \in Inner(taken, lev) /\ l[2] \in Index /\ l = <<l[1], l[2]>>
             /\ Linking(entry, l[1], l[2])
             /\ entry[l[1]][l[2]].perm = Full /\ addr(l) \in taken \ {0}
  <2>1. /\ l[1] \in Inner(taken, lev) /\ l[2] \in Index /\ l = <<l[1], l[2]>>
        /\ Linking(entry, l[1], l[2])
    BY <1>3, <1>5 DEF Links, Linking
  <2>2. QED
    BY <1>1, <2>1 DEF Tree
<1>6. ASSUME NEW s \in taken \ {0} PROVE \E l \in Links(upper) : addr(l) = s
  <2>1. PICK t \in Inner(taken, lev), x \in Index :
          Linking(entry, t, x) /\ entry[t][x].addr = s
    BY <1>1, Zenon DEF Tree
  <2>2. <<t, x>> \in Links(upper)
    BY <1>3, <2>1, Zenon DEF Links, Linking
  <2>3. <<t, x>>[1] = t /\ <<t, x>>[2] = x
    BY Zenon
  <2>4. QED
    BY <2>1, <2>2, <2>3, Zenon
<1>7. ASSUME NEW l \in Links(upper), NEW m \in Links(upper), addr(l) = addr(m)
      PROVE  l = m
  <2>1. l[1] = m[1] /\ l[2] = m[2]
    BY <1>1, <1>5, <1>7 DEF Tree
  <2>2. QED
    BY <1>5, <2>1, Zenon
<1>8. Linked(upper) = taken \ {0}
  BY <1>5, <1>6 DEF Linked
<1>9. Cardinality(Links(upper)) = Cardinality(taken) - 1
  <2> DEFINE f == [l \in Links(upper) |-> addr(l)]
             N == taken \ {0}
  <2>1. IsFiniteSet(taken)
    <3>1. IsFiniteSet(Table)
      BY FS_Interval DEF Table
    <3>2. QED
      BY <1>2, <3>1, FS_Subset, Zenon
  <2>2. 0 \in taken
    BY <1>1, Zenon DEF Tree
  <2>3. IsFiniteSet(N) /\ Cardinality(N) = Cardinality(taken) - 1
    BY <2>1, <2>2, FS_RemoveElement, Zenon
  <2> HIDE DEF addr, N
  <2>4. f \in [Links(upper) -> N]
    BY <1>5, Zenon DEF N
  <2>5. f \in Injection(Links(upper), N)
    <3>1. \A l, m \in Links(upper) : f[l] = f[m] => l = m
      BY <1>7, Zenon
    <3> HIDE DEF f
    <3>2. QED
      BY <2>4, <3>1, Zenon DEF Injection, IsInjective
  <2>6. f \in Surjection(Links(upper), N)
    BY <1>6, <2>4, Zenon DEF Surjection, N
  <2>7. ExistsBijection(Links(upper), N)
    BY <2>5, <2>6, Zenon DEF ExistsBijection, Bijection
  <2>8. ExistsBijection(N, Links(upper))
    BY <2>7, Fun_ExistsBijSymmetric, Zenon
  <2>9. QED
    BY <2>3, <2>8, FS_Bijection, Zenon
<1>10. QED
  BY <1>4, <1>5, <1>8, <1>9, Zenon DEF TablesFormTree, upper

(* virtual_memory_map: every page handed out as a page table is linked from *)
(* exactly one entry of one table above it, with all permissions, whatever  *)
(* calls have failed; for every shape of page table.                        *)
THEOREM TablesStayTree == Spec => []TablesFormTree
<1>1. Init => MapInv
  BY MapInit, Zenon
<1>2. MapInv /\ [Next]_vars => MapInv'
  BY MapNext, Zenon
<1>3. MapInv => TablesFormTree
  BY InvImpliesTree, Zenon
<1>4. QED
  BY <1>1, <1>2, <1>3, PTL DEF Spec

-----------------------------------------------------------------------------
(* The tree implements an address space                                     *)

Space == [va \in 0 .. VPages - 1 |-> LookupOf(entry, va)]

(* The mapping of the refinement, before and after a step. *)
LEMMA SpaceIs ==
  /\ [va \in 0 .. VPages - 1 |-> virtual_memory_lookup(va)] = Space
  /\ [va \in 0 .. VPages - 1 |-> virtual_memory_lookup(va)]' = Space'
<1>1. \A va \in 0 .. VPages - 1 : virtual_memory_lookup(va) = LookupOf(entry, va)
  BY WalkIsWalkOf, Zenon
<1>2. \A va \in 0 .. VPages - 1 : virtual_memory_lookup(va)' = LookupOf(entry', va)
  BY Zenon DEF Walk, WalkOf, Step, StepOf, virtual_memory_lookup, LookupOf
<1>3. QED
  BY <1>1, <1>2, Zenon DEF Space

(* At first no page is mapped. *)
LEMMA SpaceInit == Init => Space = [va \in 0 .. VPages - 1 |-> AS!Unmapped]
<1> SUFFICES ASSUME Init PROVE Space = [va \in 0 .. VPages - 1 |-> AS!Unmapped]
  BY Zenon
<1> USE TreeAssumption
<1>1. PICK lev \in Leveling :
        /\ Tree(entry, taken, lev)
        /\ \A t \in taken, x \in Index :
             lev[t] = Levels - 1 => "P" \notin entry[t][x].perm
  BY InitTree, Zenon
<1>2. taken \subseteq Table
  BY InitTree, Zenon
<1> DEFINE L == Levels - 1
<1>3. L \in 0 .. Levels - 1 /\ L + 1 = Levels
  OBVIOUS
<1> HIDE DEF L
<1>4. ASSUME NEW va \in 0 .. VPages - 1
      PROVE  LookupOf(entry, va) = AS!Unmapped
  <2>1. va \in Nat
    OBVIOUS
  <2> DEFINE W == WalkOf(entry, va)
  <2>2. "P" \notin W[L + 1].perm
    <3>1. CASE "P" \notin W[L].perm
      <4>1. W[L + 1] = W[L]
        BY <1>3, <3>1, WalkStep
      <4>2. QED
        BY <3>1, <4>1, Zenon
    <3>2. CASE "P" \in W[L].perm
      <4>1. W[L].addr \in taken /\ lev[W[L].addr] = L
        BY <1>1, <1>2, <1>3, <2>1, <3>2, WalkTree
      <4>2. PAGEINDEX(va, L) \in Index
        BY <1>3, <2>1, PageIndexType, Zenon
      <4>3. "P" \notin Read(entry, va, L).perm
        BY <1>1, <4>1, <4>2, Zenon DEF Read, L
      <4>4. W[L + 1].perm = Both(W[L].perm, Read(entry, va, L).perm)
        BY <1>3, <3>2, WalkStep, Zenon
      <4>5. QED
        BY <4>3, <4>4, Zenon DEF Both
    <3>3. QED
      BY <3>1, <3>2, Zenon
  <2>3. QED
    BY <1>3, <2>2, Zenon DEF LookupOf, AS!Unmapped
<1>5. QED
  BY <1>4, Zenon DEF Space

(* The address space of equal lookups is the same. *)
LEMMA SpaceSame ==
  ASSUME \A va \in 0 .. VPages - 1 : LookupOf(entry', va) = LookupOf(entry, va)
  PROVE  Space' = Space
BY Zenon DEF Space

(* Every step of virtual_memory_map is a step of the address space or none  *)
(* at all: Store and Skip map the next page, the two returns return, and    *)
(* the walk of the tables is invisible.                                     *)
LEMMA StepMaps ==
  ASSUME MapInv, [Next]_vars
  PROVE  \/ /\ result # 1 /\ result' = 1 /\ Space' = Space
            /\ req' \in [va : 0 .. VPages - 1, pa : 0 .. PPages - 1,
                         sz : 0 .. VPages, perm : SUBSET Full]
            /\ req'.va + req'.sz <= VPages
            /\ "P" \in req'.perm => req'.pa + req'.sz <= PPages
         \/ /\ result = 1 /\ req.sz # 0 /\ req' = Advance /\ result' = result
            /\ Space' = [Space EXCEPT ![req.va] =
                 IF "P" \in req.perm THEN [pa |-> req.pa, perm |-> req.perm]
                 ELSE [pa |-> -1, perm |-> {}]]
         \/ /\ result = 1 /\ req.sz = 0 /\ result' = 0
            /\ Space' = Space /\ req' = req
         \/ /\ result = 1 /\ req.sz # 0 /\ "P" \in req.perm /\ result' = -1
            /\ Space' = Space /\ req' = req
         \/ Space' = Space /\ req' = req /\ result' = result
<1> USE TreeAssumption, CallAssumption
<1>1. /\ result = 1 <=> pc # "idle"
      /\ VPages \in Nat
      /\ \A va \in 0 .. VPages - 1 : va \in Nat
  BY PageInRange DEF MapInv, MapTypeOK
<1>2. entry' = entry => Space' = Space
  BY Zenon DEF Space
<1>3. ASSUME NEW va \in 0 .. VPages - 1, NEW pa \in 0 .. PPages - 1,
             NEW sz \in 0 .. MaxSize, NEW perm \in Perms, Call(va, pa, sz, perm)
      PROVE  /\ result # 1 /\ result' = 1 /\ Space' = Space
             /\ req' \in [va : 0 .. VPages - 1, pa : 0 .. PPages - 1,
                          sz : 0 .. VPages, perm : SUBSET Full]
             /\ req'.va + req'.sz <= VPages
             /\ "P" \in req'.perm => req'.pa + req'.sz <= PPages
  <2>1. /\ pc = "idle" /\ result' = 1 /\ entry' = entry /\ va + sz <= VPages
        /\ "P" \in perm => pa + sz <= PPages
        /\ req' = [va |-> va, pa |-> pa, sz |-> sz, perm |-> perm]
    BY <1>3, Zenon DEF Call
  <2>2. sz \in 0 .. VPages /\ perm \in SUBSET Full
    BY <1>1, <2>1
  <2>3. req'.va = va /\ req'.pa = pa /\ req'.sz = sz /\ req'.perm = perm
    BY <2>1, Zenon
  <2>4. req' \in [va : 0 .. VPages - 1, pa : 0 .. PPages - 1,
                  sz : 0 .. VPages, perm : SUBSET Full]
    BY <2>1, <2>2, Zenon
  <2>5. QED
    BY <1>1, <1>2, <2>1, <2>3, <2>4, Zenon
<1>4. ASSUME BeginLookup \/ Descend \/ LookupFails \/ LookupReturns \/ UNCHANGED vars
      PROVE  Space' = Space /\ req' = req /\ result' = result
  BY <1>2, <1>4, Zenon DEF BeginLookup, Descend, LookupFails, LookupReturns, vars
<1>5. ASSUME Allocate
      PROVE  Space' = Space /\ req' = req /\ result' = result
  <2>1. \A va \in 0 .. VPages - 1 : LookupOf(entry', va) = LookupOf(entry, va)
    BY <1>1, <1>5, AllocateInv, Zenon
  <2>2. QED
    BY <1>5, <2>1, SpaceSame, Zenon DEF Allocate
<1>6. ASSUME Store
      PROVE  /\ result = 1 /\ req.sz # 0 /\ req' = Advance /\ result' = result
             /\ Space' = [Space EXCEPT ![req.va] =
                  IF "P" \in req.perm THEN [pa |-> req.pa, perm |-> req.perm]
                  ELSE [pa |-> -1, perm |-> {}]]
  <2> DEFINE m == IF "P" \in req.perm THEN [pa |-> req.pa, perm |-> req.perm]
                  ELSE [pa |-> -1, perm |-> {}]
  <2>1. /\ pc = "loop" /\ req.sz # 0 /\ req' = Advance /\ result' = result
    BY <1>6, Zenon DEF Store
  <2>2. /\ \A va \in (0 .. VPages - 1) \ {req.va} :
             LookupOf(entry', va) = LookupOf(entry, va)
        /\ LookupOf(entry', req.va) = m
    BY <1>6, StoreInv, Zenon
  <2> HIDE DEF m
  <2>3. \A va \in 0 .. VPages - 1 :
          LookupOf(entry', va) = IF va = req.va THEN m ELSE LookupOf(entry, va)
    BY <2>2, Zenon
  <2>4. Space' = [Space EXCEPT ![req.va] = m]
    BY <2>3, Zenon DEF Space
  <2>5. result = 1
    BY <1>1, <2>1, Zenon
  <2>6. QED
    BY <2>1, <2>4, <2>5, Zenon DEF m
<1>7. ASSUME Skip
      PROVE  /\ result = 1 /\ req.sz # 0 /\ req' = Advance /\ result' = result
             /\ Space' = [Space EXCEPT ![req.va] =
                  IF "P" \in req.perm THEN [pa |-> req.pa, perm |-> req.perm]
                  ELSE [pa |-> -1, perm |-> {}]]
  <2> DEFINE m == [pa |-> -1, perm |-> {}]
  <2>1. /\ pc = "loop" /\ req.sz # 0 /\ req' = Advance /\ result' = result
        /\ "P" \notin req.perm /\ entry' = entry
    BY <1>7, Zenon DEF Skip
  <2>2. req.va \in 0 .. VPages - 1 /\ LookupOf(entry, req.va) = m
    BY <1>7, SkipInv, Zenon
  <2>3. result = 1
    BY <1>1, <2>1, Zenon
  <2> HIDE DEF m
  <2>4. Space = [Space EXCEPT ![req.va] = m]
    BY <2>2, Zenon DEF Space
  <2>5. Space' = Space
    BY <1>2, <2>1, Zenon
  <2>6. QED
    BY <2>1, <2>3, <2>4, <2>5, Zenon DEF m
<1>8. ASSUME ReturnSuccess
      PROVE  result = 1 /\ req.sz = 0 /\ result' = 0 /\ Space' = Space /\ req' = req
  <2>1. pc = "loop" /\ req.sz = 0 /\ result' = 0 /\ entry' = entry /\ req' = req
    BY <1>8, Zenon DEF ReturnSuccess
  <2>2. QED
    BY <1>1, <1>2, <2>1, Zenon
<1>9. ASSUME ReturnFailure
      PROVE  /\ result = 1 /\ req.sz # 0 /\ "P" \in req.perm /\ result' = -1
             /\ Space' = Space /\ req' = req
  <2>1. /\ pc = "loop" /\ req.sz # 0 /\ "P" \in req.perm /\ result' = -1
        /\ entry' = entry /\ req' = req
    BY <1>9, Zenon DEF ReturnFailure
  <2>2. QED
    BY <1>1, <1>2, <2>1, Zenon
<1>10. \/ \E va \in 0 .. VPages - 1, pa \in 0 .. PPages - 1, sz \in 0 .. MaxSize,
             perm \in Perms : Call(va, pa, sz, perm)
       \/ BeginLookup \/ Descend \/ LookupFails \/ LookupReturns \/ UNCHANGED vars
       \/ Allocate \/ Store \/ Skip \/ ReturnSuccess \/ ReturnFailure
  BY Zenon DEF Next, Map, Done
<1>11. CASE \E va \in 0 .. VPages - 1, pa \in 0 .. PPages - 1, sz \in 0 .. MaxSize,
              perm \in Perms : Call(va, pa, sz, perm)
  <2>1. PICK va \in 0 .. VPages - 1, pa \in 0 .. PPages - 1, sz \in 0 .. MaxSize,
             perm \in Perms : Call(va, pa, sz, perm)
    BY <1>11, Zenon
  <2>2. QED
    BY <1>3, <2>1, Zenon
<1>12. CASE BeginLookup \/ Descend \/ LookupFails \/ LookupReturns \/ UNCHANGED vars
  BY <1>4, <1>12, Zenon
<1>13. CASE Allocate
  BY <1>5, <1>13, Zenon
<1>14. CASE Store
  BY <1>6, <1>14, Zenon
<1>15. CASE Skip
  BY <1>7, <1>15, Zenon
<1>16. CASE ReturnSuccess
  BY <1>8, <1>16, Zenon
<1>17. CASE ReturnFailure
  BY <1>9, <1>17, Zenon
<1>18. QED
  BY <1>10, <1>11, <1>12, <1>13, <1>14, <1>15, <1>16, <1>17, Zenon

(* virtual_memory_map and virtual_memory_lookup: the tree of tables behaves *)
(* as one function from pages to mappings, for every shape of page table:   *)
(* a call changes the pages it was asked for, in order, and no others, even *)
(* when an allocation fails halfway through the tree, and it returns 0 only *)
(* when it has mapped every page.                                           *)
THEOREM TablesImplementSpace == Spec => ImplementsAddressSpace
<1>1. Init => MapInv /\ AS!Init
  <2>1. Init => MapInv
    BY MapInit, Zenon
  <2>2. ASSUME Init PROVE AS!Init
    BY <2>2, SpaceInit, SpaceIs, Zenon DEF Init, AS!Init, AS!VPage, AS!NoRequest
  <2>3. QED
    BY <2>1, <2>2, Zenon
<1>2. MapInv /\ [Next]_vars => MapInv'
  BY MapNext, Zenon
<1>3. MapInv /\ [Next]_vars => [AS!Next]_AS!vars
  <2> SUFFICES ASSUME MapInv, [Next]_vars PROVE [AS!Next]_AS!vars
    BY Zenon
  <2> DEFINE space == [va \in 0 .. VPages - 1 |-> virtual_memory_lookup(va)]
  <2>1. space = Space /\ space' = Space'
    BY SpaceIs, Zenon
  <2>2. QED
    BY <2>1, StepMaps, Zenon DEF AS!Next, AS!vars, AS!Call, AS!MapPage, AS!Return,
       AS!GiveUp, AS!VPage, AS!Perm, AS!Mapping, AS!Unmapped, Full, Advance
<1>4. QED
  BY <1>1, <1>2, <1>3, PTL DEF Spec, ImplementsAddressSpace, AS!Spec
=============================================================================
