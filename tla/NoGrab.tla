------------------------------- MODULE NoGrab -------------------------------
(***************************************************************************)
(* modules/m3/build/qemu-nograb.c, preloaded into QEMU: malloc and calloc   *)
(* watch for the two allocations, of an entry and of its name, by which     *)
(* QEMU registers the PS/2 mouse, and at the allocation after them mark the *)
(* entry absolute.  Sizes are "event", "name" (that of mouse_string) and    *)
(* "other"; QEMU ends itself when an allocation fails, so none does here.   *)
(***************************************************************************)
EXTENDS Integers, Sequences

CONSTANTS Blocks, MaxCalls     \* Blocks: 1 .. n; 0 is NULL

ConstantsOK == Blocks \subseteq Nat \ {0} /\ MaxCalls \in Nat

VARIABLES
    next_malloc,                        \* has dlsym been called?
    test_mode, test_event, test_name,
    memory,     \* of each block: last size, whether in use, the fields check reads
    marked,     \* the block that check has marked, or 0
    recent,     \* the last two blocks handed out since next_malloc is set
    calls

vars == <<next_malloc, test_mode, test_event, test_name, memory, marked, recent, calls>>

Init ==
    /\ next_malloc = FALSE /\ test_mode = 0 /\ test_event = 0 /\ test_name = 0
    /\ memory = [b \in Blocks |-> [size |-> "none", used |-> FALSE,
                                   name |-> 0, mouse |-> FALSE, absolute |-> 0]]
    /\ marked = 0 /\ recent = <<>> /\ calls = 0

(* The test of check: mouse says that a block begins with mouse_string. *)
check ==
    /\ test_mode = 2 /\ test_event # 0
    /\ memory[test_event].name = test_name /\ memory[test_name].mouse
    /\ memory[test_event].absolute = 0

track_once(size, b) ==
    /\ test_mode' = IF test_mode = 0 /\ size = "event" THEN 1
                    ELSE IF test_mode = 1 /\ size = "name" THEN 2 ELSE 0
    /\ test_event' = IF size = "event" THEN b ELSE test_event
    /\ test_name' = IF test_mode = 1 /\ size = "name" THEN b ELSE test_name

track(size, b) ==
    /\ test_mode' = IF test_mode = 1 /\ size = "name" THEN 2
                    ELSE IF size = "event" THEN 1 ELSE 0
    /\ test_event' = IF size = "event" THEN b ELSE test_event
    /\ test_name' = IF test_mode = 1 /\ size = "name" THEN b ELSE test_name

(* A call hands out block b, fresh blocks in order; calloc (and not malloc)  *)
(* clears it.                                                               *)
HandOut(size, b, clear) ==
    /\ calls < MaxCalls /\ calls' = calls + 1
    /\ ~memory[b].used
    /\ memory[b].size = "none" => \A a \in 1 .. b - 1 : memory[a].size # "none"
    /\ LET m == IF check THEN [memory EXCEPT ![test_event].absolute = 1] ELSE memory
       IN memory' = [m EXCEPT ![b] = [size |-> size, used |-> TRUE,
                        name |-> IF clear THEN 0 ELSE m[b].name,
                        mouse |-> ~clear /\ m[b].mouse,
                        absolute |-> IF clear THEN 0 ELSE m[b].absolute]]

Tracked(size, b) ==
    /\ recent' = Append(IF Len(recent) < 2 THEN recent ELSE Tail(recent), b)
    /\ IF check THEN marked' = test_event /\ test_mode' = -1 /\ UNCHANGED <<test_event, test_name>>
       ELSE /\ UNCHANGED marked
            /\ IF test_mode >= 0 THEN track(size, b)
               ELSE UNCHANGED <<test_mode, test_event, test_name>>

malloc(size, b) ==
    HandOut(size, b, FALSE) /\ next_malloc' = TRUE /\ Tracked(size, b)

(* Before the first malloc the C library serves calloc, and nothing is tracked. *)
calloc(size, b) ==
    /\ HandOut(size, b, TRUE) /\ UNCHANGED next_malloc
    /\ IF next_malloc THEN Tracked(size, b)
       ELSE UNCHANGED <<test_mode, test_event, test_name, marked, recent>>

(* QEMU writes to its blocks: pointers to blocks in use where an entry has  *)
(* its name, or a copy of mouse_string.  A block of 16 bytes is too small    *)
(* for the one, and an entry begins with a pointer and not with the other.  *)
(* What is in a block stays when it is freed, until it is handed out again. *)
WriteBlock(b) ==
    /\ memory[b].used
    /\ \/ memory[b].size # "name" /\ \E n \in Blocks \ {b} :
            memory[n].used /\ memory[b].name # n /\ memory' = [memory EXCEPT ![b].name = n]
       \/ memory[b].size # "event" /\ ~memory[b].mouse /\ memory' = [memory EXCEPT ![b].mouse = TRUE]
    /\ UNCHANGED <<next_malloc, test_mode, test_event, test_name, marked, recent, calls>>

FreeBlock(b) ==
    /\ memory[b].used /\ memory' = [memory EXCEPT ![b].used = FALSE]
    /\ UNCHANGED <<next_malloc, test_mode, test_event, test_name, marked, recent, calls>>

Next ==
    \E b \in Blocks :
        \/ \E size \in {"event", "name", "other"} : malloc(size, b) \/ calloc(size, b)
        \/ WriteBlock(b) \/ FreeBlock(b)

Spec == Init /\ [][Next]_vars

-----------------------------------------------------------------------------
(* The last two allocations made a complete entry for the mouse. *)
Registered ==
    /\ Len(recent) = 2 /\ memory[recent[1]].size = "event" /\ memory[recent[2]].size = "name"
    /\ memory[recent[1]].name = recent[2] /\ memory[recent[1]].absolute = 0
    /\ memory[recent[2]].mouse

(* The mouse is found: when QEMU allocates an entry and right after it a    *)
(* name, whatever came before, and has filled them in, the next allocation  *)
(* marks the entry, unless one is marked already.  What check marks is such *)
(* an entry, once: although test_event may have been freed meanwhile, its   *)
(* memory and that of the name have not been handed out for anything else.  *)
FindsMouseStep ==
    /\ calls' # calls /\ Registered => marked' # 0
    /\ marked' # marked => /\ marked = 0 /\ memory[marked'].size = "event"
                           /\ memory[memory[marked'].name].size = "name"
=============================================================================
