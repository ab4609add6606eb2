------------------------------- MODULE Screen -------------------------------
(***************************************************************************)
(* The console of modules/m3 and everyone who writes to it: processes      *)
(* (app_printf and panic in process.c), which may be interrupted between   *)
(* any two characters and share cursorpos, and the kernel (exception,      *)
(* memshow_* in kernel.c; panic in k-hardware.c), which may not. *)
(* The geometry is a parameter: the pictures of memory start at rows       *)
(* PhysRow and VirtRow, messages go to the last two rows.                  *)
(***************************************************************************)
EXTENDS Integers, Sequences

CONSTANTS
    NPROC, Rows, Columns,
    PhysRow, VirtRow, MapColumn, PerRow, \* where the pictures are, pages in a row
    NPages, VPages,     \* pages of MEMSIZE_PHYSICAL and MEMSIZE_VIRTUAL
    Messages,           \* what processes print, sequences of "c" and "nl"
    BufSize             \* sizeof(buf) in panic of process.c

Proc == 1 .. NPROC - 1
Page == 0 .. NPages - 1
PO_FREE == 0
PO_RESERVED == -1
PO_KERNEL == -2

VARIABLES
    cells,      \* the console
    cursorpos,  \* shared by all processes
    pc, at, rest,   \* each process: where it is, its cursor, what it has to print
    buf,        \* length of the text in panic's buffer
    owner, refcount, user,  \* pageinfo, pages mapped with PTE_U
    fresh,      \* has no process run since the kernel drew its pictures?
    mode

vars == <<cells, cursorpos, pc, at, rest, buf, owner, refcount, user, fresh, mode>>
memory == <<owner, refcount, user>>

CPOS(row, col) == row * Columns + col
CROW(cpos) == cpos \div Columns
CCOL(cpos) == cpos % Columns
Size == Rows * Columns
PanicRow == Rows - 2
FaultRow == Rows - 1

(* The pictures of memory lie above each other and above the messages' rows, *)
(* with a cell for each page; panic's text fits those rows.                  *)
ConstantsOK ==
    /\ NPROC \in Nat \ {0} /\ Columns \in Nat \ {0} /\ Rows \in Nat /\ Rows > 2
    /\ PhysRow \in Nat /\ VirtRow \in Nat /\ MapColumn \in Nat /\ PerRow \in Nat \ {0}
    /\ NPages \in Nat /\ VPages \in Nat /\ NPages <= VPages
    /\ MapColumn + PerRow <= Columns
    /\ \A pg \in Page : PhysRow + pg \div PerRow < VirtRow
    /\ \A va \in 0 .. VPages - 1 : VirtRow + va \div PerRow < PanicRow
    /\ Messages \subseteq Seq({"c", "nl"})
    /\ BufSize \in Nat /\ BufSize > 1 /\ BufSize <= 2 * Columns

-----------------------------------------------------------------------------
(* The character cell of a page: a letter and the two halves of the colour. *)
Background(o) == 0
Foreground(o) == CASE o = PO_KERNEL -> 13 [] o = PO_RESERVED -> 7 [] o = PO_FREE -> 7
                   [] o > 0 -> <<12, 10, 9, 14, 15>>[((o - 1) % 5) + 1]

Owner(pg) == IF refcount[pg] = 0 THEN PO_FREE ELSE owner[pg]
memstate_colors(o) == [letter |-> o, bg |-> Background(o), fg |-> Foreground(o)]
Reversed(c) == [c EXCEPT !.bg = c.fg, !.fg = c.bg]
Darker(c) == [c EXCEPT !.bg = @ % 8, !.fg = @ % 8]


PhysicalCell(pg) ==
    LET c == memstate_colors(Owner(pg)) IN IF refcount[pg] > 1 THEN Darker(c) ELSE c

VirtualCell(pg) ==
    LET c == memstate_colors(Owner(pg))
        v == IF pg \in user THEN Reversed(c) ELSE c
    IN IF refcount[pg] > 1 THEN Darker(v) ELSE v

PhysCpos(pg) == CPOS(PhysRow + pg \div PerRow, MapColumn + (pg % PerRow))
VirtCpos(pg) == CPOS(VirtRow + pg \div PerRow, MapColumn + (pg % PerRow))

(* memshow_physical and memshow_virtual, titles and addresses left out. *)
memshow(screen) ==
    [i \in DOMAIN screen |->
       IF \E pg \in Page : PhysCpos(pg) = i
       THEN PhysicalCell(CHOOSE pg \in Page : PhysCpos(pg) = i)
       ELSE IF \E va \in 0 .. VPages - 1 : VirtCpos(va) = i
       THEN LET va == CHOOSE va \in 0 .. VPages - 1 : VirtCpos(va) = i
            IN IF va \in Page THEN VirtualCell(va) ELSE "text"
       ELSE screen[i]]

-----------------------------------------------------------------------------
Clip(cpos) == IF cpos < 0 \/ cpos >= Size THEN 0 ELSE cpos

(* console_putc: cursor and console after one character. *)
PutFrom(a) == IF a >= Size THEN 0 ELSE a
PutTo(a, c) == IF c = "nl" THEN PutFrom(a) + Columns - CCOL(PutFrom(a)) ELSE PutFrom(a) + 1
PutCells(screen, a, c, by) ==
    [i \in DOMAIN screen |-> IF i \in PutFrom(a) .. PutTo(a, c) - 1 THEN by ELSE screen[i]]

(* kernel(): console_clear, then the processes run. *)
console_clear == [i \in 0 .. Size - 1 |-> "text"]

Init ==
    /\ cells = console_clear /\ cursorpos = 0
    /\ pc = [p \in Proc |-> "idle"] /\ at = [p \in Proc |-> 0]
    /\ rest = [p \in Proc |-> <<>>]
    /\ buf = 0
    /\ owner = [pg \in Page |-> IF pg = 0 THEN PO_KERNEL ELSE PO_FREE]
    /\ refcount = [pg \in Page |-> IF pg = 0 THEN NPROC ELSE 0]
    /\ user = Page
    /\ fresh = FALSE /\ mode = "user"

Process(p, from) == mode = "user" /\ pc[p] = from /\ fresh' = FALSE

(* cursorpos is read and console_vprintf starts. *)
app_printf(p) ==
    /\ Process(p, "idle")
    /\ at' = [at EXCEPT ![p] = Clip(cursorpos)]
    /\ \E m \in Messages : rest' = [rest EXCEPT ![p] = m]
    /\ pc' = [pc EXCEPT ![p] = "put"]
    /\ UNCHANGED <<cells, cursorpos, buf, memory, mode>>

console_putc(p) ==
    /\ mode = "user" /\ pc[p] \in {"put", "panic"} /\ rest[p] # <<>> /\ fresh' = FALSE
    /\ at' = [at EXCEPT ![p] = PutTo(at[p], Head(rest[p]))]
    /\ cells' = PutCells(cells, at[p], Head(rest[p]), "text")
    /\ rest' = [rest EXCEPT ![p] = Tail(@)]
    /\ UNCHANGED <<cursorpos, pc, buf, memory, mode>>

Store(p) ==
    /\ Process(p, "put") /\ rest[p] = <<>>
    /\ cursorpos' = at[p] /\ at' = [at EXCEPT ![p] = 0]
    /\ pc' = [pc EXCEPT ![p] = "test"]
    /\ UNCHANGED <<cells, rest, buf, memory, mode>>

Full == CROW(cursorpos) >= PanicRow

(* The last statement of app_printf: a read, and perhaps a write. *)
Test(p) ==
    /\ Process(p, "test")
    /\ pc' = [pc EXCEPT ![p] = IF Full THEN "wrap" ELSE "idle"]
    /\ UNCHANGED <<cells, cursorpos, at, rest, buf, memory, mode>>

Wrap(p) ==
    /\ Process(p, "wrap")
    /\ cursorpos' = CPOS(0, 0) /\ pc' = [pc EXCEPT ![p] = "idle"]
    /\ UNCHANGED <<cells, at, rest, buf, memory, mode>>

(* strcpy(buf + len - (len == sizeof(buf) - 1), "\n"): length afterwards. *)
WithNewline(len) == IF len = BufSize - 1 THEN len ELSE len + 1

(* panic(format, ...) of a process: "PANIC: " and the formatted message, cut *)
(* by vsnprintf, whose n characters may end in a newline.                    *)
panic(p) ==
    /\ Process(p, "idle")
    /\ \E n \in 0 .. BufSize + 1, nl \in BOOLEAN :
         LET len == IF n + 1 > BufSize - 1 THEN BufSize - 1 ELSE n + 1
             ends == nl /\ n > 0 /\ n + 1 <= BufSize - 1
         IN buf' = IF ends THEN len ELSE WithNewline(len)
    /\ rest' = [rest EXCEPT ![p] = [i \in 1 .. buf' |-> IF i = buf' THEN "nl" ELSE "c"]]
    /\ at' = [at EXCEPT ![p] = CPOS(PanicRow, 0)]
    /\ pc' = [pc EXCEPT ![p] = "panic"]
    /\ UNCHANGED <<cells, cursorpos, memory, mode>>

-----------------------------------------------------------------------------
(* What exception() does first. *)
Enter == fresh' = TRUE

Timer ==
    /\ mode = "user" /\ Enter /\ cells' = memshow(cells)
    /\ UNCHANGED <<cursorpos, pc, at, rest, buf, memory, mode>>

(* INT_SYS_PAGE_ALLOC; the pictures were drawn before the page is assigned. *)
PageAlloc(p) ==
    /\ mode = "user" /\ pc[p] = "idle"
    /\ cells' = memshow(cells) /\ fresh' = FALSE
    /\ \E pg \in Page :
         /\ refcount[pg] = 0
         /\ owner' = [owner EXCEPT ![pg] = p] /\ refcount' = [refcount EXCEPT ![pg] = 1]
    /\ UNCHANGED <<cursorpos, pc, at, rest, buf, user, mode>>

(* error_printf of a panic: the log, which nobody reads back, and n cells of *)
(* the panic row.                                                            *)
error_printf(screen, n) ==
    [i \in DOMAIN screen |->
       IF i \in CPOS(PanicRow, 0) .. CPOS(PanicRow, n - 1) THEN "PANIC" ELSE screen[i]]

(* A page fault of a process: a line at the bottom; the process is broken. *)
PageFault(p) ==
    /\ mode = "user" /\ pc[p] # "broken" /\ Enter
    /\ cells' = PutCells(memshow(cells), CPOS(FaultRow, 0), "nl", "fault")
    /\ pc' = [pc EXCEPT ![p] = "broken"]
    /\ at' = [at EXCEPT ![p] = 0] /\ rest' = [rest EXCEPT ![p] = <<>>]
    /\ UNCHANGED <<cursorpos, buf, memory, mode>>

(* INT_SYS_PANIC: panic(NULL) prints PANIC over the process's own header. *)
sys_panic(p) ==
    /\ mode = "user" /\ pc[p] = "panic" /\ rest[p] = <<>> /\ Enter
    /\ cells' = error_printf(memshow(cells), 1)
    /\ mode' = "panic"
    /\ UNCHANGED <<cursorpos, pc, at, rest, buf, memory>>

(* Another exception, or a failed assert: a message and, if needed, a newline. *)
kernel_panic ==
    /\ mode = "user" /\ Enter
    /\ \E n \in 1 .. Columns :
         cells' = error_printf(PutCells(memshow(cells), CPOS(PanicRow, 0), "nl", "text"), n)
    /\ mode' = "panic"
    /\ UNCHANGED <<cursorpos, pc, at, rest, buf, memory>>

Next ==
    \/ Timer \/ kernel_panic
    \/ \E p \in Proc :
         \/ app_printf(p) \/ console_putc(p) \/ Store(p) \/ Test(p) \/ Wrap(p)
         \/ panic(p) \/ PageAlloc(p) \/ PageFault(p) \/ sys_panic(p)

Spec == Init /\ [][Next]_vars

-----------------------------------------------------------------------------
(* The rows kept for messages stay clear of everything else, however the    *)
(* processes' app_printf calls interleave: once none of them is in one, the *)
(* next line goes above those rows; what panic of process.c prints fits its *)
(* buffer, NUL included, and those rows; and the machine stops with PANIC   *)
(* on its row, whatever was under way.                                      *)
MessageRowsKept ==
    /\ (\A p \in Proc : pc[p] \in {"idle", "panic"}) => CROW(cursorpos) < PanicRow
    /\ buf + 1 <= BufSize
    /\ \A p \in Proc : pc[p] = "panic" => at[p] \in CPOS(PanicRow, 0) .. Size
    /\ mode = "panic" => cells[CPOS(PanicRow, 0)] = "PANIC"

(* After every exception the pictures tell the owner of each page, whether  *)
(* a page of the kernel or a process is shared, and whether user code may   *)
(* reach it, and no message of the kernel has overwritten them.             *)
PicturesTrue ==
    fresh =>
      \A pg \in Page :
        LET p == cells[PhysCpos(pg)]
            v == cells[VirtCpos(pg)]
            shared == refcount[pg] > 1
        IN /\ refcount[pg] > 0 => p.letter = owner[pg] /\ v.letter = owner[pg]
           /\ refcount[pg] = 0 => p.letter = PO_FREE /\ v.letter = PO_FREE
           /\ owner[pg] \notin {PO_FREE, PO_RESERVED} => (p.fg < 8 <=> shared)
           /\ (v.fg = 0) = (pg \in user)
=============================================================================
