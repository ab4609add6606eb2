------------------------------ MODULE MCMachine ------------------------------
(***************************************************************************)
(* Model checking of what lies around the kernel of modules/m3: the disk   *)
(* it is booted from, the hardware set-up, the keyboard, the printer and   *)
(* the screen.  The parts share no state, so every behaviour is one of a   *)
(* single part, part; the variables of the others stay Idle.               *)
(***************************************************************************)
EXTENDS Integers, Sequences, FiniteSets, TLC

VARIABLE part

(* Hardware: lines for the timer, the keyboard, and one more per chip. *)
VARIABLES boot, interrupts_enabled, pic, irr, segments, interrupt_descriptors, cr3,
    kernel_pagetable, processor, trap
H == INSTANCE Hardware WITH
    pc <- boot, mode <- processor,
    Lines <- {0, 1, 6, 14}, BiosMasks <- {{}, {0, 1, 2}},
    Ints <- {3, 13, 14, 32, 33, 48, 49, 51, 63, 64, 255}

(* Keyboard: both kinds of modifier, a lock, a letter and an escaped key. *)
VARIABLES held, queue, modifiers, last_escape, typed, ch, power, pci
K == INSTANCE Keyboard WITH
    Keys <- {"lshift", "rshift", "rctrl", "ralt", "caps", "q", "up"}, QueueSize <- 2, Funcs <- 3
ASSUME KeyboardConstants == K!ConstantsOK

(* Printer: integers of 3 and 4 bits, a console of two cells. *)
VARIABLES phase, read, flags, width, precision, length, color, field, asked, sink, output
P == INSTANCE Printer WITH
    cells <- output,
    Alphabet <- {"%", "#", "0", "-", " ", "+", "1", ".", "*", "l", "d", "x", "s", "C", "\n"},
    MaxFormat <- 5, MaxField <- 12, IntBits <- 3, LongBits <- 4,
    Strings <- {<<>>, <<"h", "i">>}, Sizes <- {0, 2}, Cursors <- {-1, 1, 2},
    Rows <- 1, Columns <- 2

(* Screen: two processes and the kernel; the buffer holds two rows, as 160 is 2 * 80. *)
VARIABLES cells, cursorpos, pc, at, rest, buf, owner, refcount, user, fresh, mode
S == INSTANCE Screen WITH
    NPROC <- 3, Rows <- 4, Columns <- 2, PhysRow <- 0, VirtRow <- 1, MapColumn <- 0,
    PerRow <- 2, NPages <- 2, VPages <- 2, Messages <- {<<"nl", "c">>}, BufSize <- 4
ASSUME ScreenConstants == S!ConstantsOK

(* BootDisk: sectors of 4 bytes, pages of 2 sectors, kernels of two segments. *)
VARIABLES stage, bootlen, kernel, argv, marked, i, pos, starts, nsectors, curoff, maxoff,
    base, pending, disk, ptable, stack, found, mem, ph, ptr, sect

Segment(v, o, f, m) == [va |-> v, offset |-> o, filesz |-> f, memsz |-> m]
File(n) == [size |-> n]
Skip(n) == [skip |-> n]
Entry(t, s, l) == [type |-> t, start |-> s, length |-> l]

(* Tables: a primary JOS partition, one too small for the image, an empty   *)
(* one, and one that three levels of extended partitions lead to.           *)
PartitionTables ==
    {[tab |-> 0 :> <<Entry("linux", 1, 1), Entry("jos", 2, 8)>>, jos |-> {<<2, 8>>}],
     [tab |-> 0 :> <<Entry("jos", 3, 3)>>, jos |-> {<<3, 3>>}],
     [tab |-> 0 :> <<Entry("jos", 1, 0), Entry("linux", 1, 1)>>, jos |-> {}],
     [tab |-> 0 :> <<Entry("linux", 1, 1), Entry("extended", 2, 12)>>
           @@ 2 :> <<Entry("linux", 1, 1), Entry("extended", 3, 9)>>
           @@ 5 :> <<Entry("linux", 1, 1), Entry("extended", 5, 2)>>
           @@ 7 :> <<Entry("jos", 1, 7)>>, jos |-> {<<8, 7>>}]}

B == INSTANCE BootDisk WITH
    SECTORSIZE <- 4, PAGESIZE <- 8, BUFSIZE <- 8, FillSectors <- 7, DiskBytes <- 60,
    Memory <- 0 .. 31, ELFHDR <- 0, Boots <- {1, 3},
    Kernels <- {[size |-> 19, phend |-> 4, segs |-> <<Segment(8, 8, 5, 6), Segment(16, 16, 3, 9)>>],
                [size |-> 16, phend |-> 7, segs |-> <<Segment(8, 8, 8, 8), Segment(16, 0, 0, 4)>>]},
    Commands <- {<<File(0)>>, <<File(0), File(3)>>, <<Skip(2), File(0)>>, <<File(0), Skip(3)>>,
                 <<File(0), Skip(6), File(4)>>},
    Tables <- PartitionTables

Idle == "idle"

HardwareIdle ==
    /\ boot = Idle /\ interrupts_enabled = Idle /\ pic = Idle /\ irr = Idle /\ segments = Idle
    /\ interrupt_descriptors = Idle /\ cr3 = Idle /\ kernel_pagetable = Idle
    /\ processor = Idle /\ trap = Idle

KeyboardIdle ==
    /\ held = Idle /\ queue = Idle /\ modifiers = Idle /\ last_escape = Idle
    /\ typed = Idle /\ ch = Idle /\ power = Idle /\ pci = Idle

PrinterIdle ==
    /\ phase = Idle /\ read = Idle /\ flags = Idle /\ width = Idle /\ precision = Idle
    /\ length = Idle /\ color = Idle /\ field = Idle /\ asked = Idle /\ sink = Idle
    /\ output = Idle

ScreenIdle ==
    /\ cells = Idle /\ cursorpos = Idle /\ pc = Idle /\ at = Idle /\ rest = Idle /\ buf = Idle
    /\ owner = Idle /\ refcount = Idle /\ user = Idle /\ fresh = Idle /\ mode = Idle

BootDiskIdle ==
    /\ stage = Idle /\ bootlen = Idle /\ kernel = Idle /\ argv = Idle /\ marked = Idle
    /\ i = Idle /\ pos = Idle /\ starts = Idle /\ nsectors = Idle /\ curoff = Idle
    /\ maxoff = Idle /\ base = Idle /\ pending = Idle /\ disk = Idle /\ ptable = Idle
    /\ stack = Idle /\ found = Idle /\ mem = Idle /\ ph = Idle /\ ptr = Idle /\ sect = Idle

hardware == <<boot, interrupts_enabled, pic, irr, segments, interrupt_descriptors, cr3,
              kernel_pagetable, processor, trap>>
keyboard == <<held, queue, modifiers, last_escape, typed, ch, power, pci>>
printer == <<phase, read, flags, width, precision, length, color, field, asked, sink, output>>
screen == <<cells, cursorpos, pc, at, rest, buf, owner, refcount, user, fresh, mode>>
bootdisk == <<stage, bootlen, kernel, argv, marked, i, pos, starts, nsectors, curoff, maxoff,
              base, pending, disk, ptable, stack, found, mem, ph, ptr, sect>>
vars == <<part, hardware, keyboard, printer, screen, bootdisk>>

Init ==
    \/ /\ part = "hardware" /\ H!Init
       /\ KeyboardIdle /\ PrinterIdle /\ ScreenIdle /\ BootDiskIdle
    \/ /\ part = "keyboard" /\ K!Init
       /\ HardwareIdle /\ PrinterIdle /\ ScreenIdle /\ BootDiskIdle
    \/ /\ part = "printer" /\ P!Init
       /\ HardwareIdle /\ KeyboardIdle /\ ScreenIdle /\ BootDiskIdle
    \/ /\ part = "screen" /\ S!Init
       /\ HardwareIdle /\ KeyboardIdle /\ PrinterIdle /\ BootDiskIdle
    \/ /\ part = "bootdisk" /\ B!Init
       /\ HardwareIdle /\ KeyboardIdle /\ PrinterIdle /\ ScreenIdle

Next ==
    \/ part = "hardware" /\ H!Next /\ UNCHANGED <<part, keyboard, printer, screen, bootdisk>>
    \/ part = "keyboard" /\ K!Next /\ UNCHANGED <<part, hardware, printer, screen, bootdisk>>
    \/ part = "printer" /\ P!Next /\ UNCHANGED <<part, hardware, keyboard, screen, bootdisk>>
    \/ part = "screen" /\ S!Next /\ UNCHANGED <<part, hardware, keyboard, printer, bootdisk>>
    \/ part = "bootdisk" /\ B!Next /\ UNCHANGED <<part, hardware, keyboard, printer, screen>>

Spec == Init /\ [][Next]_vars

-----------------------------------------------------------------------------
(* Hardware: exception() sees a fault, a tick or a call only if there was one. *)
TrapsAreGenuine == part = "hardware" => H!TrapsAreGenuine


(* Keyboard: keyboard_readc returns the character of the key pressed.        *)
CharactersAsTyped == part = "keyboard" => K!CharactersAsTyped

(* Printer: printer_vprintf's fields are true and stay within their sink.    *)
PrintfTrue == part = "printer" => P!PrintfTrue


=============================================================================
