------------------------------ MODULE BootDisk ------------------------------
(***************************************************************************)
(* From files to a running kernel: build/mkbootdisk.c writes the boot      *)
(* sector and the kernel's ELF file to an image or to a partition of a     *)
(* disk, and boot.c reads the segments of that file into memory.           *)
(* A byte is a pair: the file it comes from, and its offset in it.          *)
(* write may write less than asked, be interrupted, or fail.               *)
(***************************************************************************)
EXTENDS Integers, Sequences, SequencesExt, FiniteSetsExt

CONSTANTS
    SECTORSIZE, PAGESIZE, BUFSIZE,  \* bytes of a sector, of a page, of main's buf
    FillSectors,    \* 1024
    DiskBytes,      \* the disk's size
    Memory,         \* addresses of physical memory
    ELFHDR,         \* the scratch page of boot
    Boots,          \* lengths of boot sector files
    Kernels,        \* [size, phend, segs]: ELF files as kernel.ld lays them out
    Commands,       \* argument lists: [skip |-> s], or [size |-> n] for a file
    Tables          \* [tab, jos]: entries by sector, the JOS partitions on the disk

VARIABLES
    stage,      \* what runs: find, multiboot, sector, args, fill, boot, ..., usage
    bootlen, kernel, argv,
    marked,     \* has do_multiboot marked the kernel's file?
    i, pos,     \* main's argument and position in its file
    starts,     \* sectors at which the files written so far start
    nsectors, curoff, maxoff, base,
    pending,    \* what diskwrite still has to write
    disk,
    ptable, stack, found,   \* find_partition: tables, activations, result
    mem, ph, ptr, sect      \* boot: memory, program header, loop of boot_readseg

files == <<bootlen, kernel, argv, ptable>>
writer == <<i, pos, starts, nsectors, curoff, maxoff, base, pending, disk>>
loader == <<mem, ph, ptr, sect>>
vars == <<stage, files, marked, writer, stack, found, loader>>

Zero == <<0, 0>>
Old == <<-1, 0>>    \* what disk or memory held before
Boot == <<-2, 0>>
Sign55 == <<-3, 0>>
SignAA == <<-4, 0>>
Multiboot == <<-5, 0>>

(* The bytes of file f; the kernel is the first argument that is a file. *)
Zeros(n) == [k \in 1 .. n |-> Zero]
Bytes(f, from, n) ==
    [k \in 1 .. n |->
       IF f = 1 /\ marked /\ from + k - 1 \in kernel.phend .. kernel.phend + 1
       THEN Multiboot ELSE <<f, from + k - 1>>]

IsFile(a) == "size" \in DOMAIN a
FileNumber(a) == Cardinality({j \in 1 .. a : IsFile(argv[j])})
FileSize(a) == IF FileNumber(a) = 1 THEN kernel.size ELSE argv[a].size

Init ==
    /\ stage \in {"find", "multiboot", "sector"}
    /\ bootlen \in Boots /\ kernel \in Kernels /\ argv \in Commands
    /\ ptable \in (IF stage = "find" THEN Tables ELSE {<<>>})
    /\ marked = FALSE /\ found = FALSE
    /\ i = 1 /\ pos = 0 /\ starts = <<>>
    /\ nsectors = 0 /\ curoff = 0 /\ maxoff = 0 /\ base = 0 /\ pending = <<>>
    /\ disk = [k \in 0 .. DiskBytes - 1 |-> Old]
    /\ stack = IF stage = "find" THEN <<[sect |-> 0, ext |-> 0, entry |-> 1]>> ELSE <<>>
    /\ mem = [a \in Memory |-> Old] /\ ph = 0 /\ ptr = 0 /\ sect = 0

usage == stage' = "usage" /\ UNCHANGED <<files, marked, writer, stack, found, loader>>

-----------------------------------------------------------------------------
(* find_partition, one table entry at a time; stack holds its activations. *)
Top == Last(stack)
Entry == ptable.tab[Top.sect][Top.entry]
Return == Front(stack)
Advance(s) == [s EXCEPT ![Len(s)].entry = @ + 1]

InnerSector == Entry.start + Top.ext

find_partition ==
    /\ stage = "find" /\ stack # <<>>
    /\ IF Top.sect \notin DOMAIN ptable.tab \/ Top.entry > Len(ptable.tab[Top.sect])
       THEN /\ stack' = (IF Return = <<>> THEN Return ELSE Advance(Return))
            /\ UNCHANGED <<base, maxoff, found, stage>>
       ELSE IF Entry.length > 0 /\ Entry.type = "jos"
       THEN /\ base' = (Top.sect + Entry.start) * SECTORSIZE
            /\ maxoff' = Entry.length * SECTORSIZE
            /\ found' = TRUE /\ stack' = <<>> /\ stage' = "args"
       ELSE IF Entry.length > 0 /\ Entry.type = "extended"
       THEN /\ stack' = Append(stack, [sect |-> InnerSector,
                                       ext |-> IF Top.ext = 0 THEN Entry.start ELSE Top.ext,
                                       entry |-> 1])
            /\ UNCHANGED <<base, maxoff, found, stage>>
       ELSE stack' = Advance(stack) /\ UNCHANGED <<base, maxoff, found, stage>>
    /\ UNCHANGED <<files, marked, i, pos, starts, nsectors, curoff, pending, disk, loader>>

no_partition == stage = "find" /\ stack = <<>> /\ usage

(* mkbootdisk -m on the kernel's file, before the image is made. *)
do_multiboot ==
    /\ stage = "multiboot"
    /\ IF kernel.phend >= PAGESIZE - 2 THEN usage
       ELSE /\ marked' = TRUE /\ stage' = "sector"
            /\ UNCHANGED <<files, writer, stack, found, loader>>

-----------------------------------------------------------------------------
(* diskwrite(data): refused if a partition is too small for it. *)
Fits(data) == maxoff = 0 \/ curoff + Len(data) <= maxoff

Write(data) == Fits(data) /\ pending' = data

diskwrite ==
    /\ pending # <<>>
    /\ \E w \in 1 .. Len(pending) :
         /\ disk' = [k \in DOMAIN disk |->
                       IF k - (base + curoff) \in 0 .. w - 1
                       THEN pending[k - (base + curoff) + 1] ELSE disk[k]]
         /\ pending' = SubSeq(pending, w + 1, Len(pending))
         /\ curoff' = curoff + w
    /\ UNCHANGED <<stage, files, marked, i, pos, starts, nsectors, maxoff, base, stack,
                   found, loader>>

write_error == pending # <<>> /\ usage
Ready == pending = <<>>

BootSector ==
    /\ stage = "sector" /\ Ready
    /\ IF bootlen > SECTORSIZE - 2 THEN usage
       ELSE /\ Write([k \in 1 .. bootlen |-> Boot] \o Zeros(SECTORSIZE - 2 - bootlen)
                      \o <<Sign55, SignAA>>)
            /\ nsectors' = 1 /\ stage' = "args"
            /\ UNCHANGED <<files, marked, i, pos, starts, curoff, maxoff, base, disk, stack,
                           found, loader>>

(* An argument @SECNUM: zeros up to that sector. *)
SkipSector ==
    /\ stage = "args" /\ Ready /\ i <= Len(argv) /\ ~IsFile(argv[i])
    /\ IF nsectors > argv[i].skip \/ (nsectors < argv[i].skip /\ ~Fits(Zeros(SECTORSIZE)))
       THEN usage
       ELSE /\ IF nsectors < argv[i].skip
               THEN Write(Zeros(SECTORSIZE)) /\ nsectors' = nsectors + 1 /\ i' = i
               ELSE i' = i + 1 /\ UNCHANGED <<nsectors, pending>>
            /\ UNCHANGED <<stage, files, marked, pos, starts, curoff, maxoff, base, disk, stack,
                           found, loader>>

(* The rest of the file's last sector. *)
Padding(p) == IF p % SECTORSIZE # 0 THEN SECTORSIZE - (p % SECTORSIZE) ELSE 0

(* A file: fread fills buf, diskwrite writes it; at the end, the padding. *)
CopyFile ==
    /\ stage = "args" /\ Ready /\ i <= Len(argv) /\ IsFile(argv[i])
    /\ LET f == FileNumber(i)
           n == Min({BUFSIZE, FileSize(i) - pos})
           data == IF n > 0 THEN Bytes(f, pos, n) ELSE Zeros(Padding(pos))
       IN IF data # <<>> /\ ~Fits(data) THEN usage
          ELSE /\ pending' = data
               /\ starts' = IF Len(starts) < f THEN Append(starts, nsectors) ELSE starts
               /\ IF n > 0 THEN pos' = pos + n /\ UNCHANGED <<i, nsectors>>
                  ELSE /\ nsectors' = nsectors + (pos + Padding(pos)) \div SECTORSIZE
                       /\ i' = i + 1 /\ pos' = 0
               /\ UNCHANGED <<stage, files, marked, curoff, maxoff, base, disk, stack, found,
                              loader>>

Fill ==
    /\ stage = "args" /\ Ready /\ i > Len(argv)
    /\ IF nsectors < FillSectors /\ ~Fits(Zeros(SECTORSIZE)) THEN usage
       ELSE /\ IF nsectors < FillSectors
               THEN Write(Zeros(SECTORSIZE)) /\ nsectors' = nsectors + 1 /\ stage' = stage
               ELSE stage' = "written" /\ UNCHANGED <<nsectors, pending>>
            /\ UNCHANGED <<files, marked, i, pos, starts, curoff, maxoff, base, disk, stack,
                           found, loader>>

-----------------------------------------------------------------------------
(* boot: the header's page is segment 0, then the segments of the file. *)
Segment == IF ph = 0 THEN [va |-> ELFHDR, offset |-> 0, filesz |-> PAGESIZE, memsz |-> PAGESIZE]
           ELSE kernel.segs[ph]

FirstSector(offset) == offset \div SECTORSIZE + 1

(* The image that `make` builds: boot sector, then the kernel. *)
boot ==
    /\ stage = "written" /\ base = 0 /\ argv # <<>> /\ IsFile(argv[1])
    /\ stage' = "boot" /\ ptr' = ELFHDR /\ sect' = FirstSector(0)
    /\ UNCHANGED <<files, marked, writer, stack, found, mem, ph>>

boot_readsect ==
    /\ stage = "boot" /\ ptr < Segment.va + Segment.filesz
    /\ mem' = [a \in Memory |->
                 IF a - ptr \in 0 .. SECTORSIZE - 1
                 THEN disk[sect * SECTORSIZE + a - ptr] ELSE mem[a]]
    /\ ptr' = ptr + SECTORSIZE /\ sect' = sect + 1
    /\ UNCHANGED <<stage, files, marked, writer, stack, found, ph>>

(* The end of boot_readseg: bss is cleared; then the next program header. *)
boot_readseg ==
    /\ stage = "boot" /\ ptr >= Segment.va + Segment.filesz
    /\ mem' = [a \in Memory |->
                 IF a \in Segment.va + Segment.filesz .. Segment.va + Segment.memsz - 1
                 THEN Zero ELSE mem[a]]
    /\ IF ph < Len(kernel.segs)
       THEN LET next == kernel.segs[ph + 1]
            IN /\ ph' = ph + 1 /\ stage' = stage
               /\ ptr' = next.va - (next.va % SECTORSIZE)
               /\ sect' = FirstSector(next.offset)
       ELSE stage' = "kernel" /\ UNCHANGED <<ph, ptr, sect>>
    /\ UNCHANGED <<files, marked, writer, stack, found>>

Next ==
    \/ find_partition \/ no_partition \/ do_multiboot
    \/ diskwrite \/ write_error \/ BootSector \/ SkipSector \/ CopyFile \/ Fill
    \/ boot \/ boot_readsect \/ boot_readseg

Spec == Init /\ [][Next]_vars

-----------------------------------------------------------------------------
Sectors(n) == (n + SECTORSIZE - 1) \div SECTORSIZE

(* A finished image holds each file, whole and in order, from the sector at *)
(* which it was due, and zeros or what was there before everywhere else.    *)
(* mkbootdisk -p writes inside the JOS partition and nowhere else, and it   *)
(* finds one whether it is a primary or a logical partition: the start of a *)
(* logical partition counts from the table that describes it, and that of a *)
(* further table from the start of the extended partition.                  *)
DiskLaidOut ==
    /\ stage = "written" =>
         /\ maxoff = 0 => disk[SECTORSIZE - 2] = Sign55 /\ disk[SECTORSIZE - 1] = SignAA
         /\ curoff = nsectors * SECTORSIZE /\ nsectors >= FillSectors
         /\ \A a \in DOMAIN argv : IsFile(argv[a]) =>
              LET f == FileNumber(a) IN
              /\ \A k \in 0 .. FileSize(a) - 1 :
                   disk[base + starts[f] * SECTORSIZE + k] = Bytes(f, k, 1)[1]
              /\ a > 1 /\ IsFile(argv[a - 1]) =>
                   starts[f] = starts[f - 1] + Sectors(FileSize(a - 1))
              /\ a > 1 /\ ~IsFile(argv[a - 1]) => starts[f] = argv[a - 1].skip
    /\ stage = "find" /\ stack = <<>> => ptable.jos = {}
    /\ found =>
         /\ disk[base] # Old \/ curoff = 0
         /\ \A k \in DOMAIN disk : disk[k] # Old =>
              \E p \in ptable.jos : k \in p[1] * SECTORSIZE .. (p[1] + p[2]) * SECTORSIZE - 1

(* When boot jumps to the kernel, every segment is in memory as its program *)
(* header says: the bytes of the file, then zeros; sectors read past the    *)
(* end of one segment have not damaged another.                             *)
KernelLoaded ==
    stage = "kernel" =>
      \A s \in Range(kernel.segs), k \in 0 .. PAGESIZE * 2 :
        /\ k < s.filesz => mem[s.va + k] = <<1, s.offset + k>>
        /\ k \in s.filesz .. s.memsz - 1 => mem[s.va + k] = Zero
=============================================================================
