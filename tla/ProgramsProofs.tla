--------------------------- MODULE ProgramsProofs ---------------------------
(***************************************************************************)
(* What holds of three smaller programs for every value of their constants:  *)
(* the screen of modules/m3 for any console and processes, nparallel of the  *)
(* MapReduce applications for any number of workers, and the voting of lab 5 *)
(* for any number of words and votes.  Each is an instance of its own; the   *)
(* theorems about one say nothing of the variables of another.               *)
(***************************************************************************)
EXTENDS Integers, Sequences, FiniteSets, FiniteSetTheorems, TLAPS

-----------------------------------------------------------------------------
(* The screen *)

CONSTANTS NPROC, Rows, Columns, PhysRow, VirtRow, MapColumn, PerRow, NPages, VPages, Messages,
  BufSize
VARIABLES cells, cursorpos, writer, at, rest, buf, owner, refcount, user, fresh, mode
S == INSTANCE Screen WITH pc <- writer

(* Quotient and remainder, for CROW, CCOL and the places of pages.           *)
LEMMA Division ==
  ASSUME NEW n \in Nat \ {0}, NEW a \in Nat
  PROVE  /\ a \div n \in Nat /\ (a % n) \in 0 .. n - 1 /\ (a \div n) * n \in Nat
         /\ a = (a \div n) * n + (a % n)
OBVIOUS

(* A row of n cells ends before the next one starts.                         *)
LEMMA RowsApart ==
  ASSUME NEW n \in Nat, NEW r \in Int, NEW s \in Int, r < s
  PROVE  r * n \in Int /\ s * n \in Int /\ r * n + n <= s * n
<1>1. s - r - 1 \in Nat /\ (s - r - 1) * n \in Nat
  OBVIOUS
<1>2. s * n = r * n + n + (s - r - 1) * n
  OBVIOUS
<1>3. r * n \in Int /\ s * n \in Int
  OBVIOUS
<1>4. QED
  BY <1>1, <1>2, <1>3

(* A newline of console_putc moves the cursor, and to the end of the console *)
(* at most.                                                                  *)
LEMMA LineEnds ==
  ASSUME NEW n \in Nat \ {0}, NEW rows \in Nat, NEW a \in Nat, a < rows * n
  PROVE  a + n - (a % n) \in Nat /\ a < a + n - (a % n) /\ a + n - (a % n) <= rows * n
<1>1. PICK d \in Nat, m \in 0 .. n - 1 : a = d * n + m /\ m = (a % n) /\ d * n \in Nat
  BY Division, Zenon
<1>2. d < rows
  <2>1. CASE rows < d
    BY <1>1, <2>1, RowsApart
  <2>2. CASE rows = d
    BY <1>1, <2>2
  <2>3. QED
    BY <1>1, <2>1, <2>2
<1>3. d * n + n <= rows * n /\ rows * n \in Int
  BY <1>1, <1>2, RowsApart
<1>4. QED
  BY <1>1, <1>3

(* The first cell of the messages, and how much room they have.              *)
Start == S!CPOS(S!PanicRow, 0)

LEMMA MessageRows ==
  ASSUME S!ConstantsOK
  PROVE  /\ S!Size \in Nat /\ Start \in Nat /\ Columns \in Nat \ {0}
         /\ S!Size = Start + Columns + Columns
         /\ S!CPOS(S!FaultRow, 0) = Start + Columns
<1>1. Rows * Columns = (Rows - 2) * Columns + Columns + Columns
  BY DEF S!ConstantsOK
<1>2. Rows * Columns = (Rows - 1) * Columns + Columns
  BY DEF S!ConstantsOK
<1>3. (Rows - 2) * Columns \in Nat /\ Rows * Columns \in Nat /\ (Rows - 1) * Columns \in Nat
  BY DEF S!ConstantsOK
<1>4. Columns \in Nat \ {0} /\ Rows \in Nat /\ S!PanicRow = Rows - 2 /\ S!FaultRow = Rows - 1
  BY Zenon DEF S!ConstantsOK, S!PanicRow, S!FaultRow
<1>5. Start = (Rows - 2) * Columns /\ S!CPOS(S!FaultRow, 0) = (Rows - 1) * Columns
  BY <1>3, <1>4 DEF Start, S!CPOS
<1>6. QED
  BY <1>1, <1>2, <1>3, <1>4, <1>5 DEF S!Size

(* One character of console_putc.                                            *)
LEMMA PutMoves ==
  ASSUME S!ConstantsOK, NEW a \in Nat, NEW c \in {"c", "nl"}
  PROVE  /\ S!PutTo(a, c) \in Nat
         /\ a < S!Size => S!PutTo(a, c) <= S!Size /\ a < S!PutTo(a, c)
         /\ a < S!Size /\ c = "c" => S!PutTo(a, c) = a + 1
<1>1. S!Size \in Nat /\ Columns \in Nat \ {0} /\ Rows \in Nat
  BY MessageRows, Zenon DEF S!ConstantsOK
<1>2. S!PutFrom(a) \in Nat /\ (a < S!Size => S!PutFrom(a) = a)
  BY <1>1 DEF S!PutFrom
<1>3. CASE c = "c"
  BY <1>1, <1>2, <1>3 DEF S!PutTo
<1>4. CASE c = "nl"
  <2>1. S!PutTo(a, c) = S!PutFrom(a) + Columns - (S!PutFrom(a) % Columns)
    BY <1>4, Zenon DEF S!PutTo, S!CCOL
  <2>2. (S!PutFrom(a) % Columns) \in 0 .. Columns - 1
    BY <1>1, <1>2, Division, Zenon
  <2>3. S!PutTo(a, c) \in Nat
    BY <1>1, <1>2, <2>1, <2>2
  <2>4. ASSUME a < S!Size PROVE S!PutTo(a, c) <= S!Size /\ a < S!PutTo(a, c)
    BY <1>1, <1>2, <2>1, <2>4, LineEnds, Zenon DEF S!Size
  <2>5. QED
    BY <1>4, <2>3, <2>4, Zenon
<1>5. QED
  BY <1>3, <1>4, Zenon

ScreenType ==
  /\ DOMAIN cells = 0 .. S!Size - 1
  /\ cursorpos \in Nat
  /\ writer \in [S!Proc -> {"idle", "put", "test", "wrap", "panic", "broken"}]
  /\ at \in [S!Proc -> Nat]
  /\ rest \in [S!Proc -> Seq({"c", "nl"})]
  /\ buf \in 0 .. BufSize - 1

(* What is left of a panic's text: one line that ends before the console does. *)
Fits(a, text) ==
  /\ a \in Start .. S!Size
  /\ text # <<>> => a + Len(text) < S!Size
  /\ \A j \in 1 .. Len(text) - 1 : text[j] = "c"

Panicking == \A p \in S!Proc : writer[p] = "panic" => Fits(at[p], rest[p])

(* A full screen has not been left behind: somebody is about to look.        *)
Attended == S!Full => \E p \in S!Proc : writer[p] \in {"test", "wrap", "broken"}

Panicked == mode = "panic" => cells[Start] = "PANIC"

MessageInv == ScreenType /\ Panicking /\ Attended /\ Panicked

LEMMA MessagesStart == ASSUME S!ConstantsOK, S!Init PROVE MessageInv
<1>1. cells = [c \in 0 .. S!Size - 1 |-> "text"] /\ cursorpos = 0 /\ buf = 0 /\ mode = "user"
  BY Zenon DEF S!Init, S!console_clear
<1>2. /\ writer = [p \in S!Proc |-> "idle"] /\ at = [p \in S!Proc |-> 0]
      /\ rest = [p \in S!Proc |-> <<>>]
  BY Zenon DEF S!Init
<1>3. DOMAIN cells = 0 .. S!Size - 1 /\ buf \in 0 .. BufSize - 1
  BY <1>1 DEF S!ConstantsOK
<1>4. ScreenType
  BY <1>1, <1>2, <1>3 DEF ScreenType
<1>5. ~S!Full
  BY <1>1 DEF S!Full, S!CROW, S!PanicRow, S!ConstantsOK
<1>6. QED
  BY <1>1, <1>2, <1>4, <1>5, Zenon DEF MessageInv, Panicking, Attended, Panicked

(* app_printf starts: nobody is at the panic row who was not.                *)
LEMMA PrintfStarts ==
  ASSUME S!ConstantsOK, MessageInv, NEW p \in S!Proc, S!app_printf(p)
  PROVE  MessageInv'
<1>1. PICK m \in Messages : rest' = [rest EXCEPT ![p] = m]
  BY Zenon DEF S!app_printf
<1>2. /\ writer[p] = "idle" /\ writer' = [writer EXCEPT ![p] = "put"]
      /\ at' = [at EXCEPT ![p] = S!Clip(cursorpos)] /\ mode = "user"
      /\ UNCHANGED <<cells, cursorpos, buf, mode>>
  BY Zenon DEF S!app_printf, S!Process
<1>3. S!Clip(cursorpos) \in Nat /\ m \in Seq({"c", "nl"})
  BY Zenon DEF S!Clip, MessageInv, ScreenType, S!ConstantsOK
<1>4. ScreenType'
  BY <1>1, <1>2, <1>3, Zenon DEF MessageInv, ScreenType
<1>5. Panicking'
  BY <1>1, <1>2, Zenon DEF MessageInv, ScreenType, Panicking
<1>6. Attended'
  BY <1>2, Zenon DEF MessageInv, ScreenType, Attended, S!Full
<1>7. QED
  BY <1>2, <1>4, <1>5, <1>6, Zenon DEF MessageInv, Panicked

(* What follows a character of a panic's text fits from where it ends.       *)
LEMMA CharacterFits ==
  ASSUME S!ConstantsOK, NEW a \in Nat, NEW text \in Seq({"c", "nl"}), text # <<>>, Fits(a, text)
  PROVE  Fits(S!PutTo(a, Head(text)), Tail(text))
<1>1. Head(text) \in {"c", "nl"} /\ Len(text) \in Nat \ {0} /\ Head(text) = text[1]
  OBVIOUS
<1>2. Len(Tail(text)) = Len(text) - 1 /\ \A j \in 1 .. Len(text) - 1 : Tail(text)[j] = text[j + 1]
  OBVIOUS
<1>3. S!Size \in Nat /\ Start \in Nat
  BY MessageRows, Zenon
<1>4. a < S!Size
  BY <1>1, <1>3 DEF Fits
<1>5. S!PutTo(a, Head(text)) \in Nat /\ S!PutTo(a, Head(text)) \in Start .. S!Size
  <2>1. /\ S!PutTo(a, Head(text)) \in Nat /\ S!PutTo(a, Head(text)) <= S!Size
        /\ a < S!PutTo(a, Head(text))
    BY <1>1, <1>4, PutMoves, Zenon
  <2>2. a >= Start
    BY <1>3 DEF Fits
  <2>3. QED
    BY <1>3, <2>1, <2>2
<1>6. ASSUME Tail(text) # <<>> PROVE S!PutTo(a, Head(text)) + Len(Tail(text)) < S!Size
  <2>1. Len(text) > 1
    BY <1>6
  <2>2. Head(text) = "c"
    BY <1>1, <2>1 DEF Fits
  <2>3. S!PutTo(a, Head(text)) = a + 1
    BY <1>1, <1>4, <2>2, PutMoves, Zenon
  <2>4. QED
    BY <1>1, <1>2, <1>3, <2>3 DEF Fits
<1>7. ASSUME NEW j \in 1 .. Len(Tail(text)) - 1 PROVE Tail(text)[j] = "c"
  BY <1>1, <1>2 DEF Fits
<1>8. QED
  BY <1>5, <1>6, <1>7, Zenon DEF Fits

(* console_putc keeps a panic's text in its rows, and all else as it is.     *)
LEMMA CharacterPut ==
  ASSUME S!ConstantsOK, MessageInv, NEW p \in S!Proc, S!console_putc(p)
  PROVE  MessageInv'
<1> DEFINE a == S!PutTo(at[p], Head(rest[p]))
<1>1. /\ at' = [at EXCEPT ![p] = a] /\ rest' = [rest EXCEPT ![p] = Tail(rest[p])]
      /\ rest[p] # <<>> /\ mode = "user" /\ UNCHANGED <<cursorpos, writer, buf, mode>>
  BY Zenon DEF S!console_putc
<1>2. at[p] \in Nat /\ rest[p] \in Seq({"c", "nl"})
  BY Zenon DEF MessageInv, ScreenType
<1>3. Head(rest[p]) \in {"c", "nl"} /\ Tail(rest[p]) \in Seq({"c", "nl"})
  BY <1>1, <1>2
<1>4. a \in Nat
  BY <1>2, <1>3, PutMoves, Zenon
<1>5. DOMAIN cells' = DOMAIN cells
  BY Zenon DEF S!console_putc, S!PutCells
<1>6. writer[p] = "panic" => Fits(a, Tail(rest[p]))
  BY <1>1, <1>2, CharacterFits, Zenon DEF MessageInv, Panicking
<1> HIDE DEF a
<1>7. ScreenType'
  BY <1>1, <1>3, <1>4, <1>5, Zenon DEF MessageInv, ScreenType
<1>8. Panicking'
  BY <1>1, <1>6, Zenon DEF MessageInv, ScreenType, Panicking, Fits
<1>9. QED
  BY <1>1, <1>7, <1>8, Zenon DEF MessageInv, Attended, S!Full, Panicked

(* The end of app_printf: cursorpos is stored, tested and perhaps reset.     *)
LEMMA PrintfEnds ==
  ASSUME S!ConstantsOK, MessageInv, NEW p \in S!Proc, S!Store(p) \/ S!Test(p) \/ S!Wrap(p)
  PROVE  MessageInv'
<1>1. mode = "user" /\ UNCHANGED <<cells, rest, buf, mode>>
  BY Zenon DEF S!Store, S!Test, S!Wrap, S!Process
<1>2. Panicked'
  BY <1>1, Zenon DEF Panicked
<1>3. CASE S!Store(p)
  <2>1. /\ writer[p] = "put" /\ writer' = [writer EXCEPT ![p] = "test"] /\ cursorpos' = at[p]
        /\ at' = [at EXCEPT ![p] = 0]
    BY <1>3, Zenon DEF S!Store, S!Process
  <2>2. ScreenType'
    BY <1>1, <2>1, Zenon DEF MessageInv, ScreenType
  <2>3. Panicking'
    BY <1>1, <2>1, Zenon DEF MessageInv, ScreenType, Panicking, Fits
  <2>4. writer'[p] = "test"
    BY <2>1, Zenon DEF MessageInv, ScreenType
  <2>5. QED
    BY <1>2, <2>2, <2>3, <2>4, Zenon DEF MessageInv, Attended
<1>4. CASE S!Test(p)
  <2>1. /\ writer' = [writer EXCEPT ![p] = IF S!Full THEN "wrap" ELSE "idle"]
        /\ cursorpos' = cursorpos /\ at' = at
    BY <1>4, Zenon DEF S!Test
  <2>2. ScreenType'
    BY <1>1, <2>1, Zenon DEF MessageInv, ScreenType
  <2>3. Panicking'
    BY <1>1, <2>1, Zenon DEF MessageInv, ScreenType, Panicking, Fits
  <2>4. S!Full' = S!Full
    BY <2>1, Zenon DEF S!Full
  <2>5. S!Full => writer'[p] = "wrap"
    BY <2>1, Zenon DEF MessageInv, ScreenType
  <2>6. QED
    BY <1>2, <2>2, <2>3, <2>4, <2>5, Zenon DEF MessageInv, Attended
<1>5. CASE S!Wrap(p)
  <2>1. /\ writer' = [writer EXCEPT ![p] = "idle"] /\ cursorpos' = S!CPOS(0, 0) /\ at' = at
    BY <1>5, Zenon DEF S!Wrap
  <2>2. cursorpos' = 0
    BY <2>1 DEF S!CPOS, S!ConstantsOK
  <2>3. ScreenType'
    BY <1>1, <2>1, <2>2 DEF MessageInv, ScreenType
  <2>4. Panicking'
    BY <1>1, <2>1, Zenon DEF MessageInv, ScreenType, Panicking, Fits
  <2>5. ~S!Full'
    BY <2>2 DEF S!Full, S!CROW, S!PanicRow, S!ConstantsOK
  <2>6. QED
    BY <1>2, <2>3, <2>4, <2>5, Zenon DEF MessageInv, Attended
<1>6. QED
  BY <1>3, <1>4, <1>5, Zenon

(* The text of a panic: characters and a newline at the end.                 *)
LEMMA LineOfText ==
  ASSUME NEW n \in Nat
  PROVE  /\ [j \in 1 .. n |-> IF j = n THEN "nl" ELSE "c"] \in Seq({"c", "nl"})
         /\ Len([j \in 1 .. n |-> IF j = n THEN "nl" ELSE "c"]) = n
         /\ \A j \in 1 .. n - 1 : [l \in 1 .. n |-> IF l = n THEN "nl" ELSE "c"][j] = "c"
OBVIOUS

(* panic of process.c: the buffer's text, cut and ended with a newline, fits *)
(* the two rows of the messages.                                             *)
LEMMA PanicStarts ==
  ASSUME S!ConstantsOK, MessageInv, NEW p \in S!Proc, S!panic(p)
  PROVE  MessageInv'
<1> DEFINE text == [j \in 1 .. buf' |-> IF j = buf' THEN "nl" ELSE "c"]
<1>1. /\ writer[p] = "idle" /\ writer' = [writer EXCEPT ![p] = "panic"] /\ mode = "user"
      /\ rest' = [rest EXCEPT ![p] = text] /\ at' = [at EXCEPT ![p] = Start]
      /\ UNCHANGED <<cells, cursorpos, mode>>
  BY Zenon DEF S!panic, S!Process, Start
<1>2. buf' \in 1 .. BufSize - 1
  <2>1. PICK n \in 0 .. BufSize + 1, nl \in BOOLEAN :
          buf' = IF nl /\ n > 0 /\ n + 1 <= BufSize - 1
                 THEN IF n + 1 > BufSize - 1 THEN BufSize - 1 ELSE n + 1
                 ELSE S!WithNewline(IF n + 1 > BufSize - 1 THEN BufSize - 1 ELSE n + 1)
    BY Zenon DEF S!panic
  <2>2. n \in Nat /\ BufSize \in Nat /\ BufSize > 1
    BY DEF S!ConstantsOK
  <2>3. QED
    BY <2>1, <2>2 DEF S!WithNewline
<1>3. /\ text \in Seq({"c", "nl"}) /\ Len(text) = buf'
      /\ \A j \in 1 .. buf' - 1 : text[j] = "c"
  <2>1. buf' \in Nat
    BY <1>2 DEF S!ConstantsOK
  <2>2. QED
    BY <2>1, LineOfText, Zenon
<1> HIDE DEF text
<1>4. Fits(Start, text)
  <2>1. Start \in Start .. S!Size
    BY MessageRows
  <2>2. Start + Len(text) < S!Size
    <3>1. buf' \in Nat /\ buf' < Columns + Columns
      BY <1>2 DEF S!ConstantsOK
    <3>2. QED
      BY <1>3, <3>1, MessageRows
  <2>3. QED
    BY <1>3, <2>1, <2>2, Zenon DEF Fits
<1>5. Start \in Nat /\ buf' \in 0 .. BufSize - 1
  BY <1>2, MessageRows DEF S!ConstantsOK
<1>6. ScreenType'
  BY <1>1, <1>3, <1>5, Zenon DEF MessageInv, ScreenType
<1>7. Panicking'
  BY <1>1, <1>4, Zenon DEF MessageInv, ScreenType, Panicking, Fits
<1>8. Attended'
  BY <1>1, Zenon DEF MessageInv, ScreenType, Attended, S!Full
<1>9. QED
  BY <1>1, <1>6, <1>7, <1>8, Zenon DEF MessageInv, Panicked

(* Drawing leaves the console its size.                                      *)
LEMMA SameCells ==
  /\ DOMAIN S!memshow(cells) = DOMAIN cells
  /\ \A screen, a, c, by : DOMAIN S!PutCells(screen, a, c, by) = DOMAIN screen
  /\ \A screen, n : DOMAIN S!error_printf(screen, n) = DOMAIN screen
BY Zenon DEF S!memshow, S!PutCells, S!error_printf

(* The kernel's own writes: after a panic the header is there.               *)
LEMMA KernelDraws ==
  ASSUME S!ConstantsOK, MessageInv,
         \/ S!Timer \/ S!kernel_panic
         \/ \E p \in S!Proc : S!PageAlloc(p) \/ S!PageFault(p) \/ S!sys_panic(p)
  PROVE  MessageInv'
<1>1. mode = "user" /\ UNCHANGED <<cursorpos, buf>>
  BY Zenon DEF S!Timer, S!kernel_panic, S!PageAlloc, S!PageFault, S!sys_panic
<1>2. DOMAIN cells' = DOMAIN cells
  BY SameCells DEF S!Timer, S!kernel_panic, S!PageAlloc, S!PageFault, S!sys_panic
<1>3. CASE UNCHANGED <<writer, at, rest>>
  <2>1. ScreenType' /\ Panicking' /\ Attended'
    BY <1>1, <1>2, <1>3, Zenon DEF MessageInv, ScreenType, Panicking, Attended, S!Full
  <2>2. Panicked'
    <3>1. ASSUME NEW screen, NEW n \in 1 .. Columns, DOMAIN screen = DOMAIN cells
          PROVE  S!error_printf(screen, n)[Start] = "PANIC"
      <4>1. Start \in DOMAIN screen
        BY <3>1, MessageRows DEF MessageInv, ScreenType
      <4>2. Start \in S!CPOS(S!PanicRow, 0) .. S!CPOS(S!PanicRow, n - 1)
        <5>1. S!PanicRow * Columns \in Int /\ Columns \in Nat
          BY DEF S!PanicRow, S!ConstantsOK
        <5>2. QED
          BY <5>1 DEF Start, S!CPOS
      <4>3. QED
        BY <4>1, <4>2, Zenon DEF S!error_printf
    <3>2. CASE S!Timer \/ \E p \in S!Proc : S!PageAlloc(p) \/ S!PageFault(p)
      BY <1>1, <3>2, Zenon DEF S!Timer, S!PageAlloc, S!PageFault, Panicked
    <3>3. CASE S!kernel_panic
      BY <3>1, <3>3, SameCells DEF S!kernel_panic, Panicked
    <3>4. CASE \E p \in S!Proc : S!sys_panic(p)
      <4>1. 1 \in 1 .. Columns
        BY DEF S!ConstantsOK
      <4>2. QED
        BY <3>1, <3>4, <4>1, SameCells, Zenon DEF S!sys_panic, Panicked
    <3>5. QED
      BY <3>2, <3>3, <3>4, Zenon
  <2>3. QED
    BY <2>1, <2>2, Zenon DEF MessageInv
<1>4. ASSUME NEW p \in S!Proc, S!PageFault(p) PROVE MessageInv'
  <2>1. /\ writer' = [writer EXCEPT ![p] = "broken"] /\ at' = [at EXCEPT ![p] = 0]
        /\ rest' = [rest EXCEPT ![p] = <<>>] /\ mode' = mode
    BY <1>4, Zenon DEF S!PageFault
  <2>2. ScreenType'
    BY <1>1, <1>2, <2>1 DEF MessageInv, ScreenType
  <2>3. Panicking'
    BY <2>1, Zenon DEF MessageInv, ScreenType, Panicking, Fits
  <2>4. writer'[p] = "broken"
    BY <2>1, Zenon DEF MessageInv, ScreenType
  <2>5. QED
    BY <1>1, <2>1, <2>2, <2>3, <2>4, Zenon DEF MessageInv, Attended, Panicked
<1>5. QED
  BY <1>3, <1>4, Zenon DEF S!Timer, S!kernel_panic, S!PageAlloc, S!sys_panic

LEMMA MessageStep == ASSUME S!ConstantsOK, MessageInv, [S!Next]_S!vars PROVE MessageInv'
<1>1. CASE UNCHANGED S!vars
  BY <1>1, Zenon DEF S!vars, MessageInv, ScreenType, Panicking, Attended, S!Full, Panicked
<1>2. CASE \E p \in S!Proc : S!app_printf(p) \/ S!console_putc(p) \/ S!panic(p)
  BY <1>2, PrintfStarts, CharacterPut, PanicStarts, Zenon
<1>3. CASE \E p \in S!Proc : S!Store(p) \/ S!Test(p) \/ S!Wrap(p)
  BY <1>3, PrintfEnds, Zenon
<1>4. QED
  BY <1>1, <1>2, <1>3, KernelDraws, Zenon DEF S!Next

(* On any console and for any number of processes: once none of them is in   *)
(* app_printf the next line goes above the rows of the messages, a panic of  *)
(* process.c stays in its buffer and in those rows, and the machine stops    *)
(* with PANIC on its row.                                                    *)
THEOREM MessagesKeepTheirRows ==
  ASSUME S!ConstantsOK PROVE S!Spec => []S!MessageRowsKept
<1>1. MessageInv => S!MessageRowsKept
  <2> SUFFICES ASSUME MessageInv PROVE S!MessageRowsKept
    BY Zenon
  <2>1. ASSUME \A p \in S!Proc : writer[p] \in {"idle", "panic"}
        PROVE  S!CROW(cursorpos) < S!PanicRow
    <3>1. ~S!Full
      BY <2>1, Zenon DEF MessageInv, Attended
    <3>2. S!CROW(cursorpos) \in Int /\ S!PanicRow \in Int
      BY DEF MessageInv, ScreenType, S!CROW, S!PanicRow, S!ConstantsOK
    <3>3. QED
      BY <3>1, <3>2 DEF S!Full
  <2>2. buf + 1 <= BufSize
    BY DEF MessageInv, ScreenType, S!ConstantsOK
  <2>3. QED
    BY <2>1, <2>2, Zenon DEF MessageInv, Panicking, Fits, Panicked, Start, S!MessageRowsKept
<1>2. QED
  BY <1>1, MessagesStart, MessageStep, PTL DEF S!Spec

(* Two cells of a console are the same only in the same row and column.      *)
LEMMA CellsApart ==
  ASSUME NEW n \in Nat \ {0}, NEW r \in Nat, NEW s \in Nat,
         NEW c \in 0 .. n - 1, NEW d \in 0 .. n - 1,
         r * n + c = s * n + d
  PROVE  r = s /\ c = d
<1>1. r * n \in Int /\ s * n \in Int
  OBVIOUS
<1>2. ~(r < s)
  BY <1>1, RowsApart
<1>3. ~(s < r)
  BY <1>1, RowsApart
<1>4. r = s
  BY <1>2, <1>3
<1>5. QED
  BY <1>1, <1>4

(* The place of page a in a picture that starts in row r.                    *)
Place(r, a) == S!CPOS(r + a \div PerRow, MapColumn + (a % PerRow))

LEMMA PlaceIs ==
  ASSUME S!ConstantsOK, NEW a \in Nat
  PROVE  /\ a \div PerRow \in Nat /\ MapColumn + (a % PerRow) \in 0 .. Columns - 1
         /\ a = (a \div PerRow) * PerRow + (a % PerRow) /\ (a % PerRow) \in Nat
         /\ MapColumn \in Nat
<1>1. PerRow \in Nat \ {0} /\ MapColumn \in Nat /\ Columns \in Nat /\ MapColumn + PerRow <= Columns
  BY Zenon DEF S!ConstantsOK
<1>2. PICK m \in 0 .. PerRow - 1 : m = (a % PerRow)
  BY <1>1, Division, Zenon
<1>3. MapColumn + m \in 0 .. Columns - 1
  BY <1>1, <1>2
<1>4. a \div PerRow \in Nat /\ a = (a \div PerRow) * PerRow + (a % PerRow)
  BY <1>1, Division, Zenon
<1>5. (a % PerRow) \in Nat /\ MapColumn + (a % PerRow) \in 0 .. Columns - 1
  BY <1>1, <1>2, <1>3
<1>6. QED
  BY <1>1, <1>4, <1>5, Zenon

(* Pages of one picture have different cells, and so have pages of two       *)
(* pictures of which one ends above the other.                               *)
LEMMA PlacesApart ==
  ASSUME S!ConstantsOK, NEW r \in Nat, NEW s \in Nat, NEW a \in Nat, NEW b \in Nat,
         Place(r, a) = Place(s, b)
  PROVE  r + a \div PerRow = s + b \div PerRow /\ (r = s => a = b)
<1> DEFINE da == a \div PerRow
           db == b \div PerRow
           ma == a % PerRow
           mb == b % PerRow
<1>1. /\ da \in Nat /\ MapColumn + ma \in 0 .. Columns - 1 /\ a = da * PerRow + ma
      /\ db \in Nat /\ MapColumn + mb \in 0 .. Columns - 1 /\ b = db * PerRow + mb
      /\ ma \in Nat /\ mb \in Nat /\ MapColumn \in Nat
  BY PlaceIs, Zenon
<1>2. (r + da) * Columns + (MapColumn + ma) = (s + db) * Columns + (MapColumn + mb)
  BY Zenon DEF Place, S!CPOS
<1> HIDE DEF da, db, ma, mb
<1>3. Columns \in Nat \ {0} /\ r + da \in Nat /\ s + db \in Nat
  BY <1>1 DEF S!ConstantsOK
<1>4. r + da = s + db /\ MapColumn + ma = MapColumn + mb
  BY <1>1, <1>2, <1>3, CellsApart
<1>5. ma = mb
  BY <1>1, <1>4
<1>6. ASSUME r = s PROVE a = b
  <2>1. da = db
    BY <1>1, <1>4, <1>6
  <2>2. QED
    BY <1>1, <1>5, <2>1, Zenon
<1>7. QED
  BY <1>4, <1>6, Zenon DEF da, db

(* A picture that ends above the rows of the messages keeps out of them.     *)
LEMMA PlaceAbove ==
  ASSUME S!ConstantsOK, NEW r \in Nat, NEW a \in Nat, r + a \div PerRow < S!PanicRow
  PROVE  Place(r, a) \in 0 .. Start - 1
<1> DEFINE da == a \div PerRow
           ma == a % PerRow
<1>1. da \in Nat /\ MapColumn + ma \in 0 .. Columns - 1
  BY PlaceIs, Zenon
<1>2. Place(r, a) = (r + da) * Columns + (MapColumn + ma)
  BY Zenon DEF Place, S!CPOS
<1> HIDE DEF ma
<1>3. Columns \in Nat /\ S!PanicRow \in Int /\ r + da \in Nat
  BY <1>1 DEF S!ConstantsOK, S!PanicRow
<1>4. (r + da) * Columns + Columns <= S!PanicRow * Columns /\ (r + da) * Columns \in Nat
  BY <1>3, RowsApart
<1>5. Start = S!PanicRow * Columns /\ Start \in Nat
  BY <1>3, MessageRows DEF Start, S!CPOS
<1> HIDE DEF da
<1>6. QED
  BY <1>1, <1>2, <1>3, <1>4, <1>5

(* Every page has a cell of its own in each picture, above the messages.     *)
LEMMA PagesPlaced ==
  ASSUME S!ConstantsOK
  PROVE  /\ \A pg \in S!Page : S!PhysCpos(pg) \in 0 .. Start - 1
         /\ \A va \in 0 .. VPages - 1 : S!VirtCpos(va) \in 0 .. Start - 1
         /\ \A pg, qg \in S!Page : S!PhysCpos(pg) = S!PhysCpos(qg) => pg = qg
         /\ \A va, vb \in 0 .. VPages - 1 : S!VirtCpos(va) = S!VirtCpos(vb) => va = vb
         /\ \A pg \in S!Page, va \in 0 .. VPages - 1 : S!PhysCpos(pg) # S!VirtCpos(va)
<1>1. /\ \A pg : S!PhysCpos(pg) = Place(PhysRow, pg)
      /\ \A va : S!VirtCpos(va) = Place(VirtRow, va)
  BY Zenon DEF S!PhysCpos, S!VirtCpos, Place
<1>2. /\ PhysRow \in Nat /\ VirtRow \in Nat /\ S!PanicRow \in Int
      /\ \A pg \in S!Page : pg \in Nat /\ pg \in 0 .. VPages - 1
      /\ \A va \in 0 .. VPages - 1 : va \in Nat
  BY DEF S!ConstantsOK, S!Page, S!PanicRow
<1>3. \A a \in Nat : a \div PerRow \in Nat
  BY PlaceIs, Zenon
<1>4. \A va \in 0 .. VPages - 1 : VirtRow + va \div PerRow < S!PanicRow
  BY Zenon DEF S!ConstantsOK
<1>5. \A pg \in S!Page : PhysRow + pg \div PerRow < VirtRow
  BY Zenon DEF S!ConstantsOK
<1>6. ASSUME NEW va \in 0 .. VPages - 1 PROVE S!VirtCpos(va) \in 0 .. Start - 1
  BY <1>1, <1>2, <1>4, PlaceAbove, Zenon
<1>7. ASSUME NEW pg \in S!Page PROVE S!PhysCpos(pg) \in 0 .. Start - 1
  <2>1. PhysRow + pg \div PerRow < VirtRow /\ VirtRow + pg \div PerRow < S!PanicRow
    BY <1>2, <1>4, <1>5, Zenon
  <2>2. PhysRow + pg \div PerRow < S!PanicRow
    BY <1>2, <1>3, <2>1
  <2>3. QED
    BY <1>1, <1>2, <2>2, PlaceAbove, Zenon
<1>8. ASSUME NEW pg \in S!Page, NEW va \in 0 .. VPages - 1 PROVE S!PhysCpos(pg) # S!VirtCpos(va)
  <2>1. SUFFICES ASSUME Place(PhysRow, pg) = Place(VirtRow, va) PROVE FALSE
    BY <1>1, Zenon
  <2>2. PhysRow + pg \div PerRow = VirtRow + va \div PerRow
    BY <1>2, <2>1, PlacesApart
  <2>3. PhysRow + pg \div PerRow < VirtRow
    BY <1>5, Zenon
  <2>4. va \div PerRow \in Nat /\ pg \div PerRow \in Nat
    BY <1>2, <1>3, Zenon
  <2>5. QED
    BY <1>2, <2>2, <2>3, <2>4
<1>9. ASSUME NEW pg \in S!Page, NEW qg \in S!Page, S!PhysCpos(pg) = S!PhysCpos(qg) PROVE pg = qg
  BY <1>1, <1>2, <1>9, PlacesApart, Zenon
<1>10. ASSUME NEW va \in 0 .. VPages - 1, NEW vb \in 0 .. VPages - 1,
              S!VirtCpos(va) = S!VirtCpos(vb)
       PROVE  va = vb
  BY <1>1, <1>2, <1>10, PlacesApart, Zenon
<1>11. QED
  BY <1>6, <1>7, <1>8, <1>9, <1>10, Zenon

(* What the cells p and v of page pg are to tell.                            *)
Tells(pg, p, v) ==
  /\ refcount[pg] > 0 => p.letter = owner[pg] /\ v.letter = owner[pg]
  /\ refcount[pg] = 0 => p.letter = S!PO_FREE /\ v.letter = S!PO_FREE
  /\ owner[pg] \notin {S!PO_FREE, S!PO_RESERVED} => (p.fg < 8 <=> refcount[pg] > 1)
  /\ (v.fg = 0) = (pg \in user)

PageInv ==
  /\ owner \in [S!Page -> {S!PO_KERNEL, S!PO_FREE} \cup S!Proc]
  /\ refcount \in [S!Page -> Nat]
  /\ \A pg \in S!Page : owner[pg] # S!PO_FREE => refcount[pg] > 0

(* memstate_colors: no letter is black, and those of the kernel and of the   *)
(* processes are bright.                                                     *)
LEMMA Colours ==
  ASSUME NEW o \in {S!PO_KERNEL, S!PO_FREE} \cup S!Proc, S!ConstantsOK
  PROVE  /\ S!Foreground(o) \in 1 .. 15 /\ (S!Foreground(o) % 8) \in 1 .. 7
         /\ o # S!PO_FREE => S!Foreground(o) >= 8
<1>1. CASE o = S!PO_KERNEL
  BY <1>1 DEF S!Foreground, S!PO_KERNEL, S!PO_FREE, S!PO_RESERVED
<1>2. CASE o = S!PO_FREE
  BY <1>2 DEF S!Foreground, S!PO_KERNEL, S!PO_FREE, S!PO_RESERVED
<1>3. CASE o \in S!Proc
  <2>1. o \in Int /\ o > 0
    BY <1>3 DEF S!Proc, S!ConstantsOK
  <2>2. PICK m \in 1 .. 5 : m = ((o - 1) % 5) + 1
    BY <2>1
  <2>3. S!Foreground(o) = <<12, 10, 9, 14, 15>>[m]
    BY <2>1, <2>2 DEF S!Foreground, S!PO_KERNEL, S!PO_FREE, S!PO_RESERVED
  <2>4. S!Foreground(o) \in {12, 10, 9, 14, 15}
    BY <2>3
  <2>5. QED
    BY <2>4
<1>4. QED
  BY <1>1, <1>2, <1>3, Zenon

Cell == [letter : Int, bg : Int, fg : Int]

(* Colours exchanged, as for a user page, and darkened, as for a shared one. *)
LEMMA Recoloured ==
  ASSUME NEW c \in Cell
  PROVE  /\ S!Reversed(c) \in Cell /\ S!Reversed(c).letter = c.letter /\ S!Reversed(c).bg = c.fg
         /\ S!Reversed(c).fg = c.bg
         /\ S!Darker(c) \in Cell /\ S!Darker(c).letter = c.letter /\ S!Darker(c).fg = c.fg % 8
<1>1. S!Reversed(c) \in Cell /\ S!Reversed(c).letter = c.letter /\ S!Reversed(c).bg = c.fg
  BY Zenon DEF S!Reversed, Cell
<1>2. S!Reversed(c).fg = c.bg
  BY Zenon DEF S!Reversed, Cell
<1>3. S!Darker(c) \in Cell /\ S!Darker(c).letter = c.letter /\ S!Darker(c).fg = c.fg % 8
  <2>1. c.bg % 8 \in Int /\ c.fg % 8 \in Int
    BY DEF Cell
  <2>2. PICK b \in Int, f \in Int : b = c.bg % 8 /\ f = c.fg % 8
    BY <2>1, Zenon
  <2>3. S!Darker(c) = [c EXCEPT !.bg = b, !.fg = f]
    BY <2>2, Zenon DEF S!Darker
  <2>4. QED
    BY <2>2, <2>3, Zenon DEF Cell
<1>4. QED
  BY <1>1, <1>2, <1>3, Zenon

(* The cells memshow_physical and memshow_virtual compute for a page.        *)
LEMMA CellsTell ==
  ASSUME S!ConstantsOK, PageInv, NEW pg \in S!Page
  PROVE  Tells(pg, S!PhysicalCell(pg), S!VirtualCell(pg))
<1> DEFINE o == S!Owner(pg)
           f == S!Foreground(o)
<1>1. /\ refcount[pg] \in Nat /\ o \in {S!PO_KERNEL, S!PO_FREE} \cup S!Proc
      /\ (refcount[pg] > 0 => o = owner[pg]) /\ (refcount[pg] = 0 => o = S!PO_FREE)
      /\ (owner[pg] # S!PO_FREE => refcount[pg] > 0)
  BY DEF PageInv, S!Owner
<1>2. f \in 1 .. 15 /\ (f % 8) \in 1 .. 7 /\ (o # S!PO_FREE => f >= 8)
  BY <1>1, Colours, Zenon
<1> DEFINE c == S!memstate_colors(o)
<1>3. c \in Cell /\ c.letter = o /\ c.bg = 0 /\ c.fg = f
  BY <1>1, <1>2 DEF S!memstate_colors, S!Background, Cell, S!PO_KERNEL, S!PO_FREE, S!Proc
<1>4. /\ S!PhysicalCell(pg) = IF refcount[pg] > 1 THEN S!Darker(c) ELSE c
      /\ pg \in user => S!VirtualCell(pg) = IF refcount[pg] > 1 THEN S!Darker(S!Reversed(c))
                                            ELSE S!Reversed(c)
      /\ pg \notin user => S!VirtualCell(pg) = IF refcount[pg] > 1 THEN S!Darker(c) ELSE c
  BY Zenon DEF S!PhysicalCell, S!VirtualCell
<1> HIDE DEF o, f, c
<1>5. /\ S!PhysicalCell(pg).letter = o
      /\ S!PhysicalCell(pg).fg = IF refcount[pg] > 1 THEN f % 8 ELSE f
  BY <1>3, <1>4, Recoloured, Zenon
<1>6. /\ S!VirtualCell(pg).letter = o
      /\ pg \in user => S!VirtualCell(pg).fg = IF refcount[pg] > 1 THEN 0 % 8 ELSE 0
      /\ pg \notin user => S!VirtualCell(pg).fg = IF refcount[pg] > 1 THEN f % 8 ELSE f
  BY <1>3, <1>4, Recoloured
<1>7. /\ pg \in user => S!VirtualCell(pg).fg = 0
      /\ pg \notin user => S!VirtualCell(pg).fg # 0
  BY <1>1, <1>2, <1>6
<1>8. ASSUME owner[pg] \notin {S!PO_FREE, S!PO_RESERVED}
      PROVE  S!PhysicalCell(pg).fg < 8 <=> refcount[pg] > 1
  BY <1>1, <1>2, <1>5, <1>8
<1>9. (S!VirtualCell(pg).fg = 0) = (pg \in user)
  <2>1. CASE pg \in user
    BY <1>7, <2>1, Zenon
  <2>2. CASE pg \notin user
    BY <1>7, <2>2
  <2>3. QED
    BY <2>1, <2>2, Zenon
<1>10. /\ refcount[pg] > 0 =>
            S!PhysicalCell(pg).letter = owner[pg] /\ S!VirtualCell(pg).letter = owner[pg]
       /\ refcount[pg] = 0 =>
            S!PhysicalCell(pg).letter = S!PO_FREE /\ S!VirtualCell(pg).letter = S!PO_FREE
  BY <1>1, <1>5, <1>6, Zenon
<1>11. QED
  BY <1>8, <1>9, <1>10, Zenon DEF Tells

(* memshow_physical and memshow_virtual put each page's cell in its place.   *)
LEMMA PagesShown ==
  ASSUME S!ConstantsOK, DOMAIN cells = 0 .. S!Size - 1, NEW pg \in S!Page
  PROVE  /\ S!memshow(cells)[S!PhysCpos(pg)] = S!PhysicalCell(pg)
         /\ S!memshow(cells)[S!VirtCpos(pg)] = S!VirtualCell(pg)
<1>0. pg \in 0 .. VPages - 1
  BY DEF S!ConstantsOK, S!Page
<1>1. S!PhysCpos(pg) \in DOMAIN cells /\ S!VirtCpos(pg) \in DOMAIN cells
  BY <1>0, PagesPlaced, MessageRows
<1>2. (CHOOSE qg \in S!Page : S!PhysCpos(qg) = S!PhysCpos(pg)) = pg
  BY PagesPlaced, Zenon
<1>3. (CHOOSE va \in 0 .. VPages - 1 : S!VirtCpos(va) = S!VirtCpos(pg)) = pg
  BY <1>0, PagesPlaced, Zenon
<1>4. ~\E qg \in S!Page : S!PhysCpos(qg) = S!VirtCpos(pg)
  BY <1>0, PagesPlaced, Zenon
<1>5. S!memshow(cells)[S!PhysCpos(pg)] = S!PhysicalCell(pg)
  BY <1>1, <1>2, Zenon DEF S!memshow
<1>6. S!memshow(cells)[S!VirtCpos(pg)] = S!VirtualCell(pg)
  BY <1>0, <1>1, <1>3, <1>4, Zenon DEF S!memshow
<1>7. QED
  BY <1>5, <1>6, Zenon

(* The kernel's messages stay in their rows.                                 *)
LEMMA MessagesBelow ==
  ASSUME S!ConstantsOK, NEW screen, DOMAIN screen = 0 .. S!Size - 1, NEW c \in 0 .. Start - 1
  PROVE  /\ \A by : S!PutCells(screen, S!CPOS(S!FaultRow, 0), "nl", by)[c] = screen[c]
         /\ \A by : S!PutCells(screen, S!CPOS(S!PanicRow, 0), "nl", by)[c] = screen[c]
         /\ \A n : S!error_printf(screen, n)[c] = screen[c]
<1>1. S!Size \in Nat /\ Start \in Nat /\ Columns \in Nat \ {0} /\ S!Size = Start + Columns + Columns
  BY MessageRows, Zenon
<1>2. c \in DOMAIN screen /\ c < Start
  BY <1>1
<1>3. S!PutFrom(Start) = Start /\ S!PutFrom(Start + Columns) = Start + Columns
  BY <1>1 DEF S!PutFrom
<1>4. \A b : c \notin Start .. b /\ c \notin Start + Columns .. b
  BY <1>1, <1>2
<1>5. S!CPOS(S!FaultRow, 0) = Start + Columns /\ S!CPOS(S!PanicRow, 0) = Start
  BY MessageRows, Zenon DEF Start
<1>6. QED
  BY <1>2, <1>3, <1>4, <1>5, Zenon DEF S!PutCells, S!error_printf

PictureInv == DOMAIN cells = 0 .. S!Size - 1 /\ PageInv /\ S!PicturesTrue

(* A step that leaves the pictures, or that has drawn them.                  *)
LEMMA PictureStep == ASSUME S!ConstantsOK, PictureInv, [S!Next]_S!vars PROVE PictureInv'
<1>1. ASSUME UNCHANGED <<owner, refcount, user>>, DOMAIN cells' = DOMAIN cells, fresh' = FALSE
      PROVE  PictureInv'
  BY <1>1, Zenon DEF PictureInv, PageInv, S!PicturesTrue
<1>2. ASSUME UNCHANGED <<owner, refcount, user>>, DOMAIN cells' = DOMAIN cells,
             \A c \in 0 .. Start - 1 : cells'[c] = S!memshow(cells)[c]
      PROVE  PictureInv'
  <2>1. DOMAIN cells' = 0 .. S!Size - 1 /\ PageInv'
    BY <1>2, Zenon DEF PictureInv, PageInv
  <2>2. ASSUME NEW pg \in S!Page PROVE Tells(pg, cells'[S!PhysCpos(pg)], cells'[S!VirtCpos(pg)])
    <3>1. S!PhysCpos(pg) \in 0 .. Start - 1 /\ S!VirtCpos(pg) \in 0 .. Start - 1
      <4>1. pg \in 0 .. VPages - 1
        BY DEF S!ConstantsOK, S!Page
      <4>2. QED
        BY <4>1, PagesPlaced, Zenon
    <3>2. cells'[S!PhysCpos(pg)] = S!PhysicalCell(pg) /\ cells'[S!VirtCpos(pg)] = S!VirtualCell(pg)
      BY <1>2, <3>1, PagesShown, Zenon DEF PictureInv
    <3>3. QED
      BY <3>2, CellsTell, Zenon DEF PictureInv
  <2>3. S!PicturesTrue'
    BY <1>2, <2>2, Zenon DEF S!PicturesTrue, Tells
  <2>4. QED
    BY <2>1, <2>3, Zenon DEF PictureInv
<1>3. CASE UNCHANGED S!vars
  BY <1>3, Zenon DEF S!vars, PictureInv, PageInv, S!PicturesTrue
<1>4. DOMAIN S!memshow(cells) = 0 .. S!Size - 1
  BY SameCells, Zenon DEF PictureInv
<1>5. ASSUME NEW p \in S!Proc,
             \/ S!app_printf(p) \/ S!console_putc(p) \/ S!Store(p) \/ S!Test(p)
             \/ S!Wrap(p) \/ S!panic(p)
      PROVE  PictureInv'
  <2>1. UNCHANGED <<owner, refcount, user>> /\ fresh' = FALSE
    BY <1>5, Zenon DEF S!app_printf, S!console_putc, S!Store, S!Test, S!Wrap, S!panic, S!Process, S!memory
  <2>2. DOMAIN cells' = DOMAIN cells
    BY <1>5, SameCells DEF S!app_printf, S!console_putc, S!Store, S!Test, S!Wrap, S!panic
  <2>3. QED
    BY <1>1, <2>1, <2>2, Zenon
<1>6. ASSUME NEW p \in S!Proc, S!PageAlloc(p) PROVE PictureInv'
  <2>1. PICK pg \in S!Page :
          owner' = [owner EXCEPT ![pg] = p] /\ refcount' = [refcount EXCEPT ![pg] = 1]
    BY <1>6, Zenon DEF S!PageAlloc
  <2>2. fresh' = FALSE /\ DOMAIN cells' = DOMAIN cells
    BY <1>6, SameCells, Zenon DEF S!PageAlloc
  <2>3. PageInv'
    BY <2>1 DEF PictureInv, PageInv
  <2>4. QED
    BY <2>2, <2>3, Zenon DEF PictureInv, S!PicturesTrue
<1>7. CASE S!Timer
  BY <1>2, <1>7, SameCells, Zenon DEF S!Timer, S!memory
<1>8. ASSUME NEW p \in S!Proc, S!PageFault(p) PROVE PictureInv'
  <2>1. /\ cells' = S!PutCells(S!memshow(cells), S!CPOS(S!FaultRow, 0), "nl", "fault")
        /\ UNCHANGED <<owner, refcount, user>>
    BY <1>8, Zenon DEF S!PageFault, S!memory
  <2>2. DOMAIN cells' = DOMAIN cells
    BY <2>1, SameCells
  <2>3. ASSUME NEW c \in 0 .. Start - 1 PROVE cells'[c] = S!memshow(cells)[c]
    BY <1>4, <2>1, MessagesBelow, Zenon
  <2>4. QED
    BY <1>2, <2>1, <2>2, <2>3, Zenon
<1>9. ASSUME NEW p \in S!Proc, S!sys_panic(p) PROVE PictureInv'
  BY <1>2, <1>4, <1>9, SameCells, MessagesBelow, Zenon DEF S!sys_panic, S!memory
<1>10. CASE S!kernel_panic
  <2>1. PICK n \in 1 .. Columns :
          cells' = S!error_printf(S!PutCells(S!memshow(cells), S!CPOS(S!PanicRow, 0), "nl", "text"),
                                  n)
    BY <1>10, Zenon DEF S!kernel_panic
  <2>2. DOMAIN S!PutCells(S!memshow(cells), S!CPOS(S!PanicRow, 0), "nl", "text") = 0 .. S!Size - 1
    BY <1>4, SameCells
  <2>3. ASSUME NEW c \in 0 .. Start - 1 PROVE cells'[c] = S!memshow(cells)[c]
    <3> DEFINE screen == S!PutCells(S!memshow(cells), S!CPOS(S!PanicRow, 0), "nl", "text")
    <3>1. screen[c] = S!memshow(cells)[c]
      BY <1>4, MessagesBelow, Zenon
    <3>2. DOMAIN screen = 0 .. S!Size - 1 /\ cells' = S!error_printf(screen, n)
      BY <2>1, <2>2, Zenon
    <3> HIDE DEF screen
    <3>3. cells'[c] = screen[c]
      BY <3>2, MessagesBelow, Zenon
    <3>4. QED
      BY <3>1, <3>3, Zenon
  <2>4. DOMAIN cells' = DOMAIN cells /\ UNCHANGED <<owner, refcount, user>>
    BY <1>10, SameCells DEF S!kernel_panic, S!memory
  <2>5. QED
    BY <1>2, <2>3, <2>4, Zenon
<1>11. QED
  BY <1>3, <1>5, <1>6, <1>7, <1>8, <1>9, <1>10, Zenon DEF S!Next

(* For any geometry in which the pictures and the messages have rows of      *)
(* their own: after every exception the pictures tell each page's owner,     *)
(* whether it is shared and whether user code may reach it, whatever         *)
(* processes and the kernel have printed.                                    *)
THEOREM PicturesStayTrue == ASSUME S!ConstantsOK PROVE S!Spec => []S!PicturesTrue
<1>1. S!Init => PictureInv
  <2> SUFFICES ASSUME S!Init PROVE PictureInv
    BY Zenon
  <2>1. DOMAIN cells = 0 .. S!Size - 1 /\ fresh = FALSE
    BY Zenon DEF S!Init, S!console_clear
  <2>2. PageInv
    BY DEF S!Init, PageInv, S!ConstantsOK, S!PO_FREE, S!PO_KERNEL
  <2>3. QED
    BY <2>1, <2>2, Zenon DEF PictureInv, S!PicturesTrue
<1>2. PictureInv => S!PicturesTrue
  BY Zenon DEF PictureInv
<1>3. QED
  BY <1>1, <1>2, PictureStep, PTL DEF S!Spec

-----------------------------------------------------------------------------
(* nparallel *)

CONSTANT Pids
VARIABLES pc, exists, visited, names, alive
N == INSTANCE Parallel

(* The worker's file is there, and it has begun to read the directory. *)
Active(p) == pc[p] \in {"scan", "kill", "sleep"}

(* The entries it was told of and that it has not found dead. *)
Seen(p) == names[p] \cup alive[p]

OverlapType ==
  /\ pc \in [Pids -> {"idle", "scan", "kill", "sleep", "killed"}]
  /\ exists \in SUBSET Pids
  /\ visited \in [Pids -> SUBSET Pids]
  /\ names \in [Pids -> SUBSET Pids]
  /\ alive \in [Pids -> SUBSET Pids]

OverlapInv ==
  /\ OverlapType
  /\ \A p \in Pids :
       /\ Active(p) => p \in exists /\ (p \in visited[p] => p \in Seen(p))
       /\ pc[p] \in {"kill", "sleep"} => visited[p] = Pids
       /\ pc[p] = "sleep" => names[p] = {}
  /\ \A p, q \in Pids :
       Active(p) /\ Active(q) /\ q \in visited[p] /\ p \in visited[q] =>
         q \in Seen(p) \/ p \in Seen(q)

(* A step of nparallel, or the end of a worker, keeps OverlapInv: whoever    *)
(* wrote the later of two files that are both there read the directory when  *)
(* the other was there already.                                              *)
LEMMA OverlapStep ==
  ASSUME OverlapInv, NEW p \in Pids,
         N!WriteFile(p) \/ N!Readdirnames(p) \/ N!Kill(p) \/ N!Remove(p) \/ N!Crash(p)
  PROVE  OverlapInv'
<1>0. OverlapType
  BY Zenon DEF OverlapInv
<1> USE <1>0 DEF OverlapInv, OverlapType, Active, Seen, N!At
<1>1. CASE N!WriteFile(p)
  BY <1>1, Zenon DEF N!WriteFile
<1>2. CASE N!Readdirnames(p)
  <2>1. CASE visited[p] = Pids /\ N!At(p, "kill") /\ UNCHANGED <<visited, names>>
    BY <1>2, <2>1 DEF N!Readdirnames
  <2>2. ASSUME NEW x \in Pids \ visited[p],
               visited' = [visited EXCEPT ![p] = @ \cup {x}],
               names' = [names EXCEPT ![p] = IF x \in exists THEN @ \cup {x} ELSE @],
               UNCHANGED pc
        PROVE  OverlapInv'
    BY <1>2, <2>2 DEF N!Readdirnames
  <2> QED
    BY <1>2, <2>1, <2>2, Zenon DEF N!Readdirnames
<1>3. CASE N!Kill(p)
  <2>1. CASE names[p] = {}
    BY <1>3, <2>1, Zenon DEF N!Kill
  <2>2. ASSUME NEW x \in names[p],
               names' = [names EXCEPT ![p] = @ \ {x}],
               alive' = [alive EXCEPT ![p] = IF N!Running(x) THEN @ \cup {x} ELSE @],
               UNCHANGED pc
        PROVE  OverlapInv'
    BY <1>3, <2>2 DEF N!Kill, N!Running
  <2> QED
    BY <1>3, <2>1, <2>2, Zenon DEF N!Kill
<1>4. CASE N!Remove(p)
  BY <1>4, Zenon DEF N!Remove
<1>5. CASE N!Crash(p)
  BY <1>5, Zenon DEF N!Crash, N!Running
<1> QED
  BY <1>1, <1>2, <1>3, <1>4, <1>5, Zenon

(* For any set of workers, and whichever of them are killed when: of two     *)
(* that sleep in nparallel at the same time one has counted the other, and   *)
(* os.Remove finds the file.                                                 *)
THEOREM OverlapIsCounted == N!Spec => []N!OverlapCounted
<1>1. N!Init => OverlapInv
  BY Zenon DEF N!Init, OverlapInv, OverlapType, Active, Seen
<1>2. OverlapInv /\ [N!Next]_N!vars => OverlapInv'
  <2> SUFFICES ASSUME OverlapInv, [N!Next]_N!vars PROVE OverlapInv'
    BY Zenon
  <2>1. CASE UNCHANGED N!vars
    BY <2>1, Zenon DEF N!vars, OverlapInv, OverlapType, Active, Seen
  <2>2. CASE N!Terminated
    BY <2>1, <2>2, Zenon DEF N!Terminated
  <2> QED
    BY <2>1, <2>2, OverlapStep, Zenon DEF N!Next
<1>3. OverlapInv => N!OverlapCounted
  BY DEF OverlapInv, OverlapType, N!OverlapCounted, Active, Seen
<1> QED
  BY <1>1, <1>2, <1>3, PTL DEF N!Spec

-----------------------------------------------------------------------------
(* The voting of lab 5 *)

CONSTANTS Words, Votes
VARIABLES main, cast, ballotBox, mutex, waitGroup, vote, old, word, maxVotes, winner, tied
V == INSTANCE Voting

Voted == {"done", "ended"}

(* The goroutines the WaitGroup waits for, and the votes that are in the box. *)
Busy == {v \in V!Voter : pc[v] \in {"lock", "read", "write", "done"}}
InBox(w) == {v \in V!Voter : vote[v] = w /\ pc[v] \in Voted}

VotingType ==
  /\ main \in {"reset", "cast", "count", "end"} /\ cast \in 0 .. Votes
  /\ ballotBox \in [V!Word -> Nat] /\ mutex \in {V!Free, V!Main} \cup V!Voter
  /\ waitGroup \in Int
  /\ vote \in [V!Voter -> {V!None} \cup V!Word]
  /\ pc \in [V!Voter -> {"none", "lock", "read", "write", "done", "ended"}]
  /\ old \in [V!Voter -> Nat]
  /\ word \in 1 .. Words + 1 /\ maxVotes \in Nat /\ winner \in {V!None} \cup V!Word
  /\ tied \in BOOLEAN

(* The goroutines of a round are the first cast ones, and they are over      *)
(* before main goes on.                                                      *)
Rounds ==
  /\ \A v \in V!Voter : (v <= cast <=> pc[v] # "none") /\ (v <= cast => vote[v] \in V!Word)
  /\ main # "cast" => \A v \in V!Voter : pc[v] \in {"none", "ended"}
  /\ main \in {"count", "end"} => cast = Votes

Exclusive ==
  /\ \A v \in V!Voter : pc[v] \in {"read", "write"} <=> mutex = v
  /\ mutex = V!Main <=> main = "count"

Tallied ==
  /\ waitGroup = Cardinality(Busy)
  /\ \A v \in V!Voter : pc[v] = "write" => old[v] = ballotBox[vote[v]]
  /\ \A w \in V!Word : ballotBox[w] = Cardinality(InBox(w))

(* What the loop of getWinner knows of the words it has passed. *)
Scanned ==
  /\ main \in {"count", "end"} =>
       /\ \A x \in V!Word : x < word => ballotBox[x] <= maxVotes
       /\ maxVotes > 0 =>
            /\ winner \in V!Word /\ winner < word /\ ballotBox[winner] = maxVotes
            /\ tied <=> \E x \in V!Word : x < word /\ x # winner /\ ballotBox[x] = maxVotes
       /\ maxVotes = 0 => (tied <=> word > 1)
  /\ main = "end" => word = Words + 1 /\ ~tied

VotingInv == VotingType /\ Rounds /\ Exclusive /\ Tallied /\ Scanned

(* The goroutines are finitely many. *)
LEMMA VoterFinite ==
  ASSUME V!ConstantsOK
  PROVE  \A T \in SUBSET V!Voter : IsFiniteSet(T) /\ Cardinality(T) \in Nat
<1>1. 1 \in Int /\ Votes \in Int
  BY DEF V!ConstantsOK
<1>2. IsFiniteSet(V!Voter)
  BY <1>1, FS_Interval, Zenon DEF V!Voter
<1> QED
  BY <1>2, FS_Subset, FS_CardinalityType, Zenon

(* Initially nobody has voted. *)
LEMMA VotingStarts == ASSUME V!ConstantsOK, V!Init PROVE VotingInv
<1> USE DEF V!Init
<1>1. Busy = {} /\ \A w \in V!Word : InBox(w) = {}
  BY Zenon DEF Busy, InBox, Voted
<1>2. Tallied
  BY <1>1, FS_EmptySet, Zenon DEF Tallied
<1>3. VotingType
  <2>1. 0 \in 0 .. Votes /\ 1 \in 1 .. Words + 1 /\ 0 \in Nat /\ 0 \in Int
    BY DEF V!ConstantsOK
  <2> QED
    BY <2>1, Zenon DEF VotingType, V!Free, V!None
<1>4. Rounds /\ Exclusive /\ Scanned
  BY DEF V!ConstantsOK, Rounds, Exclusive, Scanned, V!Free, V!Main, V!None, V!Voter
<1> QED
  BY <1>2, <1>3, <1>4, Zenon DEF VotingInv

(* The steps of main that touch no vote: Wait, Count and getWinner. *)
LEMMA CountingStep ==
  ASSUME V!ConstantsOK, VotingInv, V!Wait \/ V!Count \/ V!getWinner
  PROVE  VotingInv'
<1> USE DEF VotingInv
<1>1. UNCHANGED <<cast, ballotBox, waitGroup, vote, pc, old>>
  BY Zenon DEF V!Wait, V!Count, V!getWinner, V!voters
<1>2. Busy' = Busy /\ \A w \in V!Word : InBox(w)' = InBox(w)
  BY <1>1, Zenon DEF Busy, InBox
<1>3. Tallied'
  BY <1>1, <1>2, Zenon DEF Tallied
<1>4. VotingType'
  <2>1. tied' \in BOOLEAN
    BY Zenon DEF VotingType, V!Wait, V!Count, V!getWinner, V!counting
  <2>2. main' \in {"reset", "cast", "count", "end"}
    BY Zenon DEF V!Wait, V!Count, V!getWinner, VotingType
  <2>3. /\ mutex' \in {V!Free, V!Main} \cup V!Voter
        /\ word' \in 1 .. Words + 1 /\ maxVotes' \in Nat /\ winner' \in {V!None} \cup V!Word
    <3>1. CASE V!Wait
      BY <3>1 DEF VotingType, V!Wait, V!ConstantsOK
    <3>2. CASE V!Count
      BY <3>2 DEF VotingType, V!Count, V!ConstantsOK, V!Word
    <3>3. CASE V!getWinner
      BY <3>3, Zenon DEF VotingType, V!getWinner, V!counting
    <3> QED
      BY <3>1, <3>2, <3>3, Zenon
  <2> QED
    BY <1>1, <2>1, <2>2, <2>3, Zenon DEF VotingType
<1>5. CASE V!Wait
  <2>1. Busy = {}
    <3>1. Busy \in SUBSET V!Voter
      BY Zenon DEF Busy
    <3>2. Cardinality(Busy) = 0
      BY <1>5, Zenon DEF V!Wait, Tallied
    <3> QED
      BY <3>1, <3>2, VoterFinite, FS_EmptySet, Zenon
  <2>2. Rounds'
    BY <1>1, <1>5, <2>1, Zenon DEF V!Wait, Rounds, Busy, VotingType
  <2>3. Exclusive'
    BY <1>1, <1>5 DEF V!Wait, Exclusive, V!Main, V!Free, V!Voter
  <2>4. Scanned'
    BY <1>1, <1>5 DEF V!Wait, Scanned, V!Word
  <2> QED
    BY <1>3, <1>4, <2>2, <2>3, <2>4, Zenon
<1>6. CASE V!Count
  <2>1. Rounds' /\ Exclusive'
    BY <1>1, <1>6, Zenon DEF V!Count, Rounds, Exclusive
  <2>2. word \in V!Word /\ ballotBox[word] \in Nat
    BY <1>6 DEF V!Count, V!Word, VotingType, V!ConstantsOK
  <2>3. Scanned'
    <3>1. CASE ballotBox[word] > maxVotes
      <4>1. /\ maxVotes' = ballotBox[word] /\ winner' = word /\ ~tied' /\ word' = word + 1
            /\ main' = "count"
        BY <1>6, <3>1, Zenon DEF V!Count
      <4>2. \A x \in V!Word : x < word => ballotBox[x] <= maxVotes
        BY <1>6, Zenon DEF V!Count, Scanned
      <4>3. maxVotes \in Nat /\ \A x \in V!Word : x \in Nat /\ ballotBox[x] \in Nat
        BY DEF V!Word, VotingType
      <4>4. \A x \in V!Word : x < word + 1 => x < word \/ x = word
        BY <2>2, <4>3
      <4>5. \A x \in V!Word : x < word =>
              ballotBox[x] <= ballotBox[word] /\ ballotBox[x] # ballotBox[word]
        BY <2>2, <3>1, <4>2, <4>3
      <4>6. word < word + 1 /\ ballotBox[word] # 0 /\ ballotBox[word] <= ballotBox[word]
        BY <2>2, <3>1, <4>3
      <4> QED
        BY <1>1, <2>2, <4>1, <4>4, <4>5, <4>6, Zenon DEF Scanned
    <3>2. CASE ~(ballotBox[word] > maxVotes)
      <4>1. /\ maxVotes' = maxVotes /\ winner' = winner /\ word' = word + 1 /\ main' = "count"
            /\ main = "count"
        BY <1>6, <3>2, Zenon DEF V!Count
      <4>2. tied' <=> tied \/ ballotBox[word] = maxVotes
        BY <1>6, <3>2, Zenon DEF V!Count
      <4>3. \A x \in V!Word : x < word' => ballotBox[x] <= maxVotes
        BY <2>2, <3>2, <4>1 DEF Scanned, V!Word, VotingType
      <4>4. ASSUME maxVotes > 0
            PROVE  /\ winner \in V!Word /\ winner < word' /\ ballotBox[winner] = maxVotes
                   /\ tied' <=> \E x \in V!Word :
                                 x < word' /\ x # winner /\ ballotBox[x] = maxVotes
        <5>1. /\ winner \in V!Word /\ winner < word /\ ballotBox[winner] = maxVotes
              /\ tied <=> \E x \in V!Word : x < word /\ x # winner /\ ballotBox[x] = maxVotes
          BY <4>1, <4>4, Zenon DEF Scanned
        <5>2. \A x \in V!Word : x < word' <=> x < word \/ x = word
          BY <2>2, <4>1 DEF V!Word, VotingType
        <5>3. winner # word /\ winner < word'
          <6>1. ~(word < word)
            BY <2>2 DEF V!Word
          <6> QED
            BY <5>1, <5>2, <6>1, Zenon
        <5> QED
          BY <2>2, <4>2, <5>1, <5>2, <5>3, Zenon
      <4>5. ASSUME maxVotes = 0 PROVE tied' <=> word' > 1
        <5>1. ballotBox[word] = maxVotes
          BY <2>2, <3>2, <4>5 DEF VotingType
        <5>2. word' > 1
          BY <2>2, <4>1 DEF VotingType, V!Word
        <5> QED
          BY <4>2, <5>1, <5>2, Zenon
      <4> QED
        BY <1>1, <4>1, <4>3, <4>4, <4>5, Zenon DEF Scanned
    <3> QED
      BY <3>1, <3>2, Zenon
  <2> QED
    BY <1>3, <1>4, <2>1, <2>3, Zenon
<1>7. CASE V!getWinner
  <2>1. Rounds' /\ Exclusive'
    BY <1>1, <1>7 DEF V!getWinner, Rounds, Exclusive, V!Main, V!Free, V!Voter
  <2>2. Scanned'
    <3>1. CASE tied
      BY <1>7, <3>1, Zenon DEF V!getWinner, Scanned
    <3>2. CASE ~tied
      <4>1. main' = "end" /\ main = "count" /\ word = Words + 1
        BY <1>7, <3>2 DEF V!getWinner, VotingType, V!ConstantsOK
      <4>2. UNCHANGED <<word, maxVotes, winner, tied>>
        BY <1>7, Zenon DEF V!getWinner, V!counting
      <4> QED
        BY <1>1, <3>2, <4>1, <4>2, Zenon DEF Scanned
    <3> QED
      BY <3>1, <3>2, Zenon
  <2> QED
    BY <1>3, <1>4, <2>1, <2>2, Zenon
<1> QED
  BY <1>5, <1>6, <1>7, Zenon

(* The box is emptied when nobody votes. *)
LEMMA ResetStep ==
  ASSUME V!ConstantsOK, VotingInv, V!resetBallotBox
  PROVE  VotingInv'
<1> USE DEF VotingInv, V!resetBallotBox
<1>1. Busy = {} /\ Busy' = {} /\ \A w \in V!Word : InBox(w)' = {}
  BY Zenon DEF Busy, InBox, Voted, Rounds
<1>2. Tallied'
  BY <1>1, FS_EmptySet, Zenon DEF Tallied
<1>3. VotingType'
  <2>1. UNCHANGED <<mutex, waitGroup, vote, old, word, maxVotes, winner, tied>>
    BY Zenon DEF V!counting
  <2>2. 0 \in 0 .. Votes /\ 0 \in Nat
    BY DEF V!ConstantsOK
  <2> QED
    BY <2>1, <2>2, Zenon DEF VotingType
<1>4. Rounds' /\ Exclusive' /\ Scanned'
  BY DEF Rounds, Exclusive, Scanned, V!counting, V!Free, V!Main, V!Voter, VotingType
<1> QED
  BY <1>2, <1>3, <1>4, Zenon

(* Another goroutine is started. *)
LEMMA StartStep ==
  ASSUME V!ConstantsOK, VotingInv, NEW w \in V!Word, V!StartVote(w)
  PROVE  VotingInv'
<1> USE DEF VotingInv, V!StartVote
<1> DEFINE u == cast + 1
<1>1. u \in V!Voter /\ u \in 0 .. Votes /\ cast \in Nat /\ pc[u] = "none"
  BY DEF V!Voter, VotingType, V!ConstantsOK, Rounds
<1>2. /\ UNCHANGED <<main, ballotBox, mutex, old, word, maxVotes, winner, tied>>
      /\ vote' = [vote EXCEPT ![u] = w] /\ pc' = [pc EXCEPT ![u] = "lock"] /\ cast' = u
      /\ waitGroup' = waitGroup + 1 /\ main = "cast"
  BY Zenon DEF V!counting
<1> HIDE DEF u, V!StartVote
<1>3. Busy' = Busy \cup {u} /\ u \notin Busy /\ Busy \in SUBSET V!Voter
  BY <1>1, <1>2, Zenon DEF Busy, VotingType
<1>4. \A x \in V!Word : InBox(x)' = InBox(x)
  BY <1>1, <1>2, Zenon DEF InBox, Voted, VotingType
<1>5. Tallied'
  <2>1. waitGroup' = Cardinality(Busy')
    BY <1>2, <1>3, VoterFinite, FS_AddElement, Zenon DEF Tallied
  <2>2. \A v \in V!Voter : pc'[v] = "write" => old'[v] = ballotBox'[vote'[v]]
    BY <1>1, <1>2, Zenon DEF Tallied, VotingType
  <2> QED
    BY <1>2, <1>4, <2>1, <2>2, Zenon DEF Tallied
<1>6. VotingType'
  <2>1. /\ vote' \in [V!Voter -> {V!None} \cup V!Word] /\ waitGroup' \in Int
        /\ pc' \in [V!Voter -> {"none", "lock", "read", "write", "done", "ended"}]
    BY <1>1, <1>2 DEF VotingType
  <2> QED
    BY <1>1, <1>2, <2>1, Zenon DEF VotingType
<1>7. Rounds'
  <2>1. \A v \in V!Voter : v <= u <=> v <= cast \/ v = u
    BY <1>1 DEF u, V!Voter
  <2> QED
    BY <1>1, <1>2, <2>1, Zenon DEF Rounds, VotingType
<1>8. Exclusive'
  BY <1>1, <1>2, Zenon DEF Exclusive, VotingType
<1>9. Scanned'
  BY <1>2, Zenon DEF Scanned
<1> QED
  BY <1>5, <1>6, <1>7, <1>8, <1>9, Zenon

(* A step of a goroutine: the mutex makes ballotBox[word]++ one step. *)
LEMMA VoteStep ==
  ASSUME V!ConstantsOK, VotingInv, NEW u \in V!Voter, V!castVote(u)
  PROVE  VotingInv'
<1> USE DEF VotingInv
<1>1. /\ UNCHANGED <<main, cast, vote, word, maxVotes, winner, tied>>
      /\ pc[u] \in {"lock", "read", "write", "done"}
  BY Zenon DEF V!castVote, V!Lock, V!Read, V!Write, V!Done, V!counting
<1>2. main = "cast" /\ u <= cast /\ vote[u] \in V!Word
  BY <1>1, Zenon DEF Rounds, VotingType
<1>3. Scanned'
  BY <1>1, <1>2, Zenon DEF Scanned
<1>4. PICK next \in {"read", "write", "done", "ended"} : pc' = [pc EXCEPT ![u] = next]
  BY Zenon DEF V!castVote, V!Lock, V!Read, V!Write, V!Done
<1>5. Rounds'
  BY <1>1, <1>2, <1>4, Zenon DEF Rounds, VotingType
<1>6. u # V!Free /\ u # V!Main /\ u \in Int
  BY DEF V!Voter, V!Free, V!Main
<1>7. ASSUME ballotBox' \in [V!Word -> Nat], mutex' \in {V!Free, V!Main} \cup V!Voter,
             waitGroup' \in Int, old' \in [V!Voter -> Nat]
      PROVE  VotingType'
  <2>1. pc' \in [V!Voter -> {"none", "lock", "read", "write", "done", "ended"}]
    BY <1>4, Zenon DEF VotingType
  <2> QED
    BY <1>1, <1>7, <2>1, Zenon DEF VotingType
<1>8. Busy \in SUBSET V!Voter /\ \A w \in V!Word : InBox(w) \in SUBSET V!Voter
  BY Zenon DEF Busy, InBox
<1>9. CASE V!Lock(u)
  <2>1. /\ UNCHANGED <<ballotBox, waitGroup, old>> /\ mutex = V!Free /\ mutex' = u
        /\ pc[u] = "lock" /\ pc' = [pc EXCEPT ![u] = "read"]
    BY <1>9, Zenon DEF V!Lock
  <2>2. VotingType'
    BY <1>7, <2>1, Zenon DEF VotingType
  <2>3. Exclusive'
    BY <1>1, <1>2, <1>6, <2>1 DEF Exclusive, VotingType, V!Free, V!Main, V!Voter
  <2>4. Busy' = Busy /\ \A w \in V!Word : InBox(w)' = InBox(w)
    BY <1>1, <2>1, Zenon DEF Busy, InBox, Voted, VotingType
  <2>5. Tallied'
    BY <1>1, <2>1, <2>4, Zenon DEF Tallied, VotingType
  <2> QED
    BY <1>3, <1>5, <2>2, <2>3, <2>5, Zenon
<1>10. CASE V!Read(u)
  <2>1. /\ UNCHANGED <<ballotBox, waitGroup, mutex>> /\ pc[u] = "read"
        /\ old' = [old EXCEPT ![u] = ballotBox[vote[u]]]
        /\ pc' = [pc EXCEPT ![u] = "write"]
    BY <1>10, Zenon DEF V!Read
  <2>2. VotingType'
    BY <1>2, <1>7, <2>1, Zenon DEF VotingType
  <2>3. Exclusive'
    BY <1>1, <2>1, Zenon DEF Exclusive, VotingType
  <2>4. Busy' = Busy /\ \A w \in V!Word : InBox(w)' = InBox(w)
    BY <1>1, <2>1, Zenon DEF Busy, InBox, Voted, VotingType
  <2>5. Tallied'
    BY <1>1, <2>1, <2>4, Zenon DEF Tallied, VotingType
  <2> QED
    BY <1>3, <1>5, <2>2, <2>3, <2>5, Zenon
<1>11. CASE V!Write(u)
  <2>1. /\ UNCHANGED <<waitGroup, old>> /\ pc[u] = "write" /\ mutex' = V!Free
        /\ ballotBox' = [ballotBox EXCEPT ![vote[u]] = old[u] + 1]
        /\ pc' = [pc EXCEPT ![u] = "done"]
    BY <1>11, Zenon DEF V!Write
  <2>2. VotingType'
    BY <1>2, <1>7, <2>1 DEF VotingType
  <2>3. Exclusive'
    BY <1>1, <1>2, <1>6, <2>1 DEF Exclusive, VotingType, V!Free, V!Main, V!Voter
  <2>4. Busy' = Busy
    BY <1>1, <2>1, Zenon DEF Busy, VotingType
  <2>5. /\ \A w \in V!Word : w = vote[u] =>
             InBox(w)' = InBox(w) \cup {u} /\ u \notin InBox(w)
        /\ \A w \in V!Word : w # vote[u] => InBox(w)' = InBox(w)
    BY <1>1, <2>1, Zenon DEF InBox, Voted, VotingType
  <2>6. \A v \in V!Voter : pc'[v] # "write"
    BY <2>1, Zenon DEF Exclusive, VotingType
  <2>7. \A w \in V!Word : ballotBox'[w] = Cardinality(InBox(w)')
    <3> SUFFICES ASSUME NEW w \in V!Word PROVE ballotBox'[w] = Cardinality(InBox(w)')
      BY Zenon
    <3>1. CASE w = vote[u]
      <4>1. ballotBox'[w] = ballotBox[w] + 1
        BY <1>2, <2>1, <3>1, Zenon DEF Tallied, VotingType
      <4>2. Cardinality(InBox(w)') = Cardinality(InBox(w)) + 1
        <5>1. InBox(w)' = InBox(w) \cup {u} /\ u \notin InBox(w)
          BY <2>5, <3>1, Zenon
        <5>2. IsFiniteSet(InBox(w))
          BY <1>8, VoterFinite, Zenon
        <5> QED
          BY <5>1, <5>2, FS_AddElement, Zenon
      <4> QED
        BY <4>1, <4>2, Zenon DEF Tallied
    <3>2. CASE w # vote[u]
      BY <1>2, <2>1, <2>5, <3>2, Zenon DEF Tallied, VotingType
    <3> QED
      BY <3>1, <3>2, Zenon
  <2>8. Tallied'
    BY <2>1, <2>4, <2>6, <2>7, Zenon DEF Tallied
  <2> QED
    BY <1>3, <1>5, <2>2, <2>3, <2>8, Zenon
<1>12. CASE V!Done(u)
  <2>1. /\ UNCHANGED <<ballotBox, old, mutex>> /\ pc[u] = "done"
        /\ waitGroup' = waitGroup - 1 /\ pc' = [pc EXCEPT ![u] = "ended"]
    BY <1>12, Zenon DEF V!Done
  <2>2. VotingType'
    BY <1>7, <2>1 DEF VotingType
  <2>3. Exclusive'
    BY <1>1, <2>1, Zenon DEF Exclusive, VotingType
  <2>4. /\ Busy' = Busy \ {u} /\ u \in Busy
        /\ \A w \in V!Word : InBox(w)' = InBox(w)
    BY <1>1, <2>1, Zenon DEF Busy, InBox, Voted, VotingType
  <2>5. waitGroup' = Cardinality(Busy')
    BY <1>8, <2>1, <2>4, VoterFinite, FS_RemoveElement, Zenon DEF Tallied
  <2>6. Tallied'
    BY <1>1, <2>1, <2>4, <2>5, Zenon DEF Tallied, VotingType
  <2> QED
    BY <1>3, <1>5, <2>2, <2>3, <2>6, Zenon
<1> QED
  BY <1>9, <1>10, <1>11, <1>12, Zenon DEF V!castVote

(* When main announces a winner, or a tie, every vote is in the box. *)
LEMMA WinnerFollows == ASSUME V!ConstantsOK, VotingInv PROVE V!WinnerTrue
<1> USE DEF VotingInv
<1>1. ASSUME main \in {"count", "end"}, NEW w \in V!Word
      PROVE  ballotBox[w] = Cardinality(V!For(w)) /\ ballotBox[w] \in Nat
  <2>1. \A v \in V!Voter : pc[v] = "ended"
    BY <1>1 DEF Rounds, VotingType, V!Voter
  <2>2. InBox(w) = V!For(w)
    BY <2>1, Zenon DEF InBox, V!For, Voted
  <2> QED
    BY <2>2, Zenon DEF Tallied, VotingType
<1>2. ASSUME main \in {"count", "end"}, word > Words PROVE maxVotes > 0
  <2>1. 1 \in V!Voter /\ 1 <= cast
    BY <1>2 DEF V!Voter, V!ConstantsOK, Rounds
  <2> DEFINE w == vote[1]
  <2>2. w \in V!Word /\ pc[1] = "ended"
    BY <1>2, <2>1, Zenon DEF Rounds, VotingType
  <2>3. 1 \in InBox(w) /\ InBox(w) \in SUBSET V!Voter
    BY <2>1, <2>2, Zenon DEF InBox, Voted
  <2> HIDE DEF w
  <2>4. Cardinality(InBox(w)) # 0 /\ Cardinality(InBox(w)) \in Nat
    BY <2>3, VoterFinite, FS_EmptySet, Zenon
  <2>5. ballotBox[w] > 0 /\ w < word
    BY <1>2, <2>2, <2>4 DEF Tallied, V!Word, VotingType, V!ConstantsOK
  <2> QED
    BY <1>2, <2>2, <2>5 DEF Scanned, VotingType
<1>3. ASSUME main = "end"
      PROVE  /\ winner \in V!Word /\ maxVotes = Cardinality(V!For(winner))
             /\ \A w \in V!Word \ {winner} : Cardinality(V!For(w)) < maxVotes
  <2>1. word = Words + 1 /\ ~tied /\ word > Words
    BY <1>3 DEF Scanned, V!ConstantsOK
  <2>2. /\ winner \in V!Word /\ ballotBox[winner] = maxVotes
        /\ \A x \in V!Word : x < word => ballotBox[x] <= maxVotes
        /\ \A x \in V!Word : x < word /\ x # winner => ballotBox[x] # maxVotes
    BY <1>2, <1>3, <2>1, Zenon DEF Scanned
  <2>3. \A x \in V!Word : x < word /\ ballotBox[x] = Cardinality(V!For(x)) /\ ballotBox[x] \in Nat
    BY <1>1, <1>3, <2>1 DEF V!Word, V!ConstantsOK
  <2>4. \A x \in V!Word \ {winner} : ballotBox[x] < maxVotes
    BY <2>2, <2>3 DEF VotingType
  <2> QED
    BY <2>2, <2>3, <2>4, Zenon
<1>4. ASSUME main = "count", word > Words, tied, NEW x \in V!Word
      PROVE  \E w \in V!Word \ {x} : Cardinality(V!For(w)) >= Cardinality(V!For(x))
  <2>1. maxVotes > 0
    BY <1>2, <1>4, Zenon
  <2>2. PICK y \in V!Word : y # winner /\ ballotBox[y] = maxVotes
    BY <1>4, <2>1, Zenon DEF Scanned
  <2>3. winner \in V!Word /\ ballotBox[winner] = maxVotes
    BY <1>4, <2>1, Zenon DEF Scanned
  <2>4. x < word
    BY <1>4 DEF V!Word, VotingType, V!ConstantsOK
  <2>5. ballotBox[x] <= maxVotes
    BY <1>4, <2>4, Zenon DEF Scanned
  <2>6. PICK w \in V!Word : w # x /\ ballotBox[w] = maxVotes
    BY <2>2, <2>3, Zenon
  <2> QED
    BY <1>1, <1>4, <2>5, <2>6, Zenon DEF VotingType
<1>5. main = "end" =>
        /\ winner \in V!Word /\ maxVotes = Cardinality(V!For(winner))
        /\ \A w \in V!Word \ {winner} : Cardinality(V!For(w)) < maxVotes
  BY <1>3, Zenon
<1>6. main = "count" /\ word > Words /\ tied =>
        \A x \in V!Word : \E w \in V!Word \ {x} : Cardinality(V!For(w)) >= Cardinality(V!For(x))
  BY <1>4, Zenon
<1> QED
  BY <1>5, <1>6, Zenon DEF V!WinnerTrue, V!Cardinality, Cardinality

(* For any number of words and votes the announced winner has the most       *)
(* votes of the last round, and a round is repeated only if it has no        *)
(* winner.                                                                   *)
THEOREM WinnerIsTrue == ASSUME V!ConstantsOK PROVE V!Spec => []V!WinnerTrue
<1>1. V!Init => VotingInv
  BY VotingStarts, Zenon
<1>2. VotingInv /\ [V!Next]_V!vars => VotingInv'
  <2> SUFFICES ASSUME VotingInv, [V!Next]_V!vars PROVE VotingInv'
    BY Zenon
  <2>1. CASE UNCHANGED V!vars
    <3>1. UNCHANGED <<main, cast, ballotBox, mutex, waitGroup, vote, pc, old, word, maxVotes,
                      winner, tied>>
      BY <2>1, Zenon DEF V!vars, V!voters, V!counting
    <3>2. Busy' = Busy /\ \A w : InBox(w)' = InBox(w)
      BY <3>1, Zenon DEF Busy, InBox
    <3> QED
      BY <3>1, <3>2, Zenon DEF VotingInv, VotingType, Rounds, Exclusive, Tallied, Scanned
  <2>2. CASE V!Terminated
    BY <2>1, <2>2, Zenon DEF V!Terminated
  <2> QED
    BY <2>1, <2>2, ResetStep, StartStep, CountingStep, VoteStep, Zenon DEF V!Next
<1>3. VotingInv => V!WinnerTrue
  BY WinnerFollows, Zenon
<1> QED
  BY <1>1, <1>2, <1>3, PTL DEF V!Spec

=============================================================================
