------------------------------- MODULE Printer -------------------------------
(***************************************************************************)
(* modules/m3/lib.c: printer_vprintf reads a format one character at a     *)
(* time and hands each output character to the putc of its printer: a      *)
(* string buffer (vsnprintf), the console (console_vprintf) or the         *)
(* parallel port (log_vprintf in k-hardware.c).  The environment supplies  *)
(* the format and the arguments.  Widths of int and long are parameters.   *)
(***************************************************************************)
EXTENDS Integers, Sequences, SequencesExt

CONSTANTS
    Alphabet,   \* characters of formats
    MaxFormat,  \* length of formats
    MaxField,   \* widths and precisions
    IntBits, LongBits,
    Strings,    \* arguments of %s
    Sizes,      \* buffer sizes given to vsnprintf
    Cursors,    \* cursor positions given to console_vprintf
    Rows, Columns   \* CONSOLE_ROWS, CONSOLE_COLUMNS

VARIABLES
    phase,      \* what printer_vprintf does with the next character
    read,       \* characters of the format read so far
    flags, width, precision, length, color,
    field,      \* what the last conversion put out
    asked,      \* the conversion and its argument
    sink,       \* the printer: its kind, position and limit
    cells       \* the buffer or the console

vars == <<phase, read, flags, width, precision, length, color, field, asked, sink, cells>>

ints == -(2^(IntBits - 1)) .. 2^(IntBits - 1) - 1
longs == -(2^(LongBits - 1)) .. 2^(LongBits - 1) - 1
unsigneds == 0 .. 2^IntBits - 1
ulongs == 0 .. 2^LongBits - 1

flag_chars == {"#", "0", "-", " ", "+"}
Digit == [c \in {"0", "1", "2", "3"} |->
            CASE c = "0" -> 0 [] c = "1" -> 1 [] c = "2" -> 2 [] c = "3" -> 3]
lower_digits == <<"0", "1", "2", "3", "4", "5", "6", "7", "8", "9", "a", "b", "c", "d", "e", "f">>
upper_digits == <<"0", "1", "2", "3", "4", "5", "6", "7", "8", "9", "A", "B", "C", "D", "E", "F">>

Max0(n) == IF n > 0 THEN n ELSE 0
Copies(c, n) == [i \in 1 .. Max0(n) |-> c]

(* The digits of val; a negative base means lower case. *)
fill_numbuf_dropped(val, base) ==
    LET b == IF base < 0 THEN -base ELSE base
        digits == IF base < 0 THEN lower_digits ELSE upper_digits
        Fill[v \in ulongs] == IF v = 0 THEN <<>> ELSE Append(Fill[v \div b], digits[(v % b) + 1])
    IN Fill[val]

fill_numbuf(val, base) ==
    LET b == IF base < 0 THEN -base ELSE base
        digits == IF base < 0 THEN lower_digits ELSE upper_digits
        Fill[v \in ulongs] ==
          IF v < b THEN <<digits[v + 1]>> ELSE Append(Fill[v \div b], digits[(v % b) + 1])
    IN Fill[val]

-----------------------------------------------------------------------------
(* putc of the three printers: new position and cells after one character. *)
console_putc(s, c) ==
    LET at == IF s.pos >= Rows * Columns THEN 0 ELSE s.pos
        to == IF c = "\n" THEN at + Columns - (at % Columns) ELSE at + 1
    IN [pos |-> to,
        cells |-> [i \in DOMAIN s.cells |->
                     IF i \in at + 1 .. to THEN <<IF c = "\n" THEN " " ELSE c, color>> ELSE s.cells[i]]]

string_putc(s, c) ==
    IF s.pos < sink.end
    THEN [pos |-> s.pos + 1, cells |-> Append(SubSeq(s.cells, 1, s.pos), c)] ELSE s

parallel_port_putc(s, c) == s

putc(s, c) ==
    CASE sink.kind = "console" -> console_putc(s, c)
      [] sink.kind = "string" -> string_putc(s, c)
      [] sink.kind = "log" -> parallel_port_putc(s, c)

Put(out) ==
    LET r == FoldLeft(putc, [pos |-> sink.pos, cells |-> cells], out)
    IN sink' = [sink EXCEPT !.pos = r.pos] /\ cells' = r.cells

-----------------------------------------------------------------------------
(* The characters of one conversion: padding, prefix, zeros, data. *)
Signed(c) == c \in {"d", "i"}
Numeric(c) == Signed(c) \/ c \in {"u", "x", "X", "p"}
Base(c) == CASE c = "x" \/ c = "p" -> -16 [] c = "X" -> 16 [] OTHER -> 10

(* num: -x of the smallest long is taken modulo the width of unsigned long. *)
Num(c, x) == IF Signed(c) /\ x < 0 THEN (-x) % 2^LongBits ELSE x

PrefixOf(c, x) ==
    CASE Signed(c) -> IF x < 0 THEN <<"-">>
                    ELSE IF "+" \in flags THEN <<"+">>
                    ELSE IF " " \in flags THEN <<" ">> ELSE <<>>
      [] c \in {"x", "X"} -> IF "#" \in flags /\ x # 0 THEN <<"0", c>> ELSE <<>>
      [] c = "p" -> <<"0", "x">>
      [] OTHER -> <<>>

Zeros(c, len, plen) ==
    IF Numeric(c) /\ precision >= 0 THEN Max0(precision - len)
    ELSE IF Numeric(c) /\ "0" \in flags /\ "-" \notin flags
         THEN Max0(width - len - plen) ELSE 0

Field(c, data, prefix) ==
    LET shown == IF ~Numeric(c) /\ precision >= 0 /\ precision < Len(data)
                 THEN SubSeq(data, 1, precision) ELSE data
        zeros == Zeros(c, Len(shown), Len(prefix))
        pad == Copies(" ", width - Len(shown) - zeros - Len(prefix))
        body == prefix \o Copies("0", zeros) \o shown
    IN IF "-" \in flags THEN body \o pad ELSE pad \o body

Arguments(c) ==
    CASE Signed(c) -> IF length = 1 THEN longs ELSE ints
      [] c \in {"u", "x", "X"} -> IF length = 1 THEN ulongs ELSE unsigneds
      [] c = "p" -> ulongs
      [] c = "s" -> Strings
      [] OTHER -> {c}

Data(c, x) ==
    IF Numeric(c) THEN fill_numbuf(Num(c, x), Base(c))
    ELSE IF c = "s" THEN x ELSE <<x>>

-----------------------------------------------------------------------------
NothingAsked == [conv |-> "none", arg |-> 0]
Reset == flags' = {} /\ width' = -1 /\ precision' = -1 /\ length' = 0
Quiet == color' = color /\ field' = <<>> /\ asked' = NothingAsked /\ UNCHANGED <<sink, cells>>

Init ==
    /\ phase = "idle" /\ read = 0
    /\ flags = {} /\ width = -1 /\ precision = -1 /\ length = 0 /\ color = 0
    /\ field = <<>> /\ asked = NothingAsked
    /\ sink = [kind |-> "log", pos |-> 0, end |-> 0]
    /\ cells = <<>>

(* console_vprintf, vsnprintf and log_vprintf before printer_vprintf. *)
console_vprintf ==
    \E cpos \in Cursors :
        /\ sink' = [kind |-> "console", end |-> 0,
                    pos |-> IF cpos < 0 \/ cpos >= Rows * Columns THEN 0 ELSE cpos]
        /\ cells' = [i \in 1 .. Rows * Columns |-> <<" ", 0>>]
        /\ phase' = "text"

vsnprintf ==
    \E size \in Sizes :
        /\ sink' = [kind |-> "string", pos |-> 0, end |-> size - 1]
        /\ cells' = <<>>
        /\ phase' = IF size = 0 THEN "done" ELSE "text"

log_vprintf ==
    /\ sink' = [kind |-> "log", pos |-> 0, end |-> 0]
    /\ cells' = <<>> /\ phase' = "text"

Begin ==
    /\ phase = "idle"
    /\ console_vprintf \/ vsnprintf \/ log_vprintf
    /\ UNCHANGED <<read, flags, width, precision, length, color, field, asked>>

Next1(c) == read < MaxFormat /\ c \in Alphabet /\ read' = read + 1

Text ==
    /\ phase = "text"
    /\ \E c \in Alphabet :
         /\ Next1(c)
         /\ IF c = "%" THEN Quiet /\ phase' = "flags"
            ELSE Put(<<c>>) /\ UNCHANGED <<phase, color>> /\ field' = <<>> /\ asked' = NothingAsked
    /\ Reset

Flag ==
    /\ phase = "flags"
    /\ \E c \in flag_chars : Next1(c) /\ flags' = flags \union {c}
    /\ Quiet /\ UNCHANGED <<phase, width, precision, length>>

Width ==
    /\ phase \in {"flags", "width"}
    /\ \E c \in DOMAIN Digit :
         /\ Next1(c) /\ (phase = "flags" => c # "0")
         /\ width' = 10 * (IF phase = "flags" THEN 0 ELSE width) + Digit[c]
         /\ width' <= MaxField
    /\ phase' = "width"
    /\ Quiet /\ UNCHANGED <<flags, precision, length>>

WidthStar ==
    /\ phase = "flags" /\ Next1("*")
    /\ width' \in {-1, 2} /\ phase' = "starred"
    /\ Quiet /\ UNCHANGED <<flags, precision, length>>

Dot ==
    /\ phase \in {"flags", "width", "starred"} /\ Next1(".")
    /\ precision' = 0 /\ phase' = "dot"
    /\ Quiet /\ UNCHANGED <<flags, width, length>>

Precision ==
    /\ phase \in {"dot", "precision"}
    /\ \E c \in DOMAIN Digit : Next1(c) /\ precision' = 10 * precision + Digit[c]
    /\ precision' <= MaxField
    /\ phase' = "precision"
    /\ Quiet /\ UNCHANGED <<flags, width, length>>

PrecisionStar ==
    /\ phase = "dot" /\ Next1("*")
    /\ \E p \in {-1, 1} : precision' = Max0(p)
    /\ phase' = "again"
    /\ Quiet /\ UNCHANGED <<flags, width, length>>

InDirective == phase \notin {"idle", "text", "done"}

Length ==
    /\ InDirective /\ \E c \in {"l", "z"} : Next1(c)
    /\ length' = 1 /\ phase' = "again"
    /\ Quiet /\ UNCHANGED <<flags, width, precision>>

(* A character that continues flags, width, precision or length. *)
Continues(c) ==
    \/ phase = "flags" /\ c \in flag_chars \union {"1", "2", "3", "*", "."}
    \/ phase = "width" /\ c \in DOMAIN Digit \union {"."}
    \/ phase = "starred" /\ c = "."
    \/ phase = "dot" /\ c \in DOMAIN Digit \union {"*"}
    \/ phase = "precision" /\ c \in DOMAIN Digit
    \/ c \in {"l", "z", "C"}

Convert ==
    /\ InDirective
    /\ \E c \in Alphabet : \E x \in Arguments(c) :
         /\ Next1(c) /\ ~Continues(c)
         /\ field' = Field(c, Data(c, x), PrefixOf(c, x))
         /\ Put(field')
         /\ asked' = [conv |-> c, arg |-> x]
    /\ phase' = "text"
    /\ UNCHANGED <<flags, width, precision, length, color>>

Colour ==
    /\ InDirective /\ Next1("C")
    /\ color' \in {0, 1}
    /\ field' = <<>> /\ asked' = NothingAsked /\ phase' = "text"
    /\ UNCHANGED <<flags, width, precision, length, sink, cells>>

(* The format ends; in the middle of a directive a % is printed first. *)
Return ==
    /\ phase \notin {"idle", "done"}
    /\ IF InDirective THEN field' = Field("%", <<"%">>, <<>>) /\ Put(field')
       ELSE field' = <<>> /\ UNCHANGED <<sink, cells>>
    /\ asked' = NothingAsked /\ phase' = "done"
    /\ UNCHANGED <<read, flags, width, precision, length, color>>

Next ==
    \/ Begin \/ Text \/ Flag \/ Width \/ WidthStar \/ Dot \/ Precision
    \/ PrecisionStar \/ Length \/ Convert \/ Colour \/ Return

Spec == Init /\ [][Next]_vars

-----------------------------------------------------------------------------
(* What a reader makes of a number: blanks, sign, 0x, digits. *)
ValueOf(s) ==
    LET t == SelectSeq(s, LAMBDA c : c \notin {" ", "+", "-", "x", "X"})
        base == IF asked.conv \in {"x", "X", "p"} THEN 16 ELSE 10
        D(c) == CHOOSE d \in 0 .. 15 : c \in {lower_digits[d + 1], upper_digits[d + 1]}
        v == FoldLeft(LAMBDA n, c : base * n + D(c), 0, t)
    IN IF \E i \in DOMAIN s : s[i] = "-" THEN -v ELSE v

(* A number can be read back, whatever flags, width and precision. *)
NumbersReadBack ==
    Numeric(asked.conv) =>
        ValueOf(field) = asked.arg /\ \E i \in DOMAIN field : field[i] \in Range(lower_digits)

(* A field is at least as wide as asked and padded with blanks no further, *)
(* after the data with the flag - and before it without.                   *)
FieldsFit ==
    LET sign == IF Signed(asked.conv) /\ asked.arg >= 0 /\ " " \in flags /\ "+" \notin flags
                THEN 1 ELSE 0
        padded == Len(SelectSeq(field, LAMBDA c : c = " ")) > sign
    IN asked.conv \notin {"none", " "} =>
         /\ Len(field) >= width
         /\ padded => /\ Len(field) = width
                      /\ field[IF "-" \in flags THEN width ELSE 1] = " "

(* vsnprintf stays within its buffer and leaves room for the NUL that it  *)
(* writes at the end, and the console's cursor never leaves the console.  *)
SinksBounded ==
    /\ sink.kind = "string" =>
         Len(cells) = sink.pos /\ (phase # "idle" /\ sink.end >= 0 => sink.pos <= sink.end)
    /\ sink.kind = "console" =>
         sink.pos \in 0 .. Rows * Columns /\ Len(cells) = Rows * Columns

(* printer_vprintf prints each number so that it can be read back, up to    *)
(* and including the smallest int and long, in a field of the width asked   *)
(* for; and neither vsnprintf nor the console writes past its end.          *)
PrintfTrue == NumbersReadBack /\ FieldsFit /\ SinksBounded
=============================================================================
