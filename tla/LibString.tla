------------------------------ MODULE LibString ------------------------------
(***************************************************************************)
(* The block and string functions of modules/m3/lib.c, a byte at a time, on *)
(* every memory of Size bytes and every call whose arguments lie in it.     *)
(***************************************************************************)
EXTENDS Integers

CONSTANTS Size, Bytes   \* Bytes: some of 0 .. 255, with 0

Address == 0 .. Size - 1
NULL == -1

VARIABLES
    mem, before,    \* memory, and as it was at the call
    call, asked,    \* the arguments as the loop leaves them, and at the call
    result          \* <<>> while the function runs, then its value

vars == <<mem, before, call, asked, result>>

Calls ==
         [f : {"memcpy", "memmove"}, d : Address, s : Address, n : 0 .. Size, c : {0}]
  \union [f : {"memset"}, d : Address, s : {0}, n : 0 .. Size, c : Bytes]
  \union [f : {"strlen", "strnlen", "strchr"}, d : {0}, s : Address, n : 0 .. Size, c : Bytes]
  \union [f : {"strcpy", "strcmp"}, d : Address, s : Address, n : {0}, c : {0}]

StringAt(a) == \E b \in a .. Size - 1 : before[b] = 0
EndAt(a) == CHOOSE b \in a .. Size - 1 : before[b] = 0 /\ \A k \in a .. b - 1 : before[k] # 0
Length(a) == EndAt(a) - a

(* Calls that stay within the memory; strcpy's strings do not overlap. *)
Valid(k) ==
    /\ k.f \in {"memcpy", "memmove", "memset"} => k.d + k.n <= Size /\ k.s + k.n <= Size
    /\ k.f \in {"strlen", "strnlen", "strchr", "strcpy", "strcmp"} => StringAt(k.s)
    /\ k.f = "strcmp" => StringAt(k.d)
    /\ k.f = "strcpy" => k.d + Length(k.s) < Size /\ k.d \notin k.s .. EndAt(k.s)

Init ==
    /\ before \in [Address -> Bytes] /\ mem = before
    /\ asked \in {k \in Calls : Valid(k)} /\ call = asked
    /\ result = <<>>

Running(F) == result = <<>> /\ call.f \in F
Return(v) == result' = <<v>> /\ UNCHANGED <<mem, call>>
Continue(k) == call' = k /\ UNCHANGED <<mem, result>>
Store(a, v, k) == mem' = [mem EXCEPT ![a] = v] /\ call' = k /\ UNCHANGED result

(* memmove copies from the end if the destination starts within the source. *)
Backward_never(k) == FALSE
Backward(k) == k.f = "memmove" /\ k.s < k.d /\ k.s + k.n > k.d

memcpy ==
    /\ Running({"memcpy", "memmove"}) /\ ~Backward(asked)
    /\ IF call.n = 0 THEN Return(asked.d)
       ELSE Store(call.d, mem[call.s], [call EXCEPT !.d = @ + 1, !.s = @ + 1, !.n = @ - 1])

memmove ==
    /\ Running({"memmove"}) /\ Backward(asked)
    /\ IF call.n = 0 THEN Return(asked.d)
       ELSE Store(call.d + call.n - 1, mem[call.s + call.n - 1], [call EXCEPT !.n = @ - 1])

memset ==
    /\ Running({"memset"})
    /\ IF call.n = 0 THEN Return(asked.d)
       ELSE Store(call.d, call.c, [call EXCEPT !.d = @ + 1, !.n = @ - 1])

(* strlen and strnlen *)
strnlen ==
    /\ Running({"strlen", "strnlen"})
    /\ IF mem[call.s] = 0 \/ (call.f = "strnlen" /\ call.s - asked.s = call.n)
       THEN Return(call.s - asked.s) ELSE Continue([call EXCEPT !.s = @ + 1])

strcpy ==
    /\ Running({"strcpy"})
    /\ mem' = [mem EXCEPT ![call.d] = mem[call.s]]
    /\ call' = [call EXCEPT !.d = @ + 1, !.s = @ + 1]
    /\ result' = (IF mem[call.s] = 0 THEN <<asked.d>> ELSE <<>>)

(* The bytes are compared as unsigned char. *)
Order(a, b) == IF a > b THEN 1 ELSE IF a < b THEN -1 ELSE 0

strcmp ==
    /\ Running({"strcmp"})
    /\ IF mem[call.d] # 0 /\ mem[call.s] # 0 /\ mem[call.d] = mem[call.s]
       THEN Continue([call EXCEPT !.d = @ + 1, !.s = @ + 1])
       ELSE Return(Order(mem[call.d], mem[call.s]))

strchr ==
    /\ Running({"strchr"})
    /\ IF mem[call.s] # 0 /\ mem[call.s] # call.c THEN Continue([call EXCEPT !.s = @ + 1])
       ELSE Return(IF mem[call.s] = call.c THEN call.s ELSE NULL)

Next ==
    /\ memcpy \/ memmove \/ memset \/ strnlen \/ strcpy \/ strcmp \/ strchr
    /\ UNCHANGED <<before, asked>>

Spec == Init /\ [][Next]_vars

-----------------------------------------------------------------------------
Block(a, n) == a .. a + n - 1
Copied(n) == [a \in Address |-> IF a \in Block(asked.d, n) THEN before[asked.s + a - asked.d]
                                ELSE before[a]]

(* memmove moves the block as it was at the call, however the two overlap,  *)
(* memcpy and strcpy if they do not; none touches a byte outside.           *)
BlocksMoved ==
    result # <<>> =>
      /\ asked.f = "memmove" => mem = Copied(asked.n)
      /\ asked.f = "memcpy" /\ Block(asked.s, asked.n) \cap Block(asked.d, asked.n) = {}
           => mem = Copied(asked.n)
      /\ asked.f = "strcpy" => mem = Copied(Length(asked.s) + 1)

Less(a, b) ==
    \E k \in 0 .. Length(a) :
      /\ k <= Length(b) /\ \A j \in 0 .. k - 1 : before[a + j] = before[b + j]
      /\ before[a + k] < before[b + k]

(* Lengths, order and positions are those of the strings up to their NUL. *)
StringsTrue ==
    result # <<>> =>
      /\ asked.f = "strlen" => result = <<Length(asked.s)>>
      /\ asked.f = "strnlen" =>
           result = <<IF Length(asked.s) < asked.n THEN Length(asked.s) ELSE asked.n>>
      /\ asked.f = "strcmp" =>
           result = <<IF Less(asked.s, asked.d) THEN 1 ELSE IF Less(asked.d, asked.s) THEN -1 ELSE 0>>
      /\ asked.f = "strchr" =>
           LET found == {b \in asked.s .. EndAt(asked.s) : before[b] = asked.c}
           IN IF found = {} THEN result = <<NULL>>
              ELSE \E b \in found : result = <<b>> /\ \A a \in found : b <= a

(* The functions of lib.c do what C promises, byte by byte: a block is      *)
(* moved as it was at the call, and a string ends at its NUL.               *)
LibraryTrue == BlocksMoved /\ StringsTrue
=============================================================================
