----------------------------- MODULE Sequential -----------------------------
(***************************************************************************)
(* modules/m4/mapreduce/sequential: one process that maps every input file,  *)
(* sorts the pairs by key and calls reducef once for each run of equal keys. *)
(***************************************************************************)
EXTENDS Integers, Sequences, FiniteSets

CONSTANTS
  Emitted,    \* for each input file, the pairs mapf returns for it
  MaxFiles    \* how many files may be named

Names == DOMAIN Emitted

VARIABLES
  files, readable,   \* the arguments, and the files that can be read
  stage,             \* where main stands
  k, i,              \* the file to read, the first pair not yet reduced
  intermediate,
  calls              \* the calls of reducef, each followed by a line of output

vars == <<files, readable, stage, k, i, intermediate, calls>>

Init ==
  /\ files \in UNION {[1 .. n -> Names] : n \in 1 .. MaxFiles}
  /\ readable \in SUBSET Names
  /\ stage = "map" /\ k = 1 /\ i = 1 /\ intermediate = <<>> /\ calls = <<>>

(* log.Fatalf ends the process at the first file that cannot be read. *)
MapFile ==
  /\ stage = "map" /\ k <= Len(files)
  /\ IF files[k] \in readable
     THEN /\ intermediate' = intermediate \o Emitted[files[k]]
          /\ k' = k + 1
          /\ UNCHANGED stage
     ELSE stage' = "fatal" /\ UNCHANGED <<intermediate, k>>
  /\ UNCHANGED <<files, readable, i, calls>>

Positions == DOMAIN intermediate

Orders == {f \in [Positions -> Positions] : \A x, y \in Positions : f[x] = f[y] => x = y}

(* sort.Sort by ByKey, which leaves pairs with the same key in any order;    *)
(* os.Create may fail.                                                       *)
Sort ==
  /\ stage = "map" /\ k > Len(files)
  /\ \E f \in Orders :
       /\ \A x, y \in Positions : x < y => intermediate[f[x]].key <= intermediate[f[y]].key
       /\ intermediate' = [x \in Positions |-> intermediate[f[x]]]
  /\ stage' \in {"reduce", "fatal"}
  /\ UNCHANGED <<files, readable, k, i, calls>>

(* Mutant: the run stops at the last pair but one. *)
InRun_short(j) ==
  j < Len(intermediate) /\ \A x \in i .. j : intermediate[x].key = intermediate[i].key

(* The inner loop: position j is in the run of equal keys that begins at i.  *)
InRun(j) == \A x \in i .. j : intermediate[x].key = intermediate[i].key

ReduceRun ==
  LET run == {j \in i .. Len(intermediate) : j = i \/ InRun(j)}
      j == i + Cardinality(run)
      values == [x \in 1 .. j - i |-> intermediate[i + x - 1].value]
  IN  /\ stage = "reduce" /\ i <= Len(intermediate)
      /\ calls' = Append(calls, [key |-> intermediate[i].key, values |-> values])
      /\ i' = j
      /\ UNCHANGED <<files, readable, stage, k, intermediate>>

Finish ==
  /\ stage = "reduce" /\ i > Len(intermediate)
  /\ stage' = "end"
  /\ UNCHANGED <<files, readable, k, i, intermediate, calls>>

Terminated == stage \in {"end", "fatal"} /\ UNCHANGED vars

Next == MapFile \/ Sort \/ ReduceRun \/ Finish \/ Terminated

Spec == Init /\ [][Next]_vars

-----------------------------------------------------------------------------
(* Where mapf emitted the pair of key c and value v. *)
Sources(c, v) ==
  UNION {{<<n, x>> : x \in {y \in DOMAIN Emitted[files[n]] :
                              Emitted[files[n]][y] = [key |-> c, value |-> v]}} :
         n \in DOMAIN files}

(* When main ends, reducef has been called once for each key that mapf       *)
(* emitted, in the order of the keys, and with each value as often as it was *)
(* emitted for that key by all the files together.                           *)
GroupsExact ==
  stage = "end" =>
    /\ \A a, b \in DOMAIN calls : a < b => calls[a].key < calls[b].key
    /\ \A n \in DOMAIN files : \A x \in DOMAIN Emitted[files[n]] :
         \E a \in DOMAIN calls : calls[a].key = Emitted[files[n]][x].key
    /\ \A a \in DOMAIN calls : \A x \in DOMAIN calls[a].values :
         LET v == calls[a].values[x]
         IN  Cardinality({y \in DOMAIN calls[a].values : calls[a].values[y] = v})
               = Cardinality(Sources(calls[a].key, v))
    /\ \A a \in DOMAIN calls : \A n \in DOMAIN files : \A x \in DOMAIN Emitted[files[n]] :
         Emitted[files[n]][x].key = calls[a].key =>
           \E y \in DOMAIN calls[a].values : calls[a].values[y] = Emitted[files[n]][x].value
=============================================================================
