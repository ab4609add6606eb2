----------------------------- MODULE RoundRobin -----------------------------
(***************************************************************************)
(* What the round-robin simulation of assignments/a2/scheduling_rr/main.c   *)
(* computes, with no threads, mutex or condition variables: a step runs the *)
(* next runnable process for one quantum, or lets idle time pass.           *)
(***************************************************************************)
EXTENDS Integers

CONSTANTS
  N,         \* in.threads
  Arrivals,  \* the arrival times that may be entered; main accepts any int
  Bursts,    \* the burst times that may be entered
  Quanta     \* the time quanta that may be entered

ASSUME NAssumption == N \in Nat \ {0}
ASSUME ArrivalsAssumption == Arrivals \subseteq Int
ASSUME BurstsAssumption == Bursts \subseteq Nat \ {0}
ASSUME QuantaAssumption == Quanta \subseteq Nat \ {0}

VARIABLES
  at, bt, q,   \* the input
  rem,         \* units each process still needs
  finish,      \* when each process finished, -1 before that
  now,         \* the simulated clock
  i,           \* the process the next search starts from
  skipped      \* slices given to others since a runnable process last ran

vars == <<at, bt, q, rem, finish, now, i, skipped>>

Process == 0 .. N - 1

Init ==
  /\ at \in [Process -> Arrivals]
  /\ bt \in [Process -> Bursts]
  /\ q \in Quanta
  /\ rem = bt
  /\ finish = [p \in Process |-> -1]
  /\ now = 0
  /\ i = 0
  /\ skipped = [p \in Process |-> 0]

(* Mutant: a process counts as arrived one unit too early. *)
RunnableEarly(p) == rem[p] > 0 /\ at[p] <= now + 1

Runnable(p) == rem[p] > 0 /\ at[p] <= now

(* How many steps of the cyclic search lead from j to p. *)
Distance(j, p) == IF p >= j THEN p - j ELSE p + N - j

(* Mutant: the pointer stays where it is. *)
FollowingSame(p) == p

Following(p) == IF p = N - 1 THEN 0 ELSE p + 1

(* The runnable process nearest to i runs for one quantum at most. *)
Slice(p) ==
  LET used == IF rem[p] < q THEN rem[p] ELSE q
  IN  /\ Runnable(p)
      /\ \A k \in Process : Runnable(k) => Distance(i, p) <= Distance(i, k)
      /\ rem' = [rem EXCEPT ![p] = @ - used]
      /\ now' = now + used
      /\ finish' = IF rem[p] = used THEN [finish EXCEPT ![p] = now + used]
                   ELSE finish
      /\ i' = Following(p)
      /\ skipped' = [k \in Process |-> IF k = p THEN 0
                                       ELSE IF Runnable(k) THEN skipped[k] + 1
                                       ELSE skipped[k]]
      /\ UNCHANGED <<at, bt, q>>

(* Nobody can run: the clock moves to the earliest arrival to come. *)
Idle ==
  /\ \A k \in Process : ~Runnable(k)
  /\ \E k \in Process :
       /\ rem[k] > 0
       /\ \A j \in Process : rem[j] > 0 => at[k] <= at[j]
       /\ now' = at[k]
  /\ UNCHANGED <<at, bt, q, rem, finish, i, skipped>>

Next == Idle \/ \E p \in Process : Slice(p)

Spec == Init /\ [][Next]_vars

-----------------------------------------------------------------------------
(* Every variable of the simulation keeps its type. *)
TypeOK ==
  /\ at \in [Process -> Int]
  /\ bt \in [Process -> Nat \ {0}]
  /\ q \in Nat \ {0}
  /\ rem \in [Process -> Nat]
  /\ finish \in [Process -> Nat \cup {-1}]
  /\ now \in Nat
  /\ i \in Process
  /\ skipped \in [Process -> Nat]

(* No starvation: a process that can run waits for one slice of each other *)
(* process at most, whenever it arrives and wherever the pointer stands.   *)
BoundedWaiting == \A p \in Process : skipped[p] <= N - 1

(* A process finishes no earlier than its arrival plus its burst, so the   *)
(* waiting time main reports is never negative (main.c:260-262).           *)
WaitingTimeSound ==
  \A p \in Process : finish[p] # -1 => finish[p] - at[p] - bt[p] >= 0

(* Turnaround is bounded by the other processes' quanta alone: from its    *)
(* arrival, a process takes one round of N quanta for each of its slices,  *)
(* and it never takes less than its burst.                                 *)
TurnaroundBounded ==
  \A p \in Process : finish[p] # -1 =>
    LET arrived == IF at[p] < 0 THEN 0 ELSE at[p]
        slices == (bt[p] + q - 1) \div q
    IN  finish[p] - arrived \in bt[p] .. slices * N * q
=============================================================================
