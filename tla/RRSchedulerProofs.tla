-------------------------- MODULE RRSchedulerProofs --------------------------
(***************************************************************************)
(* Proofs about the threads of two assignments.  RRScheduler (a2), for every *)
(* number of threads and every input: one thread works at a time, and the    *)
(* threads implement RoundRobin.  EventLoop (a4), an instance of its own, for *)
(* any number of threads: one of them goes on, and sleeps keep them apart.   *)
(***************************************************************************)
EXTENDS RRScheduler, FiniteSetTheorems, TLAPS

Waiting == main \in {"await", "sleep", "wake"}

(* The mutex is held where the code holds it. *)
Exclusion ==
  /\ main \in {"while", "search", "idle", "await"} => mtx = Main
  /\ \A t \in Thread : pc[t] \in {"start", "turn"} => mtx = t

(* The phases of the program: threads wait for turns only after            *)
(* all_started, and stop is set only when the scheduler has left its loop. *)
Phases ==
  /\ main \in {"create", "lock"} => ~all_started
  /\ \A t \in Thread : pc[t] \in {"turn", "sleep", "wake", "work"} =>
                          all_started
  /\ main = "exit" => \A t \in Thread : pc[t] = "ended"
  /\ stop => main \in {"join", "done"}

Quantum(t) == IF RemBar[t] < q THEN RemBar[t] ELSE q

(* The turn is with the picked thread until it reports its slice, and the  *)
(* slice it works on, or reports, is the quantum main granted.             *)
Handover ==
  /\ turn_id # -1 => Waiting
  /\ Waiting =>
       /\ picked \in Thread /\ picked = i
       /\ IF slice_done THEN turn_id = -1 /\ consumed = Quantum(picked)
          ELSE turn_id = picked /\ grant = Quantum(picked)
  /\ \A t \in Thread :
       pc[t] = "work" => turn_id = t /\ slice[t] = Quantum(t)

(* How far the search of main.c:211-214 has come, and what it has found. *)
Searched ==
  /\ main \in {"search", "await", "sleep", "wake"} =>
       \A k \in Thread :
         RR!Distance(start_i, k) < RR!Distance(start_i, i) => ~RR!Runnable(k)
  /\ main = "idle" => i = start_i /\ \A k \in Thread : ~RR!Runnable(k)
  /\ Waiting => RR!Runnable(picked)

(* A thread with units left has no finish time. *)
Unfinished == \A t \in Thread : RemBar[t] > 0 => finish[t] = -1

IndInv ==
  /\ TypeOK /\ Exclusion /\ Phases /\ Handover /\ Searched /\ Unfinished

(* A step that RoundRobin does not see. *)
Stutters == UNCHANGED <<at, bt, q, RemBar, finish, now, IBar, skipped>>

-----------------------------------------------------------------------------
LEMMA FollowingIs ==
  ASSUME NEW t \in Thread
  PROVE  Following(t) = RR!Following(t) /\ Following(t) \in Thread
BY NAssumption DEF Following, RR!Following, Thread

LEMMA DistanceType ==
  \A j, k \in Thread : RR!Distance(j, k) \in 0 .. N - 1
                      /\ RR!Distance(j, j) = 0
BY NAssumption DEF RR!Distance, Thread

LEMMA DistanceInjective ==
  ASSUME NEW j \in Thread, NEW k \in Thread, NEW l \in Thread,
         RR!Distance(j, k) = RR!Distance(j, l)
  PROVE  k = l
<1> USE NAssumption DEF RR!Distance, Thread
<1>1. CASE k >= j
  BY <1>1
<1>2. CASE k < j
  BY <1>2
<1> QED
  BY <1>1, <1>2

(* The search that starts from j ends with the thread before j. *)
LEMMA LastIsFarthest ==
  ASSUME NEW j \in Thread, NEW k \in Thread, NEW l \in Thread,
         RR!Following(l) = j
  PROVE  RR!Distance(j, k) <= RR!Distance(j, l)
<1> USE NAssumption DEF RR!Distance, RR!Following, Thread
<1>1. CASE l = N - 1
  BY <1>1
<1>2. CASE l # N - 1
  BY <1>2
<1> QED
  BY <1>1, <1>2, Zenon

(* One step of the search takes it one step further from its start. *)
LEMMA NextIsNearest ==
  ASSUME NEW j \in Thread, NEW k \in Thread, NEW l \in Thread,
         RR!Following(l) # j,
         RR!Distance(j, k) < RR!Distance(j, RR!Following(l))
  PROVE  RR!Distance(j, k) <= RR!Distance(j, l)
<1> USE NAssumption DEF RR!Distance, RR!Following, Thread
<1>1. CASE l = N - 1
  BY <1>1
<1>2. CASE l # N - 1 /\ l >= j
  BY <1>2
<1>3. CASE l # N - 1 /\ l < j
  BY <1>3
<1> QED
  BY <1>1, <1>2, <1>3

LEMMA BroadcastType ==
  ASSUME TypeOK
  PROVE  /\ Broadcast \in [Thread -> ThreadPc]
         /\ \A t \in Thread :
              /\ Broadcast[t] = "start" <=> pc[t] = "start"
              /\ Broadcast[t] = "turn" <=> pc[t] = "turn"
              /\ Broadcast[t] = "work" <=> pc[t] = "work"
              /\ Broadcast[t] \in {"sleep", "wake"} => pc[t] \in {"sleep", "wake"}
              /\ Broadcast[t] = "ended" <=> pc[t] = "ended"
BY Zenon DEF TypeOK, Broadcast, ThreadPc

LEMMA CreateLogInd == ASSUME IndInv, CreateLog PROVE IndInv' /\ Stutters
<1> USE DEF CreateLog, input, shared, locals, logging
<1>0. TypeOK
  BY Zenon DEF IndInv
<1>1. TypeOK'
  <2>1. logCreated' \in Nat /\ logEnded' \in Nat
    BY <1>0, NAssumption DEF TypeOK, Main, Free, Thread
  <2> QED
    BY <1>0, <2>1, ZenonT(30) DEF TypeOK, MainPc
<1>2. Exclusion'
  BY <1>0, Zenon DEF IndInv, TypeOK, Exclusion
<1>3. Phases'
  BY <1>0, Zenon DEF IndInv, Phases, TypeOK
<1>4. RemBar' = RemBar
  BY Zenon DEF IndInv, Handover, RemBar, Waiting
<1>5. Handover'
  BY <1>0, <1>4, Zenon DEF IndInv, Handover, Quantum, Waiting, TypeOK
<1>6. Searched'
  BY <1>0, <1>4, Zenon DEF IndInv, Searched, RR!Runnable, RR!Distance, Waiting, TypeOK
<1>7. Unfinished'
  BY <1>4, Zenon DEF IndInv, Unfinished
<1>8. Stutters
  BY <1>4, Zenon DEF Stutters, IBar
<1> QED
  BY <1>1, <1>2, <1>3, <1>5, <1>6, <1>7, <1>8, Zenon DEF IndInv

LEMMA log_workerInd == ASSUME IndInv, log_worker PROVE IndInv' /\ Stutters
<1> USE DEF log_worker, input, shared, locals, logging
<1>0. TypeOK
  BY Zenon DEF IndInv
<1>1. TypeOK'
  <2>1. logCreated' \in Nat /\ logEnded' \in Nat
    BY <1>0, NAssumption DEF TypeOK, Main, Free, Thread
  <2> QED
    BY <1>0, <2>1, ZenonT(30) DEF TypeOK, MainPc
<1>2. Exclusion'
  BY <1>0, Zenon DEF IndInv, TypeOK, Exclusion
<1>3. Phases'
  BY <1>0, Zenon DEF IndInv, Phases, TypeOK
<1>4. RemBar' = RemBar
  BY Zenon DEF IndInv, Handover, RemBar, Waiting
<1>5. Handover'
  BY <1>0, <1>4, Zenon DEF IndInv, Handover, Quantum, Waiting, TypeOK
<1>6. Searched'
  BY <1>0, <1>4, Zenon DEF IndInv, Searched, RR!Runnable, RR!Distance, Waiting, TypeOK
<1>7. Unfinished'
  BY <1>4, Zenon DEF IndInv, Unfinished
<1>8. Stutters
  BY <1>4, Zenon DEF Stutters, IBar
<1> QED
  BY <1>1, <1>2, <1>3, <1>5, <1>6, <1>7, <1>8, Zenon DEF IndInv

LEMMA CreateFailsInd == ASSUME IndInv, CreateFails PROVE IndInv' /\ Stutters
<1> USE DEF CreateFails, input, shared, locals, logging
<1>0. TypeOK
  BY Zenon DEF IndInv
<1>1. TypeOK'
  BY <1>0, Zenon DEF TypeOK, MainPc, ThreadPc
<1>2. Exclusion'
  BY <1>0, Zenon DEF IndInv, TypeOK, Exclusion
<1>3. Phases'
  BY <1>0, Zenon DEF IndInv, Phases, TypeOK
<1>4. RemBar' = RemBar
  BY Zenon DEF IndInv, Handover, RemBar, Waiting
<1>5. Handover'
  BY <1>0, <1>4, Zenon DEF IndInv, Handover, Quantum, Waiting, TypeOK
<1>6. Searched'
  BY <1>0, <1>4, Zenon DEF IndInv, Searched, RR!Runnable, RR!Distance, Waiting, TypeOK
<1>7. Unfinished'
  BY <1>4, Zenon DEF IndInv, Unfinished
<1>8. Stutters
  BY <1>4, Zenon DEF Stutters, IBar
<1> QED
  BY <1>1, <1>2, <1>3, <1>5, <1>6, <1>7, <1>8, Zenon DEF IndInv

LEMMA BeginInd == ASSUME IndInv, Begin PROVE IndInv' /\ Stutters
<1> USE DEF Begin, input, shared, locals, logging
<1>0. TypeOK
  BY Zenon DEF IndInv
<1>1. TypeOK'
  <2>1. mtx' \in -1 .. N
    BY <1>0, NAssumption DEF TypeOK, Main, Free, Thread
  <2>2. pc' \in [Thread -> ThreadPc]
    BY <1>0, BroadcastType, Zenon DEF TypeOK
  <2> QED
    BY <1>0, <2>1, <2>2, ZenonT(30) DEF TypeOK, MainPc
<1>2. Exclusion'
  <2>1. \A t \in Thread : t # Main /\ t # Free
    BY NAssumption DEF Thread, Main, Free
  <2>2. \A t \in Thread : pc'[t] \notin {"start", "turn"}
    BY <2>1, <1>0, BroadcastType, Zenon DEF IndInv, Exclusion
  <2> QED
    BY <2>2, Zenon DEF IndInv, Exclusion
<1>3. Phases'
  BY <1>0, BroadcastType, Zenon DEF IndInv, Phases, TypeOK
<1>4. RemBar' = RemBar
  BY Zenon DEF IndInv, Handover, RemBar, Waiting
<1>5. Handover'
  BY <1>0, <1>4, BroadcastType, Zenon DEF IndInv, Handover, Quantum, Waiting, TypeOK
<1>6. Searched'
  BY <1>0, <1>4, Zenon DEF IndInv, Searched, RR!Runnable, RR!Distance, Waiting, TypeOK
<1>7. Unfinished'
  BY <1>4, Zenon DEF IndInv, Unfinished
<1>8. Stutters
  BY <1>4, Zenon DEF Stutters, IBar
<1> QED
  BY <1>1, <1>2, <1>3, <1>5, <1>6, <1>7, <1>8, Zenon DEF IndInv

LEMMA BeginSearchInd == ASSUME IndInv, BeginSearch PROVE IndInv' /\ Stutters
<1> USE DEF BeginSearch, input, shared, locals, logging
<1>0. TypeOK
  BY Zenon DEF IndInv
<1>1. TypeOK'
  <2>1. start_i' \in Thread /\ picked' \in -1 .. N - 1
    BY <1>0, NAssumption DEF TypeOK, Main, Free, Thread
  <2> QED
    BY <1>0, <2>1, ZenonT(30) DEF TypeOK, MainPc
<1>2. Exclusion'
  BY <1>0, Zenon DEF IndInv, TypeOK, Exclusion
<1>3. Phases'
  BY <1>0, Zenon DEF IndInv, Phases, TypeOK
<1>4. RemBar' = RemBar
  BY Zenon DEF IndInv, Handover, RemBar, Waiting
<1>5. Handover'
  BY <1>0, <1>4, Zenon DEF IndInv, Handover, Quantum, Waiting, TypeOK
<1>6. Searched'
  <2>1. \A k \in Thread : ~(RR!Distance(i, k) < RR!Distance(i, i))
    BY <1>0, DistanceType, NAssumption DEF TypeOK
  <2> QED
    BY <2>1, Zenon DEF Searched, RR!Distance, Waiting
<1>7. Unfinished'
  BY <1>4, Zenon DEF IndInv, Unfinished
<1>8. Stutters
  BY <1>4, Zenon DEF Stutters, IBar
<1> QED
  BY <1>1, <1>2, <1>3, <1>5, <1>6, <1>7, <1>8, Zenon DEF IndInv

LEMMA AwaitSliceInd == ASSUME IndInv, AwaitSlice PROVE IndInv' /\ Stutters
<1> USE DEF AwaitSlice, input, shared, locals, logging
<1>0. TypeOK
  BY Zenon DEF IndInv
<1>1. TypeOK'
  <2>1. mtx' \in -1 .. N
    BY <1>0, NAssumption DEF TypeOK, Main, Free, Thread
  <2> QED
    BY <1>0, <2>1, ZenonT(30) DEF TypeOK, MainPc
<1>2. Exclusion'
  <2>1. \A t \in Thread : t # Main /\ t # Free
    BY NAssumption DEF Thread, Main, Free
  <2>2. \A t \in Thread : pc'[t] \notin {"start", "turn"}
    BY <2>1, <1>0, Zenon DEF IndInv, Exclusion
  <2> QED
    BY <2>2, Zenon DEF IndInv, Exclusion
<1>3. Phases'
  BY <1>0, Zenon DEF IndInv, Phases, TypeOK
<1>4. RemBar' = RemBar
  BY Zenon DEF IndInv, Handover, RemBar, Waiting
<1>5. Handover'
  BY <1>0, <1>4, Zenon DEF IndInv, Handover, Quantum, Waiting, TypeOK
<1>6. Searched'
  BY <1>0, <1>4, Zenon DEF IndInv, Searched, RR!Runnable, RR!Distance, Waiting, TypeOK
<1>7. Unfinished'
  BY <1>4, Zenon DEF IndInv, Unfinished
<1>8. Stutters
  BY <1>4, Zenon DEF Stutters, IBar
<1> QED
  BY <1>1, <1>2, <1>3, <1>5, <1>6, <1>7, <1>8, Zenon DEF IndInv

LEMMA ResumeInd == ASSUME IndInv, Resume PROVE IndInv' /\ Stutters
<1> USE DEF Resume, input, shared, locals, logging
<1>0. TypeOK
  BY Zenon DEF IndInv
<1>1. TypeOK'
  <2>1. mtx' \in -1 .. N
    BY <1>0, NAssumption DEF TypeOK, Main, Free, Thread
  <2> QED
    BY <1>0, <2>1, ZenonT(30) DEF TypeOK, MainPc
<1>2. Exclusion'
  <2>1. \A t \in Thread : t # Main /\ t # Free
    BY NAssumption DEF Thread, Main, Free
  <2>2. \A t \in Thread : pc'[t] \notin {"start", "turn"}
    BY <2>1, <1>0, Zenon DEF IndInv, Exclusion
  <2> QED
    BY <2>2, Zenon DEF IndInv, Exclusion
<1>3. Phases'
  BY <1>0, Zenon DEF IndInv, Phases, TypeOK
<1>4. RemBar' = RemBar
  BY Zenon DEF IndInv, Handover, RemBar, Waiting
<1>5. Handover'
  BY <1>0, <1>4, Zenon DEF IndInv, Handover, Quantum, Waiting, TypeOK
<1>6. Searched'
  BY <1>0, <1>4, Zenon DEF IndInv, Searched, RR!Runnable, RR!Distance, Waiting, TypeOK
<1>7. Unfinished'
  BY <1>4, Zenon DEF IndInv, Unfinished
<1>8. Stutters
  BY <1>4, Zenon DEF Stutters, IBar
<1> QED
  BY <1>1, <1>2, <1>3, <1>5, <1>6, <1>7, <1>8, Zenon DEF IndInv

LEMMA StopInd == ASSUME IndInv, Stop PROVE IndInv' /\ Stutters
<1> USE DEF Stop, input, shared, locals, logging
<1>0. TypeOK
  BY Zenon DEF IndInv
<1>1. TypeOK'
  <2>1. mtx' \in -1 .. N
    BY <1>0, NAssumption DEF TypeOK, Main, Free, Thread
  <2>2. pc' \in [Thread -> ThreadPc]
    BY <1>0, BroadcastType, Zenon DEF TypeOK
  <2> QED
    BY <1>0, <2>1, <2>2, ZenonT(30) DEF TypeOK, MainPc
<1>2. Exclusion'
  <2>1. \A t \in Thread : t # Main /\ t # Free
    BY NAssumption DEF Thread, Main, Free
  <2>2. \A t \in Thread : pc'[t] \notin {"start", "turn"}
    BY <2>1, <1>0, BroadcastType, Zenon DEF IndInv, Exclusion
  <2> QED
    BY <2>2, Zenon DEF IndInv, Exclusion
<1>3. Phases'
  BY <1>0, BroadcastType, Zenon DEF IndInv, Phases, TypeOK
<1>4. RemBar' = RemBar
  BY Zenon DEF IndInv, Handover, RemBar, Waiting
<1>5. Handover'
  BY <1>0, <1>4, BroadcastType, Zenon DEF IndInv, Handover, Quantum, Waiting, TypeOK
<1>6. Searched'
  BY <1>0, <1>4, Zenon DEF IndInv, Searched, RR!Runnable, RR!Distance, Waiting, TypeOK
<1>7. Unfinished'
  BY <1>4, Zenon DEF IndInv, Unfinished
<1>8. Stutters
  BY <1>4, Zenon DEF Stutters, IBar
<1> QED
  BY <1>1, <1>2, <1>3, <1>5, <1>6, <1>7, <1>8, Zenon DEF IndInv

LEMMA ReportInd == ASSUME IndInv, Report PROVE IndInv' /\ Stutters
<1> USE DEF Report, input, shared, locals, logging
<1>0. TypeOK
  BY Zenon DEF IndInv
<1>1. TypeOK'
  <2>1. wt' \in [Thread -> Nat]
    BY <1>0 DEF TypeOK
  <2> QED
    BY <1>0, <2>1, ZenonT(30) DEF TypeOK, MainPc
<1>2. Exclusion'
  BY <1>0, Zenon DEF IndInv, TypeOK, Exclusion
<1>3. Phases'
  BY <1>0, Zenon DEF IndInv, Phases, TypeOK
<1>4. RemBar' = RemBar
  BY Zenon DEF IndInv, Handover, RemBar, Waiting
<1>5. Handover'
  BY <1>0, <1>4, Zenon DEF IndInv, Handover, Quantum, Waiting, TypeOK
<1>6. Searched'
  BY <1>0, <1>4, Zenon DEF IndInv, Searched, RR!Runnable, RR!Distance, Waiting, TypeOK
<1>7. Unfinished'
  BY <1>4, Zenon DEF IndInv, Unfinished
<1>8. Stutters
  BY <1>4, Zenon DEF Stutters, IBar
<1> QED
  BY <1>1, <1>2, <1>3, <1>5, <1>6, <1>7, <1>8, Zenon DEF IndInv

LEMMA SpuriousWakeupInd == ASSUME IndInv, SpuriousWakeup PROVE IndInv' /\ Stutters
<1> USE DEF SpuriousWakeup, input, shared, locals, logging
<1>0. TypeOK
  BY Zenon DEF IndInv
<1>1. TypeOK'
  BY <1>0 DEF TypeOK, MainPc, ThreadPc
<1>2. Exclusion'
  BY <1>0, Zenon DEF IndInv, TypeOK, Exclusion
<1>3. Phases'
  BY <1>0 DEF IndInv, Phases, TypeOK
<1>4. RemBar' = RemBar
  BY DEF IndInv, Handover, RemBar, Waiting
<1>5. Handover'
  BY <1>0, <1>4 DEF IndInv, Handover, Quantum, Waiting, TypeOK
<1>6. Searched'
  BY <1>0, <1>4 DEF IndInv, Searched, RR!Runnable, RR!Distance, Waiting, TypeOK
<1>7. Unfinished'
  BY <1>4, Zenon DEF IndInv, Unfinished
<1>8. Stutters
  BY <1>4, Zenon DEF Stutters, IBar
<1> QED
  BY <1>1, <1>2, <1>3, <1>5, <1>6, <1>7, <1>8, Zenon DEF IndInv

LEMMA WorkerOnlyInd ==
  ASSUME IndInv, NEW t \in Thread,
         CreateWorker(t) \/ Lock(t) \/ Start(t) \/ AwaitTurn(t) \/ End(t)
  PROVE  IndInv' /\ Stutters
<1>0. TypeOK /\ Main # Free /\ \A u \in Thread : u # Main /\ u # Free
  BY NAssumption DEF IndInv, Thread, Main, Free
<1>a. UNCHANGED <<at, bt, q, rem, finish, turn_id, grant, consumed, slice_done,
                  all_started, stop, now, finished, i, start_i, picked, slice,
                  logCreated, logEnded, wt, skipped>>
  BY Zenon DEF CreateWorker, Lock, Start, AwaitTurn, End, input, shared, locals,
         logging
<1>b. (main # "create" => main' = main) /\ main' \in {main, "lock"}
  <2>1. CASE CreateWorker(t)
    BY <2>1, Zenon DEF CreateWorker
  <2>2. CASE Lock(t) \/ Start(t) \/ AwaitTurn(t) \/ End(t)
    BY <2>2, Zenon DEF Lock, Start, AwaitTurn, End
  <2> QED
    BY <2>1, <2>2, Zenon
<1>c. PICK s \in ThreadPc \ {"work"} : pc' = [pc EXCEPT ![t] = s]
  BY Zenon DEF CreateWorker, Lock, Start, AwaitTurn, End, ThreadPc
<1>d. mtx' \in -1 .. N
  <2>1. mtx' \in {mtx, t, Free}
    BY Zenon DEF CreateWorker, Lock, Start, AwaitTurn, End
  <2> QED
    BY <2>1, <1>0, NAssumption DEF TypeOK, Free, Thread
<1>1. TypeOK'
  <2>1. main' \in MainPc
    BY <1>0, <1>b, Zenon DEF TypeOK, MainPc
  <2>2. pc' \in [Thread -> ThreadPc]
    BY <1>0, <1>c, Zenon DEF TypeOK
  <2> QED
    BY <1>0, <1>a, <1>d, <2>1, <2>2, ZenonT(30) DEF TypeOK
<1>2. Exclusion'
  <2>1. CASE CreateWorker(t)
    BY <2>1, <1>0, Zenon DEF CreateWorker, IndInv, Exclusion, TypeOK
  <2>2. CASE Lock(t)
    <3>1. main' = main /\ main \notin {"while", "search", "idle", "await"}
      BY <2>2, <1>0, Zenon DEF Lock, IndInv, Exclusion
    <3>2. \A u \in Thread : pc[u] \notin {"start", "turn"}
      BY <2>2, <1>0, Zenon DEF Lock, IndInv, Exclusion
    <3> QED
      BY <2>2, <1>0, <3>1, <3>2, Zenon DEF Lock, Exclusion, TypeOK
  <2>3. CASE Start(t)
    BY <2>3, <1>0 DEF Start, IndInv, Exclusion, TypeOK
  <2>4. CASE AwaitTurn(t) \/ End(t)
    BY <2>4, <1>0, Zenon DEF AwaitTurn, End, IndInv, Exclusion, TypeOK
  <2> QED
    BY <2>1, <2>2, <2>3, <2>4, Zenon
<1>3. Phases'
  <2>1. CASE CreateWorker(t)
    BY <2>1, <1>0, <1>a, Zenon DEF CreateWorker, IndInv, Phases, TypeOK
  <2>2. CASE Lock(t)
    BY <2>2, <1>0, <1>a, Zenon DEF Lock, IndInv, Phases, TypeOK
  <2>3. CASE Start(t)
    BY <2>3, <1>0, <1>a, Zenon DEF Start, IndInv, Phases, TypeOK
  <2>4. CASE AwaitTurn(t) \/ End(t)
    BY <2>4, <1>0, <1>a, Zenon DEF AwaitTurn, End, IndInv, Phases, TypeOK
  <2> QED
    BY <2>1, <2>2, <2>3, <2>4, Zenon
<1>4. RemBar' = RemBar
  BY <1>a, <1>b, Zenon DEF RemBar
<1>5. Handover'
  BY <1>0, <1>4, <1>a, <1>b, <1>c, Zenon
     DEF IndInv, Handover, Quantum, Waiting, TypeOK, ThreadPc
<1>6. Searched'
  BY <1>4, <1>a, <1>b, Zenon DEF IndInv, Searched, RR!Runnable, RR!Distance, Waiting
<1>7. Unfinished'
  BY <1>4, <1>a, Zenon DEF IndInv, Unfinished
<1>8. Stutters
  BY <1>4, <1>a, <1>b, Zenon DEF Stutters, IBar
<1> QED
  BY <1>1, <1>2, <1>3, <1>5, <1>6, <1>7, <1>8, Zenon DEF IndInv

LEMMA SearchOnInd == ASSUME IndInv, SearchOn PROVE IndInv' /\ Stutters
<1> USE DEF SearchOn, input, shared, locals, logging
<1>0. TypeOK
  BY Zenon DEF IndInv
<1>a. i' = RR!Following(i) /\ i' \in Thread
  BY <1>0, FollowingIs, Zenon DEF TypeOK
<1>b. RemBar = rem /\ RemBar' = rem
  BY Zenon DEF RemBar
<1>c. \A k \in Thread :
        RR!Distance(start_i, k) <= RR!Distance(start_i, i) => ~RR!Runnable(k)
  <2>1. \A k \in Thread :
          RR!Distance(start_i, k) = RR!Distance(start_i, i) => k = i
    BY <1>0, DistanceInjective, Zenon DEF TypeOK
  <2>2. ~RR!Runnable(i)
    BY <1>b, Zenon DEF Runnable, RR!Runnable
  <2> QED
    BY <2>1, <2>2, <1>0, DistanceType, NAssumption DEF IndInv, Searched, TypeOK
<1>1. TypeOK'
  <2>1. main' \in MainPc
    BY Zenon DEF MainPc
  <2> QED
    BY <1>0, <1>a, <2>1, ZenonT(30) DEF TypeOK
<1>2. Exclusion'
  BY Zenon DEF IndInv, Exclusion
<1>3. Phases'
  BY Zenon DEF IndInv, Phases
<1>5. Handover'
  BY <1>b, Zenon DEF IndInv, Handover, Quantum, Waiting
<1>6. Searched'
  <2>1. CASE i' = start_i
    <3>1. \A k \in Thread : RR!Distance(start_i, k) <= RR!Distance(start_i, i)
      BY <2>1, <1>0, <1>a, LastIsFarthest, Zenon DEF TypeOK
    <3> QED
      BY <2>1, <3>1, <1>b, <1>c, Zenon DEF Searched, RR!Runnable, Waiting
  <2>2. CASE i' # start_i
    <3>1. \A k \in Thread :
            RR!Distance(start_i, k) < RR!Distance(start_i, i')
              => RR!Distance(start_i, k) <= RR!Distance(start_i, i)
      BY <2>2, <1>0, <1>a, NextIsNearest, Zenon DEF TypeOK
    <3> QED
      BY <2>2, <3>1, <1>b, <1>c, Zenon DEF Searched, RR!Runnable, RR!Distance, Waiting
  <2> QED
    BY <2>1, <2>2, Zenon
<1>7. Unfinished'
  BY <1>b, Zenon DEF IndInv, Unfinished
<1>8. Stutters
  BY <1>b, Zenon DEF Stutters, IBar
<1> QED
  BY <1>1, <1>2, <1>3, <1>5, <1>6, <1>7, <1>8, Zenon DEF IndInv

LEMMA GrantInd == ASSUME IndInv, Grant PROVE IndInv' /\ Stutters
<1> USE DEF Grant, input, shared, locals, logging
<1>0. TypeOK
  BY Zenon DEF IndInv
<1>b. RemBar = rem /\ RemBar' = rem
  BY Zenon DEF RemBar
<1>1. TypeOK'
  <2>1. grant' \in Nat /\ turn_id' \in -1 .. N - 1 /\ picked' \in -1 .. N - 1
    BY <1>0, NAssumption DEF TypeOK, Thread
  <2>2. pc' \in [Thread -> ThreadPc]
    BY <1>0, BroadcastType, Zenon
  <2> QED
    BY <1>0, <2>1, <2>2, ZenonT(30) DEF TypeOK, MainPc
<1>2. Exclusion'
  BY <1>0, BroadcastType, Zenon DEF IndInv, Exclusion
<1>3. Phases'
  BY <1>0, BroadcastType, Zenon DEF IndInv, Phases
<1>5. Handover'
  <2>1. \A t \in Thread : pc'[t] # "work"
    BY <1>0, BroadcastType, NAssumption
       DEF IndInv, Handover, Waiting, Thread
  <2>2. i \in Thread /\ i # -1
    BY <1>0, NAssumption DEF TypeOK, Thread
  <2> QED
    BY <2>1, <2>2, <1>b, Zenon DEF Handover, Quantum, Waiting
<1>6. Searched'
  BY <1>b, Zenon DEF IndInv, Searched, Runnable, RR!Runnable, RR!Distance, Waiting
<1>7. Unfinished'
  BY <1>b, Zenon DEF IndInv, Unfinished
<1>8. Stutters
  BY <1>b, Zenon DEF Stutters, IBar
<1> QED
  BY <1>1, <1>2, <1>3, <1>5, <1>6, <1>7, <1>8, Zenon DEF IndInv

LEMMA BeginWorkInd ==
  ASSUME IndInv, NEW t \in Thread, BeginWork(t)
  PROVE  IndInv' /\ Stutters
<1>0. TypeOK /\ t # -1
  BY NAssumption DEF IndInv, Thread
<1>a. Waiting /\ picked = t /\ ~slice_done /\ grant = Quantum(t) /\ turn_id = t
  BY <1>0, Zenon DEF BeginWork, IndInv, Handover
<1>b. RemBar = rem /\ rem[t] > 0
  BY <1>a, Zenon DEF IndInv, Searched, RR!Runnable, RemBar
<1>c. /\ slice' = [slice EXCEPT ![t] = grant]
      /\ pc' = [pc EXCEPT ![t] = "work"]
      /\ mtx' = Free
      /\ UNCHANGED <<at, bt, q, rem, finish, turn_id, grant, consumed, slice_done,
                     all_started, stop, now, finished, i, start_i, picked, main,
                     logCreated, logEnded, wt, skipped>>
  <2>1. ~(rem[t] <= 0) /\ rem[t] \in Nat /\ q \in Nat \ {0}
    BY <1>0, <1>b DEF TypeOK
  <2>2. grant > 0 /\ grant <= rem[t]
    BY <1>a, <1>b, <2>1 DEF Quantum
  <2>3. grant \in Nat
    BY <1>0, Zenon DEF TypeOK
  <2> QED
    BY <2>1, <2>2, <2>3 DEF BeginWork, input, locals, logging
<1>d. RemBar' = rem
  BY <1>a, <1>c, Zenon DEF RemBar
<1>1. TypeOK'
  <2>1. slice' \in [Thread -> Nat] /\ mtx' \in -1 .. N
    BY <1>0, <1>c, NAssumption DEF TypeOK, Free
  <2>2. pc' \in [Thread -> ThreadPc]
    BY <1>0, <1>c, Zenon DEF TypeOK, ThreadPc
  <2> QED
    BY <1>0, <1>c, <2>1, <2>2, ZenonT(30) DEF TypeOK
<1>2. Exclusion'
  <2>1. mtx = t /\ t # Main
    BY NAssumption DEF BeginWork, IndInv, Exclusion, Thread, Main
  <2> QED
    BY <1>0, <1>c, <2>1, Zenon DEF IndInv, Exclusion, TypeOK
<1>3. Phases'
  BY <1>0, <1>a, <1>c DEF BeginWork, IndInv, Phases, TypeOK, Waiting
<1>5. Handover'
  BY <1>0, <1>a, <1>b, <1>c, <1>d, Zenon
     DEF IndInv, Handover, Quantum, Waiting, TypeOK
<1>6. Searched'
  BY <1>b, <1>c, <1>d, Zenon
     DEF IndInv, Searched, RR!Runnable, RR!Distance, Waiting
<1>7. Unfinished'
  BY <1>b, <1>c, <1>d, Zenon DEF IndInv, Unfinished
<1>8. Stutters
  BY <1>b, <1>c, <1>d, Zenon DEF Stutters, IBar
<1> QED
  BY <1>1, <1>2, <1>3, <1>5, <1>6, <1>7, <1>8, Zenon DEF IndInv

LEMMA EndWorkInd ==
  ASSUME IndInv, NEW t \in Thread, EndWork(t)
  PROVE  IndInv' /\ Stutters
<1> USE DEF EndWork, Signal, input, locals, logging
<1>0. TypeOK /\ t # -1
  BY NAssumption DEF IndInv, Thread
<1>a. /\ Waiting /\ picked = t /\ ~slice_done /\ turn_id = t
      /\ slice[t] = Quantum(t)
  BY <1>0, Zenon DEF IndInv, Handover
<1>b. RemBar = rem
  BY <1>a, Zenon DEF RemBar
<1>c. slice[t] \in Nat \ {0} /\ slice[t] <= rem[t]
  <2>1. rem[t] \in Nat /\ rem[t] > 0 /\ q \in Nat \ {0}
    BY <1>0, <1>a, <1>b, Zenon DEF TypeOK, IndInv, Searched, RR!Runnable
  <2> QED
    BY <2>1, <1>a, <1>b DEF Quantum
<1>d. Waiting'
  BY <1>a, Zenon DEF Waiting
<1>e. RemBar' = rem
  <2>1. RemBar' = [rem' EXCEPT ![t] = @ + slice[t]]
    BY <1>a, <1>d, Zenon DEF RemBar, Waiting
  <2> QED
    BY <2>1, <1>0, <1>c DEF TypeOK
<1>1. TypeOK'
  <2>1. rem' \in [Thread -> Nat] /\ consumed' \in Nat
    BY <1>0, <1>c DEF TypeOK
  <2>2. mtx' \in -1 .. N /\ turn_id' \in -1 .. N - 1
    BY NAssumption DEF Thread
  <2>3. pc' \in [Thread -> ThreadPc]
    BY <1>0, Zenon DEF TypeOK, ThreadPc
  <2>4. main' \in MainPc
    BY <1>0, Zenon DEF TypeOK, MainPc
  <2> QED
    BY <1>0, <2>1, <2>2, <2>3, <2>4, ZenonT(30) DEF TypeOK
<1>2. Exclusion'
  <2>1. Main # Free /\ \A u \in Thread : u # Free
    BY NAssumption DEF Thread, Main, Free
  <2>2. main \notin {"while", "search", "idle", "await"}
    BY <2>1, Zenon DEF IndInv, Exclusion
  <2>3. \A u \in Thread : pc[u] \notin {"start", "turn"}
    BY <2>1, Zenon DEF IndInv, Exclusion
  <2> QED
    BY <1>0, <2>2, <2>3, Zenon DEF Exclusion, TypeOK
<1>3. Phases'
  BY <1>0, <1>a, Zenon DEF IndInv, Phases, TypeOK, Waiting
<1>5. Handover'
  <2>1. \A u \in Thread : pc'[u] # "work"
    BY <1>0, <1>a, Zenon DEF IndInv, Handover, TypeOK
  <2>2. consumed' = Quantum(t)' /\ picked' \in Thread /\ picked' = i'
    BY <1>a, <1>b, <1>e, Zenon DEF IndInv, Handover, Quantum
  <2> QED
    BY <2>1, <2>2, <1>a, <1>d, Zenon DEF Handover
<1>6. Searched'
  BY <1>a, <1>b, <1>d, <1>e, Zenon
     DEF IndInv, Searched, RR!Runnable, RR!Distance, Waiting
<1>7. Unfinished'
  BY <1>b, <1>e, Zenon DEF IndInv, Unfinished
<1>8. Stutters
  BY <1>a, <1>b, <1>d, <1>e, Zenon DEF Stutters, IBar, Waiting
<1> QED
  BY <1>1, <1>2, <1>3, <1>5, <1>6, <1>7, <1>8, Zenon DEF IndInv

(* The jump of the clock is RoundRobin's idle step. *)
LEMMA JumpTimeInd == ASSUME IndInv, JumpTime PROVE IndInv' /\ RR!Idle
<1> USE DEF JumpTime, input, shared, locals, logging
<1>0. TypeOK
  BY Zenon DEF IndInv
<1>a. PICK t \in Thread :
        /\ rem[t] > 0
        /\ \A u \in Thread : rem[u] > 0 => at[t] <= at[u]
        /\ now' = IF at[t] > now THEN at[t] ELSE now
  BY Zenon
<1>b. RemBar = rem /\ RemBar' = rem
  BY Zenon DEF RemBar
<1>c. i = start_i /\ \A k \in Thread : ~RR!Runnable(k)
  BY Zenon DEF IndInv, Searched
<1>d. now' = at[t] /\ now' \in Nat
  BY <1>0, <1>a, <1>b, <1>c DEF TypeOK, RR!Runnable
<1>1. TypeOK'
  BY <1>0, <1>d, ZenonT(30) DEF TypeOK, MainPc
<1>2. Exclusion'
  BY Zenon DEF IndInv, Exclusion
<1>3. Phases'
  BY Zenon DEF IndInv, Phases
<1>5. Handover'
  BY <1>b, Zenon DEF IndInv, Handover, Quantum, Waiting
<1>6. Searched'
  BY Zenon DEF Searched, Waiting
<1>7. Unfinished'
  BY <1>b, Zenon DEF IndInv, Unfinished
<1>8. RR!Idle
  <2>1. IBar' = IBar
    BY <1>c, Zenon DEF IBar
  <2> QED
    BY <2>1, <1>a, <1>b, <1>c, <1>d, Zenon DEF RR!Idle, RR!Process, Thread
<1> QED
  BY <1>1, <1>2, <1>3, <1>5, <1>6, <1>7, <1>8, Zenon DEF IndInv

(* main's accounting is RoundRobin's slice of the picked thread. *)
LEMMA AccountInd ==
  ASSUME IndInv, Account
  PROVE  IndInv' /\ picked \in RR!Process /\ RR!Slice(picked)
<1> USE DEF Account, input, logging
<1>0. TypeOK
  BY Zenon DEF IndInv
<1>a. /\ Waiting /\ picked \in Thread /\ picked = i
      /\ turn_id = -1 /\ consumed = Quantum(picked)
      /\ RR!Runnable(picked) /\ finish[picked] = -1
  BY Zenon DEF IndInv, Handover, Searched, Waiting, Unfinished, RR!Runnable
<1>b. RemBar = [rem EXCEPT ![picked] = @ + consumed] /\ RemBar' = rem
  BY Zenon DEF RemBar
<1>c. rem[picked] = RemBar[picked] - consumed /\ RemBar[picked] \in Nat
  BY <1>0, <1>a, <1>b DEF TypeOK
<1>d. \A k \in Thread : k # picked => RemBar[k] = rem[k]
  BY <1>0, <1>b, Zenon DEF TypeOK
<1>e. finish' = IF rem[picked] = 0 THEN [finish EXCEPT ![picked] = now + consumed]
                ELSE finish
  BY <1>a, Zenon
<1>1. TypeOK'
  <2>1. now' \in Nat /\ finished' \in Nat
    BY <1>0 DEF TypeOK
  <2>2. finish' \in [Thread -> Nat \cup {-1}]
    <3>1. now + consumed \in Nat \cup {-1} /\ finish \in [Thread -> Nat \cup {-1}]
      BY <1>0 DEF TypeOK
    <3> QED
      BY <3>1, <1>e, Zenon
  <2>3. i' \in Thread
    BY <1>a, FollowingIs, Zenon
  <2>4. skipped' \in [Thread -> Nat]
    BY <1>0 DEF TypeOK
  <2> QED
    BY <1>0, <2>1, <2>2, <2>3, <2>4, ZenonT(30) DEF TypeOK, MainPc
<1>2. Exclusion'
  BY Zenon DEF IndInv, Exclusion
<1>3. Phases'
  BY Zenon DEF IndInv, Phases
<1>5. Handover'
  <2>1. \A t \in Thread : pc[t] # "work"
    BY <1>a, NAssumption DEF IndInv, Handover, Thread
  <2> QED
    BY <2>1, <1>a, Zenon DEF Handover, Waiting
<1>6. Searched'
  BY Zenon DEF Searched, Waiting
<1>7. Unfinished'
  <2> SUFFICES ASSUME NEW t \in Thread, rem[t] > 0 PROVE finish'[t] = -1
    BY <1>b, Zenon DEF Unfinished
  <2>1. finish[t] = -1
    BY <1>a, <1>d, Zenon DEF IndInv, Unfinished
  <2> QED
    BY <2>1, <1>0, <1>a, <1>e DEF TypeOK
<1>8. RR!Slice(picked)
  <2>1. \A k \in Thread : RR!Runnable(k)
          => RR!Distance(IBar, picked) <= RR!Distance(IBar, k)
    BY <1>0, <1>a, DistanceType, NAssumption
       DEF IndInv, Searched, IBar, Waiting, TypeOK
  <2>2. rem = [RemBar EXCEPT ![picked] = @ - consumed]
    BY <1>0, <1>a, <1>b, <1>c, <1>d, Zenon DEF TypeOK
  <2>3. rem[picked] = 0 <=> RemBar[picked] = consumed
    BY <1>0, <1>c DEF TypeOK
  <2>4. IBar' = RR!Following(picked)
    BY <1>a, FollowingIs, Zenon DEF IBar
  <2>5. skipped' = [k \in RR!Process |->
                      IF k = picked THEN 0
                      ELSE IF RR!Runnable(k) THEN skipped[k] + 1 ELSE skipped[k]]
    BY <1>d, Zenon DEF Runnable, RR!Runnable, RR!Process, Thread
  <2> QED
    BY <2>1, <2>2, <2>3, <2>4, <2>5, <1>a, <1>b, <1>e, Zenon
       DEF RR!Slice, RR!Process, Thread, Quantum
<1> QED
  BY <1>1, <1>2, <1>3, <1>5, <1>6, <1>7, <1>8, <1>a, Zenon
     DEF IndInv, RR!Process, Thread

LEMMA InitInd == Init => IndInv /\ RR!Init
<1> SUFFICES ASSUME Init PROVE IndInv /\ RR!Init
  BY Zenon
<1> USE DEF Init
<1>1. TypeOK
  <2>1. at \in [Thread -> Int] /\ bt \in [Thread -> Nat \ {0}]
    BY ArrivalsAssumption, BurstsAssumption, Zenon
  <2>2. rem \in [Thread -> Nat]
    BY <2>1, Zenon
  <2>3. /\ finish \in [Thread -> Nat \cup {-1}] /\ slice \in [Thread -> Nat]
        /\ wt \in [Thread -> Nat] /\ skipped \in [Thread -> Nat]
    BY Zenon
  <2>4. /\ turn_id \in -1 .. N - 1 /\ picked \in -1 .. N - 1 /\ mtx \in -1 .. N
        /\ i \in Thread /\ start_i \in Thread
    BY NAssumption DEF Thread, Free
  <2>5. /\ grant \in Nat /\ consumed \in Nat /\ now \in Nat /\ finished \in Nat
        /\ logCreated \in Nat /\ logEnded \in Nat /\ q \in Nat \ {0}
    BY QuantaAssumption, Zenon
  <2>6. /\ slice_done \in BOOLEAN /\ all_started \in BOOLEAN /\ stop \in BOOLEAN
        /\ main \in MainPc /\ pc \in [Thread -> ThreadPc]
    BY Zenon DEF MainPc, ThreadPc
  <2> QED
    BY <2>1, <2>2, <2>3, <2>4, <2>5, <2>6, Zenon DEF TypeOK
<1>2. RemBar = bt /\ IBar = 0
  BY Zenon DEF RemBar, IBar
<1>3. Exclusion /\ Phases /\ Handover /\ Searched
  BY Zenon DEF Exclusion, Phases, Handover, Searched, Waiting
<1>4. Unfinished
  BY Zenon DEF Unfinished
<1>5. RR!Init
  BY <1>2, Zenon DEF RR!Init, RR!Process, Thread
<1> QED
  BY <1>1, <1>3, <1>4, <1>5, Zenon DEF IndInv

LEMMA StuttersIs == Stutters => UNCHANGED RR!vars
BY Zenon DEF Stutters, RR!vars

LEMMA Inductive ==
  IndInv /\ [Next]_vars => IndInv' /\ [RR!Next]_(RR!vars)
<1> SUFFICES ASSUME IndInv, [Next]_vars
             PROVE  IndInv' /\ [RR!Next]_(RR!vars)
  BY Zenon
<1>1. CASE CreateLog \/ CreateFails \/ log_worker \/ SpuriousWakeup
  BY <1>1, CreateLogInd, CreateFailsInd, log_workerInd, SpuriousWakeupInd,
     StuttersIs, Zenon
<1>2. CASE \/ Begin \/ BeginSearch \/ SearchOn \/ Grant \/ AwaitSlice
           \/ Resume \/ Stop \/ Report
  BY <1>2, BeginInd, BeginSearchInd, SearchOnInd, GrantInd, AwaitSliceInd,
     ResumeInd, StopInd, ReportInd, StuttersIs, Zenon
<1>3. CASE JumpTime
  BY <1>3, JumpTimeInd, Zenon DEF RR!Next
<1>4. CASE Account
  BY <1>4, AccountInd, Zenon DEF RR!Next
<1>5. ASSUME NEW t \in Thread, CreateWorker(t) \/ rr_thread(t)
      PROVE  IndInv' /\ [RR!Next]_(RR!vars)
  BY <1>5, WorkerOnlyInd, BeginWorkInd, EndWorkInd, StuttersIs, Zenon DEF rr_thread
<1>6. CASE Terminated \/ UNCHANGED vars
  <2>1. UNCHANGED vars
    BY <1>6, Zenon DEF Terminated
  <2>2. /\ UNCHANGED <<at, bt, q, rem, finish, turn_id, grant, consumed,
                       slice_done, all_started, stop, now, finished, i, start_i,
                       picked, mtx, main, pc, slice, logCreated, logEnded, wt,
                       skipped>>
    BY <2>1, Zenon DEF vars, input, shared, locals, logging
  <2>3. RemBar' = RemBar /\ IBar' = IBar
    BY <2>2, Zenon DEF RemBar, IBar
  <2>4. IndInv'
    BY <2>2, <2>3
       DEF IndInv, TypeOK, Exclusion, Phases, Handover, Waiting, Quantum,
           Searched, RR!Runnable, RR!Distance, Unfinished
  <2> QED
    BY <2>2, <2>3, <2>4, Zenon DEF RR!vars
<1> QED
  BY <1>1, <1>2, <1>3, <1>4, <1>5, <1>6, Zenon DEF Next, Create, Scheduler

LEMMA Invariance == Spec => []IndInv
BY InitInd, Inductive, PTL DEF Spec

(* The program's variables keep their types, for every number of threads   *)
(* and every input main accepts.                                           *)
THEOREM TypeCorrect == Spec => []TypeOK
<1>1. IndInv => TypeOK
  BY Zenon DEF IndInv
<1> QED
  BY <1>1, Invariance, PTL

(* Of all the threads of main.c at most one works, the one main waits for, *)
(* although it works without holding the mutex.                            *)
THEOREM MutualExclusion == Spec => []OneAtATime
<1>1. IndInv => OneAtATime
  <2> SUFFICES ASSUME IndInv, NEW t \in Thread, pc[t] = "work"
               PROVE  /\ turn_id = t /\ ~slice_done
                      /\ main \in {"await", "sleep", "wake"} /\ picked = t
                      /\ slice[t] \in 1 .. rem[t]
                      /\ \A u \in Thread : pc[u] = "work" => u = t
    BY Zenon DEF OneAtATime
  <2>1. turn_id = t /\ slice[t] = Quantum(t) /\ t # -1
    BY NAssumption DEF IndInv, Handover, Thread
  <2>2. Waiting /\ ~slice_done /\ picked = t
    BY <2>1, Zenon DEF IndInv, Handover
  <2>3. RemBar = rem /\ rem[t] > 0 /\ rem[t] \in Nat /\ q \in Nat \ {0}
    BY <2>2, Zenon DEF IndInv, Searched, RR!Runnable, RemBar, TypeOK
  <2>4. slice[t] \in 1 .. rem[t]
    BY <2>1, <2>3 DEF Quantum
  <2>5. \A u \in Thread : pc[u] = "work" => u = t
    BY <2>1, Zenon DEF IndInv, Handover
  <2> QED
    BY <2>1, <2>2, <2>4, <2>5, Zenon DEF Waiting
<1> QED
  BY <1>1, Invariance, PTL

(* The branch of rr_thread that "shouldn't be scheduled" (main.c:93-100)   *)
(* is dead code.                                                           *)
THEOREM NeverGrantedInVain == Spec => []TurnHasWork
<1>1. IndInv => TurnHasWork
  BY Zenon DEF IndInv, Handover, Searched, RR!Runnable, RemBar, TurnHasWork
<1> QED
  BY <1>1, Invariance, PTL

(* The threads implement the sequential round robin. *)
THEOREM Refinement == Spec => ImplementsRoundRobin
BY InitInd, Inductive, Invariance, PTL DEF Spec, RR!Spec, ImplementsRoundRobin

-----------------------------------------------------------------------------
(* The report *)

Done == {t \in Thread : finish[t] # -1}

(* finished counts the threads that have a finish time; each of them has had *)
(* its burst since it arrived, and main leaves its loop when all have.       *)
Accounted ==
  /\ finished = Cardinality(Done)
  /\ main \in {"join", "done"} => finished >= N
  /\ \A t \in Thread :
       /\ RemBar[t] <= bt[t]
       /\ RemBar[t] < bt[t] => now >= at[t] + (bt[t] - RemBar[t])
       /\ finish[t] # -1 => finish[t] - at[t] - bt[t] >= 0
  /\ main = "done" => \A t \in Thread : wt[t] = finish[t] - at[t] - bt[t]

LEMMA RemBarType == ASSUME IndInv PROVE RemBar \in [Thread -> Nat]
<1>1. rem \in [Thread -> Nat] /\ consumed \in Nat
  BY Zenon DEF IndInv, TypeOK
<1>2. CASE slice_done /\ main \in {"await", "sleep", "wake"}
  <2>1. picked \in Thread
    BY <1>2, Zenon DEF IndInv, Handover, Waiting
  <2>2. RemBar = [rem EXCEPT ![picked] = @ + consumed]
    BY <1>2, Zenon DEF RemBar
  <2>3. QED
    BY <1>1, <2>1, <2>2
<1>3. CASE ~(slice_done /\ main \in {"await", "sleep", "wake"})
  BY <1>1, <1>3, Zenon DEF RemBar
<1>4. QED
  BY <1>2, <1>3, Zenon

LEMMA DoneFinite ==
  /\ IsFiniteSet(Thread) /\ Cardinality(Thread) = N
  /\ IsFiniteSet(Done) /\ Cardinality(Done) \in Nat
<1>1. 0 \in Int /\ N - 1 \in Int /\ N \in Nat \ {0}
  BY NAssumption
<1>2. IsFiniteSet(Thread) /\ Cardinality(Thread) = N
  <2>1. /\ IsFiniteSet(0 .. N - 1)
        /\ Cardinality(0 .. N - 1) = IF 0 > N - 1 THEN 0 ELSE (N - 1) - 0 + 1
    BY <1>1, FS_Interval, Zenon
  <2>2. QED
    BY <1>1, <2>1 DEF Thread
<1>3. IsFiniteSet(Done)
  BY <1>2, FS_Subset, Zenon DEF Done
<1>4. QED
  BY <1>2, <1>3, FS_CardinalityType, Zenon

(* When as many threads have finished as there are, all have.                *)
LEMMA AllDone == ASSUME Accounted, finished >= N PROVE Done = Thread
<1>1. Done \subseteq Thread
  BY Zenon DEF Done
<1>2. Cardinality(Done) = Cardinality(Thread)
  <2>1. Cardinality(Done) <= Cardinality(Thread)
    BY <1>1, DoneFinite, FS_Subset, Zenon
  <2>2. Cardinality(Done) >= N /\ Cardinality(Thread) = N /\ Cardinality(Done) \in Nat
    BY DoneFinite, Zenon DEF Accounted
  <2>3. QED
    BY <2>1, <2>2, NAssumption
<1>3. QED
  BY <1>1, <1>2, DoneFinite, FS_Subset, Zenon

(* What a step of the sequential round robin does to the finish times.       *)
LEMMA SoundStep ==
  ASSUME IndInv, Accounted, [RR!Next]_(RR!vars)
  PROVE  \A t \in Thread :
           /\ RemBar'[t] <= bt'[t]
           /\ RemBar'[t] < bt'[t] => now' >= at'[t] + (bt'[t] - RemBar'[t])
           /\ finish'[t] # -1 => finish'[t] - at'[t] - bt'[t] >= 0
<1> DEFINE Sound == \A t \in Thread :
           /\ RemBar'[t] <= bt'[t]
           /\ RemBar'[t] < bt'[t] => now' >= at'[t] + (bt'[t] - RemBar'[t])
           /\ finish'[t] # -1 => finish'[t] - at'[t] - bt'[t] >= 0
<1>1. /\ RemBar \in [Thread -> Nat] /\ at \in [Thread -> Int] /\ bt \in [Thread -> Nat]
      /\ now \in Nat /\ finish \in [Thread -> Nat \cup {-1}] /\ q \in Nat \ {0}
  BY RemBarType, Zenon DEF IndInv, TypeOK
<1>2. \A t \in Thread :
        /\ RemBar[t] <= bt[t]
        /\ RemBar[t] < bt[t] => now >= at[t] + (bt[t] - RemBar[t])
        /\ finish[t] # -1 => finish[t] - at[t] - bt[t] >= 0
  BY Zenon DEF Accounted
<1>3. CASE UNCHANGED RR!vars
  BY <1>2, <1>3, Zenon DEF RR!vars
<1>4. CASE RR!Idle
  <2>1. PICK k \in Thread : RemBar[k] > 0 /\ ~RR!Runnable(k) /\ now' = at[k]
    BY <1>4, Zenon DEF RR!Idle, RR!Process, Thread
  <2>2. now' >= now /\ now' \in Int
    BY <1>1, <2>1 DEF RR!Runnable
  <2>3. UNCHANGED <<at, bt, RemBar, finish>>
    BY <1>4, Zenon DEF RR!Idle
  <2>4. QED
    BY <1>1, <1>2, <2>2, <2>3
<1>5. ASSUME NEW p \in Thread, RR!Slice(p)
      PROVE  Sound
  <2> DEFINE used == IF RemBar[p] < q THEN RemBar[p] ELSE q
  <2>1. RemBar[p] > 0 /\ at[p] <= now
    BY <1>5, Zenon DEF RR!Slice, RR!Runnable
  <2>2. used \in Nat \ {0} /\ used <= RemBar[p]
    BY <1>1, <2>1
  <2>3. /\ RemBar' = [RemBar EXCEPT ![p] = @ - used]
        /\ now' = now + used
        /\ finish' = IF RemBar[p] = used THEN [finish EXCEPT ![p] = now + used] ELSE finish
        /\ at' = at /\ bt' = bt
    BY <1>5, Zenon DEF RR!Slice
  <2> HIDE DEF used
  <2>4. QED
    BY <1>1, <1>2, <2>1, <2>2, <2>3
<1>6. QED
  BY <1>3, <1>4, <1>5, Zenon DEF RR!Next, RR!Process, Thread

(* Only Account, Stop and Report touch what the report is made of.           *)
LEMMA OtherSteps ==
  ASSUME IndInv, [Next]_vars, ~Account, ~Stop, ~Report
  PROVE  /\ UNCHANGED <<finish, finished>>
         /\ main' \in {"join", "done"} => main' = main
         /\ main' = "done" => UNCHANGED <<wt, at, bt>>
<1> USE DEF input, shared, locals, logging
<1>1. CASE \/ CreateLog \/ CreateFails \/ log_worker \/ SpuriousWakeup
  BY <1>1, Zenon DEF CreateLog, CreateFails, log_worker, SpuriousWakeup
<1>2. CASE \/ Begin \/ BeginSearch \/ SearchOn \/ Grant \/ AwaitSlice \/ Resume
           \/ JumpTime
  <2>1. CASE Begin \/ BeginSearch
    BY <2>1, Zenon DEF Begin, BeginSearch
  <2>2. CASE SearchOn \/ Grant
    BY <2>2, Zenon DEF SearchOn, Grant
  <2>3. CASE AwaitSlice \/ Resume
    BY <2>3, Zenon DEF AwaitSlice, Resume
  <2>4. CASE JumpTime
    BY <2>4, Zenon DEF JumpTime
  <2>5. QED
    BY <1>2, <2>1, <2>2, <2>3, <2>4, Zenon
<1>3. ASSUME NEW t \in Thread, CreateWorker(t) \/ rr_thread(t)
      PROVE  /\ UNCHANGED <<finish, finished>>
             /\ main' \in {"join", "done"} => main' = main
             /\ main' = "done" => UNCHANGED <<wt, at, bt>>
  <2>1. CASE CreateWorker(t)
    BY <2>1, Zenon DEF CreateWorker
  <2>2. CASE Lock(t) \/ Start(t) \/ AwaitTurn(t) \/ End(t)
    BY <2>2, Zenon DEF Lock, Start, AwaitTurn, End
  <2>3. CASE BeginWork(t)
    BY <2>3, Zenon DEF BeginWork, Signal
  <2>4. CASE EndWork(t)
    BY <2>4, Zenon DEF EndWork, Signal
  <2>5. QED
    BY <1>3, <2>1, <2>2, <2>3, <2>4, Zenon DEF rr_thread
<1>4. CASE Terminated \/ UNCHANGED vars
  BY <1>4, Zenon DEF Terminated, vars
<1>5. QED
  BY <1>1, <1>2, <1>3, <1>4, Zenon DEF Next, Create, Scheduler

LEMMA AccountedStep ==
  ASSUME IndInv, Accounted, [Next]_vars
  PROVE  Accounted'
<1>1. \A t \in Thread :
        /\ RemBar'[t] <= bt'[t]
        /\ RemBar'[t] < bt'[t] => now' >= at'[t] + (bt'[t] - RemBar'[t])
        /\ finish'[t] # -1 => finish'[t] - at'[t] - bt'[t] >= 0
  BY Inductive, SoundStep, Zenon
<1>2. CASE Account
  <2>1. main' = "while" /\ picked \in Thread /\ finish \in [Thread -> Nat \cup {-1}]
    BY <1>2, Zenon DEF Account, IndInv, TypeOK, Handover, Waiting
  <2>2. finished' = Cardinality(Done')
    <3>1. CASE rem[picked] = 0 /\ finish[picked] = -1
      <4>1. /\ finish' = [finish EXCEPT ![picked] = now'] /\ finished' = finished + 1
            /\ now' \in Nat
        BY <1>2, <3>1 DEF Account, IndInv, TypeOK
      <4>2. Done' = Done \cup {picked} /\ picked \notin Done
        BY <2>1, <3>1, <4>1 DEF Done
      <4>3. Cardinality(Done \cup {picked}) = Cardinality(Done) + 1
        BY <4>2, DoneFinite, FS_AddElement, Zenon
      <4>4. QED
        BY <4>1, <4>2, <4>3, Zenon DEF Accounted
    <3>2. CASE ~(rem[picked] = 0 /\ finish[picked] = -1)
      <4>1. UNCHANGED <<finish, finished>>
        BY <1>2, <3>2, Zenon DEF Account
      <4>2. QED
        BY <4>1, Zenon DEF Done, Accounted
    <3>3. QED
      BY <3>1, <3>2, Zenon
  <2>3. QED
    BY <1>1, <2>1, <2>2, Zenon DEF Accounted
<1>3. CASE Stop
  <2>1. main' = "join" /\ UNCHANGED <<finish, finished>> /\ finished >= N
    BY <1>3, Zenon DEF Stop, locals
  <2>2. QED
    BY <1>1, <2>1, Zenon DEF Accounted, Done
<1>4. CASE Report
  <2>1. /\ main = "join" /\ main' = "done" /\ UNCHANGED <<finish, finished, at, bt>>
        /\ wt' = [t \in Thread |-> LET w == finish[t] - at[t] - bt[t]
                                   IN  IF w < 0 THEN 0 ELSE w]
    BY <1>4, Zenon DEF Report, shared, locals, input
  <2>2. Done = Thread
    BY <2>1, AllDone, Zenon DEF Accounted
  <2>3. \A t \in Thread : finish[t] - at[t] - bt[t] >= 0 /\ finish[t] - at[t] - bt[t] \in Int
    BY <2>2 DEF Accounted, Done, IndInv, TypeOK
  <2>4. \A t \in Thread : wt'[t] = finish'[t] - at'[t] - bt'[t]
    BY <2>1, <2>3
  <2>5. QED
    BY <1>1, <2>1, <2>4, Zenon DEF Accounted, Done
<1>5. CASE ~Account /\ ~Stop /\ ~Report
  <2>1. /\ UNCHANGED <<finish, finished>>
        /\ main' \in {"join", "done"} => main' = main
        /\ main' = "done" => UNCHANGED <<wt, at, bt>>
    BY <1>5, OtherSteps, Zenon
  <2>2. Done' = Done
    BY <2>1, Zenon DEF Done
  <2>3. QED
    BY <1>1, <2>1, <2>2, Zenon DEF Accounted
<1>6. QED
  BY <1>2, <1>3, <1>4, <1>5, Zenon

(* The waiting times main reports are exact: every thread has finished when  *)
(* the report is written, and the clamp of main.c:262 never changes a value. *)
THEOREM ReportIsExact == Spec => []ReportExact
<1>1. Init => Accounted
  <2> SUFFICES ASSUME Init PROVE Accounted
    BY Zenon
  <2>1. Done = {} /\ finished = 0 /\ main = "create" /\ RemBar = bt
    BY Zenon DEF Init, Done, RemBar
  <2>2. bt \in [Thread -> Nat]
    BY BurstsAssumption, Zenon DEF Init
  <2>3. \A t \in Thread : finish[t] = -1
    BY Zenon DEF Init
  <2>4. QED
    BY <2>1, <2>2, <2>3, FS_EmptySet DEF Accounted
<1>2. IndInv /\ Accounted /\ [Next]_vars => Accounted'
  BY AccountedStep, Zenon
<1>3. Accounted => ReportExact
  <2> SUFFICES ASSUME Accounted, main = "done", NEW t \in Thread
               PROVE  finish[t] # -1 /\ wt[t] = finish[t] - at[t] - bt[t]
    BY Zenon DEF ReportExact
  <2>1. Done = Thread
    BY AllDone, Zenon DEF Accounted
  <2>2. QED
    BY <2>1, Zenon DEF Done, Accounted
<1>4. QED
  BY <1>1, <1>2, <1>3, Invariance, PTL DEF Spec

-----------------------------------------------------------------------------
(* The event loop *)

CONSTANTS Threads, Lag, Commands, MaxSent, MAX_LEVEL, MAX_ADD_INK, Levels, MIN_SLEEP_TIME,
  SleepTime, InklingSleep, MaxDepth, MainSleep
VARIABLES thread, wake, late, rows, allocated, numLiveThreads, recursiveDepth, numPipesOpen,
  pipe_fd, opens, pipe, sent, command, applied, level, producerSleepTime, inklingSleepTime,
  process
L == INSTANCE EventLoop WITH pc <- thread

(* Where a thread of myEventLoop is before it arms its timer, and after it   *)
(* has slept.                                                                *)
Ahead == {"frontend", "application", "draw", "guard", "arm"}
Behind == {"open", "count", "read", "key", "refill"}

LoopType ==
  /\ thread \in [Threads -> {"none", "leave", "access", "return"} \cup Ahead \cup Behind]
  /\ wake \in [Threads -> Nat] /\ late \in [Threads -> Nat]
  /\ \A t \in Threads :
       /\ late[t] <= Lag
       /\ wake[t] # 0 => thread[t] \in {"none", "draw", "access", "return"}
       /\ thread[t] \in {"draw", "access"} => wake[t] <= 1

Leaving == {t \in Threads : thread[t] = "leave"}
Arming == {t \in Threads : thread[t] \in {"arm", "leave"}}

(* One thread is ahead.  Those that have armed a timer and not yet left do   *)
(* not share their lateness, because each timer takes a second, and a thread *)
(* ahead that is awake is less late than each of them.                       *)
OneAhead(u) ==
  /\ u \in Threads /\ thread[u] \in Ahead
  /\ \A t \in Threads : thread[t] \in Ahead => t = u
  /\ wake[u] = 0 => \A t \in Leaving : late[u] < late[t]

Spaced == \A s, t \in Leaving : late[s] = late[t] => s = t

Chain ==
  process = "running" =>
    /\ \E u \in Threads : OneAhead(u)
    /\ Spaced /\ recursiveDepth = Cardinality(Arming)

ChainInv == LoopType /\ Chain

(* The grid is there from initializeApplication on. *)
GridInv ==
  /\ L!GridFreedOnce
  /\ numLiveThreads = 0 => rows = 0
  /\ process = "running" =>
       IF thread[0] \in {"frontend", "application"}
       THEN allocated = "no" /\ \A t \in Threads \ {0} : thread[t] = "none"
       ELSE allocated = "yes"

(* With no lag the threads that have slept come to the pipe one by one.      *)
Working(t) == thread[t] \in Behind \/ (thread[t] = "access" /\ wake[t] = 0)
Pending(t) == thread[t] = "leave" \/ (thread[t] = "access" /\ wake[t] # 0)

Alone ==
  /\ \A s, t \in Threads : Working(s) /\ Working(t) => s = t
  /\ \A s, t \in Threads : Pending(s) /\ Pending(t) => s = t
  /\ \A s, t \in Threads : Pending(s) /\ thread[t] \in Ahead => wake[t] # 0

Keys == {t \in Threads : thread[t] = "key"}

PipeInv ==
  /\ numPipesOpen \in Nat /\ opens \in 0 .. 1 /\ pipe \in Nat /\ applied \in Nat /\ sent \in Nat
  /\ DOMAIN command = Threads
  /\ \A t \in Threads :
       /\ thread[t] = "open" => opens = 0 /\ numPipesOpen = 0
       /\ thread[t] = "key" => command[t] # "none"
  /\ opens = 1 /\ numPipesOpen = 0 => \E t \in Threads : thread[t] = "count"
  /\ sent = pipe + applied + (IF Keys = {} THEN 0 ELSE 1)

TankInv ==
  /\ level \in [L!Tanks -> 0 .. MAX_LEVEL]
  /\ \A t \in Threads : thread[t] = "refill" =>
       command[t] \in L!Tanks /\ level[command[t]] + MAX_ADD_INK <= MAX_LEVEL

ApartInv == ChainInv /\ Alone /\ PipeInv /\ TankInv

(* A thread that is awake goes on, and perhaps to sleep.                     *)
Moved(t, from, to, w) ==
  /\ process = "running" /\ thread[t] = from /\ wake[t] = 0
  /\ thread' = [thread EXCEPT ![t] = to]
  /\ wake' = [wake EXCEPT ![t] = w]
  /\ late' = [late EXCEPT ![t] = IF to = "none" THEN 0 ELSE @]

LEMMA NotSlept ==
  ASSUME LoopType, NEW t \in Threads, wake[t] = 0, wake' = wake
  PROVE  wake' = [wake EXCEPT ![t] = 0]
<1>1. wake \in [Threads -> Nat]
  BY Zenon DEF LoopType
<1> QED
  BY <1>1

After == Behind \cup {"none", "return"}

(* Whatever else it does, a step moves a thread in one of these ways.        *)
LEMMA LoopSteps ==
  ASSUME L!ConstantsOK, LoopType, [L!Next]_L!vars
  PROVE  \/ \E t \in Threads, from, to \in Ahead :
              /\ Moved(t, from, to, 0) /\ from # "arm" /\ to # "arm"
              /\ UNCHANGED recursiveDepth
         \/ \E t \in Threads : L!Guard(t)
         \/ \E t \in Threads : L!customTimerFunc(t)
         \/ \E t \in Threads :
              /\ Moved(t, "leave", "access", 1) /\ recursiveDepth' = recursiveDepth - 1
              /\ UNCHANGED process
         \/ \E t \in Threads, from \in Behind \cup {"access"}, to \in After, w \in Nat :
              /\ Moved(t, from, to, w) /\ (w # 0 => to = "return")
              /\ UNCHANGED recursiveDepth
         \/ Moved(0, "return", "none", 0) /\ process' = "exited"
         \/ L!Tick
         \/ UNCHANGED <<thread, wake, late, recursiveDepth, process>>
<1> USE DEF After, Ahead, Behind
<1>0. 0 \in Threads /\ 0 \in Nat /\ MainSleep \in Nat
  BY Zenon DEF L!ConstantsOK
<1>1. CASE L!initializeFrontEnd
  <2>1. Moved(0, "frontend", "application", 0) /\ UNCHANGED recursiveDepth
    BY <1>0, <1>1, NotSlept, Zenon DEF L!initializeFrontEnd, L!Go, Moved
  <2> QED
    BY <1>0, <2>1, Zenon
<1>2. CASE L!initializeApplication
  <2>1. Moved(0, "application", "draw", 0) /\ UNCHANGED recursiveDepth
    BY <1>0, <1>2, NotSlept, Zenon DEF L!initializeApplication, L!Go, Moved
  <2> QED
    BY <1>0, <2>1, Zenon
<1>3. CASE L!Return
  BY <1>0, <1>3, NotSlept, Zenon DEF L!Return, L!Go, Moved
<1>4. CASE L!Send \/ UNCHANGED L!vars
  BY <1>4, Zenon DEF L!Send, L!vars
<1>5. ASSUME NEW t \in Threads, L!Draw(t)
      PROVE  Moved(t, "draw", "guard", 0) /\ UNCHANGED recursiveDepth
  BY <1>5, NotSlept, Zenon DEF L!Draw, L!Go, Moved
<1>6. ASSUME NEW t \in Threads, L!Leave(t)
      PROVE  /\ Moved(t, "leave", "access", 1) /\ recursiveDepth' = recursiveDepth - 1
             /\ UNCHANGED process
  BY <1>6, Zenon DEF L!Leave, L!Go, Moved
<1>7. ASSUME NEW t \in Threads, NEW from, NEW to, L!Go(t, from, to),
             \/ wake' = [wake EXCEPT ![t] = IF t = 0 THEN MainSleep ELSE 0] /\ to = (IF t = 0 THEN "return" ELSE "none")
             \/ UNCHANGED wake
      PROVE  \E w \in Nat : Moved(t, from, to, w) /\ (w # 0 => to = "return")
  <2>1. CASE UNCHANGED wake
    BY <1>0, <1>7, <2>1, NotSlept, Zenon DEF L!Go, Moved
  <2>2. CASE t = 0 /\ to = "return" /\ wake' = [wake EXCEPT ![t] = MainSleep]
    BY <1>0, <1>7, <2>2, Zenon DEF L!Go, Moved
  <2>3. CASE t # 0 /\ wake' = [wake EXCEPT ![t] = 0]
    BY <1>0, <1>7, <2>3, Zenon DEF L!Go, Moved
  <2> QED
    BY <1>7, <2>1, <2>2, <2>3, Zenon
<1> DEFINE Works(t) == \E from \in Behind \cup {"access"}, to \in After, w \in Nat :
                         /\ Moved(t, from, to, w) /\ (w # 0 => to = "return")
                         /\ UNCHANGED recursiveDepth
<1>8. ASSUME NEW t \in Threads, L!Access(t) \/ L!OpenPipe(t) \/ L!CountPipe(t) \/ L!ReadPipe(t)
      PROVE  Works(t)
  <2>1. /\ UNCHANGED recursiveDepth
        /\ \E from \in Behind \cup {"access"}, to \in After :
             /\ L!Go(t, from, to)
             /\ \/ wake' = [wake EXCEPT ![t] = IF t = 0 THEN MainSleep ELSE 0]
                     /\ to = (IF t = 0 THEN "return" ELSE "none")
                \/ UNCHANGED wake
    BY <1>8, Zenon DEF L!Access, L!OpenPipe, L!CountPipe, L!ReadPipe, L!Finish
  <2> QED
    BY <1>7, <2>1, Zenon
<1>9. ASSUME NEW t \in Threads, L!RefillTest(t) \/ L!RefillAdd(t) \/ L!ChangeSpeed(t)
                                \/ L!ChangePace(t) \/ L!Escape(t) \/ L!OtherKey(t)
      PROVE  Works(t)
  <2>1. /\ UNCHANGED recursiveDepth
        /\ \E from \in Behind \cup {"access"}, to \in After :
             /\ L!Go(t, from, to)
             /\ \/ wake' = [wake EXCEPT ![t] = IF t = 0 THEN MainSleep ELSE 0]
                     /\ to = (IF t = 0 THEN "return" ELSE "none")
                \/ UNCHANGED wake
    BY <1>9, Zenon DEF L!RefillTest, L!RefillAdd, L!ChangeSpeed, L!ChangePace, L!Escape, L!OtherKey,
      L!Take, L!Finish, L!KeyDone, L!AfterKey
  <2> QED
    BY <1>7, <2>1, Zenon
<1>10. ASSUME NEW t \in Threads, L!Draw(t)
       PROVE \E u \in Threads, from, to \in Ahead :
              /\ Moved(u, from, to, 0) /\ from # "arm" /\ to # "arm"
              /\ UNCHANGED recursiveDepth
  BY <1>10, <1>5, Zenon
<1> HIDE DEF Works
<1> QED
  BY <1>1, <1>2, <1>3, <1>4, <1>6, <1>8, <1>9, <1>10, Zenon DEF L!Next, Works

LEMMA MovedAt ==
  ASSUME LoopType, NEW t \in Threads, NEW from, NEW to, NEW w, Moved(t, from, to, w)
  PROVE  /\ thread'[t] = to /\ wake'[t] = w
         /\ late'[t] = 0 \/ late'[t] = late[t]
         /\ to # "none" => late'[t] = late[t]
         /\ \A s \in Threads : s # t =>
              thread'[s] = thread[s] /\ wake'[s] = wake[s] /\ late'[s] = late[s]
<1>1. DOMAIN thread = Threads /\ DOMAIN wake = Threads /\ DOMAIN late = Threads
  BY Zenon DEF LoopType
<1> QED
  BY <1>1, Zenon DEF Moved

LEMMA MovedType ==
  ASSUME L!ConstantsOK, LoopType, NEW t \in Threads, NEW from, NEW w \in Nat,
         NEW to \in {"none", "leave", "access", "return"} \cup Ahead \cup Behind,
         Moved(t, from, to, w),
         w # 0 => to \in {"none", "draw", "access", "return"},
         to \in {"draw", "access"} => w <= 1
  PROVE  LoopType'
<1>1. /\ thread' \in [Threads -> {"none", "leave", "access", "return"} \cup Ahead \cup Behind]
      /\ wake' \in [Threads -> Nat]
  BY Zenon DEF LoopType, Moved
<1>2. late' \in [Threads -> Nat] /\ 0 \in Nat /\ 0 <= Lag
  <2>1. 0 \in Nat /\ 0 <= Lag
    BY DEF L!ConstantsOK
  <2> QED
    BY <2>1, Zenon DEF LoopType, Moved
<1>3. ASSUME NEW s \in Threads
      PROVE  /\ late'[s] <= Lag
             /\ wake'[s] # 0 => thread'[s] \in {"none", "draw", "access", "return"}
             /\ thread'[s] \in {"draw", "access"} => wake'[s] <= 1
  <2>1. CASE s = t
    <3>1. thread'[t] = to /\ wake'[t] = w /\ (late'[t] = 0 \/ late'[t] = late[t])
      BY MovedAt, SMT
    <3>2. late[t] <= Lag
      BY Zenon DEF LoopType
    <3> QED
      BY <1>2, <2>1, <3>1, <3>2, Zenon
  <2>2. CASE s # t
    BY <2>2, MovedAt, Zenon DEF LoopType
  <2> QED
    BY <2>1, <2>2, Zenon
<1> QED
  BY <1>1, <1>2, <1>3, Zenon DEF LoopType

LEMMA ThreadsFinite ==
  ASSUME L!ConstantsOK
  PROVE  \A T \in SUBSET Threads : IsFiniteSet(T) /\ Cardinality(T) \in Nat
<1>1. IsFiniteSet(Threads)
  BY Zenon DEF L!ConstantsOK, L!IsFiniteSet, IsFiniteSet
<1> QED
  BY <1>1, FS_Subset, FS_CardinalityType, Zenon

(* At most Lag threads have armed their timers and not left when the next    *)
(* one comes to the guard, so it is let through.                             *)
LEMMA GuardPasses ==
  ASSUME L!ConstantsOK, ChainInv, NEW t \in Threads, L!Guard(t)
  PROVE  /\ Moved(t, "guard", "arm", 0) /\ recursiveDepth' = recursiveDepth + 1
         /\ UNCHANGED process
<1>1. thread[t] = "guard" /\ wake[t] = 0 /\ process = "running"
  BY Zenon DEF L!Guard, L!Finish, L!Go
<1>2. /\ late \in [Threads -> Nat] /\ Lag \in Nat /\ MaxDepth \in Nat /\ Lag < MaxDepth
      /\ \A s \in Threads : late[s] <= Lag
  BY Zenon DEF ChainInv, LoopType, L!ConstantsOK
<1>3. /\ \A s \in Threads : thread[s] \in Ahead => s = t
      /\ \A s \in Leaving : late[t] < late[s]
  BY <1>1, Zenon DEF ChainInv, Chain, OneAhead, Ahead
<1>4. Spaced /\ recursiveDepth = Cardinality(Arming)
  BY <1>1, Zenon DEF ChainInv, Chain
<1>5. Arming = Leaving
  BY <1>1, <1>3, Zenon DEF Arming, Leaving, Ahead
<1>6. \A s \in Leaving : late[s] \in 1 .. Lag
  <2> SUFFICES ASSUME NEW s \in Leaving PROVE late[s] \in 1 .. Lag
    BY Zenon
  <2>1. s \in Threads /\ late[t] < late[s]
    BY <1>3, Zenon DEF Leaving
  <2>2. late[s] \in Nat /\ late[t] \in Nat /\ late[s] <= Lag
    BY <1>2, <2>1, Zenon
  <2> QED
    BY <1>2, <2>1, <2>2
<1>7. Cardinality(Leaving) <= Lag
  <2> DEFINE f == [s \in Leaving |-> late[s]]
  <2>1. f \in [Leaving -> 1 .. Lag] /\ \A s \in Leaving : f[s] = late[s]
    BY <1>6, Zenon
  <2> HIDE DEF f
  <2>2. IsFiniteSet(1 .. Lag) /\ Cardinality(1 .. Lag) = Lag
    <3>1. 1 \in Int /\ Lag \in Int
      BY <1>2
    <3>2. Cardinality(1 .. Lag) = IF 1 > Lag THEN 0 ELSE Lag - 1 + 1
      BY <3>1, FS_Interval, Zenon
    <3>3. IsFiniteSet(1 .. Lag)
      BY <3>1, FS_Interval, Zenon
    <3> QED
      BY <1>2, <3>2, <3>3
  <2>3. IsFiniteSet(Leaving) /\ Cardinality(Leaving) \in Nat
    BY ThreadsFinite, Zenon DEF Leaving
  <2>4. ~(Cardinality(1 .. Lag) < Cardinality(Leaving))
    <3> SUFFICES ASSUME Cardinality(1 .. Lag) < Cardinality(Leaving) PROVE FALSE
      BY Zenon
    <3> DEFINE T == 1 .. Lag
    <3>0. IsFiniteSet(T) /\ f \in [Leaving -> T] /\ Cardinality(T) < Cardinality(Leaving)
      BY <2>1, <2>2, Zenon
    <3> HIDE DEF T
    <3>1. \E x, y \in Leaving : x # y /\ f[x] = f[y]
      BY <3>0, <2>3, FS_PigeonHole, Zenon
    <3> QED
      BY <1>4, <2>1, <3>1, Zenon DEF Spaced
  <2> QED
    BY <1>2, <2>2, <2>3, <2>4
<1>8. ~(recursiveDepth >= MaxDepth)
  <2>1. Cardinality(Leaving) \in Nat
    BY ThreadsFinite, Zenon DEF Leaving
  <2>2. recursiveDepth = Cardinality(Leaving)
    BY <1>4, <1>5, Zenon
  <2> QED
    BY <1>2, <1>7, <2>1, <2>2
<1>9. LoopType
  BY Zenon DEF ChainInv
<1> QED
  BY <1>1, <1>8, <1>9, NotSlept, Zenon DEF L!Guard, L!Go, Moved


(* A step of a thread that neither comes to nor goes from "leave", and does  *)
(* not join or quit those ahead, keeps the thread that is ahead.             *)
LEMMA AheadKept ==
  ASSUME LoopType, NEW t \in Threads, NEW from, NEW to, NEW w, Moved(t, from, to, w),
         from # "leave", to # "leave", from \in Ahead <=> to \in Ahead,
         to \in Ahead => w = 0, NEW u \in Threads, OneAhead(u), Spaced
  PROVE  OneAhead(u)' /\ Spaced' /\ Leaving' = Leaving
<1>1. /\ thread'[t] = to /\ wake'[t] = w /\ (to # "none" => late'[t] = late[t])
      /\ \A s \in Threads : s # t =>
           thread'[s] = thread[s] /\ wake'[s] = wake[s] /\ late'[s] = late[s]
  BY MovedAt, SMT
<1>2. thread[t] = from /\ wake[t] = 0
  BY Zenon DEF Moved
<1>3. Leaving' = Leaving
  BY <1>1, <1>2, Zenon DEF Leaving
<1>4. \A s \in Leaving : s \in Threads /\ late'[s] = late[s]
  BY <1>1, <1>2, Zenon DEF Leaving
<1>5. \A s \in Threads : thread'[s] \in Ahead <=> thread[s] \in Ahead
  BY <1>1, <1>2, Zenon
<1>6. late'[u] = late[u] /\ wake'[u] = wake[u]
  <2>1. CASE u # t
    BY <1>1, <2>1, Zenon
  <2>2. CASE u = t
    <3>1. to \in Ahead /\ to # "none"
      BY <1>2, <2>2, Zenon DEF OneAhead, Ahead
    <3> QED
      BY <1>1, <1>2, <2>2, <3>1, Zenon
  <2> QED
    BY <2>1, <2>2, Zenon
<1>7. Spaced'
  <2>1. \A r, s \in Leaving : late[r] = late[s] => r = s
    BY Zenon DEF Spaced
  <2>2. \A r, s \in Leaving : late'[r] = late'[s] => r = s
    BY <1>4, <2>1, Zenon
  <2> QED
    BY <1>3, <2>2, Zenon DEF Spaced
<1>8. OneAhead(u)'
  <2>1. /\ thread[u] \in Ahead /\ \A s \in Threads : thread[s] \in Ahead => s = u
        /\ wake[u] = 0 => \A s \in Leaving : late[u] < late[s]
    BY Zenon DEF OneAhead
  <2>2. /\ thread'[u] \in Ahead /\ \A s \in Threads : thread'[s] \in Ahead => s = u
    BY <1>5, <2>1, Zenon
  <2>3. wake'[u] = 0 => \A s \in Leaving' : late'[u] < late'[s]
    BY <1>3, <1>4, <1>6, <2>1, Zenon
  <2> QED
    BY <2>2, <2>3, Zenon DEF OneAhead, Ahead
<1> QED
  BY <1>3, <1>7, <1>8, Zenon


(* A timer is armed: its thread is the one ahead, asleep, and the thread that *)
(* armed it is earlier than those that have still to leave.                   *)
LEMMA TimerStep ==
  ASSUME L!ConstantsOK, ChainInv, NEW t \in Threads, L!customTimerFunc(t)
  PROVE  ChainInv'
<1>1. PICK new \in Threads :
        /\ thread[new] = "none"
        /\ thread' = [thread EXCEPT ![t] = "leave", ![new] = "draw"]
        /\ wake' = [wake EXCEPT ![new] = 1]
  BY Zenon DEF L!customTimerFunc
<1>2. /\ process = "running" /\ process' = "running" /\ thread[t] = "arm"
      /\ late' = late /\ recursiveDepth' = recursiveDepth
  BY Zenon DEF L!customTimerFunc
<1>3. LoopType
  BY Zenon DEF ChainInv
<1>4. /\ thread \in [Threads -> {"none", "leave", "access", "return"} \cup Ahead \cup Behind]
      /\ wake \in [Threads -> Nat] /\ late \in [Threads -> Nat]
  BY <1>3, Zenon DEF LoopType
<1>5. wake[t] = 0
  BY <1>2, <1>3, Zenon DEF LoopType
<1>6. t # new
  BY <1>1, <1>2, Zenon
<1>7. /\ thread'[t] = "leave" /\ wake'[t] = 0
      /\ thread'[new] = "draw" /\ wake'[new] = 1
      /\ \A s \in Threads : s # t /\ s # new => thread'[s] = thread[s] /\ wake'[s] = wake[s]
  <2>1. DOMAIN thread = Threads /\ DOMAIN wake = Threads
    BY <1>4, Zenon
  <2> QED
    BY <1>1, <1>5, <1>6, <2>1
<1>8. LoopType'
  <2>1. /\ thread' \in [Threads -> {"none", "leave", "access", "return"} \cup Ahead \cup Behind]
        /\ wake' \in [Threads -> Nat]
    <3>1. "draw" \in Ahead /\ 1 \in Nat
      BY DEF Ahead
    <3> QED
      BY <1>1, <1>4, <3>1
  <2>2. \A s \in Threads :
          /\ late'[s] <= Lag
          /\ wake'[s] # 0 => thread'[s] \in {"none", "draw", "access", "return"}
          /\ thread'[s] \in {"draw", "access"} => wake'[s] <= 1
    <3> SUFFICES ASSUME NEW s \in Threads
                 PROVE  /\ late'[s] <= Lag
                        /\ wake'[s] # 0 => thread'[s] \in {"none", "draw", "access", "return"}
                        /\ thread'[s] \in {"draw", "access"} => wake'[s] <= 1
      BY Zenon
    <3>1. late'[s] <= Lag
      BY <1>2, <1>3, Zenon DEF LoopType
    <3>2. CASE s = t \/ s = new
      <4>1. 1 <= 1
        OBVIOUS
      <4> QED
        BY <1>7, <3>1, <3>2, <4>1, Zenon
    <3>3. CASE s # t /\ s # new
      BY <1>3, <1>7, <3>1, <3>3, Zenon DEF LoopType
    <3> QED
      BY <3>2, <3>3, Zenon
  <2> QED
    BY <1>2, <1>4, <2>1, <2>2, Zenon DEF LoopType
<1>9. /\ \A s \in Threads : thread[s] \in Ahead => s = t
      /\ \A s \in Leaving : late[t] < late[s]
      /\ Spaced /\ recursiveDepth = Cardinality(Arming)
  BY <1>2, <1>5, Zenon DEF ChainInv, Chain, OneAhead, Ahead
<1>10. Leaving' = Leaving \cup {t} /\ Arming' = Arming
  <2>1. Leaving' = Leaving \cup {t}
    BY <1>1, <1>7, Zenon DEF Leaving
  <2>2. Arming' = Arming
    BY <1>1, <1>2, <1>7, Zenon DEF Arming
  <2> QED
    BY <2>1, <2>2, Zenon
<1>11. Spaced'
  <2>1. \A s \in Leaving : late[t] # late[s]
    <3> SUFFICES ASSUME NEW s \in Leaving PROVE late[t] # late[s]
      BY Zenon
    <3>1. late[t] \in Nat /\ late[s] \in Nat /\ late[t] < late[s]
      BY <1>4, <1>9, Zenon DEF Leaving
    <3> QED
      BY <3>1
  <2>2. \A r, s \in Leaving : late[r] = late[s] => r = s
    BY <1>9, Zenon DEF Spaced
  <2>3. \A r, s \in Leaving' : late[r] = late[s] => r = s
    BY <1>10, <2>1, <2>2, Zenon
  <2> QED
    BY <1>2, <2>3, Zenon DEF Spaced
<1>12. OneAhead(new)'
  <2>1. wake'[new] # 0
    BY <1>7
  <2> QED
    BY <1>7, <1>9, <2>1, Zenon DEF OneAhead, Ahead
<1> QED
  BY <1>2, <1>8, <1>9, <1>10, <1>11, <1>12, Zenon DEF ChainInv, Chain


(* A second passes: the threads that are awake fall behind together.         *)
LEMMA TickStep ==
  ASSUME L!ConstantsOK, ChainInv, L!Tick
  PROVE  ChainInv'
<1>1. /\ process = "running" /\ process' = "running"
      /\ thread' = thread /\ recursiveDepth' = recursiveDepth
  BY Zenon DEF L!Tick
<1>2. LoopType
  BY Zenon DEF ChainInv
<1>3. /\ thread \in [Threads -> {"none", "leave", "access", "return"} \cup Ahead \cup Behind]
      /\ wake \in [Threads -> Nat] /\ late \in [Threads -> Nat] /\ Lag \in Nat
  BY <1>2, Zenon DEF LoopType, L!ConstantsOK
<1>4. /\ wake' = [s \in Threads |-> IF wake[s] > 0 THEN wake[s] - 1 ELSE 0]
      /\ late' = [s \in Threads |-> IF thread[s] # "none" /\ wake[s] = 0 THEN late[s] + 1 ELSE 0]
      /\ \A s \in Threads : thread[s] # "none" /\ wake[s] = 0 => late[s] < Lag
  BY Zenon DEF L!Tick, L!Awake
<1>5. ASSUME NEW s \in Threads
      PROVE  /\ wake'[s] = IF wake[s] > 0 THEN wake[s] - 1 ELSE 0
             /\ late'[s] = IF thread[s] # "none" /\ wake[s] = 0 THEN late[s] + 1 ELSE 0
  BY <1>4, Zenon
<1>6. ASSUME NEW s \in Threads
      PROVE  /\ wake'[s] \in Nat /\ wake'[s] <= wake[s] /\ late'[s] \in Nat /\ late'[s] <= Lag
             /\ wake[s] = 0 => wake'[s] = 0
             /\ wake[s] <= 1 => wake'[s] <= 1
             /\ thread[s] # "none" /\ wake[s] = 0 => late'[s] = late[s] + 1
             /\ wake[s] # 0 => late'[s] = 0
  <2>1. wake[s] \in Nat /\ late[s] \in Nat
    BY <1>3, Zenon
  <2>2. /\ wake'[s] \in Nat /\ wake'[s] <= wake[s] /\ (wake[s] = 0 => wake'[s] = 0)
        /\ wake[s] <= 1 => wake'[s] <= 1
    BY <1>5, <2>1
  <2>3. CASE thread[s] # "none" /\ wake[s] = 0
    <3>1. late'[s] = late[s] + 1 /\ late[s] < Lag
      BY <1>4, <1>5, <2>3, Zenon
    <3>2. late'[s] \in Nat /\ late'[s] <= Lag
      BY <1>3, <2>1, <3>1
    <3> QED
      BY <2>2, <2>3, <3>1, <3>2, Zenon
  <2>4. CASE ~(thread[s] # "none" /\ wake[s] = 0)
    <3>1. late'[s] = 0
      BY <1>5, <2>4, Zenon
    <3>2. late'[s] \in Nat /\ late'[s] <= Lag
      BY <1>3, <3>1
    <3> QED
      BY <2>2, <2>4, <3>1, <3>2, Zenon
  <2> QED
    BY <2>3, <2>4, Zenon
<1>7. LoopType'
  <2>1. /\ thread' \in [Threads -> {"none", "leave", "access", "return"} \cup Ahead \cup Behind]
        /\ wake' \in [Threads -> Nat] /\ late' \in [Threads -> Nat]
    <3>1. \A s \in Threads : wake'[s] \in Nat /\ late'[s] \in Nat
      BY <1>6, Zenon
    <3>2. wake' = [s \in Threads |-> wake'[s]] /\ late' = [s \in Threads |-> late'[s]]
      BY <1>4, Zenon
    <3> QED
      BY <1>1, <1>3, <3>1, <3>2, Zenon
  <2> QED
    BY <1>1, <1>2, <1>6, <2>1, Zenon DEF LoopType
<1>8. Leaving' = Leaving /\ Arming' = Arming
  BY <1>1, Zenon DEF Leaving, Arming
<1>9. ASSUME NEW s \in Leaving
      PROVE  s \in Threads /\ late[s] \in Nat /\ late'[s] = late[s] + 1
  <2>1. s \in Threads /\ thread[s] = "leave"
    BY Zenon DEF Leaving
  <2>2. wake[s] = 0
    BY <1>2, <2>1, Zenon DEF LoopType
  <2> QED
    BY <1>3, <1>6, <2>1, <2>2, Zenon
<1>10. Spaced'
  <2>1. Spaced
    BY <1>1, Zenon DEF ChainInv, Chain
  <2>2. ASSUME NEW r \in Leaving, NEW s \in Leaving, late'[r] = late'[s] PROVE r = s
    <3>1. late[r] = late[s]
      BY <1>9, <2>2
    <3> QED
      BY <2>1, <3>1, Zenon DEF Spaced
  <2> QED
    BY <1>8, <2>2, Zenon DEF Spaced
<1>11. PICK u \in Threads : OneAhead(u)
  BY <1>1, Zenon DEF ChainInv, Chain
<1>12. OneAhead(u)'
  <2>1. ASSUME wake'[u] = 0, NEW s \in Leaving PROVE late'[u] < late'[s]
    <3>1. CASE wake[u] = 0
      <4>1. late'[u] = late[u] + 1 /\ late[u] < late[s]
        BY <1>6, <1>11, <3>1, Zenon DEF OneAhead, Ahead
      <4> QED
        BY <1>3, <1>9, <4>1
    <3>2. CASE wake[u] # 0
      <4>1. late'[u] = 0
        BY <1>6, <3>2, Zenon
      <4> QED
        BY <1>9, <4>1
    <3> QED
      BY <3>1, <3>2, Zenon
  <2> QED
    BY <1>1, <1>8, <1>11, <2>1, Zenon DEF OneAhead
<1> QED
  BY <1>1, <1>7, <1>8, <1>10, <1>12, Zenon DEF ChainInv, Chain


LEMMA ChainStep ==
  ASSUME L!ConstantsOK, ChainInv, [L!Next]_L!vars
  PROVE  ChainInv'
<1>0. LoopType /\ 0 \in Threads /\ 0 \in Nat /\ 1 \in Nat /\ 0 <= 1 /\ 1 <= 1 /\ 1 # 0
  <2>1. LoopType /\ 0 \in Threads
    BY Zenon DEF ChainInv, L!ConstantsOK
  <2> QED
    BY <2>1
<1> DEFINE Places == {"none", "leave", "access", "return"} \cup Ahead \cup Behind
<1>1. ASSUME NEW t \in Threads, NEW from \in Ahead, NEW to \in Ahead,
             Moved(t, from, to, 0), from # "arm", to # "arm", UNCHANGED recursiveDepth
      PROVE  ChainInv'
  <2>1. LoopType'
    <3>1. to \in Places
      BY Zenon
    <3> HIDE DEF Places
    <3> QED
      BY <1>0, <1>1, <3>1, MovedType, Zenon DEF Places
  <2>2. process = "running" /\ thread[t] = from
    BY <1>1, Zenon DEF Moved
  <2>3. PICK u \in Threads : OneAhead(u)
    BY <2>2, Zenon DEF ChainInv, Chain
  <2>4. Spaced /\ recursiveDepth = Cardinality(Arming)
    BY <2>2, Zenon DEF ChainInv, Chain
  <2>5. from # "leave" /\ to # "leave"
    BY <1>1, Zenon DEF Ahead
  <2>6. OneAhead(u)' /\ Spaced'
    BY <1>0, <1>1, <2>3, <2>4, <2>5, AheadKept, Zenon
  <2>7. Arming' = Arming
    <3>1. thread'[t] = to /\ \A s \in Threads : s # t => thread'[s] = thread[s]
      BY <1>0, <1>1, MovedAt, SMT
    <3> QED
      BY <1>1, <2>2, <2>5, <3>1, Zenon DEF Arming
  <2> QED
    BY <1>1, <2>1, <2>4, <2>6, <2>7, Zenon DEF ChainInv, Chain
<1>2. ASSUME NEW t \in Threads, L!Guard(t)
      PROVE  ChainInv'
  <2>1. Moved(t, "guard", "arm", 0) /\ recursiveDepth' = recursiveDepth + 1
    BY <1>2, GuardPasses, Zenon
  <2>2. LoopType'
    BY <1>0, <2>1, MovedType, Zenon DEF Ahead
  <2>3. process = "running" /\ thread[t] = "guard"
    BY <2>1, Zenon DEF Moved
  <2>4. PICK u \in Threads : OneAhead(u)
    BY <2>3, Zenon DEF ChainInv, Chain
  <2>5. Spaced /\ recursiveDepth = Cardinality(Arming)
    BY <2>3, Zenon DEF ChainInv, Chain
  <2>6. OneAhead(u)' /\ Spaced'
    <3>1. "guard" \in Ahead /\ "arm" \in Ahead
      BY Zenon DEF Ahead
    <3> QED
      BY <1>0, <2>1, <2>4, <2>5, <3>1, AheadKept, Zenon
  <2>7. Arming' = Arming \cup {t} /\ t \notin Arming
    <3>1. thread'[t] = "arm" /\ \A s \in Threads : s # t => thread'[s] = thread[s]
      BY <1>0, <2>1, MovedAt, SMT
    <3> QED
      BY <2>3, <3>1, Zenon DEF Arming
  <2>8. Cardinality(Arming') = Cardinality(Arming) + 1
    <3>1. IsFiniteSet(Arming)
      BY ThreadsFinite, Zenon DEF Arming
    <3> QED
      BY <2>7, <3>1, FS_AddElement, Zenon
  <2> QED
    BY <2>1, <2>2, <2>5, <2>6, <2>8, Zenon DEF ChainInv, Chain
<1>3. ASSUME NEW t \in Threads, Moved(t, "leave", "access", 1), recursiveDepth' = recursiveDepth - 1
      PROVE  ChainInv'
  <2>1. LoopType'
    BY <1>0, <1>3, MovedType, Zenon
  <2>2. process = "running" /\ thread[t] = "leave"
    BY <1>3, Zenon DEF Moved
  <2>3. PICK u \in Threads : OneAhead(u)
    BY <2>2, Zenon DEF ChainInv, Chain
  <2>4. Spaced /\ recursiveDepth = Cardinality(Arming)
    BY <2>2, Zenon DEF ChainInv, Chain
  <2>5. /\ thread'[t] = "access" /\ late'[t] = late[t]
        /\ \A s \in Threads : s # t =>
             thread'[s] = thread[s] /\ wake'[s] = wake[s] /\ late'[s] = late[s]
    BY <1>0, <1>3, MovedAt, SMT
  <2>6. Leaving' = Leaving \ {t} /\ Arming' = Arming \ {t} /\ t \in Arming
    <3>1. Leaving' = Leaving \ {t}
      BY <2>2, <2>5, Zenon DEF Leaving
    <3>2. Arming' = Arming \ {t} /\ t \in Arming
      BY <2>2, <2>5, Zenon DEF Arming
    <3> QED
      BY <3>1, <3>2, Zenon
  <2>7. \A s \in Leaving' : s \in Leaving /\ late'[s] = late[s]
    BY <2>5, <2>6, Zenon DEF Leaving
  <2>8. Spaced'
    BY <2>4, <2>7, Zenon DEF Spaced
  <2>9. OneAhead(u)'
    <3>1. u # t
      BY <2>2, <2>3, Zenon DEF OneAhead, Ahead
    <3>2. "access" \notin Ahead
      BY Zenon DEF Ahead
    <3>3. /\ thread'[u] = thread[u] /\ wake'[u] = wake[u] /\ late'[u] = late[u]
      BY <2>5, <3>1, Zenon
    <3>4. \A s \in Threads : thread'[s] \in Ahead => thread[s] \in Ahead
      BY <2>5, <3>2, Zenon
    <3>5. /\ thread[u] \in Ahead /\ \A s \in Threads : thread[s] \in Ahead => s = u
          /\ wake[u] = 0 => \A s \in Leaving : late[u] < late[s]
      BY <2>3, Zenon DEF OneAhead
    <3>6. wake'[u] = 0 => \A s \in Leaving' : late'[u] < late'[s]
      BY <2>7, <3>3, <3>5, Zenon
    <3> QED
      BY <3>3, <3>4, <3>5, <3>6, Zenon DEF OneAhead, Ahead
  <2>10. Cardinality(Arming') = Cardinality(Arming) - 1
    <3>1. IsFiniteSet(Arming)
      BY ThreadsFinite, Zenon DEF Arming
    <3> QED
      BY <2>6, <3>1, FS_RemoveElement, Zenon
  <2> QED
    BY <1>3, <2>1, <2>4, <2>8, <2>9, <2>10, Zenon DEF ChainInv, Chain
<1>4. ASSUME NEW t \in Threads, NEW from \in Behind \cup {"access"}, NEW to \in After, NEW w \in Nat,
             Moved(t, from, to, w), w # 0 => to = "return", UNCHANGED recursiveDepth
      PROVE  ChainInv'
  <2>1. LoopType'
    <3>1. to \in Places /\ to \notin {"draw", "access"}
      BY Zenon DEF After, Behind
    <3>2. w # 0 => to \in {"none", "draw", "access", "return"}
      BY <1>4, Zenon
    <3> HIDE DEF Places
    <3> QED
      BY <1>0, <1>4, <3>1, <3>2, MovedType, Zenon DEF Places
  <2>2. process = "running" /\ thread[t] = from
    BY <1>4, Zenon DEF Moved
  <2>3. PICK u \in Threads : OneAhead(u)
    BY <2>2, Zenon DEF ChainInv, Chain
  <2>4. Spaced /\ recursiveDepth = Cardinality(Arming)
    BY <2>2, Zenon DEF ChainInv, Chain
  <2>5. from \notin {"arm", "leave"} \cup Ahead /\ to \notin {"arm", "leave"} \cup Ahead
    BY <1>4, Zenon DEF Ahead, Behind, After
  <2>6. OneAhead(u)' /\ Spaced'
    BY <1>0, <1>4, <2>3, <2>4, <2>5, AheadKept, Zenon
  <2>7. Arming' = Arming
    <3>1. thread'[t] = to /\ \A s \in Threads : s # t => thread'[s] = thread[s]
      BY <1>0, <1>4, MovedAt, SMT
    <3> QED
      BY <1>4, <2>2, <2>5, <3>1, Zenon DEF Arming
  <2> QED
    BY <1>4, <2>1, <2>4, <2>6, <2>7, Zenon DEF ChainInv, Chain
<1>5. CASE Moved(0, "return", "none", 0) /\ process' = "exited"
  <2>1. LoopType'
    BY <1>0, <1>5, MovedType, Zenon
  <2> QED
    BY <1>5, <2>1, Zenon DEF ChainInv, Chain
<1>6. CASE UNCHANGED <<thread, wake, late, recursiveDepth, process>>
  <2>1. LoopType' /\ (Spaced <=> Spaced') /\ Leaving' = Leaving /\ Arming' = Arming
    BY <1>0, <1>6, Zenon DEF LoopType, Spaced, Leaving, Arming
  <2>2. \A u \in Threads : OneAhead(u) => OneAhead(u)'
    BY <1>6, <2>1, Zenon DEF OneAhead
  <2> QED
    BY <1>6, <2>1, <2>2, Zenon DEF ChainInv, Chain
<1> HIDE DEF Places
<1> QED
  BY <1>0, <1>1, <1>2, <1>3, <1>4, <1>5, <1>6, LoopSteps, TimerStep, TickStep, Zenon


LEMMA ChainStart ==
  ASSUME L!ConstantsOK, L!Init
  PROVE  ChainInv
<1>1. /\ thread = [t \in Threads |-> IF t = 0 THEN "frontend" ELSE "none"]
      /\ wake = [t \in Threads |-> 0] /\ late = [t \in Threads |-> 0] /\ recursiveDepth = 0
  BY Zenon DEF L!Init
<1>2. 0 \in Threads /\ Lag \in Nat
  BY Zenon DEF L!ConstantsOK
<1>3. \A t \in Threads : /\ thread[t] = IF t = 0 THEN "frontend" ELSE "none"
                         /\ wake[t] = 0 /\ late[t] = 0
  BY <1>1, Zenon
<1>4. LoopType
  <2>1. 0 \in Nat /\ 0 <= Lag /\ 0 <= 1
    BY <1>2
  <2>2. /\ thread \in [Threads -> {"none", "leave", "access", "return"} \cup Ahead \cup Behind]
        /\ wake \in [Threads -> Nat] /\ late \in [Threads -> Nat]
    BY <1>1, <2>1, Zenon DEF Ahead
  <2> QED
    BY <1>3, <2>1, <2>2, Zenon DEF LoopType
<1>5. Leaving = {} /\ Arming = {}
  BY <1>3, Zenon DEF Leaving, Arming
<1>6. OneAhead(0)
  BY <1>2, <1>3, <1>5, Zenon DEF OneAhead, Ahead
<1>7. Spaced
  BY <1>5, Zenon DEF Spaced
<1> QED
  BY <1>1, <1>2, <1>4, <1>5, <1>6, <1>7, FS_EmptySet, Zenon DEF ChainInv, Chain

(* As long as the threads are held up for less time than MaxDepth timers     *)
(* take, myEventLoop never gives up: exactly one thread or armed timer will  *)
(* draw and arm the next timer, however the threads interleave.              *)
THEOREM AnimationGoesOn ==
  ASSUME L!ConstantsOK
  PROVE  L!Spec => []L!OneSuccessor
<1>1. L!Init => ChainInv
  BY ChainStart, Zenon
<1>2. ChainInv /\ [L!Next]_L!vars => ChainInv'
  BY ChainStep, Zenon
<1>3. ChainInv => L!OneSuccessor
  <2> SUFFICES ASSUME ChainInv, process = "running" PROVE L!Cardinality(L!Upstream) = 1
    BY Zenon DEF L!OneSuccessor
  <2>1. PICK u \in Threads : OneAhead(u)
    BY Zenon DEF ChainInv, Chain
  <2>2. L!Upstream = {u}
    BY <2>1, Zenon DEF OneAhead, Ahead, L!Upstream
  <2>3. L!Cardinality(L!Upstream) = Cardinality(L!Upstream)
    BY Zenon DEF L!Cardinality, Cardinality
  <2> QED
    BY <2>2, <2>3, FS_Singleton, Zenon
<1> QED
  BY <1>1, <1>2, <1>3, PTL DEF L!Spec

LEMMA GridStep ==
  ASSUME L!ConstantsOK, LoopType, GridInv, [L!Next]_L!vars
  PROVE  GridInv'
<1> DEFINE Early == {"frontend", "application"}
           From == {"draw", "guard", "leave", "access", "open", "count", "read", "key", "refill", "return"}
           To == {"guard", "arm", "access", "open", "count", "read", "key", "refill", "return", "none"}
<1>0. 0 \in Threads /\ DOMAIN thread = Threads
  BY Zenon DEF L!ConstantsOK, LoopType
<1>1. /\ allocated # "wrong" /\ (numLiveThreads = 0 => rows = 0)
      /\ process = "running" =>
           /\ thread[0] \in Early => allocated = "no" /\ \A t \in Threads \ {0} : thread[t] = "none"
           /\ thread[0] \notin Early => allocated = "yes"
  BY Zenon DEF GridInv, L!GridFreedOnce
<1>2. ASSUME allocated' # "wrong", numLiveThreads' = 0 => rows' = 0,
             process' = "running" => allocated' = "yes" /\ thread'[0] \notin Early
      PROVE  GridInv'
  BY <1>2, Zenon DEF GridInv, L!GridFreedOnce
<1>3. ASSUME NEW t \in Threads, NEW from \in From, NEW to \in To, L!Go(t, from, to)
      PROVE  process = "running" /\ allocated = "yes" /\ thread'[0] \notin Early
  <2>1. process = "running" /\ thread[t] = from /\ thread' = [thread EXCEPT ![t] = to]
    BY <1>3, Zenon DEF L!Go
  <2>0. from \notin Early \cup {"none"} /\ to \notin Early
    BY Zenon
  <2>2. thread[0] \notin Early
    BY <1>1, <2>0, <2>1, Zenon
  <2>3. thread'[0] = to \/ thread'[0] = thread[0]
    BY <1>0, <2>1, Zenon
  <2> QED
    BY <1>1, <2>0, <2>1, <2>2, <2>3, Zenon
<1>4. ASSUME allocated = "yes", thread'[0] \notin Early, L!updateTerminal \/ L!cleanupAndQuit
                                                         \/ UNCHANGED <<L!drawing, process>>
      PROVE  GridInv'
  <2>1. allocated' \in {"yes", "freed"} /\ numLiveThreads' = numLiveThreads /\ rows' = rows
    BY <1>4, Zenon DEF L!updateTerminal, L!cleanupAndQuit, L!drawing
  <2>2. process' = "running" => allocated' = "yes"
    BY <1>4, Zenon DEF L!updateTerminal, L!cleanupAndQuit, L!drawing
  <2> QED
    BY <1>1, <1>2, <1>4, <2>1, <2>2, Zenon
<1>5. CASE L!initializeFrontEnd
  <2>1. /\ process = "running" /\ thread[0] = "frontend"
        /\ thread' = [thread EXCEPT ![0] = "application"] /\ L!updateTerminal
    BY <1>5, Zenon DEF L!initializeFrontEnd, L!Go
  <2>2. /\ thread'[0] = "application" /\ allocated = "no"
        /\ \A t \in Threads \ {0} : thread'[t] = "none"
    BY <1>0, <1>1, <2>1, Zenon
  <2>3. /\ allocated' = "no" /\ numLiveThreads' = numLiveThreads /\ rows' = rows
    BY <1>1, <2>1, <2>2, Zenon DEF L!updateTerminal, L!cleanupAndQuit, L!drawing
  <2> QED
    BY <1>1, <2>2, <2>3, Zenon DEF GridInv, L!GridFreedOnce
<1>6. CASE L!initializeApplication
  <2>1. /\ thread' = [thread EXCEPT ![0] = "draw"] /\ allocated' = "yes"
        /\ UNCHANGED <<rows, numLiveThreads>>
    BY <1>6, Zenon DEF L!initializeApplication, L!Go
  <2>2. thread'[0] = "draw"
    BY <1>0, <2>1, Zenon
  <2> QED
    BY <1>1, <1>2, <2>1, <2>2, Zenon
<1>7. CASE L!Return
  <2>1. L!Go(0, "return", "none") /\ UNCHANGED L!drawing
    BY <1>7, Zenon DEF L!Return
  <2>2. allocated = "yes" /\ thread'[0] \notin Early
    BY <1>0, <1>3, <2>1, Zenon
  <2> QED
    BY <1>1, <1>2, <2>1, <2>2, Zenon DEF L!drawing
<1>8. CASE L!Send \/ L!Tick \/ UNCHANGED L!vars
  <2>1. UNCHANGED <<thread, rows, allocated, numLiveThreads, process>>
    BY <1>8, Zenon DEF L!Send, L!Tick, L!vars, L!drawing
  <2> QED
    BY <2>1, Zenon DEF GridInv, L!GridFreedOnce
<1>9. ASSUME NEW t \in Threads, L!customTimerFunc(t)
      PROVE  GridInv'
  <2>1. PICK new \in Threads \ {0} : thread' = [thread EXCEPT ![t] = "leave", ![new] = "draw"]
    BY <1>9, Zenon DEF L!customTimerFunc
  <2>2. process = "running" /\ thread[t] = "arm" /\ UNCHANGED <<L!drawing, process>>
    BY <1>9, Zenon DEF L!customTimerFunc
  <2>3. thread[0] \notin Early
    BY <1>1, <2>2, Zenon
  <2>4. thread'[0] = thread[0] \/ thread'[0] = "leave"
    BY <1>0, <2>1, Zenon
  <2> QED
    BY <1>1, <1>4, <2>2, <2>3, <2>4, Zenon
<1>10. ASSUME NEW t \in Threads, L!Draw(t) \/ L!Escape(t)
       PROVE  GridInv'
  <2>1. /\ \E from \in From, to \in To : L!Go(t, from, to)
        /\ L!updateTerminal \/ L!cleanupAndQuit
    BY <1>10, Zenon DEF L!Draw, L!Escape, L!Take, L!AfterKey
  <2> HIDE DEF From, To, Early
  <2> QED
    BY <1>3, <1>4, <2>1, Zenon
<1>11. ASSUME NEW t \in Threads,
              L!Guard(t) \/ L!Leave(t) \/ L!Access(t) \/ L!OpenPipe(t) \/ L!CountPipe(t) \/ L!ReadPipe(t)
       PROVE  GridInv'
  <2>1. /\ \E from \in From, to \in To : L!Go(t, from, to)
        /\ UNCHANGED <<L!drawing, process>>
    BY <1>11, Zenon DEF L!Guard, L!Leave, L!Access, L!OpenPipe, L!CountPipe, L!ReadPipe, L!Finish
  <2> HIDE DEF From, To, Early
  <2> QED
    BY <1>3, <1>4, <2>1, Zenon
<1>12. ASSUME NEW t \in Threads, L!RefillTest(t) \/ L!RefillAdd(t) \/ L!ChangeSpeed(t)
                                 \/ L!ChangePace(t) \/ L!OtherKey(t)
       PROVE  GridInv'
  <2>1. /\ \E from \in From, to \in To : L!Go(t, from, to)
        /\ UNCHANGED <<L!drawing, process>>
    BY <1>12, Zenon DEF L!RefillTest, L!RefillAdd, L!ChangeSpeed, L!ChangePace, L!OtherKey,
      L!Take, L!Finish, L!AfterKey
  <2> HIDE DEF From, To, Early
  <2> QED
    BY <1>3, <1>4, <2>1, Zenon
<1> HIDE DEF Early
<1> QED
  BY <1>5, <1>6, <1>7, <1>8, <1>9, <1>10, <1>11, <1>12, Zenon DEF L!Next

(* Whoever quits, and whenever, the grid that cleanupAndQuit deletes has     *)
(* been allocated and not yet deleted.                                       *)
THEOREM GridOutlivesItsUsers ==
  ASSUME L!ConstantsOK
  PROVE  L!Spec => []L!GridFreedOnce
<1>1. L!Init => ChainInv /\ GridInv
  <2> SUFFICES ASSUME L!Init PROVE GridInv
    BY ChainStart, Zenon
  <2>1. /\ thread = [t \in Threads |-> IF t = 0 THEN "frontend" ELSE "none"] /\ allocated = "no"
        /\ \E s \in L!Started : rows = s.rows /\ numLiveThreads = s.live
    BY Zenon DEF L!Init
  <2>2. \A s \in L!Started : s.live = 0 => s.rows = 0
    BY DEF L!Started
  <2>3. 0 \in Threads
    BY Zenon DEF L!ConstantsOK
  <2> QED
    BY <2>1, <2>2, <2>3, Zenon DEF GridInv, L!GridFreedOnce
<1>2. ChainInv /\ GridInv /\ [L!Next]_L!vars => (ChainInv /\ GridInv)'
  <2>1. ChainInv => LoopType
    BY Zenon DEF ChainInv
  <2> QED
    BY <2>1, ChainStep, GridStep, Zenon
<1>3. GridInv => L!GridFreedOnce
  BY Zenon DEF GridInv
<1> QED
  BY <1>1, <1>2, <1>3, PTL DEF L!Spec


(* With no lag: a thread that is ahead and awake has nobody behind it who is  *)
(* still to sleep, and a tick wakes the one that sleeps when all the work is  *)
(* done.                                                                      *)
LEMMA AloneStep ==
  ASSUME L!ConstantsOK, Lag = 0, ChainInv, Alone, [L!Next]_L!vars
  PROVE  Alone'
<1>0. LoopType /\ 0 \in Threads
  BY Zenon DEF ChainInv, L!ConstantsOK
<1> USE DEF Working, Pending
<1>1. ASSUME NEW t \in Threads, NEW from \in Ahead, NEW to \in Ahead, Moved(t, from, to, 0)
      PROVE  Alone'
  <2>1. thread[t] = from /\ wake[t] = 0
    BY <1>1, Zenon DEF Moved
  <2>2. /\ thread'[t] = to
        /\ \A s \in Threads : s # t => thread'[s] = thread[s] /\ wake'[s] = wake[s]
    BY <1>0, <1>1, MovedAt, SMT
  <2>3. from \notin {"leave", "access"} \cup Behind /\ to \notin {"leave", "access"} \cup Behind
    BY <1>1, Zenon DEF Ahead, Behind
  <2>4. \A s \in Threads : (Working(s)' <=> Working(s)) /\ (Pending(s)' <=> Pending(s)) /\ ~Pending(s)
    BY <2>1, <2>2, <2>3, Zenon DEF Alone, Behind
  <2> HIDE DEF Working, Pending
  <2> QED
    BY <2>4, Zenon DEF Alone
<1>2. ASSUME NEW t \in Threads, L!customTimerFunc(t)
      PROVE  Alone'
  <2>1. PICK new \in Threads :
          /\ thread[new] = "none"
          /\ thread' = [thread EXCEPT ![t] = "leave", ![new] = "draw"]
          /\ wake' = [wake EXCEPT ![new] = 1]
    BY <1>2, Zenon DEF L!customTimerFunc
  <2>2. thread[t] = "arm" /\ wake[t] = 0
    BY <1>0, <1>2, Zenon DEF L!customTimerFunc, LoopType
  <2>3. t # new
    BY <2>1, <2>2, Zenon
  <2>4. /\ thread'[t] = "leave" /\ thread'[new] = "draw" /\ wake'[new] = 1
        /\ \A s \in Threads : s # t /\ s # new => thread'[s] = thread[s] /\ wake'[s] = wake[s]
    <3>1. DOMAIN thread = Threads /\ DOMAIN wake = Threads
      BY <1>0, Zenon DEF LoopType
    <3> QED
      BY <2>1, <2>3, <3>1
  <2>5. \A s \in Threads : ~Pending(s)
    BY <2>2, Zenon DEF Alone, Ahead
  <2>6. \A s \in Threads : Working(s)' => Working(s)
    BY <2>1, <2>2, <2>4, Zenon DEF Behind
  <2>7. \A s \in Threads : Pending(s)' => s = t
    BY <2>4, <2>5, Zenon
  <2>8. \A s \in Threads : thread'[s] \in Ahead => s = new
    <3>1. ASSUME NEW s \in Threads, thread[s] \in Ahead PROVE s = t
      <4>1. process = "running" /\ thread[t] \in Ahead
        BY <1>2, <2>2, Zenon DEF L!customTimerFunc, Ahead
      <4> QED
        BY <3>1, <4>1, Zenon DEF ChainInv, Chain, OneAhead
    <3> QED
      BY <2>4, <3>1, Zenon DEF Ahead
  <2>9. wake'[new] # 0
    BY <2>4
  <2> HIDE DEF Working, Pending
  <2> QED
    BY <2>6, <2>7, <2>8, <2>9, Zenon DEF Alone
<1>3. ASSUME NEW t \in Threads, Moved(t, "leave", "access", 1)
      PROVE  Alone'
  <2>1. thread[t] = "leave" /\ 1 # 0
    BY <1>3 DEF Moved
  <2>2. /\ thread'[t] = "access" /\ wake'[t] = 1
        /\ \A s \in Threads : s # t => thread'[s] = thread[s] /\ wake'[s] = wake[s]
    BY <1>0, <1>3, MovedAt, SMT
  <2>3. \A s \in Threads : (Working(s)' => Working(s)) /\ (Pending(s)' => Pending(s))
    BY <2>1, <2>2, Zenon DEF Behind
  <2>4. \A s \in Threads : thread'[s] \in Ahead => thread[s] \in Ahead /\ wake'[s] = wake[s]
    BY <2>1, <2>2, Zenon DEF Ahead
  <2> HIDE DEF Working, Pending
  <2> QED
    BY <2>3, <2>4, Zenon DEF Alone
<1>4. ASSUME NEW t \in Threads, NEW from \in Behind \cup {"access", "return"}, NEW to \in After, NEW w,
             Moved(t, from, to, w), from = "return" => to = "none"
      PROVE  Alone'
  <2>1. thread[t] = from /\ wake[t] = 0
    BY <1>4, Zenon DEF Moved
  <2>2. /\ thread'[t] = to
        /\ \A s \in Threads : s # t => thread'[s] = thread[s] /\ wake'[s] = wake[s]
    BY <1>0, <1>4, MovedAt, SMT
  <2>3. to \notin {"leave", "access"} \cup Ahead /\ (to \in Behind => from # "return")
    BY <1>4, Zenon DEF Ahead, Behind, After
  <2>4. \A s \in Threads : Working(s)' => Working(s)
    BY <2>1, <2>2, <2>3, Zenon
  <2>5. \A s \in Threads : Pending(s)' => Pending(s)
    BY <2>1, <2>2, <2>3, Zenon DEF Behind
  <2>6. \A s \in Threads : thread'[s] \in Ahead => thread[s] \in Ahead /\ wake'[s] = wake[s]
    BY <2>2, <2>3, Zenon
  <2> HIDE DEF Working, Pending
  <2> QED
    BY <2>4, <2>5, <2>6, Zenon DEF Alone
<1>5. CASE L!Tick
  <2>1. /\ thread' = thread
        /\ wake' = [s \in Threads |-> IF wake[s] > 0 THEN wake[s] - 1 ELSE 0]
        /\ \A s \in Threads : thread[s] # "none" /\ wake[s] = 0 => late[s] < Lag
    BY <1>5, Zenon DEF L!Tick, L!Awake
  <2>2. ASSUME NEW s \in Threads, thread[s] # "none" PROVE wake[s] # 0
    <3>1. late[s] \in Nat /\ (wake[s] = 0 => late[s] < Lag)
      BY <1>0, <2>1, <2>2, Zenon DEF LoopType
    <3> QED
      BY <3>1
  <2>3. ASSUME NEW s \in Threads, thread[s] = "access" PROVE wake'[s] = 0
    <3>1. wake[s] \in Nat /\ wake[s] <= 1 /\ wake'[s] = IF wake[s] > 0 THEN wake[s] - 1 ELSE 0
      BY <1>0, <2>1, <2>3, Zenon DEF LoopType
    <3> QED
      BY <3>1
  <2>4. \A s \in Threads : thread[s] \notin Behind \cup {"leave"}
    BY <1>0, <2>2, Zenon DEF LoopType, Behind
  <2>5. \A s \in Threads : Working(s)' => Pending(s)
    BY <2>1, <2>2, <2>4, Zenon
  <2>6. \A s \in Threads : ~Pending(s)'
    BY <2>1, <2>3, <2>4, Zenon
  <2> HIDE DEF Working, Pending
  <2> QED
    BY <2>5, <2>6, Zenon DEF Alone
<1>6. CASE UNCHANGED <<thread, wake, late, recursiveDepth, process>>
  BY <1>6, Zenon DEF Alone
<1>7. ASSUME NEW t \in Threads, L!Guard(t)
      PROVE  Alone'
  <2>1. Moved(t, "guard", "arm", 0) /\ "guard" \in Ahead /\ "arm" \in Ahead
    BY <1>7, GuardPasses, Zenon DEF Ahead
  <2> HIDE DEF Working, Pending
  <2> QED
    BY <1>1, <2>1, Zenon
<1>8. CASE Moved(0, "return", "none", 0)
  <2>1. "return" \in Behind \cup {"access", "return"} /\ "none" \in After
    BY Zenon DEF After
  <2> HIDE DEF Working, Pending
  <2> QED
    BY <1>0, <1>4, <1>8, <2>1, Zenon
<1>9. "return" \notin Behind \cup {"access"}
  BY Zenon DEF Behind
<1> HIDE DEF Working, Pending
<1> QED
  BY <1>0, <1>1, <1>2, <1>3, <1>4, <1>5, <1>6, <1>7, <1>8, <1>9, LoopSteps, Zenon


LEMMA GoAt ==
  ASSUME LoopType, NEW t \in Threads, NEW from, NEW to, L!Go(t, from, to)
  PROVE  /\ thread[t] = from /\ wake[t] = 0 /\ thread'[t] = to
         /\ \A s \in Threads : s # t => thread'[s] = thread[s]
<1>1. DOMAIN thread = Threads
  BY Zenon DEF LoopType
<1> QED
  BY <1>1, Zenon DEF L!Go

LEMMA PipeSame ==
  ASSUME PipeInv, UNCHANGED <<numPipesOpen, opens, pipe, applied, sent, command>>,
         \A s \in Threads : thread'[s] = thread[s] \/ {thread[s], thread'[s]} \cap {"open", "count", "key"} = {}
  PROVE  PipeInv'
<1>1. \A s \in Threads : /\ thread'[s] = "open" <=> thread[s] = "open"
                         /\ thread'[s] = "count" <=> thread[s] = "count"
                         /\ thread'[s] = "key" <=> thread[s] = "key"
  BY Zenon
<1>2. Keys' = Keys
  BY <1>1, Zenon DEF Keys
<1> QED
  BY <1>1, <1>2, Zenon DEF PipeInv

(* The one thread at the pipe opens it once, and has the byte it has read.   *)
LEMMA PipeStep ==
  ASSUME L!ConstantsOK, LoopType, Alone, PipeInv, [L!Next]_L!vars
  PROVE  PipeInv'
<1>0. 0 \in Threads /\ DOMAIN thread = Threads
  BY Zenon DEF L!ConstantsOK, LoopType
<1> DEFINE Marks == {"open", "count", "key"}
           From == {"frontend", "application", "draw", "guard", "leave", "access", "read", "refill", "return"}
           To == {"application", "draw", "guard", "arm", "access", "read", "refill", "return", "none"}
<1>1. ASSUME NEW t \in Threads, NEW from \in From, NEW to \in To, L!Go(t, from, to),
             UNCHANGED <<numPipesOpen, opens, pipe, applied, sent, command>>
      PROVE  PipeInv'
  <2>1. {from, to} \cap Marks = {}
    BY Zenon
  <2>2. /\ thread[t] = from /\ thread'[t] = to /\ \A s \in Threads : s # t => thread'[s] = thread[s]
    BY <1>1, GoAt, SMT
  <2>3. \A s \in Threads : thread'[s] = thread[s] \/ {thread[s], thread'[s]} \cap Marks = {}
    BY <2>1, <2>2, Zenon
  <2> QED
    BY <1>1, <2>3, PipeSame, Zenon
<1>2. ASSUME NEW t \in Threads, Working(t), NEW s \in Threads, s # t
      PROVE  thread[s] \notin Behind
  BY <1>2, Zenon DEF Alone, Working
<1>3. CASE L!initializeFrontEnd \/ L!initializeApplication \/ L!Return
  <2>1. /\ \E from \in From, to \in To : L!Go(0, from, to)
        /\ UNCHANGED <<numPipesOpen, opens, pipe, applied, sent, command>>
    BY <1>3, Zenon DEF L!initializeFrontEnd, L!initializeApplication, L!Return, L!piping
  <2> QED
    BY <1>0, <1>1, <2>1, Zenon
<1>4. CASE L!Tick \/ UNCHANGED L!vars
  <2>1. UNCHANGED <<numPipesOpen, opens, pipe, applied, sent, command, thread>>
    BY <1>4, Zenon DEF L!Tick, L!vars, L!piping
  <2> QED
    BY <2>1, PipeSame, Zenon
<1>5. ASSUME NEW t \in Threads, L!Draw(t) \/ L!Guard(t) \/ L!Leave(t)
      PROVE  PipeInv'
  <2>1. /\ \E from \in From, to \in To : L!Go(t, from, to)
        /\ UNCHANGED <<numPipesOpen, opens, pipe, applied, sent, command>>
    BY <1>5, Zenon DEF L!Draw, L!Guard, L!Leave, L!Finish, L!piping
  <2> QED
    BY <1>1, <2>1, Zenon
<1>6. ASSUME NEW t \in Threads, L!customTimerFunc(t)
      PROVE  PipeInv'
  <2>1. PICK new \in Threads :
          thread[new] = "none" /\ thread' = [thread EXCEPT ![t] = "leave", ![new] = "draw"]
    BY <1>6, Zenon DEF L!customTimerFunc
  <2>2. thread[t] = "arm" /\ UNCHANGED <<numPipesOpen, opens, pipe, applied, sent, command>>
    BY <1>6, Zenon DEF L!customTimerFunc, L!piping
  <2>3. \A s \in Threads : thread'[s] = thread[s] \/ {thread[s], thread'[s]} \cap Marks = {}
    BY <1>0, <2>1, <2>2, Zenon
  <2> QED
    BY <2>2, <2>3, PipeSame, Zenon
<1>7. ASSUME NEW t \in Threads, L!Access(t)
      PROVE  PipeInv'
  <2>1. /\ \/ \E to \in To : L!Go(t, "access", to)
           \/ L!Go(t, "access", "open") /\ numPipesOpen = 0
        /\ UNCHANGED <<numPipesOpen, opens, pipe, applied, sent, command>>
    BY <1>7, Zenon DEF L!Access, L!Finish, L!piping
  <2>2. CASE \E to \in To : L!Go(t, "access", to)
    BY <1>1, <2>1, <2>2, Zenon
  <2>3. CASE L!Go(t, "access", "open") /\ numPipesOpen = 0
    <3>1. /\ thread[t] = "access" /\ wake[t] = 0 /\ thread'[t] = "open"
          /\ \A s \in Threads : s # t => thread'[s] = thread[s]
      BY <2>3, GoAt, SMT
    <3>2. \A s \in Threads : thread[s] \notin Behind
      BY <1>2, <3>1, Zenon DEF Working, Behind
    <3>3. opens = 0
      <4>1. opens \in 0 .. 1 /\ opens # 1
        BY <2>3, <3>2, Zenon DEF PipeInv, Behind
      <4> QED
        BY <4>1
    <3>4. Keys' = Keys
      BY <3>1, Zenon DEF Keys
    <3>5. opens' # 1
      BY <2>1, <3>3
    <3> QED
      BY <2>1, <2>3, <3>1, <3>3, <3>4, <3>5, Zenon DEF PipeInv
  <2> QED
    BY <2>1, <2>2, <2>3, Zenon
<1>8. ASSUME NEW t \in Threads, L!OpenPipe(t)
      PROVE  PipeInv'
  <2>1. /\ L!Go(t, "open", "count") /\ (opens' = opens + 1 \/ opens' = opens)
        /\ UNCHANGED <<numPipesOpen, pipe, applied, sent, command>>
    BY <1>8, Zenon DEF L!OpenPipe
  <2>2. /\ thread[t] = "open" /\ wake[t] = 0 /\ thread'[t] = "count"
        /\ \A s \in Threads : s # t => thread'[s] = thread[s]
    BY <2>1, GoAt, SMT
  <2>3. \A s \in Threads : thread'[s] # "open"
    BY <1>2, <2>2, Zenon DEF Working, Behind
  <2>4. opens = 0
    BY <2>2, Zenon DEF PipeInv
  <2>5. opens' \in 0 .. 1
    BY <2>1, <2>4
  <2>6. Keys' = Keys
    BY <2>2, Zenon DEF Keys
  <2> QED
    BY <2>1, <2>2, <2>3, <2>5, <2>6, Zenon DEF PipeInv
<1>9. ASSUME NEW t \in Threads, L!CountPipe(t)
      PROVE  PipeInv'
  <2>1. /\ L!Go(t, "count", "read") /\ numPipesOpen' = numPipesOpen + 1
        /\ UNCHANGED <<opens, pipe, applied, sent, command>>
    BY <1>9, Zenon DEF L!CountPipe
  <2>2. /\ thread[t] = "count" /\ wake[t] = 0 /\ thread'[t] = "read"
        /\ \A s \in Threads : s # t => thread'[s] = thread[s]
    BY <2>1, GoAt, SMT
  <2>3. \A s \in Threads : thread'[s] # "open"
    BY <1>2, <2>2, Zenon DEF Working, Behind
  <2>4. numPipesOpen' \in Nat /\ numPipesOpen' # 0
    <3>1. numPipesOpen \in Nat
      BY Zenon DEF PipeInv
    <3> QED
      BY <2>1, <3>1
  <2>5. Keys' = Keys
    BY <2>2, Zenon DEF Keys
  <2> QED
    BY <2>1, <2>2, <2>3, <2>4, <2>5, Zenon DEF PipeInv
<1>10. ASSUME NEW t \in Threads, thread[t] \in {"read", "key"}
       PROVE  /\ \A s \in Threads : s # t => thread[s] \notin {"open", "count", "key"}
              /\ Keys = IF thread[t] = "key" THEN {t} ELSE {}
  <2>1. \A s \in Threads : s # t => thread[s] \notin {"open", "count", "key"}
    BY <1>2, <1>10, Zenon DEF Working, Behind
  <2> QED
    BY <1>10, <2>1, Zenon DEF Keys
<1>11. ASSUME NEW t \in Threads, L!ReadPipe(t)
       PROVE  PipeInv'
  <2>1. UNCHANGED <<numPipesOpen, opens, sent, applied>>
    BY <1>11, Zenon DEF L!ReadPipe
  <2>2. CASE (\E to \in To : L!Go(t, "read", to)) /\ UNCHANGED <<pipe, command>>
    BY <1>1, <2>1, <2>2, Zenon
  <2>3. CASE /\ L!Go(t, "read", "key") /\ pipe # 0 /\ pipe' = pipe - 1
             /\ \E c \in Commands : command' = [command EXCEPT ![t] = c]
    <3>1. /\ thread[t] = "read" /\ thread'[t] = "key"
          /\ \A s \in Threads : s # t => thread'[s] = thread[s]
      BY <2>3, GoAt, SMT
    <3>2. \A s \in Threads : s # t => thread'[s] \notin {"open", "count", "key"}
      BY <1>10, <3>1, Zenon
    <3>3. Keys = {} /\ Keys' = {t}
      BY <1>10, <3>1, <3>2, Zenon DEF Keys
    <3>4. /\ numPipesOpen \in Nat /\ opens \in 0 .. 1 /\ pipe \in Nat /\ applied \in Nat
          /\ sent \in Nat /\ DOMAIN command = Threads /\ sent = pipe + applied + 0
          /\ opens = 1 /\ numPipesOpen = 0 => \E s \in Threads : thread[s] = "count"
      BY <3>3, Zenon DEF PipeInv
    <3>5. ~(opens = 1 /\ numPipesOpen = 0)
      BY <1>10, <3>1, <3>4, Zenon
    <3>6. pipe' \in Nat /\ sent' = pipe' + applied' + 1
      BY <2>1, <2>3, <3>4
    <3>7. DOMAIN command' = Threads /\ command'[t] # "none"
      BY <2>3, <3>4, Zenon DEF L!ConstantsOK
    <3>8. sent' = pipe' + applied' + (IF Keys' = {} THEN 0 ELSE 1)
      BY <3>3, <3>6, Zenon
    <3> QED
      BY <2>1, <3>1, <3>2, <3>4, <3>5, <3>6, <3>7, <3>8, Zenon DEF PipeInv
  <2> QED
    BY <1>11, <2>2, <2>3, Zenon DEF L!ReadPipe, L!Finish
<1>12. ASSUME NEW t \in Threads, NEW to \in To, L!Go(t, "key", to), applied' = applied + 1,
              UNCHANGED <<numPipesOpen, opens, pipe, sent>>, DOMAIN command' = Threads
       PROVE  PipeInv'
  <2>1. /\ thread[t] = "key" /\ thread'[t] = to
        /\ \A s \in Threads : s # t => thread'[s] = thread[s]
    BY <1>12, GoAt, SMT
  <2>2. \A s \in Threads : thread'[s] \notin {"open", "count", "key"}
    <3>1. to \notin {"open", "count", "key"}
      BY Zenon
    <3> QED
      BY <1>10, <2>1, <3>1, Zenon
  <2>3. Keys = {t} /\ Keys' = {}
    BY <1>10, <2>1, <2>2, Zenon DEF Keys
  <2>4. /\ numPipesOpen \in Nat /\ opens \in 0 .. 1 /\ pipe \in Nat /\ applied \in Nat
        /\ sent \in Nat /\ sent = pipe + applied + 1
        /\ opens = 1 /\ numPipesOpen = 0 => \E s \in Threads : thread[s] = "count"
    BY <2>3, Zenon DEF PipeInv
  <2>5. ~(opens = 1 /\ numPipesOpen = 0)
    BY <1>10, <2>1, <2>4, Zenon
  <2>6. applied' \in Nat /\ sent' = pipe' + applied' + 0
    BY <1>12, <2>4
  <2>7. sent' = pipe' + applied' + (IF Keys' = {} THEN 0 ELSE 1)
    BY <2>3, <2>6, Zenon
  <2> QED
    BY <1>12, <2>2, <2>4, <2>5, <2>6, <2>7, Zenon DEF PipeInv
<1>13. ASSUME NEW t \in Threads, L!RefillTest(t) \/ L!ChangeSpeed(t) \/ L!ChangePace(t) \/ L!Escape(t)
                                 \/ L!OtherKey(t)
       PROVE  PipeInv'
  <2>1. /\ \E to \in To : L!Take(t, to)
        /\ command' = command \/ command' = [command EXCEPT ![t] = "none"]
    BY <1>13, Zenon DEF L!RefillTest, L!ChangeSpeed, L!ChangePace, L!Escape, L!OtherKey, L!AfterKey
  <2>2. DOMAIN command' = Threads
    BY <2>1, Zenon DEF PipeInv
  <2> QED
    BY <1>12, <2>1, <2>2, Zenon DEF L!Take
<1>14. ASSUME NEW t \in Threads, L!RefillAdd(t)
       PROVE  PipeInv'
  <2>1. /\ \E to \in To : L!Go(t, "refill", to)
        /\ command' = [command EXCEPT ![t] = "none"]
        /\ UNCHANGED <<numPipesOpen, opens, pipe, applied, sent>>
    BY <1>14, Zenon DEF L!RefillAdd, L!Finish
  <2>2. PICK to \in To : L!Go(t, "refill", to)
    BY <2>1, Zenon
  <2>3. /\ thread[t] = "refill" /\ thread'[t] = to
        /\ \A s \in Threads : s # t => thread'[s] = thread[s]
    BY <2>2, GoAt, SMT
  <2>4. to \notin {"open", "count", "key"}
    BY Zenon
  <2>5. \A s \in Threads : /\ thread'[s] = "open" <=> thread[s] = "open"
                           /\ thread'[s] = "count" <=> thread[s] = "count"
                           /\ thread'[s] = "key" <=> thread[s] = "key"
    BY <2>3, <2>4, Zenon
  <2>6. Keys' = Keys
    BY <2>5, Zenon DEF Keys
  <2>7. DOMAIN command' = Threads /\ \A s \in Threads : s # t => command'[s] = command[s]
    BY <2>1, Zenon DEF PipeInv
  <2>8. thread'[t] # "key"
    BY <2>3, <2>4, Zenon
  <2>9. \A s \in Threads : thread'[s] = "key" => command'[s] # "none"
    BY <2>5, <2>7, <2>8, Zenon DEF PipeInv
  <2> QED
    BY <2>1, <2>5, <2>6, <2>7, <2>9, Zenon DEF PipeInv
<1>15. CASE L!Send
  <2>1. /\ pipe' = pipe + 1 /\ sent' = sent + 1
        /\ UNCHANGED <<thread, numPipesOpen, opens, command, applied>>
    BY <1>15, Zenon DEF L!Send
  <2> DEFINE n == IF Keys = {} THEN 0 ELSE 1
  <2>2. /\ pipe \in Nat /\ applied \in Nat /\ sent \in Nat /\ sent = pipe + applied + n
    BY Zenon DEF PipeInv
  <2>3. n \in Nat /\ n' = n
    BY <2>1 DEF Keys
  <2> HIDE DEF n
  <2>4. pipe' \in Nat /\ sent' \in Nat /\ sent' = pipe' + applied' + n'
    BY <2>1, <2>2, <2>3
  <2> QED
    BY <2>1, <2>4, Zenon DEF PipeInv, n
<1> HIDE DEF Marks, From, To
<1> QED
  BY <1>3, <1>4, <1>5, <1>6, <1>7, <1>8, <1>9, <1>11, <1>13, <1>14, <1>15, Zenon DEF L!Next


(* Between the test and the addition of a refill no one else adds.           *)
LEMMA TankStep ==
  ASSUME L!ConstantsOK, LoopType, Alone, PipeInv, TankInv, [L!Next]_L!vars
  PROVE  TankInv'
<1>0. 0 \in Threads /\ DOMAIN thread = Threads /\ DOMAIN command = Threads
  BY Zenon DEF L!ConstantsOK, LoopType, PipeInv
<1>1. ASSUME level' = level,
             \A s \in Threads : thread'[s] = "refill" => thread[s] = "refill" /\ command'[s] = command[s]
      PROVE  TankInv'
  BY <1>1, Zenon DEF TankInv, L!Tanks
<1> DEFINE To == {"application", "draw", "guard", "arm", "access", "open", "count", "read", "key", "return",
                  "none"}
<1>2. ASSUME NEW t \in Threads, NEW from, NEW to \in To, L!Go(t, from, to), level' = level,
             \A s \in Threads : s # t => command'[s] = command[s]
      PROVE  TankInv'
  <2>1. thread'[t] = to /\ \A s \in Threads : s # t => thread'[s] = thread[s]
    BY <1>2, GoAt, SMT
  <2>2. to # "refill"
    BY Zenon
  <2> HIDE DEF To
  <2> QED
    BY <1>1, <1>2, <2>1, <2>2, Zenon
<1>3. CASE L!initializeFrontEnd \/ L!initializeApplication \/ L!Return
  <2>1. /\ \E from, to \in To \cup {"frontend"} : L!Go(0, from, to) /\ to # "frontend"
        /\ level' = level /\ command' = command
    BY <1>3, Zenon DEF L!initializeFrontEnd, L!initializeApplication, L!Return, L!piping, L!tanks
  <2> HIDE DEF To
  <2> QED
    BY <1>0, <1>2, <2>1, Zenon
<1>4. CASE L!Send \/ L!Tick \/ UNCHANGED L!vars
  <2>1. UNCHANGED <<thread, command, level>>
    BY <1>4, Zenon DEF L!Send, L!Tick, L!vars, L!piping, L!tanks
  <2> QED
    BY <1>1, <2>1, Zenon
<1>5. ASSUME NEW t \in Threads,
             L!Draw(t) \/ L!Guard(t) \/ L!Leave(t) \/ L!Access(t) \/ L!OpenPipe(t) \/ L!CountPipe(t)
      PROVE  TankInv'
  <2>1. /\ \E from, to \in To \cup {"leave"} : L!Go(t, from, to) /\ to # "leave"
        /\ level' = level /\ command' = command
    BY <1>5, Zenon DEF L!Draw, L!Guard, L!Leave, L!Access, L!OpenPipe, L!CountPipe, L!Finish,
      L!piping, L!tanks
  <2> HIDE DEF To
  <2> QED
    BY <1>2, <2>1, Zenon
<1>6. ASSUME NEW t \in Threads, L!customTimerFunc(t)
      PROVE  TankInv'
  <2>1. PICK new \in Threads :
          thread[new] = "none" /\ thread' = [thread EXCEPT ![t] = "leave", ![new] = "draw"]
    BY <1>6, Zenon DEF L!customTimerFunc
  <2>2. UNCHANGED <<level, command>>
    BY <1>6, Zenon DEF L!customTimerFunc, L!piping, L!tanks
  <2>3. \A s \in Threads : thread'[s] = "refill" => thread[s] = "refill"
    BY <1>0, <2>1, Zenon
  <2> QED
    BY <1>1, <2>2, <2>3, Zenon
<1>7. ASSUME NEW t \in Threads,
             L!ReadPipe(t) \/ L!ChangeSpeed(t) \/ L!ChangePace(t) \/ L!Escape(t) \/ L!OtherKey(t)
      PROVE  TankInv'
  <2>1. /\ \E from, to \in To : L!Go(t, from, to)
        /\ level' = level
        /\ command' = command \/ \E c : command' = [command EXCEPT ![t] = c]
    BY <1>7, Zenon DEF L!ReadPipe, L!ChangeSpeed, L!ChangePace, L!Escape, L!OtherKey, L!Take, L!Finish,
      L!AfterKey, L!tanks
  <2>2. \A s \in Threads : s # t => command'[s] = command[s]
    BY <1>0, <2>1, Zenon
  <2> HIDE DEF To
  <2> QED
    BY <1>2, <2>1, <2>2, Zenon
<1>8. ASSUME NEW t \in Threads, L!RefillTest(t)
      PROVE  TankInv'
  <2>1. level' = level /\ command[t] \in L!Tanks
    BY <1>8, Zenon DEF L!RefillTest, L!tanks
  <2>2. CASE L!RefillFits(command[t])
    <3>1. L!Go(t, "key", "refill") /\ command' = command /\ level[command[t]] + MAX_ADD_INK <= MAX_LEVEL
      BY <1>8, <2>2, Zenon DEF L!RefillTest, L!Take, L!RefillFits
    <3>2. \A s \in Threads : s # t => thread'[s] = thread[s]
      BY <3>1, GoAt, SMT
    <3> QED
      BY <2>1, <3>1, <3>2, Zenon DEF TankInv, L!Tanks
  <2>3. CASE ~L!RefillFits(command[t])
    <3>1. /\ \E to \in To : L!Go(t, "key", to)
          /\ command' = [command EXCEPT ![t] = "none"]
      BY <1>8, <2>3, Zenon DEF L!RefillTest, L!Take, L!AfterKey
    <3>2. \A s \in Threads : s # t => command'[s] = command[s]
      BY <1>0, <3>1, Zenon
    <3> HIDE DEF To
    <3> QED
      BY <1>2, <2>1, <3>1, <3>2, Zenon
  <2> QED
    BY <2>2, <2>3, Zenon
<1>9. ASSUME NEW t \in Threads, L!RefillAdd(t)
      PROVE  TankInv'
  <2>1. /\ \E to \in {"return", "none"} : L!Go(t, "refill", to)
        /\ level' = [level EXCEPT ![command[t]] = @ + MAX_ADD_INK]
    BY <1>9, Zenon DEF L!RefillAdd, L!Finish
  <2>2. PICK to \in {"return", "none"} : L!Go(t, "refill", to)
    BY <2>1, Zenon
  <2>3. /\ thread[t] = "refill" /\ thread'[t] = to
        /\ \A s \in Threads : s # t => thread'[s] = thread[s]
    BY <2>2, GoAt, SMT
  <2>4. \A s \in Threads : thread'[s] # "refill"
    <3>1. ASSUME NEW s \in Threads, s # t PROVE thread[s] # "refill"
      BY <2>3, <3>1, Zenon DEF Alone, Working, Behind
    <3>2. to # "refill"
      BY Zenon
    <3> QED
      BY <2>3, <3>1, <3>2, Zenon
  <2>5. level' \in [L!Tanks -> 0 .. MAX_LEVEL]
    <3> DEFINE c == command[t]
               sum == level[c] + MAX_ADD_INK
    <3>1. c \in L!Tanks /\ sum <= MAX_LEVEL /\ level \in [L!Tanks -> 0 .. MAX_LEVEL]
      BY <2>3, Zenon DEF TankInv
    <3>2. sum \in 0 .. MAX_LEVEL
      <4>1. level[c] \in 0 .. MAX_LEVEL /\ MAX_LEVEL \in Nat /\ MAX_ADD_INK \in Nat
        BY <3>1, Zenon DEF L!ConstantsOK
      <4> HIDE DEF c
      <4> QED
        BY <3>1, <4>1
    <3>3. level' = [level EXCEPT ![c] = sum]
      BY <2>1, Zenon
    <3> HIDE DEF c, sum
    <3> QED
      BY <3>1, <3>2, <3>3, Zenon
  <2> QED
    BY <2>4, <2>5, Zenon DEF TankInv, L!Tanks
<1> HIDE DEF To
<1> QED
  BY <1>3, <1>4, <1>5, <1>6, <1>7, <1>8, <1>9, Zenon DEF L!Next

(* When every stretch between two sleeps takes less than a second, the       *)
(* sleeps alone keep the threads apart: the pipe is opened once, each byte   *)
(* is still in it, in the hands of one thread or carried out, and no refill  *)
(* overfills a tank.                                                         *)
THEOREM SleepsKeepThreadsApart ==
  ASSUME L!ConstantsOK, Lag = 0
  PROVE  L!Spec => []L!KeptApart
<1>1. L!Init => ApartInv
  <2> SUFFICES ASSUME L!Init PROVE Alone /\ PipeInv /\ TankInv
    BY ChainStart, Zenon DEF ApartInv
  <2>1. /\ thread = [t \in Threads |-> IF t = 0 THEN "frontend" ELSE "none"]
        /\ numPipesOpen = 0 /\ opens = 0 /\ pipe = 0 /\ sent = 0 /\ applied = 0
        /\ command = [t \in Threads |-> "none"] /\ level = Levels
    BY Zenon DEF L!Init
  <2>2. \A t \in Threads : thread[t] \in {"frontend", "none"}
    BY <2>1, Zenon
  <2>3. Alone
    BY <2>2, Zenon DEF Alone, Working, Pending, Behind
  <2>4. Keys = {}
    BY <2>2, Zenon DEF Keys
  <2>5. 0 \in Nat /\ 0 \in 0 .. 1 /\ 0 = 0 + 0 + 0 /\ 0 # 1
    OBVIOUS
  <2>6. PipeInv
    BY <2>1, <2>2, <2>4, <2>5, Zenon DEF PipeInv
  <2>7. TankInv
    BY <2>1, <2>2, Zenon DEF TankInv, L!ConstantsOK
  <2> QED
    BY <2>3, <2>6, <2>7, Zenon
<1>2. ApartInv /\ [L!Next]_L!vars => ApartInv'
  <2>1. ChainInv => LoopType
    BY Zenon DEF ChainInv
  <2> QED
    BY <2>1, ChainStep, AloneStep, PipeStep, TankStep, Zenon DEF ApartInv
<1>3. ApartInv => L!KeptApart
  <2> SUFFICES ASSUME ApartInv PROVE L!KeptApart
    BY Zenon
  <2>1. Alone /\ PipeInv /\ TankInv
    BY Zenon DEF ApartInv
  <2>2. {t \in Threads : command[t] # "none" /\ thread[t] = "key"} = Keys
    BY <2>1, Zenon DEF Keys, PipeInv
  <2>3. L!Cardinality(Keys) = Cardinality(Keys)
    BY Zenon DEF L!Cardinality, Cardinality
  <2>4. Cardinality(Keys) = IF Keys = {} THEN 0 ELSE 1
    <3>1. CASE Keys = {}
      BY <3>1, FS_EmptySet, Zenon
    <3>2. CASE Keys # {}
      <4>1. PICK t \in Threads : thread[t] = "key"
        BY <3>2, Zenon DEF Keys
      <4>2. Keys = {t}
        BY <2>1, <4>1, Zenon DEF Keys, Alone, Working, Behind
      <4> QED
        BY <3>2, <4>2, FS_Singleton, Zenon
    <3> QED
      BY <3>1, <3>2, Zenon
  <2>5. sent = pipe + applied + Cardinality(Keys)
    BY <2>1, <2>4, Zenon DEF PipeInv
  <2>6. opens <= 1
    <3>1. opens \in 0 .. 1
      BY <2>1, Zenon DEF PipeInv
    <3> QED
      BY <3>1
  <2>7. \A c \in L!Tanks : level[c] \in 0 .. MAX_LEVEL
    BY <2>1, Zenon DEF TankInv
  <2> QED
    BY <2>2, <2>3, <2>5, <2>6, <2>7, Zenon DEF L!KeptApart
<1> QED
  BY <1>1, <1>2, <1>3, PTL DEF L!Spec

=============================================================================
