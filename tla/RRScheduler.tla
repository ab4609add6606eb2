---------------------------- MODULE RRScheduler ----------------------------
(***************************************************************************)
(* assignments/a2/scheduling_rr/main.c (and its copy in labs/lab3): main    *)
(* schedules one pthread per simulated process, handing out quanta through  *)
(* turn_id and waiting for slice_done, under one mutex and two condition    *)
(* variables.  Waits may wake up spuriously and threads may fail to start.  *)
(* Times are unbounded integers: the int overflow that very large inputs    *)
(* would cause is not modelled.                                             *)
(***************************************************************************)
EXTENDS Integers, FiniteSets

CONSTANTS
  N,         \* in.threads
  Logs,      \* MAX_THREADS_LOG
  Arrivals,  \* the arrival times that may be entered; main accepts any int
  Bursts,    \* the burst times that may be entered
  Quanta     \* the time quanta that may be entered

ASSUME NAssumption == N \in Nat \ {0}
ASSUME LogsAssumption == Logs \in Nat
ASSUME ArrivalsAssumption == Arrivals \subseteq Int
ASSUME BurstsAssumption == Bursts \subseteq Nat \ {0}
ASSUME QuantaAssumption == Quanta \subseteq Nat \ {0}

VARIABLES
  at, bt, q,    \* the input
  rem, finish, turn_id, grant, consumed, slice_done, all_started, stop,
  mtx,          \* the owner of the mutex
  now, finished, i, start_i, picked,    \* main's locals
  main,         \* where main stands
  pc,           \* where each rr_thread stands
  slice,        \* each rr_thread's slice
  logCreated, logEnded,   \* how many log threads were created, have ended
  wt,           \* the waiting times main reports
  skipped       \* history: slices given to others while a process could run

input == <<at, bt, q>>
shared == <<rem, finish, turn_id, grant, consumed, slice_done, all_started,
            stop>>
locals == <<now, finished, i, start_i, picked>>
logging == <<logCreated, logEnded>>
vars == <<input, shared, locals, mtx, main, pc, slice, logging, wt, skipped>>

Thread == 0 .. N - 1
Main == N
Free == -1

-----------------------------------------------------------------------------
(* The input that main's checks let through, and its variables. *)
Init ==
  /\ at \in [Thread -> Arrivals]
  /\ bt \in [Thread -> Bursts]
  /\ q \in Quanta
  /\ rem = bt
  /\ finish = [t \in Thread |-> -1]
  /\ turn_id = -1 /\ grant = 0 /\ consumed = 0
  /\ slice_done = FALSE /\ all_started = FALSE /\ stop = FALSE
  /\ mtx = Free
  /\ now = 0 /\ finished = 0 /\ i = 0 /\ start_i = 0 /\ picked = -1
  /\ main = "create"
  /\ pc = [t \in Thread |-> "none"]
  /\ slice = [t \in Thread |-> 0]
  /\ logCreated = 0 /\ logEnded = 0
  /\ wt = [t \in Thread |-> 0]
  /\ skipped = [t \in Thread |-> 0]

(* pthread_cond_broadcast(&cv_turn) *)
Broadcast ==
  [t \in Thread |-> CASE pc[t] = "sleep" -> "wake"
                      [] pc[t] = "sleepStart" -> "wakeStart"
                      [] OTHER -> pc[t]]

-----------------------------------------------------------------------------
(* main: creating threads *)

CreateLog ==
  /\ main = "create" /\ logCreated < Logs
  /\ logCreated' = logCreated + 1
  /\ UNCHANGED <<input, shared, locals, mtx, main, pc, slice, logEnded, wt,
                 skipped>>

(* log_worker writes its own file and ends; nothing is shared. *)
log_worker ==
  /\ main # "exit" /\ logEnded < logCreated
  /\ logEnded' = logEnded + 1
  /\ UNCHANGED <<input, shared, locals, mtx, main, pc, slice, logCreated, wt,
                 skipped>>

CreateWorker(t) ==
  /\ main = "create" /\ logCreated = Logs
  /\ pc[t] = "none" /\ \A u \in Thread : u < t => pc[u] # "none"
  /\ pc' = [pc EXCEPT ![t] = "lock"]
  /\ main' = IF t = N - 1 THEN "lock" ELSE main
  /\ UNCHANGED <<input, shared, locals, mtx, slice, logging, wt, skipped>>

(* create_log_folder or a pthread_create fails: the process exits, and     *)
(* takes every thread with it.                                             *)
CreateFails ==
  /\ main = "create"
  /\ main' = "exit"
  /\ pc' = [t \in Thread |-> "ended"]
  /\ UNCHANGED <<input, shared, locals, mtx, slice, logging, wt, skipped>>

-----------------------------------------------------------------------------
(* main: the scheduler.  It holds the mutex except in pthread_cond_wait. *)

Begin ==
  /\ main = "lock" /\ mtx = Free
  /\ mtx' = Main
  /\ all_started' = TRUE
  /\ pc' = Broadcast
  /\ main' = "while"
  /\ UNCHANGED <<input, rem, finish, turn_id, grant, consumed, slice_done, stop,
                 locals, slice, logging, wt, skipped>>

BeginSearch ==
  /\ main = "while" /\ finished < N
  /\ start_i' = i
  /\ picked' = -1
  /\ main' = "search"
  /\ UNCHANGED <<input, shared, now, finished, i, mtx, pc, slice, logging, wt,
                 skipped>>

(* Mutant: threads are runnable before they arrive. *)
RunnableEarly(t) == rem[t] > 0

Runnable(t) == rem[t] > 0 /\ at[t] <= now

Following(t) == (t + 1) % N

(* One iteration of the do-while that does not find a runnable thread. *)
SearchOn ==
  /\ main = "search" /\ ~Runnable(i)
  /\ i' = Following(i)
  /\ main' = IF i' = start_i THEN "idle" ELSE main
  /\ UNCHANGED <<input, shared, now, finished, start_i, picked, mtx, pc, slice,
                 logging, wt, skipped>>

(* Mutant: pthread_cond_signal, which may wake a thread whose turn it is   *)
(* not, instead of pthread_cond_broadcast.                                 *)
GrantSignal ==
  /\ main = "search" /\ Runnable(i)
  /\ picked' = i
  /\ turn_id' = i
  /\ grant' = IF rem[i] < q THEN rem[i] ELSE q
  /\ slice_done' = FALSE
  /\ LET asleep == {t \in Thread : pc[t] = "sleep"}
     IN  IF asleep = {} THEN pc' = pc
         ELSE \E t \in asleep : pc' = [pc EXCEPT ![t] = "wake"]
  /\ main' = "await"
  /\ UNCHANGED <<input, rem, finish, consumed, all_started, stop, now, finished,
                 i, start_i, mtx, slice, logging, wt, skipped>>

(* The search has found a runnable thread: it gets a quantum. *)
Grant ==
  /\ main = "search" /\ Runnable(i)
  /\ picked' = i
  /\ turn_id' = i
  /\ grant' = IF rem[i] < q THEN rem[i] ELSE q
  /\ slice_done' = FALSE
  /\ pc' = Broadcast
  /\ main' = "await"
  /\ UNCHANGED <<input, rem, finish, consumed, all_started, stop, now, finished,
                 i, start_i, mtx, slice, logging, wt, skipped>>

(* Mutant: now jumps to the arrival of any thread that is left. *)
JumpTimeAny ==
  /\ main = "idle"
  /\ \E t \in Thread :
       /\ rem[t] > 0
       /\ now' = IF at[t] > now THEN at[t] ELSE now
  /\ main' = "while"
  /\ UNCHANGED <<input, shared, finished, i, start_i, picked, mtx, pc, slice,
                 logging, wt, skipped>>

(* Nobody is runnable: now jumps to the next arrival.  The code's sentinel *)
(* -1 is no arrival time here, since every thread left arrives after now.  *)
JumpTime ==
  /\ main = "idle"
  /\ \E t \in Thread :
       /\ rem[t] > 0
       /\ \A u \in Thread : rem[u] > 0 => at[t] <= at[u]
       /\ now' = IF at[t] > now THEN at[t] ELSE now
  /\ main' = "while"
  /\ UNCHANGED <<input, shared, finished, i, start_i, picked, mtx, pc, slice,
                 logging, wt, skipped>>

(* while (!slice_done) pthread_cond_wait(&cv_done, &mtx) *)
AwaitSlice ==
  /\ main = "await" /\ ~slice_done
  /\ mtx' = Free
  /\ main' = "sleep"
  /\ UNCHANGED <<input, shared, locals, pc, slice, logging, wt, skipped>>

(* Leaving pthread_cond_wait: the mutex is taken again. *)
Resume ==
  /\ main = "wake" /\ mtx = Free
  /\ mtx' = Main
  /\ main' = "await"
  /\ UNCHANGED <<input, shared, locals, pc, slice, logging, wt, skipped>>

(* The slice is over: clock, finish time and pointer advance. *)
Account ==
  /\ main = "await" /\ slice_done
  /\ now' = now + consumed
  /\ IF rem[picked] = 0 /\ finish[picked] = -1
     THEN /\ finish' = [finish EXCEPT ![picked] = now']
          /\ finished' = finished + 1
     ELSE UNCHANGED <<finish, finished>>
  /\ i' = Following(picked)
  /\ skipped' = [t \in Thread |->
                   IF t = picked THEN 0
                   ELSE IF Runnable(t) THEN skipped[t] + 1 ELSE skipped[t]]
  /\ main' = "while"
  /\ UNCHANGED <<input, rem, turn_id, grant, consumed, slice_done, all_started,
                 stop, start_i, picked, mtx, pc, slice, logging, wt>>

Stop ==
  /\ main = "while" /\ finished >= N
  /\ stop' = TRUE
  /\ pc' = Broadcast
  /\ mtx' = Free
  /\ main' = "join"
  /\ UNCHANGED <<input, rem, finish, turn_id, grant, consumed, slice_done,
                 all_started, locals, slice, logging, wt, skipped>>

(* All joins have returned; the report clamps waiting times at zero. *)
Report ==
  /\ main = "join"
  /\ \A t \in Thread : pc[t] = "ended"
  /\ logEnded = Logs
  /\ wt' = [t \in Thread |-> LET w == finish[t] - at[t] - bt[t]
                             IN  IF w < 0 THEN 0 ELSE w]
  /\ main' = "done"
  /\ UNCHANGED <<input, shared, locals, mtx, pc, slice, logging, skipped>>

-----------------------------------------------------------------------------
(* rr_thread *)

(* pthread_mutex_lock, first and when pthread_cond_wait returns. *)
Lock(t) ==
  /\ pc[t] \in {"lock", "wakeStart", "wake"} /\ mtx = Free
  /\ mtx' = t
  /\ pc' = [pc EXCEPT ![t] = IF pc[t] = "wake" THEN "turn" ELSE "start"]
  /\ UNCHANGED <<input, shared, locals, main, slice, logging, wt, skipped>>

(* while (!*(w->all_started)) pthread_cond_wait(w->cv_turn, w->mtx) *)
Start(t) ==
  /\ pc[t] = "start"
  /\ IF all_started THEN pc' = [pc EXCEPT ![t] = "turn"] /\ mtx' = mtx
     ELSE pc' = [pc EXCEPT ![t] = "sleepStart"] /\ mtx' = Free
  /\ UNCHANGED <<input, shared, locals, main, slice, logging, wt, skipped>>

(* Neither stop nor its turn: the thread waits. *)
AwaitTurn(t) ==
  /\ pc[t] = "turn" /\ ~stop /\ turn_id # t
  /\ pc' = [pc EXCEPT ![t] = "sleep"]
  /\ mtx' = Free
  /\ UNCHANGED <<input, shared, locals, main, slice, logging, wt, skipped>>

End(t) ==
  /\ pc[t] = "turn" /\ stop
  /\ pc' = [pc EXCEPT ![t] = "ended"]
  /\ mtx' = Free
  /\ UNCHANGED <<input, shared, locals, main, slice, logging, wt, skipped>>

(* pthread_cond_signal(w->cv_done): only main waits on it. *)
Signal == main' = IF main = "sleep" THEN "wake" ELSE main

(* Its turn: the thread fixes its slice and works without the mutex.  A    *)
(* thread with nothing left hands the turn back at once.                   *)
BeginWork(t) ==
  /\ pc[t] = "turn" /\ ~stop /\ turn_id = t
  /\ IF rem[t] <= 0
     THEN /\ consumed' = 0 /\ turn_id' = -1 /\ slice_done' = TRUE
          /\ Signal
          /\ UNCHANGED <<pc, mtx, slice>>
     ELSE /\ LET given == IF grant <= 0 THEN 1 ELSE grant
             IN  slice' = [slice EXCEPT ![t] =
                             IF given > rem[t] THEN rem[t] ELSE given]
          /\ pc' = [pc EXCEPT ![t] = "work"]
          /\ mtx' = Free
          /\ UNCHANGED <<consumed, turn_id, slice_done, main>>
  /\ UNCHANGED <<input, rem, finish, grant, all_started, stop, locals, logging,
                 wt, skipped>>

(* Mutant: the turn is not given back, so the thread may take it again. *)
EndWorkKeepTurn(t) ==
  /\ pc[t] = "work" /\ mtx = Free
  /\ mtx' = t
  /\ rem' = [rem EXCEPT ![t] = @ - slice[t]]
  /\ consumed' = slice[t]
  /\ slice_done' = TRUE
  /\ Signal
  /\ pc' = [pc EXCEPT ![t] = "turn"]
  /\ UNCHANGED <<input, turn_id, finish, grant, all_started, stop, locals, slice,
                 logging, wt, skipped>>

(* The work is done: the thread locks the mutex, accounts for its slice    *)
(* and signals main.                                                       *)
EndWork(t) ==
  /\ pc[t] = "work" /\ mtx = Free
  /\ mtx' = t
  /\ rem' = [rem EXCEPT ![t] = @ - slice[t]]
  /\ consumed' = slice[t]
  /\ turn_id' = -1
  /\ slice_done' = TRUE
  /\ Signal
  /\ pc' = [pc EXCEPT ![t] = "turn"]
  /\ UNCHANGED <<input, finish, grant, all_started, stop, locals, slice, logging,
                 wt, skipped>>

-----------------------------------------------------------------------------
(* pthread_cond_wait may return without a signal. *)
SpuriousWakeup ==
  \/ /\ main = "sleep"
     /\ main' = "wake"
     /\ UNCHANGED pc
     /\ UNCHANGED <<input, shared, locals, mtx, slice, logging, wt, skipped>>
  \/ /\ \E t \in Thread :
          \/ pc[t] = "sleep" /\ pc' = [pc EXCEPT ![t] = "wake"]
          \/ pc[t] = "sleepStart" /\ pc' = [pc EXCEPT ![t] = "wakeStart"]
     /\ UNCHANGED main
     /\ UNCHANGED <<input, shared, locals, mtx, slice, logging, wt, skipped>>

(* The process has ended. *)
Terminated == main \in {"done", "exit"} /\ UNCHANGED vars

Scheduler ==
  \/ Begin \/ BeginSearch \/ SearchOn \/ Grant \/ JumpTime \/ AwaitSlice
  \/ Resume \/ Account \/ Stop \/ Report

Create == CreateLog \/ \E t \in Thread : CreateWorker(t)

rr_thread(t) ==
  \/ Lock(t) \/ Start(t) \/ AwaitTurn(t) \/ End(t) \/ BeginWork(t) \/ EndWork(t)

Next ==
  \/ Create \/ CreateFails \/ log_worker \/ Scheduler
  \/ \E t \in Thread : rr_thread(t)
  \/ SpuriousWakeup
  \/ Terminated

Spec == Init /\ [][Next]_vars

(* The operating system runs every thread that can run, a free mutex goes  *)
(* to somebody, and spurious wakeups do not go on for ever.                *)
FairSpec ==
  /\ Spec
  /\ WF_vars(Create) /\ WF_vars(log_worker) /\ WF_vars(Scheduler)
  /\ \A t \in Thread : WF_vars(rr_thread(t))
  /\ <>[][~SpuriousWakeup]_vars

-----------------------------------------------------------------------------
MainPc == {"create", "exit", "lock", "while", "search", "idle", "await",
           "sleep", "wake", "join", "done"}
ThreadPc == {"none", "lock", "start", "sleepStart", "wakeStart", "turn",
             "sleep", "wake", "work", "ended"}

(* Every variable of the program keeps its type. *)
TypeOK ==
  /\ at \in [Thread -> Int] /\ bt \in [Thread -> Nat \ {0}] /\ q \in Nat \ {0}
  /\ rem \in [Thread -> Nat]
  /\ finish \in [Thread -> Nat \cup {-1}]
  /\ turn_id \in -1 .. N - 1
  /\ grant \in Nat /\ consumed \in Nat
  /\ slice_done \in BOOLEAN /\ all_started \in BOOLEAN /\ stop \in BOOLEAN
  /\ mtx \in -1 .. N
  /\ now \in Nat /\ finished \in Nat
  /\ i \in Thread /\ start_i \in Thread /\ picked \in -1 .. N - 1
  /\ main \in MainPc
  /\ pc \in [Thread -> ThreadPc]
  /\ slice \in [Thread -> Nat]
  /\ logCreated \in Nat /\ logEnded \in Nat
  /\ wt \in [Thread -> Nat]
  /\ skipped \in [Thread -> Nat]

(* One simulated CPU: only the thread whose turn it is works, it alone,    *)
(* on a slice its remaining burst covers, and main waits for it meanwhile. *)
OneAtATime ==
  \A t \in Thread : pc[t] = "work" =>
    /\ turn_id = t /\ ~slice_done
    /\ main \in {"await", "sleep", "wake"} /\ picked = t
    /\ slice[t] \in 1 .. rem[t]
    /\ \A u \in Thread : pc[u] = "work" => u = t

(* A thread that has the turn has work left, so the branch main.c:94 calls *)
(* "shouldn't be scheduled" is never taken.                                *)
TurnHasWork ==
  turn_id # -1 => rem[turn_id] > 0 /\ ~slice_done

(* Between the worker's accounting and main's, the slice counts as not yet *)
(* run: main's step is the one the abstract scheduler sees.                *)
RemBar ==
  IF slice_done /\ main \in {"await", "sleep", "wake"}
  THEN [rem EXCEPT ![picked] = @ + consumed]
  ELSE rem

IBar == IF main \in {"search", "idle", "await", "sleep", "wake"} THEN start_i
        ELSE i

RR == INSTANCE RoundRobin WITH rem <- RemBar, i <- IBar

(* Threads, mutex and condition variables implement the sequential round   *)
(* robin: same slices, in the same order, at the same times.               *)
ImplementsRoundRobin == RR!Spec

(* The clamp of main.c:262 never hides anything: each reported waiting     *)
(* time is finish - arrival - burst, of a thread that has really finished. *)
ReportExact ==
  main = "done" =>
    \A t \in Thread : finish[t] # -1 /\ wt[t] = finish[t] - at[t] - bt[t]

(* Unless a thread cannot be created, main reports and every thread ends:  *)
(* no wakeup is lost, whatever the order in which the threads start.       *)
Termination == <>(main \in {"done", "exit"} /\ \A t \in Thread : pc[t] = "ended")
=============================================================================
