------------------------------ MODULE EventLoop ------------------------------
(***************************************************************************)
(* assignments/a4/a4_cpp/stencil_old: main starts myEventLoop, which draws, *)
(* arms a timer that runs myEventLoop in a detached thread a second later, *)
(* sleeps for a second, and then takes at most one command from the named  *)
(* pipe.  Nothing but these sleeps keeps two threads apart.                *)
(*                                                                         *)
(* A tick is a second.  A thread that is awake may fall behind by Lag      *)
(* ticks: with Lag = 0 every stretch between two sleeps takes less than a  *)
(* second, and with a larger Lag the scheduler may hold threads up.        *)
(***************************************************************************)
EXTENDS Integers, FiniteSets

CONSTANTS
    Threads,        \* threads that can exist at once; 0 runs main
    Lag, Commands, MaxSent,
    MAX_LEVEL, MAX_ADD_INK, Levels,     \* Levels: the tanks' initial levels
    MIN_SLEEP_TIME, SleepTime,          \* SleepTime: initial producerSleepTime
    InklingSleep,   \* initial inklingSleepTime
    MaxDepth,       \* recursiveDepth at which myEventLoop gives up, 5
    MainSleep       \* seconds main sleeps at the end, 30

Tanks == {"r", "g", "b"}

(* No stretch between two sleeps takes as long as MaxDepth timers; the tanks *)
(* start within their limit.                                                 *)
ConstantsOK ==
    /\ IsFiniteSet(Threads) /\ 0 \in Threads
    /\ Lag \in Nat /\ MaxDepth \in Nat /\ Lag < MaxDepth
    /\ "none" \notin Commands /\ MaxSent \in Nat
    /\ MAX_LEVEL \in Nat /\ MAX_ADD_INK \in Nat /\ Levels \in [Tanks -> 0 .. MAX_LEVEL]
    /\ MainSleep \in Nat

VARIABLES
    pc, wake, late,     \* of each thread: where it is, its sleep, its delay
    rows, allocated,    \* NUM_ROWS, and what has become of the grid
    numLiveThreads, recursiveDepth,
    numPipesOpen, pipe_fd, opens,   \* pipe_fd: 0, 1 for a descriptor, or -1
    pipe, sent,         \* bytes in the pipe, bytes written to it
    command, applied,   \* in each thread's myKeyboard; commands carried out
    level, producerSleepTime, inklingSleepTime,
    process             \* "running" or "exited"

drawing == <<rows, allocated, numLiveThreads>>
tanks == <<level, producerSleepTime, inklingSleepTime>>
piping == <<numPipesOpen, pipe_fd, opens, pipe, sent, command, applied>>
vars == <<pc, wake, late, drawing, recursiveDepth, piping, tanks, process>>

(* Before initializeFrontEnd: three valid arguments, no arguments, or three *)
(* arguments that are too small, which leave everything at 0.               *)
Started == {[rows |-> 20, live |-> 8], [rows |-> 8, live |-> 4], [rows |-> 0, live |-> 0]}

Init ==
    /\ pc = [t \in Threads |-> IF t = 0 THEN "frontend" ELSE "none"]
    /\ wake = [t \in Threads |-> 0] /\ late = [t \in Threads |-> 0]
    /\ \E s \in Started : rows = s.rows /\ numLiveThreads = s.live
    /\ allocated = "no" /\ recursiveDepth = 0
    /\ numPipesOpen = 0 /\ pipe_fd = 0 /\ opens = 0 /\ pipe = 0 /\ sent = 0
    /\ command = [t \in Threads |-> "none"] /\ applied = 0
    /\ level = Levels /\ producerSleepTime = SleepTime /\ inklingSleepTime = InklingSleep
    /\ process = "running"

Go(t, from, to) ==
    /\ process = "running" /\ pc[t] = from /\ wake[t] = 0
    /\ pc' = [pc EXCEPT ![t] = to]
    /\ late' = [late EXCEPT ![t] = IF to = "none" THEN 0 ELSE @]

(* cleanupAndQuit: the rows are deleted, then the grid; exit(0). *)
cleanupAndQuit ==
    /\ allocated' = (IF rows = 0 /\ allocated = "no" THEN "no"
                     ELSE IF allocated = "yes" THEN "freed" ELSE "wrong")
    /\ process' = "exited"
    /\ UNCHANGED <<rows, numLiveThreads>>

(* updateTerminal calls drawState, which quits if there are no live threads. *)
updateTerminal ==
    IF numLiveThreads = 0 THEN cleanupAndQuit ELSE UNCHANGED <<drawing, process>>

initializeFrontEnd ==
    /\ Go(0, "frontend", "application") /\ updateTerminal
    /\ UNCHANGED <<wake, recursiveDepth, piping, tanks>>

initializeApplication ==
    /\ Go(0, "application", "draw") /\ allocated' = "yes"
    /\ UNCHANGED <<wake, rows, numLiveThreads, recursiveDepth, piping, tanks, process>>

-----------------------------------------------------------------------------
(* myEventLoop *)
Draw(t) ==
    /\ Go(t, "draw", "guard") /\ updateTerminal
    /\ UNCHANGED <<wake, recursiveDepth, piping, tanks>>

(* After myEventLoop a timer's thread ends, and main sleeps and returns. *)
Finish(t, from) ==
    /\ Go(t, from, IF t = 0 THEN "return" ELSE "none")
    /\ wake' = [wake EXCEPT ![t] = IF t = 0 THEN MainSleep ELSE 0]


Guard(t) ==
    /\ IF recursiveDepth >= MaxDepth
       THEN Finish(t, "guard") /\ UNCHANGED recursiveDepth
       ELSE /\ Go(t, "guard", "arm") /\ recursiveDepth' = recursiveDepth + 1
            /\ UNCHANGED wake
    /\ UNCHANGED <<drawing, piping, tanks, process>>

(* The new thread sleeps for a second before it calls myEventLoop. *)
customTimerFunc(t) ==
    /\ process = "running" /\ pc[t] = "arm"
    /\ \E new \in {u \in Threads \ {0} : pc[u] = "none"} :
         /\ \A u \in Threads \ {0} : u < new => pc[u] # "none"
         /\ pc' = [pc EXCEPT ![t] = "leave", ![new] = "draw"]
         /\ wake' = [wake EXCEPT ![new] = 1]
    /\ UNCHANGED <<late, drawing, recursiveDepth, piping, tanks, process>>

(* recursiveDepth is decremented; then the thread sleeps. *)
Leave(t) ==
    /\ Go(t, "leave", "access")
    /\ recursiveDepth' = recursiveDepth - 1
    /\ wake' = [wake EXCEPT ![t] = 1]
    /\ UNCHANGED <<drawing, piping, tanks, process>>

(* The pipe exists or not; numPipesOpen is read, and later incremented. *)
Access(t) ==
    /\ \/ Finish(t, "access")
       \/ Go(t, "access", IF numPipesOpen = 0 THEN "open" ELSE "read") /\ UNCHANGED wake
    /\ UNCHANGED <<drawing, recursiveDepth, piping, tanks, process>>

OpenPipe(t) ==
    /\ Go(t, "open", "count")
    /\ \/ pipe_fd' = 1 /\ opens' = opens + 1
       \/ pipe_fd' = -1 /\ UNCHANGED opens     \* and numPipesOpen counts it all the same
    /\ UNCHANGED <<wake, drawing, recursiveDepth, numPipesOpen, pipe, sent, command, applied,
                   tanks, process>>

CountPipe(t) ==
    /\ Go(t, "count", "read") /\ numPipesOpen' = numPipesOpen + 1
    /\ UNCHANGED <<wake, drawing, recursiveDepth, pipe_fd, opens, pipe, sent, command, applied, tanks,
                   process>>

(* read: one byte, or nothing, if the pipe is open. *)
ReadPipe(t) ==
    /\ IF pipe_fd <= 0 \/ pipe = 0 THEN Finish(t, "read") /\ UNCHANGED <<pipe, command>>
       ELSE /\ Go(t, "read", "key") /\ UNCHANGED wake
            /\ \E c \in Commands : command' = [command EXCEPT ![t] = c]
            /\ pipe' = pipe - 1
    /\ UNCHANGED <<drawing, recursiveDepth, numPipesOpen, pipe_fd, opens, sent, applied, tanks, process>>

-----------------------------------------------------------------------------
(* myKeyboard *)
Take(t, next) ==
    /\ Go(t, "key", next)
    /\ applied' = applied + 1
    /\ UNCHANGED <<recursiveDepth, numPipesOpen, pipe_fd, opens, pipe, sent>>

KeyDone(t) == wake' = [wake EXCEPT ![t] = IF t = 0 THEN MainSleep ELSE 0]
AfterKey(t) == IF t = 0 THEN "return" ELSE "none"

RefillFits(c) == level[c] + MAX_ADD_INK <= MAX_LEVEL

(* refill*Ink: the level is tested, and later added to. *)
RefillTest(t) ==
    /\ command[t] \in Tanks
    /\ IF RefillFits(command[t])
       THEN Take(t, "refill") /\ UNCHANGED <<wake, command>>
       ELSE Take(t, AfterKey(t)) /\ KeyDone(t) /\ command' = [command EXCEPT ![t] = "none"]
    /\ UNCHANGED <<drawing, tanks, process>>

RefillAdd(t) ==
    /\ Finish(t, "refill")
    /\ level' = [level EXCEPT ![command[t]] = @ + MAX_ADD_INK]
    /\ command' = [command EXCEPT ![t] = "none"]
    /\ UNCHANGED <<drawing, recursiveDepth, numPipesOpen, pipe_fd, opens, pipe, sent, applied,
                   producerSleepTime, inklingSleepTime, process>>

Faster(s) == IF (8 * s) \div 10 > MIN_SLEEP_TIME THEN (8 * s) \div 10 ELSE s
Slower(s) == (12 * s) \div 10

ChangeSpeed(t) ==
    /\ command[t] \in {"<", ">"} /\ Take(t, AfterKey(t)) /\ KeyDone(t)
    /\ producerSleepTime' = (IF command[t] = ">" THEN Faster(producerSleepTime)
                             ELSE Slower(producerSleepTime))
    /\ command' = [command EXCEPT ![t] = "none"]
    /\ UNCHANGED <<drawing, level, inklingSleepTime, process>>

(* The keys + and -. *)
MoveFaster(s) == IF s - 100000 > 0 THEN s - 100000 ELSE s
MoveSlower(s) == IF s + 100000 < 2147483647 THEN s + 100000 ELSE s

ChangePace(t) ==
    /\ command[t] \in {"+", "-"} /\ Take(t, AfterKey(t)) /\ KeyDone(t)
    /\ inklingSleepTime' = (IF command[t] = "+" THEN MoveFaster(inklingSleepTime)
                            ELSE MoveSlower(inklingSleepTime))
    /\ command' = [command EXCEPT ![t] = "none"]
    /\ UNCHANGED <<drawing, level, producerSleepTime, process>>

Escape(t) ==
    /\ command[t] = "esc" /\ Take(t, AfterKey(t)) /\ KeyDone(t) /\ cleanupAndQuit
    /\ command' = [command EXCEPT ![t] = "none"]
    /\ UNCHANGED tanks

OtherKey(t) ==
    /\ command[t] \notin Tanks \union {"<", ">", "+", "-", "esc"}
    /\ Take(t, AfterKey(t)) /\ KeyDone(t)
    /\ command' = [command EXCEPT ![t] = "none"]
    /\ UNCHANGED <<drawing, tanks, process>>

-----------------------------------------------------------------------------
(* main returns. *)
Return ==
    /\ Go(0, "return", "none") /\ process' = "exited"
    /\ UNCHANGED <<wake, drawing, recursiveDepth, piping, tanks>>

(* Someone writes a command to the pipe. *)
Send ==
    /\ process = "running" /\ sent < MaxSent
    /\ pipe' = pipe + 1 /\ sent' = sent + 1
    /\ UNCHANGED <<pc, wake, late, drawing, recursiveDepth, numPipesOpen, pipe_fd, opens, command,
                   applied, tanks, process>>

(* Threads that a tick may hold up. *)
Awake(t) == pc[t] # "none" /\ wake[t] = 0

Tick ==
    /\ process = "running"
    /\ \A t \in Threads : Awake(t) => late[t] < Lag
    /\ wake' = [t \in Threads |-> IF wake[t] > 0 THEN wake[t] - 1 ELSE 0]
    /\ late' = [t \in Threads |-> IF Awake(t) THEN late[t] + 1 ELSE 0]
    /\ UNCHANGED <<pc, drawing, recursiveDepth, piping, tanks, process>>

Next ==
    \/ initializeFrontEnd \/ initializeApplication \/ Return \/ Send \/ Tick
    \/ \E t \in Threads :
         \/ Draw(t) \/ Guard(t) \/ customTimerFunc(t) \/ Leave(t)
         \/ Access(t) \/ OpenPipe(t) \/ CountPipe(t) \/ ReadPipe(t)
         \/ RefillTest(t) \/ RefillAdd(t) \/ ChangeSpeed(t) \/ ChangePace(t) \/ Escape(t)
         \/ OtherKey(t)

Spec == Init /\ [][Next]_vars

-----------------------------------------------------------------------------
Upstream == {t \in Threads : pc[t] \in {"frontend", "application", "draw", "guard", "arm"}}

(* While the program runs, exactly one thread or armed timer will draw and *)
(* arm the next timer: the animation neither stops nor multiplies.          *)
OneSuccessor == process = "running" => Cardinality(Upstream) = 1

(* The sleeps keep the threads apart, although none takes a lock: the pipe  *)
(* is opened once, as the comment says; every command sent is still in it,  *)
(* in the hands of one thread, or has been carried out, once; and no refill *)
(* overfills a tank.                                                        *)
KeptApart ==
    /\ opens <= 1
    /\ sent = pipe + applied
               + Cardinality({t \in Threads : command[t] # "none" /\ pc[t] = "key"})
    /\ \A c \in Tanks : level[c] \in 0 .. MAX_LEVEL

(* Whoever quits, and whenever, deletes a grid that has been allocated and  *)
(* not yet deleted, or none at all.                                         *)
GridFreedOnce == allocated # "wrong"
=============================================================================
