------------------------------ MODULE Parallel ------------------------------
(***************************************************************************)
(* nparallel of modules/m4/mapreduce/mapreduceapps/mtiming.go (nparallelR of *)
(* rtiming.go is a copy for the reduce phase): workers find out through      *)
(* files in the working directory how many of them run a task at a time.     *)
(* A worker may be killed at any moment and then leaves its file behind;     *)
(* the number of a process that has ended is not given to another one.       *)
(***************************************************************************)
EXTENDS FiniteSets

CONSTANT Pids    \* the worker processes

VARIABLES
  pc,       \* where each worker stands
  exists,   \* the workers whose file mapreduce-worker-PHASE-PID is there
  visited,  \* the entries each worker's Readdirnames has passed
  names,    \* the entries it has returned
  alive     \* those for which kill(xpid, 0) then succeeded, counted in ret

vars == <<pc, exists, visited, names, alive>>

Init ==
  /\ pc = [p \in Pids |-> "idle"]
  /\ exists = {}
  /\ visited = [p \in Pids |-> {}] /\ names = [p \in Pids |-> {}]
  /\ alive = [p \in Pids |-> {}]

At(p, place) == pc' = [pc EXCEPT ![p] = place]

WriteFile(p) ==
  /\ pc[p] = "idle"
  /\ exists' = exists \cup {p}
  /\ visited' = [visited EXCEPT ![p] = {}]
  /\ names' = [names EXCEPT ![p] = {}]
  /\ alive' = [alive EXCEPT ![p] = {}]
  /\ At(p, "scan")

(* Readdirnames returns each entry that is there throughout; one that comes *)
(* or goes meanwhile may be returned or not.                                *)
Readdirnames(p) ==
  /\ pc[p] = "scan"
  /\ \/ \E x \in Pids \ visited[p] :
          /\ visited' = [visited EXCEPT ![p] = @ \cup {x}]
          /\ names' = [names EXCEPT ![p] = IF x \in exists THEN @ \cup {x} ELSE @]
          /\ UNCHANGED pc
     \/ visited[p] = Pids /\ At(p, "kill") /\ UNCHANGED <<visited, names>>
  /\ UNCHANGED <<exists, alive>>

Running(x) == pc[x] # "killed"

(* Mutant: the file is removed before the worker sleeps. *)
Kill_removes(p) ==
  /\ pc[p] = "kill"
  /\ IF names[p] = {} THEN At(p, "sleep") /\ exists' = exists \ {p} /\ UNCHANGED <<names, alive>>
     ELSE \E x \in names[p] :
            /\ names' = [names EXCEPT ![p] = @ \ {x}]
            /\ alive' = [alive EXCEPT ![p] = IF Running(x) THEN @ \cup {x} ELSE @]
            /\ UNCHANGED <<pc, exists>>
  /\ UNCHANGED visited

(* The loop over the names, which may be in any order. *)
Kill(p) ==
  /\ pc[p] = "kill"
  /\ IF names[p] = {} THEN At(p, "sleep") /\ UNCHANGED <<names, alive>>
     ELSE \E x \in names[p] :
            /\ names' = [names EXCEPT ![p] = @ \ {x}]
            /\ alive' = [alive EXCEPT ![p] = IF Running(x) THEN @ \cup {x} ELSE @]
            /\ UNCHANGED pc
  /\ UNCHANGED <<exists, visited>>

(* After a second the file is removed, and the task returns. *)
Remove(p) ==
  /\ pc[p] = "sleep"
  /\ exists' = exists \ {p}
  /\ At(p, "idle")
  /\ UNCHANGED <<visited, names, alive>>

Crash(p) ==
  /\ Running(p)
  /\ At(p, "killed")
  /\ UNCHANGED <<exists, visited, names, alive>>

(* Every worker has been killed. *)
Terminated == (\A p \in Pids : ~Running(p)) /\ UNCHANGED vars

Next ==
  \/ \E p \in Pids : WriteFile(p) \/ Readdirnames(p) \/ Kill(p) \/ Remove(p) \/ Crash(p)
  \/ Terminated

Spec == Init /\ [][Next]_vars

-----------------------------------------------------------------------------
(* "Other workers will see that we're running at the same time": of two      *)
(* workers that sleep at the same time, one has counted the other; each has  *)
(* counted itself, and finds its file when it removes it, so that os.Remove  *)
(* does not make it panic.                                                   *)
OverlapCounted ==
  \A p \in Pids : pc[p] = "sleep" =>
    /\ p \in alive[p] /\ p \in exists
    /\ \A q \in Pids : pc[q] = "sleep" => q \in alive[p] \/ p \in alive[q]
=============================================================================
