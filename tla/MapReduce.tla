------------------------------ MODULE MapReduce ------------------------------
(***************************************************************************)
(* The coordinator and the workers of modules/m4/mapreduce: MakeCoordinator  *)
(* splits the input files into map jobs, opens its socket and goes through   *)
(* its phases while workers ask for work.  Handing out jobs is left to       *)
(* students: AssignJob answers UNKNOWN_TASK and Done says yes, so a worker   *)
(* asks until the coordinator is gone.                                       *)
(***************************************************************************)
EXTENDS Integers, Sequences, FiniteSets

CONSTANTS
  Names,          \* files that may be named on the command line
  Sizes,          \* their sizes in bytes
  MaxFiles,       \* how many arguments there may be
  map_input_size, \* bytes in a map job, 64 MB in the code
  nReduce,        \* numberOfJobs of main
  Outputs,        \* files mapreduce-M-R that earlier runs may have left
  Workers

ConstantsOK ==
  /\ Sizes \subseteq Nat /\ MaxFiles \in Nat /\ nReduce \in Nat
  /\ map_input_size \in Nat \ {0}

VARIABLES
  files, size, readable,    \* the arguments, and what the file system holds
  directory,                \* intermediate files in the working directory
  mapJobs, reduceJobs, mapDone,  \* the Coordinator
  k, offset, chunkSize, job_id,  \* locals of MakeCoordinator
  stage,                    \* where the coordinator process stands
  serving,                  \* does anybody answer on the socket?
  worker                    \* where each worker stands

input == <<files, size, readable, directory>>
splitting == <<k, offset, chunkSize, job_id>>
vars == <<input, mapJobs, reduceJobs, mapDone, splitting, stage, serving, worker>>

Init ==
  /\ files \in UNION {[1 .. n -> Names] : n \in 1 .. MaxFiles}
  /\ size \in [Names -> Sizes]
  /\ readable \in SUBSET Names
  /\ directory \in SUBSET Outputs
  /\ mapJobs = <<>> /\ reduceJobs = <<>> /\ mapDone = 0
  /\ k = 1 /\ offset = 0 /\ chunkSize = map_input_size /\ job_id = 1000
  /\ stage = "open" /\ serving = FALSE
  /\ worker = [w \in Workers |-> "ask"]

-----------------------------------------------------------------------------
(* MakeCoordinator *)

(* A file that cannot be read ends it before the server is started. *)
OpenFile ==
  /\ stage = "open" /\ k <= Len(files)
  /\ stage' = IF files[k] \in readable THEN "split" ELSE "main"
  /\ offset' = 0 /\ chunkSize' = map_input_size
  /\ UNCHANGED <<input, mapJobs, reduceJobs, mapDone, k, job_id, serving, worker>>

(* Mutant: the last piece is as long as the others. *)
Chunk_full(left) == chunkSize

Chunk(left) == IF left < chunkSize THEN left ELSE chunkSize

AddMapJob ==
  LET chunk == Chunk(size[files[k]] - offset)
  IN  /\ stage = "split" /\ offset < size[files[k]]
      /\ mapJobs' = Append(mapJobs, [job_id |-> job_id, file_location |-> files[k],
                                     file_index |-> offset, m_size |-> chunk])
      /\ chunkSize' = chunk
      /\ offset' = offset + chunk
      /\ job_id' = job_id + 1
      /\ UNCHANGED <<input, reduceJobs, mapDone, k, stage, serving, worker>>

FileSplit ==
  /\ stage = "split" /\ offset >= size[files[k]]
  /\ k' = k + 1
  /\ stage' = "open"
  /\ UNCHANGED <<input, mapJobs, reduceJobs, mapDone, offset, chunkSize, job_id,
                 serving, worker>>

(* log.Fatal ends the process if the socket cannot be opened. *)
server ==
  /\ stage = "open" /\ k > Len(files)
  /\ \/ stage' = "map" /\ serving' = TRUE
     \/ stage' = "gone" /\ serving' = FALSE
  /\ UNCHANGED <<input, mapJobs, reduceJobs, mapDone, splitting, worker>>

(* Done reports that every job of the phase is finished, whatever they are. *)
Done == TRUE

MapPhaseDone ==
  /\ stage = "map" /\ Done
  /\ mapDone' = 1
  /\ stage' = "reduce"
  /\ UNCHANGED <<input, mapJobs, reduceJobs, splitting, serving, worker>>

GetIntermediateFiles(rNum) == {f \in directory : f.bucket = rNum}

AddReduceJob ==
  /\ stage = "reduce" /\ Len(reduceJobs) < nReduce
  /\ reduceJobs' = Append(reduceJobs,
       [job_id |-> Len(reduceJobs), intermediateFiles |-> GetIntermediateFiles(Len(reduceJobs))])
  /\ UNCHANGED <<input, mapJobs, mapDone, splitting, stage, serving, worker>>

ReducePhaseDone ==
  /\ stage = "reduce" /\ Len(reduceJobs) >= nReduce /\ Done
  /\ stage' = "main"
  /\ UNCHANGED <<input, mapJobs, reduceJobs, mapDone, splitting, serving, worker>>

(* main asks once more, waits a second and exits; the socket goes with it. *)
Exit ==
  /\ stage = "main" /\ Done
  /\ stage' = "gone" /\ serving' = FALSE
  /\ UNCHANGED <<input, mapJobs, reduceJobs, mapDone, splitting, worker>>

-----------------------------------------------------------------------------
(* Worker *)

At(w, place) == worker' = [worker EXCEPT ![w] = place]

Coordinator ==
  <<input, mapJobs, reduceJobs, mapDone, splitting, stage, serving>>

(* call(): without a coordinator that listens, the worker ends. *)
CallGetJob(w) ==
  /\ worker[w] = "ask"
  /\ At(w, IF serving THEN "calling" ELSE "ended")
  /\ UNCHANGED Coordinator

(* AssignJob: no work right now, in either phase. *)
AssignJob(w) ==
  /\ worker[w] = "calling" /\ serving
  /\ At(w, "unknown task")
  /\ UNCHANGED Coordinator

(* The coordinator exits before it has answered. *)
CallFails(w) ==
  /\ worker[w] = "calling" /\ ~serving
  /\ At(w, "ended")
  /\ UNCHANGED Coordinator

(* The worker backs off and asks again. *)
BackOff(w) ==
  /\ worker[w] = "unknown task"
  /\ At(w, "ask")
  /\ UNCHANGED Coordinator

Terminated ==
  /\ stage = "gone" /\ \A w \in Workers : worker[w] = "ended"
  /\ UNCHANGED vars

Next ==
  \/ OpenFile \/ AddMapJob \/ FileSplit \/ server \/ MapPhaseDone \/ AddReduceJob
  \/ ReducePhaseDone \/ Exit
  \/ \E w \in Workers : CallGetJob(w) \/ AssignJob(w) \/ CallFails(w) \/ BackOff(w)
  \/ Terminated

Spec == Init /\ [][Next]_vars

-----------------------------------------------------------------------------
(* The jobs that read byte b of file f, and how often the first n arguments  *)
(* name f.                                                                   *)
Reading(f, b) ==
  {n \in DOMAIN mapJobs :
     mapJobs[n].file_location = f
       /\ b >= mapJobs[n].file_index /\ b < mapJobs[n].file_index + mapJobs[n].m_size}

Named(f, n) == {x \in 1 .. n : files[x] = f}

(* A worker that has reached the coordinator finds the input split without a *)
(* gap or an overlap: each byte of a file is in one map job for each time    *)
(* the file was named, jobs are numbered one after the other and none is     *)
(* empty, too long or reaches past the end of its file.  When the phases are *)
(* over there is one reduce job for each bucket.                             *)
JobsCoverInput ==
  /\ \A n \in DOMAIN mapJobs :
       /\ mapJobs[n].job_id = 999 + n /\ mapJobs[n].m_size \in 1 .. map_input_size
       /\ mapJobs[n].file_index + mapJobs[n].m_size <= size[mapJobs[n].file_location]
  /\ serving \/ (\E w \in Workers : worker[w] \in {"calling", "unknown task"}) =>
       \A f \in Names : \A b \in 0 .. size[f] - 1 :
         Cardinality(Reading(f, b)) = Cardinality(Named(f, Len(files)))
  /\ serving /\ stage = "main" =>
       /\ mapDone = 1 /\ Len(reduceJobs) = nReduce
       /\ \A r \in 1 .. nReduce : reduceJobs[r].job_id = r - 1
=============================================================================
