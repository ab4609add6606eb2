----------------------------- MODULE MCPrograms -----------------------------
(***************************************************************************)
(* Model checking of the smaller programs: the ink simulation of a4 in C++  *)
(* and in C, the shell and the list of m2, the string functions and         *)
(* qemu-nograb of m3, the MapReduce of m4, the voting of lab 5 and the      *)
(* appliers of the Raft tester of m5.  They share no state, so every        *)
(* behaviour is one of a single part, part; the variables of the others     *)
(* stay Idle.                                                               *)
(***************************************************************************)
EXTENDS Integers, Sequences, FiniteSets

VARIABLE part

(* EventLoop: main and three timers, stretches of less than a second, two   *)
(* sleep times from their limits, the depth and the tank of the code.       *)
VARIABLES pc, wake, late, rows, allocated, numLiveThreads, recursiveDepth, numPipesOpen,
    pipe_fd, opens, pipe, sent, taken, applied, level, producerSleepTime, inklingSleepTime,
    process
E == INSTANCE EventLoop WITH
    command <- taken,
    Threads <- 0 .. 3, Lag <- 0, MaxSent <- 3,
    Commands <- {"r", "b", "<", ">", "+", "-", "esc", "x"},
    MAX_LEVEL <- 50, MAX_ADD_INK <- 10, Levels <- [r |-> 20, g |-> 10, b |-> 40],
    MIN_SLEEP_TIME <- 70000, SleepTime <- 100000, InklingSleep <- 200000,
    MaxDepth <- 5, MainSleep <- 6
ASSUME EventLoopConstants == E!ConstantsOK

(* InkConfig: keys of every kind of value and of both subsections of ui. *)
VARIABLES stage, section, cfg, state, place, opened, file, lines
I == INSTANCE InkConfig WITH
    FileKeys <- {<<"logs", "dir">>, <<"simulation", "default_rows">>,
                 <<"simulation", "draw_colored_traveler_heads">>,
                 <<"ink", "initial_red_level">>, <<"icon_directions", "none">>,
                 <<"messages", "ink_tank_header">>},
    Values <- {[word |-> "number", n |-> 8], [word |-> "number", n |-> 20],
               [word |-> "true", n |-> 0], [word |-> "quoted", n |-> 8],
               [word |-> "text", n |-> 127]},
    MaxLines <- 5

(* LinkedList: up to four nodes at once, two values. *)
VARIABLES heap, live, head_list, curr, placeholder, status, returned, list
L == INSTANCE LinkedList WITH Nodes <- 1 .. 4, Values <- {1, 2}

(* Shell: quotes at each end of a word and alone; one argument too many. *)
VARIABLES line, pos, command, args, outputFile, shell, prompts
S == INSTANCE Shell WITH
    status <- shell, lines <- prompts,
    Tokens <- {<<"w">>, <<">">>, <<"quote">>, <<"quote", "w">>, <<"w", "quote">>,
               <<"quote", "w", "quote">>},
    MaxTokens <- 5, MAX_ARGS <- 3, MaxLines <- 1

(* LibString: memories of four bytes, one of them negative as a char. *)
VARIABLES mem, before, call, asked, result
M == INSTANCE LibString WITH Size <- 4, Bytes <- {0, 1, 200}

(* NoGrab: an entry, its name and one block more, which free memory to reuse. *)
VARIABLES next_malloc, test_mode, test_event, test_name, memory, marked, recent, calls
G == INSTANCE NoGrab WITH Blocks <- 1 .. 3, MaxCalls <- 4
ASSUME NoGrabConstants == G!ConstantsOK

(* RaftApplier: two servers, one of them restarted; any Raft. *)
VARIABLES snap, logs, lastApplied, starts, rafts, saved, next, applier, msg, err, rf, messages,
    snapshots, ever, back, tester, test
R == INSTANCE RaftApplier WITH
    pc <- applier, sent <- messages, taken <- snapshots, status <- test,
    N <- 2, Restarted <- {1}, MaxStarts <- 2, MaxSent <- 3, MaxIndex <- 2,
    Commands <- {"a", "b"}, Submitted <- "a", Expected <- {2}, Interval <- 2,
    Snap <- BOOLEAN, Correct <- FALSE
ASSUME RaftConstants == R!ConstantsOK

(* MapReduce: files of no piece, of one, of one exactly full and of three.   *)
VARIABLES files, size, readable, directory, mapJobs, reduceJobs, mapDone, k, offset, chunkSize,
    job_id, coordinator, serving, worker
J == INSTANCE MapReduce WITH
    stage <- coordinator,
    Names <- {"f", "g"}, Sizes <- {0, 1, 2, 5}, MaxFiles <- 2, map_input_size <- 2, nReduce <- 2,
    Outputs <- {[map |-> 1000, bucket |-> 1]}, Workers <- {"v", "w"}
ASSUME MapReduceConstants == J!ConstantsOK

(* Sequential: a key that two files share and a pair that comes twice.       *)
VARIABLES arguments, accessible, main, number, i, intermediate, reduced
Q == INSTANCE Sequential WITH
    files <- arguments, readable <- accessible, stage <- main, k <- number, calls <- reduced,
    MaxFiles <- 2,
    Emitted <- [f |-> <<[key |-> 2, value |-> "a"], [key |-> 1, value |-> "a"]>>,
                g |-> <<[key |-> 2, value |-> "b"], [key |-> 2, value |-> "a"]>>,
                h |-> <<>>]

(* Parallel: two workers that overlap and a third. *)
VARIABLES task, exists, visited, names, alive
N == INSTANCE Parallel WITH pc <- task, Pids <- 1 .. 3

(* Voting: three votes for three words, so that a round may be tied. *)
VARIABLES round, cast, ballotBox, mutex, waitGroup, vote, voter, old, word, maxVotes, winner, tied
V == INSTANCE Voting WITH main <- round, pc <- voter, Words <- 3, Votes <- 3
ASSUME VotingConstants == V!ConstantsOK

Idle == "idle"

EventLoopIdle ==
    /\ pc = Idle /\ wake = Idle /\ late = Idle /\ rows = Idle /\ allocated = Idle
    /\ numLiveThreads = Idle /\ recursiveDepth = Idle /\ numPipesOpen = Idle /\ pipe_fd = Idle
    /\ opens = Idle /\ pipe = Idle /\ sent = Idle /\ taken = Idle /\ applied = Idle
    /\ level = Idle /\ producerSleepTime = Idle /\ inklingSleepTime = Idle /\ process = Idle

InkConfigIdle ==
    /\ stage = Idle /\ section = Idle /\ cfg = Idle /\ state = Idle /\ place = Idle
    /\ opened = Idle /\ file = Idle /\ lines = Idle

LinkedListIdle ==
    /\ heap = Idle /\ live = Idle /\ head_list = Idle /\ curr = Idle /\ placeholder = Idle
    /\ status = Idle /\ returned = Idle /\ list = Idle

ShellIdle ==
    /\ line = Idle /\ pos = Idle /\ command = Idle /\ args = Idle /\ outputFile = Idle
    /\ shell = Idle /\ prompts = Idle

LibStringIdle == mem = Idle /\ before = Idle /\ call = Idle /\ asked = Idle /\ result = Idle

NoGrabIdle ==
    /\ next_malloc = Idle /\ test_mode = Idle /\ test_event = Idle /\ test_name = Idle
    /\ memory = Idle /\ marked = Idle /\ recent = Idle /\ calls = Idle

RaftApplierIdle ==
    /\ snap = Idle /\ logs = Idle /\ lastApplied = Idle /\ starts = Idle /\ rafts = Idle
    /\ saved = Idle /\ next = Idle /\ applier = Idle /\ msg = Idle /\ err = Idle /\ rf = Idle
    /\ messages = Idle /\ snapshots = Idle /\ ever = Idle /\ back = Idle
    /\ tester = Idle /\ test = Idle

MapReduceIdle ==
    /\ files = Idle /\ size = Idle /\ readable = Idle /\ directory = Idle /\ mapJobs = Idle
    /\ reduceJobs = Idle /\ mapDone = Idle /\ k = Idle /\ offset = Idle /\ chunkSize = Idle
    /\ job_id = Idle /\ coordinator = Idle /\ serving = Idle /\ worker = Idle

SequentialIdle ==
    /\ arguments = Idle /\ accessible = Idle /\ main = Idle /\ number = Idle /\ i = Idle
    /\ intermediate = Idle /\ reduced = Idle

ParallelIdle ==
    task = Idle /\ exists = Idle /\ visited = Idle /\ names = Idle /\ alive = Idle

VotingIdle ==
    /\ round = Idle /\ cast = Idle /\ ballotBox = Idle /\ mutex = Idle /\ waitGroup = Idle
    /\ vote = Idle /\ voter = Idle /\ old = Idle /\ word = Idle /\ maxVotes = Idle
    /\ winner = Idle /\ tied = Idle

eventloop == <<pc, wake, late, rows, allocated, numLiveThreads, recursiveDepth, numPipesOpen,
               pipe_fd, opens, pipe, sent, taken, applied, level, producerSleepTime,
               inklingSleepTime, process>>
inkconfig == <<stage, section, cfg, state, place, opened, file, lines>>
linkedlist == <<heap, live, head_list, curr, placeholder, status, returned, list>>
parser == <<line, pos, command, args, outputFile, shell, prompts>>
libstring == <<mem, before, call, asked, result>>
nograb == <<next_malloc, test_mode, test_event, test_name, memory, marked, recent, calls>>
raftapplier == <<snap, logs, lastApplied, starts, rafts, saved, next, applier, msg, err, rf,
                 messages, snapshots, ever, back, tester, test>>
mapreduce == <<files, size, readable, directory, mapJobs, reduceJobs, mapDone, k, offset,
               chunkSize, job_id, coordinator, serving, worker>>
sequential == <<arguments, accessible, main, number, i, intermediate, reduced>>
parallel == <<task, exists, visited, names, alive>>
voting == <<round, cast, ballotBox, mutex, waitGroup, vote, voter, old, word, maxVotes, winner,
            tied>>
m4andlab5 == <<mapreduce, sequential, parallel, voting>>
others == <<eventloop, inkconfig, linkedlist, parser, libstring, nograb, raftapplier>>
vars == <<part, others, m4andlab5>>

OthersIdle ==
    /\ EventLoopIdle /\ InkConfigIdle /\ LinkedListIdle /\ ShellIdle /\ LibStringIdle
    /\ NoGrabIdle /\ RaftApplierIdle

M4AndLab5Idle == MapReduceIdle /\ SequentialIdle /\ ParallelIdle /\ VotingIdle

Init ==
    \/ /\ part = "eventloop" /\ E!Init
       /\ InkConfigIdle /\ LinkedListIdle /\ ShellIdle /\ LibStringIdle
       /\ NoGrabIdle /\ RaftApplierIdle /\ M4AndLab5Idle
    \/ /\ part = "inkconfig" /\ I!Init
       /\ EventLoopIdle /\ LinkedListIdle /\ ShellIdle /\ LibStringIdle
       /\ NoGrabIdle /\ RaftApplierIdle /\ M4AndLab5Idle
    \/ /\ part = "list" /\ L!Init
       /\ EventLoopIdle /\ InkConfigIdle /\ ShellIdle /\ LibStringIdle
       /\ NoGrabIdle /\ RaftApplierIdle /\ M4AndLab5Idle
    \/ /\ part = "shell" /\ S!Init
       /\ EventLoopIdle /\ InkConfigIdle /\ LinkedListIdle /\ LibStringIdle
       /\ NoGrabIdle /\ RaftApplierIdle /\ M4AndLab5Idle
    \/ /\ part = "string" /\ M!Init
       /\ EventLoopIdle /\ InkConfigIdle /\ LinkedListIdle /\ ShellIdle
       /\ NoGrabIdle /\ RaftApplierIdle /\ M4AndLab5Idle
    \/ /\ part = "nograb" /\ G!Init
       /\ EventLoopIdle /\ InkConfigIdle /\ LinkedListIdle /\ ShellIdle
       /\ LibStringIdle /\ RaftApplierIdle /\ M4AndLab5Idle
    \/ /\ part = "raft" /\ R!Init
       /\ EventLoopIdle /\ InkConfigIdle /\ LinkedListIdle /\ ShellIdle
       /\ LibStringIdle /\ NoGrabIdle /\ M4AndLab5Idle
    \/ /\ part = "mapreduce" /\ J!Init
       /\ SequentialIdle /\ ParallelIdle /\ VotingIdle
       /\ OthersIdle
    \/ /\ part = "sequential" /\ Q!Init
       /\ MapReduceIdle /\ ParallelIdle /\ VotingIdle
       /\ OthersIdle
    \/ /\ part = "parallel" /\ N!Init
       /\ MapReduceIdle /\ SequentialIdle /\ VotingIdle
       /\ OthersIdle
    \/ /\ part = "voting" /\ V!Init
       /\ MapReduceIdle /\ SequentialIdle /\ ParallelIdle
       /\ OthersIdle

Next ==
    \/ /\ part = "eventloop" /\ E!Next
       /\ UNCHANGED <<part, inkconfig, linkedlist, parser, libstring, nograb, raftapplier,
                     m4andlab5>>
    \/ /\ part = "inkconfig" /\ I!Next
       /\ UNCHANGED <<part, eventloop, linkedlist, parser, libstring, nograb, raftapplier,
                     m4andlab5>>
    \/ /\ part = "list" /\ L!Next
       /\ UNCHANGED <<part, eventloop, inkconfig, parser, libstring, nograb, raftapplier,
                     m4andlab5>>
    \/ /\ part = "shell" /\ S!Next
       /\ UNCHANGED <<part, eventloop, inkconfig, linkedlist, libstring, nograb,
                     raftapplier, m4andlab5>>
    \/ /\ part = "string" /\ M!Next
       /\ UNCHANGED <<part, eventloop, inkconfig, linkedlist, parser, nograb, raftapplier,
                     m4andlab5>>
    \/ /\ part = "nograb" /\ G!Next
       /\ UNCHANGED <<part, eventloop, inkconfig, linkedlist, parser, libstring,
                     raftapplier, m4andlab5>>
    \/ /\ part = "raft" /\ R!Next
       /\ UNCHANGED <<part, eventloop, inkconfig, linkedlist, parser, libstring, nograb,
                     m4andlab5>>
    \/ /\ part = "mapreduce" /\ J!Next
       /\ UNCHANGED <<part, sequential, parallel, voting, others>>
    \/ /\ part = "sequential" /\ Q!Next
       /\ UNCHANGED <<part, mapreduce, parallel, voting, others>>
    \/ /\ part = "parallel" /\ N!Next
       /\ UNCHANGED <<part, mapreduce, sequential, voting, others>>
    \/ /\ part = "voting" /\ V!Next
       /\ UNCHANGED <<part, mapreduce, sequential, parallel, others>>

Spec == Init /\ [][Next]_vars

-----------------------------------------------------------------------------

(* InkConfig: load_config stores each value in the field of its own section. *)
ValuesReachFields == part = "inkconfig" => I!ValuesReachFields


(* Shell: parse_command's command, file and arguments are those of the line. *)
LineParsed == part = "shell" => S!LineParsed

(* LibString: memmove, strcmp and the others do what C promises.             *)
LibraryTrue == part = "string" => M!LibraryTrue

(* NoGrab: malloc and calloc find the mouse whatever was allocated before.   *)
FindsMouse == [][part = "nograb" => G!FindsMouseStep]_vars

(* RaftApplier: checkLogs lets no two servers' logs disagree unreported.     *)
DisagreementCaught == part = "raft" => R!DisagreementCaught

(* RaftApplier: one() returns only an index that enough servers applied.     *)
OneSound == part = "raft" => R!OneSound

(* MapReduce: the map jobs MakeCoordinator serves cover the input exactly.   *)
JobsCoverInput == part = "mapreduce" => J!JobsCoverInput

(* Sequential: reducef is called once for each key, with all of its values.  *)
GroupsExact == part = "sequential" => Q!GroupsExact

(* Parallel: of two workers in nparallel at the same time one counts both.   *)
OverlapCounted == part = "parallel" => N!OverlapCounted

(* Voting: the winner has the most votes; a round is repeated only on a tie. *)
WinnerTrue == part = "voting" => V!WinnerTrue
=============================================================================
