---------------------------- MODULE RaftHarness -----------------------------
(***************************************************************************)
(* The tester of modules/m5/raft/config.go around the network of LabRpc:    *)
(* make_config, start1, crash1, connect and disconnect, the Persisters that *)
(* outlive a server, and old Raft instances that keep running after Kill.   *)
(*                                                                         *)
(* The tester is one goroutine: `at`, `who`, `cursor` and `request` are its  *)
(* program counter, argument, loop variable and the operation under way.    *)
(* Each critical section and each call into the network is one step of it,  *)
(* with steps of the network and of the Raft instances in between.          *)
(*                                                                         *)
(* A Raft instance is external: of it, the model has a handler that adds    *)
(* its request to the state in memory and saves that state before it        *)
(* returns.  A persisted state is the set of the requests it contains.      *)
(***************************************************************************)
EXTENDS LabRpc, Sequences

CONSTANTS
  N,               \* cfg.n
  MaxStarts,       \* how often a server is started
  MaxPersisters,   \* a test does not go on when it could need more Persisters
  Modes            \* what tests set unreliable and longReordering to

Peer == 1..N
Incarnation == 1..MaxStarts

(* Random strings of start1 are fresh: <<i, j, g>> is the end from i to j   *)
(* of the g-th incarnation of i, and <<i, g>> that incarnation.             *)
ASSUME HarnessAssumption ==
  /\ N \in Nat \ {0} /\ MaxStarts \in Nat \ {0} /\ MaxPersisters \in Nat
  /\ Modes \subseteq BOOLEAN
  /\ ServerName = Peer
  /\ Instance = Peer \X Incarnation
  /\ End = Peer \X Peer \X Incarnation

VARIABLES
  at,          \* what the tester does next
  who,         \* the server it works on
  cursor,      \* its loop variable
  request,     \* the operation of the tester under way
  setup,       \* how far make_config has come
  starts,      \* how often each server was started
  endnames,    \* whose ends cfg.endnames[i] names: an incarnation, 0 for nil
  connected,   \* cfg.connected
  rafts,       \* cfg.rafts
  saved,       \* cfg.saved: an index of persister, 0 for nil
  persister,   \* contents of every Persister made so far
  holds,       \* Raft.persister of each instance, 0 before Make
  memory,      \* the state each Raft instance has in memory
  dead,        \* Raft.dead
  persisted    \* the handlers that have saved their update

testerVars == <<at, who, cursor, request, setup>>
cfgVars == <<starts, endnames, connected, rafts, saved>>
raftVars == <<holds, memory, dead, persisted>>
hvars == <<vars, testerVars, cfgVars, persister, raftVars>>

HarnessInit ==
  /\ Init
  /\ at = "ready" /\ who = 1 /\ cursor = 1 /\ request = "none" /\ setup = 0
  /\ starts = [i \in Peer |-> 0]
  /\ endnames = [i \in Peer |-> 0]
  /\ connected = [i \in Peer |-> FALSE]
  /\ rafts = [i \in Peer |-> nil]
  /\ saved = [i \in Peer |-> 0]
  /\ persister = <<>>
  /\ holds = [r \in Instance |-> 0]
  /\ memory = [r \in Instance |-> {}]
  /\ dead = {}
  /\ persisted = {}

Goto(step) == at' = step /\ UNCHANGED <<who, cursor, request, setup>>

Return ==
  at' = "ready" /\ who' = 1 /\ cursor' = 1 /\ request' = "none" /\ UNCHANGED setup

-----------------------------------------------------------------------------
(* The beginnings of the operations, make_config's calls of them included. *)

(* connect and disconnect change cfg.connected[i] and start their loops.   *)
Switch(i, yes, op) ==
  /\ connected' = [connected EXCEPT ![i] = yes]
  /\ at' = (IF yes THEN "enable" ELSE "disable")
  /\ who' = i /\ cursor' = 1 /\ request' = op
  /\ UNCHANGED <<vars, starts, endnames, rafts, saved, persister, raftVars>>

(* From setup on: set the mode, start every server, connect every server.  *)
make_config ==
  /\ at = "ready"
  /\ \/ /\ setup = 0
        /\ \E unreliable \in Modes : Reliable(~unreliable)
        /\ UNCHANGED <<statVars, callVars, reqVars, at, who, cursor, request,
                       cfgVars, persister, raftVars>>
     \/ setup \in 1..N /\ Switch(setup, FALSE, "start1")
     \/ setup \in N + 1..2 * N /\ Switch(setup - N, TRUE, "connect")
  /\ setup' = setup + 1

(* What a test may ask for once the previous request has been served.      *)
(* Tests connect only servers that run, and do nothing after cleanup.      *)
Ready == at = "ready" /\ setup > 2 * N /\ ~done

crash1(i) ==
  /\ Ready
  /\ Len(persister) + 2 <= MaxPersisters
  /\ Switch(i, FALSE, "crash1")
  /\ UNCHANGED setup

start1(i) ==
  /\ Ready
  /\ starts[i] < MaxStarts
  /\ Len(persister) + 3 <= MaxPersisters
  /\ Switch(i, FALSE, "start1")
  /\ UNCHANGED setup

connect(i) ==
  Ready /\ rafts[i] # nil /\ Switch(i, TRUE, "connect") /\ UNCHANGED setup

disconnect(i) == Ready /\ Switch(i, FALSE, "disconnect") /\ UNCHANGED setup

setunreliable(unrel) ==
  /\ Ready
  /\ Reliable(~unrel)
  /\ UNCHANGED <<statVars, callVars, reqVars, testerVars, cfgVars, persister,
                 raftVars>>

setlongreordering(yes) ==
  /\ Ready
  /\ LongReordering(yes)
  /\ UNCHANGED <<statVars, callVars, reqVars, testerVars, cfgVars, persister,
                 raftVars>>

cleanup ==
  /\ Ready
  /\ at' = "killAll" /\ request' = "cleanup"
  /\ UNCHANGED <<vars, who, cursor, setup, cfgVars, persister, raftVars>>

Test ==
  \/ make_config
  \/ \E i \in Peer : crash1(i) \/ start1(i) \/ connect(i) \/ disconnect(i)
  \/ \E yes \in Modes : setunreliable(yes) \/ setlongreordering(yes)
  \/ cleanup

-----------------------------------------------------------------------------
(* The steps of those operations. *)

(* What both loops visit: the ends from i to each j, then from each j to i.*)
Other(k) == IF k <= N THEN k ELSE k - N

Visited(i, k) ==
  IF k <= N THEN <<i, k, endnames[i]>> ELSE <<k - N, i, endnames[k - N]>>

(* Mutant: every end is enabled, whether or not its other server is        *)
(* connected.                                                              *)
Connectable_all(k) == TRUE

Connectable(k) == connected[Other(k)]

DoEnable ==
  /\ at = "enable"
  /\ IF Connectable(cursor)
     THEN Enable(Visited(who, cursor), TRUE) ELSE UNCHANGED netVars
  /\ IF cursor < 2 * N
     THEN cursor' = cursor + 1 /\ UNCHANGED <<at, who, request, setup>>
     ELSE Return
  /\ UNCHANGED <<statVars, callVars, reqVars, cfgVars, persister, raftVars>>

(* crash1 goes on after disconnect; an end whose name is nil is skipped.   *)
DoDisable ==
  /\ at = "disable"
  /\ IF Visited(who, cursor)[3] # 0
     THEN Enable(Visited(who, cursor), FALSE) ELSE UNCHANGED netVars
  /\ IF cursor < 2 * N
     THEN cursor' = cursor + 1 /\ UNCHANGED <<at, who, request, setup>>
     ELSE IF request = "disconnect" THEN Return ELSE Goto("deleteServer")
  /\ UNCHANGED <<statVars, callVars, reqVars, cfgVars, persister, raftVars>>

DoDeleteServer ==
  /\ at = "deleteServer"
  /\ DeleteServer(who)
  /\ Goto("supersede")
  /\ UNCHANGED <<statVars, callVars, reqVars, cfgVars, persister, raftVars>>

MakePersister(i, contents) ==
  /\ persister' = Append(persister, contents)
  /\ saved' = [saved EXCEPT ![i] = Len(persister) + 1]

(* Mutant: the server keeps the Persister of its old instance. *)
RenewInPlace(i) == UNCHANGED <<saved, persister>>

(* cfg.saved[i] becomes a new Persister with the contents of the old one.  *)
Renew(i) ==
  IF saved[i] = 0
  THEN UNCHANGED <<saved, persister>>
  ELSE MakePersister(i, persister[saved[i]])

(* crash1 up to rf.Kill(), in one critical section of cfg.mu. *)
DoSupersede ==
  /\ at = "supersede"
  /\ Renew(who)
  /\ Goto("kill")
  /\ UNCHANGED <<vars, starts, endnames, connected, rafts, raftVars>>

Kill(i) ==
  /\ dead' = dead \cup ({rafts[i]} \ {nil})
  /\ UNCHANGED <<vars, cfgVars, persister, holds, memory, persisted>>

DoKill == at = "kill" /\ Kill(who) /\ Goto("fresh")

(* The rest of crash1, which may have been called by start1. *)
DoFresh ==
  /\ at = "fresh"
  /\ rafts' = [rafts EXCEPT ![who] = nil]
  /\ Renew(who)
  /\ IF request = "crash1" THEN Return ELSE Goto("makeEnds")
  /\ UNCHANGED <<vars, starts, endnames, connected, raftVars>>

(* New names and new ends; nothing uses them before Make hands them over.  *)
DoMakeEnds ==
  /\ at = "makeEnds"
  /\ LET g == starts[who] + 1
         new == {<<who, j, g>> : j \in Peer}
     IN  /\ starts' = [starts EXCEPT ![who] = g]
         /\ endnames' = [endnames EXCEPT ![who] = g]
         /\ ends' = [e \in End |-> IF e \in new THEN "live" ELSE ends[e]]
         /\ enabled' = [e \in End |-> IF e \in new THEN FALSE ELSE enabled[e]]
         /\ connections' =
              [e \in End |-> IF e \in new THEN e[2] ELSE connections[e]]
  /\ Goto("copy")
  /\ UNCHANGED <<servers, made, reliable, longReordering, done, accepting,
                 statVars, callVars, reqVars, connected, rafts, saved,
                 persister, raftVars>>

(* The critical section of start1 that prepares cfg.saved[i]. *)
DoCopy ==
  /\ at = "copy"
  /\ IF saved[who] = 0 THEN MakePersister(who, {}) ELSE Renew(who)
  /\ Goto("make")
  /\ UNCHANGED <<vars, starts, endnames, connected, rafts, raftVars>>

(* Make reads the persisted state; cfg.rafts[i] is the new instance. *)
DoMake ==
  /\ at = "make"
  /\ LET r == <<who, starts[who]>>
     IN  /\ holds' = [holds EXCEPT ![r] = saved[who]]
         /\ memory' = [memory EXCEPT ![r] = persister[saved[who]]]
         /\ rafts' = [rafts EXCEPT ![who] = r]
  /\ Goto("addServer")
  /\ UNCHANGED <<vars, starts, endnames, connected, saved, persister, dead,
                 persisted>>

DoAddServer ==
  /\ at = "addServer"
  /\ AddServer(who, rafts[who])
  /\ Return
  /\ UNCHANGED <<statVars, callVars, reqVars, cfgVars, persister, raftVars>>

(* cleanup kills every server and then destroys the network. *)
DoKillAll ==
  /\ at = "killAll"
  /\ Kill(cursor)
  /\ IF cursor < N
     THEN cursor' = cursor + 1 /\ UNCHANGED <<at, who, request, setup>>
     ELSE Goto("cleanup")

DoCleanup ==
  /\ at = "cleanup"
  /\ Cleanup
  /\ Return
  /\ UNCHANGED <<statVars, callVars, reqVars, cfgVars, persister, raftVars>>

Tester ==
  \/ DoEnable \/ DoDisable \/ DoDeleteServer \/ DoSupersede \/ DoKill
  \/ DoFresh \/ DoMakeEnds \/ DoCopy \/ DoMake \/ DoAddServer
  \/ DoKillAll \/ DoCleanup

-----------------------------------------------------------------------------
(* Raft instances, killed ones included: Kill only sets a flag. *)

SendRpc(c, e) ==
  /\ holds[<<e[1], e[3]>>] # 0
  /\ CallBegin(c, e)
  /\ UNCHANGED <<testerVars, cfgVars, persister, raftVars>>

(* The handler saves its instance's state before it returns. *)
Persist(c) ==
  LET r == snap[c].server
  IN  /\ handler[c] = "running"
      /\ c \notin persisted
      /\ memory' = [memory EXCEPT ![r] = @ \cup {c}]
      /\ persister' = [persister EXCEPT ![holds[r]] = memory[r] \cup {c}]
      /\ persisted' = persisted \cup {c}
      /\ UNCHANGED <<vars, testerVars, cfgVars, holds, dead>>

Reply(c) ==
  /\ c \in persisted
  /\ HandlerReturns(c)
  /\ UNCHANGED <<testerVars, cfgVars, persister, raftVars>>

HarnessNext ==
  \/ Test
  \/ Tester
  \/ /\ StopAccepting \/ \E c \in Call : Goroutine(c)
     /\ UNCHANGED <<testerVars, cfgVars, persister, raftVars>>
  \/ \E c \in Call :
       \/ \E e \in End : SendRpc(c, e)
       \/ Persist(c)
       \/ Reply(c)

HarnessSpec == HarnessInit /\ [][HarnessNext]_hvars

-----------------------------------------------------------------------------
(* An update acknowledged to a caller is in the state that the server's    *)
(* next incarnation will be made from, at every moment of every crash and  *)
(* restart (labrpc.go:266-271, config.go:119-122 and 297-300).             *)
AcknowledgedIsSaved ==
  \A c \in Call :
    call[c] = "true" =>
      LET i == via[c][2] IN saved[i] # 0 /\ c \in persister[saved[i]]

(* An instance that is no longer cfg.rafts[i] may continue to save, but    *)
(* never to the Persister the tester has for its server, whether that is   *)
(* for the next incarnation or already in its hands (config.go:119-120,    *)
(* 297-298).                                                               *)
OldInstanceIsolated ==
  \A r \in Instance :
    holds[r] # 0 /\ r # rafts[r[1]] => holds[r] # saved[r[1]]

(* The ends that are enabled are those of current incarnations, so an old  *)
(* instance's ends can't send (config.go:279-280); and outside the loops   *)
(* of connect and disconnect an end is enabled exactly when both its       *)
(* servers are connected.                                                  *)
EnabledIsConnected ==
  /\ \A e \in End : enabled[e] => e[3] = endnames[e[1]]
  /\ at \notin {"enable", "disable"} =>
       \A i, j \in Peer : endnames[i] # 0 =>
         (enabled[<<i, j, endnames[i]>>] <=> connected[i] /\ connected[j])
=============================================================================
