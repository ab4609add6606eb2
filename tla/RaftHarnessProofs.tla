------------------------- MODULE RaftHarnessProofs --------------------------
(***************************************************************************)
(* Proofs about RaftHarness for any number of servers, restarts, Persisters *)
(* and requests: acknowledged updates are saved, old instances are isolated *)
(* from the Persisters in use, and ends are enabled as servers are          *)
(* connected.  What the network contributes is the invariant of             *)
(* LabRpcProofs, which the tester's steps keep too.                         *)
(***************************************************************************)
EXTENDS RaftHarness, LabRpcProofs

CrashSteps == {"deleteServer", "supersede", "kill", "fresh"}
StartSteps == {"makeEnds", "copy", "make", "addServer"}
Loops == {"enable", "disable"}

TesterTypeOK ==
  /\ at \in {"ready", "killAll", "cleanup"} \cup Loops \cup CrashSteps \cup StartSteps
  /\ who \in Peer /\ cursor \in Nat
  /\ request \in {"none", "connect", "disconnect", "crash1", "start1", "cleanup"}
  /\ setup \in Nat

HarnessTypeOK ==
  /\ TesterTypeOK
  /\ starts \in [Peer -> Nat] /\ endnames = starts
  /\ connected \in [Peer -> BOOLEAN]
  /\ rafts \in [Peer -> Instance \cup {nil}]
  /\ saved \in [Peer -> Nat]
  /\ persister \in Seq(SUBSET Call)
  /\ holds \in [Instance -> Nat]
  /\ memory \in [Instance -> SUBSET Call]
  /\ persisted \in SUBSET Call

(* start1 has not yet come to the new names. *)
BeforeNames == request = "start1" /\ at \in {"disable", "makeEnds"} \cup CrashSteps

(* Where the tester stands in its operations, and what it knows there. *)
ControlInv ==
  /\ at \in Loops => cursor \in 1 .. 2 * N
  /\ at = "disable" => request \in {"disconnect", "crash1", "start1"}
  /\ at \in CrashSteps => request \in {"crash1", "start1"}
  /\ at \in StartSteps => request = "start1"
  /\ BeforeNames => starts[who] < MaxStarts /\ who < setup
  /\ at = "enable" => connected[who]
  /\ at \in {"disable"} \cup CrashSteps \cup StartSteps => ~connected[who]
  /\ \A i \in Peer :
       /\ starts[i] <= MaxStarts
       /\ connected[i] => starts[i] # 0
       /\ i < setup => starts[i] # 0 \/ (who = i /\ BeforeNames)
       /\ i >= setup => starts[i] = 0
       /\ rafts[i] \in {nil, <<i, starts[i]>>}
  /\ at \in {"makeEnds", "copy", "make"} => rafts[who] = nil
  /\ at \in {"copy", "make", "addServer"} => starts[who] # 0
  /\ at = "addServer" => rafts[who] = <<who, starts[who]>>

Settled(i, j) ==
  endnames[i] # 0 =>
    (enabled[<<i, j, endnames[i]>>] <=> connected[i] /\ connected[j])

(* What the loops of connect and disconnect have done so far.  connect      *)
(* skips servers that are not connected: their ends are off already.        *)
SwitchInv ==
  /\ \A e \in End : enabled[e] => e[3] = endnames[e[1]]
  /\ \A i, j \in Peer :
       \/ at \notin Loops
       \/ i # who /\ j # who
       \/ i = who /\ j < cursor
       \/ j = who /\ N + i < cursor
       => Settled(i, j)
  /\ at = "enable" => \A j \in Peer :
       /\ enabled[<<who, j, endnames[who]>>] => connected[j]
       /\ endnames[j] # 0 /\ enabled[<<j, who, endnames[j]>>] => connected[j]

(* Who has which Persister: no two servers share one, only the instance     *)
(* that is cfg.rafts[i] may have the one in cfg.saved[i], and a registered  *)
(* instance has it.  What an instance has in memory is what it has saved.   *)
PersisterInv ==
  /\ \A i \in Peer :
       /\ saved[i] <= Len(persister)
       /\ \A j \in Peer : saved[i] # 0 /\ saved[i] = saved[j] => i = j
       /\ servers[i] # nil =>
            /\ rafts[i] = servers[i] /\ servers[i] \in made
            /\ holds[servers[i]] = saved[i]
  /\ \A r \in Instance :
       /\ r \in made => holds[r] # 0
       /\ holds[r] # 0 =>
            /\ saved[r[1]] # 0 /\ holds[r] <= Len(persister)
            /\ r[2] <= starts[r[1]]
            /\ memory[r] = persister[holds[r]]
            /\ \A s \in Instance : holds[s] = holds[r] => s = r
            /\ \A i \in Peer : saved[i] = holds[r] => i = r[1] /\ rafts[i] = r
  /\ at \in {"supersede", "kill", "fresh"} \cup StartSteps => servers[who] = nil
  /\ at \in {"make", "addServer"} => saved[who] # 0
  /\ at \in {"copy", "make"} => holds[<<who, starts[who]>>] = 0
  /\ at = "addServer" => holds[rafts[who]] = saved[who]

(* A request goes to the server its end is for; its handler saves before it *)
(* returns, and if the server was registered then, the update has reached   *)
(* the Persister of the tester and every copy that succeeded it.            *)
UpdateInv(c) ==
  /\ pc[c] \in {"none", "start"} => snap[c].server = nil
  /\ snap[c].server # nil =>
       /\ snap[c].servername = via[c][2] /\ snap[c].server[1] = via[c][2]
  /\ handler[c] \in {"finished", "gone"} => c \in persisted
  /\ c \in persisted =>
       /\ handler[c] \in {"running", "finished", "gone"}
       /\ c \in memory[snap[c].server]
  /\ finish[c] = "live" =>
       saved[via[c][2]] # 0 /\ c \in persister[saved[via[c][2]]]

EndsLead == \A e \in End : connections[e] \in {nil, e[2]}

HarnessInv ==
  /\ IndInv /\ HarnessTypeOK /\ ControlInv /\ SwitchInv /\ PersisterInv
  /\ EndsLead /\ \A c \in Call : UpdateInv(c)

-----------------------------------------------------------------------------
(* The kinds of steps. *)

(* An operation that starts with connect's or disconnect's assignment. *)
Begin(i, yes, op) ==
  /\ at = "ready"
  /\ Switch(i, yes, op)
  /\ op \in {"connect", "disconnect", "crash1", "start1"}
  /\ yes = (op = "connect")
  /\ op = "connect" => starts[i] # 0
  /\ op = "start1" => starts[i] < MaxStarts
  /\ setup' = setup \/ (setup' = setup + 1 /\ (setup > N \/ (setup = i /\ op = "start1")))
  /\ i < setup'

(* Setting a mode of the network. *)
SetMode ==
  /\ at = "ready"
  /\ \E yes \in BOOLEAN : Reliable(yes) \/ LongReordering(yes)
  /\ setup' = setup \/ (setup = 0 /\ setup' = 1)
  /\ UNCHANGED <<statVars, callVars, reqVars, at, who, cursor, request,
                 cfgVars, persister, raftVars>>

(* The network's goroutines, and the calls and returns of Raft instances. *)
Background ==
  /\ \/ StopAccepting
     \/ \E c \in Call : Goroutine(c) \/ \E e \in End : CallBegin(c, e)
     \/ \E c \in Call : c \in persisted /\ HandlerReturns(c)
  /\ UNCHANGED <<testerVars, cfgVars, persister, raftVars>>

(* What the assumptions on the constants say. *)
LEMMA PeerFacts ==
  /\ N \in Nat /\ N > 0 /\ 2 * N \in Nat /\ MaxStarts \in Nat
  /\ Peer = 1 .. N /\ Peer \subseteq Nat /\ ServerName = Peer
  /\ Instance = Peer \X Incarnation /\ End = Peer \X Peer \X Incarnation
  /\ nil \notin Peer /\ nil \notin Instance
BY HarnessAssumption, NilAssumption DEF Peer

(* make_config and the test start an operation, set a mode, or clean up. *)
LEMMA TestSteps ==
  ASSUME HarnessTypeOK, ControlInv, Test
  PROVE  \/ \E i \in Peer, yes \in BOOLEAN, op \in {"connect", "disconnect", "crash1", "start1"} :
               Begin(i, yes, op)
         \/ SetMode
         \/ cleanup
<1> USE PeerFacts
<1>1. ASSUME at = "ready", NEW i \in Peer, i < setup PROVE starts[i] # 0
  BY <1>1, Zenon DEF ControlInv, BeforeNames, CrashSteps
<1>2. \A u \in Modes : u \in BOOLEAN /\ (~u) \in BOOLEAN
  BY HarnessAssumption, Zenon
<1>3. CASE make_config
  <2>1. CASE setup = 0 /\ \E u \in Modes : Reliable(~u)
    <3>1. setup' = 1 /\ at = "ready" /\ setup \notin 1 .. N /\ setup \notin N + 1 .. 2 * N
      BY <1>3, <2>1 DEF make_config
    <3>2. UNCHANGED <<statVars, callVars, reqVars, at, who, cursor, request,
                      cfgVars, persister, raftVars>>
      BY <1>3, <3>1, Zenon DEF make_config
    <3>3. \E yes \in BOOLEAN : Reliable(yes)
      BY <1>2, <2>1, Zenon
    <3>4. SetMode
      BY <2>1, <3>1, <3>2, <3>3, Zenon DEF SetMode
    <3> QED
      BY <3>4, Zenon
  <2>2. CASE setup \in 1 .. N /\ Switch(setup, FALSE, "start1")
    <3>1. starts[setup] = 0 /\ starts[setup] < MaxStarts
      BY <2>2, HarnessAssumption DEF ControlInv, HarnessTypeOK, TesterTypeOK
    <3>2. Begin(setup, FALSE, "start1")
      BY <1>3, <2>2, <3>1 DEF make_config, Begin, Switch
    <3> QED
      BY <3>2, <2>2, Zenon
  <2>3. CASE setup \in N + 1 .. 2 * N /\ Switch(setup - N, TRUE, "connect")
    <3>1. setup - N \in Peer /\ setup > N /\ setup - N < setup
      BY <2>3
    <3>2. starts[setup - N] # 0
      BY <1>1, <1>3, <3>1, Zenon DEF make_config
    <3>4. setup' = setup + 1 /\ setup - N < setup'
      BY <1>3, <2>3 DEF make_config
    <3>3. Begin(setup - N, TRUE, "connect")
      BY <1>3, <2>3, <3>1, <3>2, <3>4, Zenon DEF make_config, Begin
    <3> QED
      BY <3>1, <3>3, Zenon
  <2> QED
    BY <1>3, <2>1, <2>2, <2>3, Zenon DEF make_config
<1>4. ASSUME NEW i \in Peer, crash1(i) \/ start1(i) \/ connect(i) \/ disconnect(i)
      PROVE  \E yes \in BOOLEAN, op \in {"connect", "disconnect", "crash1", "start1"} :
               Begin(i, yes, op)
  <2>0. Ready
    BY <1>4, Zenon DEF crash1, start1, connect, disconnect
  <2>1. at = "ready" /\ starts[i] # 0 /\ i < setup
    <3>1. i \in 1 .. N /\ setup \in Nat /\ setup > 2 * N
      BY <2>0, Zenon DEF Ready, HarnessTypeOK, TesterTypeOK
    <3>2. i < setup
      BY <3>1
    <3> QED
      BY <1>1, <2>0, <3>2, Zenon DEF Ready
  <2>2. CASE crash1(i)
    BY <2>1, <2>2, Zenon DEF crash1, Begin
  <2>3. CASE start1(i)
    BY <2>1, <2>3, Zenon DEF start1, Begin
  <2>4. CASE connect(i)
    BY <2>1, <2>4, Zenon DEF connect, Begin
  <2>5. CASE disconnect(i)
    BY <2>1, <2>5, Zenon DEF disconnect, Begin
  <2> QED
    BY <1>4, <2>2, <2>3, <2>4, <2>5, Zenon
<1>5. ASSUME NEW yes \in Modes, setunreliable(yes) \/ setlongreordering(yes)
      PROVE  SetMode
  BY <1>2, <1>5, Zenon DEF setunreliable, setlongreordering, SetMode, Ready, testerVars
<1> QED
  BY <1>3, <1>4, <1>5, Zenon DEF Test

(* Every step of the harness is of one of these kinds. *)
LEMMA Steps ==
  ASSUME HarnessTypeOK, ControlInv, [HarnessNext]_hvars
  PROVE  \/ \E i \in Peer, yes \in BOOLEAN, op \in {"connect", "disconnect", "crash1", "start1"} :
               Begin(i, yes, op)
         \/ SetMode \/ cleanup
         \/ Tester
         \/ Background
         \/ \E c \in Call : Persist(c)
         \/ UNCHANGED hvars
BY TestSteps, Zenon DEF HarnessNext, Background, SendRpc, Reply

-----------------------------------------------------------------------------
(* The end that a loop visits. *)
LEMMA VisitedEnd ==
  ASSUME HarnessTypeOK, ControlInv, at \in Loops
  PROVE  /\ cursor \in 1 .. 2 * N /\ Other(cursor) \in Peer
         /\ cursor <= N =>
              Visited(who, cursor) = <<who, cursor, endnames[who]>> /\ Other(cursor) = cursor
         /\ cursor > N =>
              /\ Visited(who, cursor) = <<cursor - N, who, endnames[cursor - N]>>
              /\ Other(cursor) = cursor - N
         /\ Visited(who, cursor)[3] # 0 => Visited(who, cursor) \in End
<1> USE PeerFacts
<1>1. cursor \in 1 .. 2 * N /\ who \in Peer
  BY Zenon DEF ControlInv, HarnessTypeOK, TesterTypeOK
<1>2. \A i \in Peer : endnames[i] \in Nat /\ endnames[i] <= MaxStarts
  BY Zenon DEF ControlInv, HarnessTypeOK, TesterTypeOK
<1>3. CASE cursor <= N
  <2>1. Visited(who, cursor) = <<who, cursor, endnames[who]>> /\ Other(cursor) = cursor
    BY <1>3, Zenon DEF Visited, Other
  <2>2. cursor \in Peer
    BY <1>1, <1>3
  <2>3. endnames[who] # 0 => endnames[who] \in Incarnation
    BY <1>1, <1>2 DEF Incarnation
  <2> QED
    BY <1>1, <1>3, <2>1, <2>2, <2>3
<1>4. CASE cursor > N
  <2>1. /\ Visited(who, cursor) = <<cursor - N, who, endnames[cursor - N]>>
        /\ Other(cursor) = cursor - N
    BY <1>1, <1>4 DEF Visited, Other
  <2>2. cursor - N \in Peer
    BY <1>1, <1>4
  <2>3. endnames[cursor - N] # 0 => endnames[cursor - N] \in Incarnation
    BY <2>2, <1>2 DEF Incarnation
  <2> QED
    BY <1>1, <1>4, <2>1, <2>2, <2>3
<1> QED
  BY <1>1, <1>3, <1>4

(* connect finds a name for every end it enables. *)
LEMMA EnabledNamed ==
  ASSUME HarnessTypeOK, ControlInv, at = "enable", Connectable(cursor)
  PROVE  Visited(who, cursor) \in End
<1>1. /\ cursor \in 1 .. 2 * N /\ Other(cursor) \in Peer
      /\ cursor <= N =>
           Visited(who, cursor) = <<who, cursor, endnames[who]>> /\ Other(cursor) = cursor
      /\ cursor > N =>
           /\ Visited(who, cursor) = <<cursor - N, who, endnames[cursor - N]>>
           /\ Other(cursor) = cursor - N
      /\ Visited(who, cursor)[3] # 0 => Visited(who, cursor) \in End
  BY VisitedEnd, Zenon DEF Loops
<1>2. starts[who] # 0 /\ starts[Other(cursor)] # 0 /\ endnames = starts
  BY <1>1, Zenon DEF ControlInv, Connectable, HarnessTypeOK, TesterTypeOK
<1>3. CASE cursor <= N
  BY <1>1, <1>2, <1>3
<1>4. CASE cursor > N
  BY <1>1, <1>2, <1>4
<1> QED
  BY <1>1, <1>3, <1>4, PeerFacts

(* The current incarnation of a server that was started. *)
LEMMA InstanceOf ==
  ASSUME HarnessTypeOK, ControlInv, NEW i \in Peer, starts[i] # 0
  PROVE  <<i, starts[i]>> \in Instance
<1>1. starts[i] \in Nat /\ starts[i] <= MaxStarts
  BY Zenon DEF HarnessTypeOK, ControlInv
<1> QED
  BY <1>1, PeerFacts DEF Incarnation

(* The network's part of the invariant is kept by the tester too. *)
LEMMA HarnessNetworkInd ==
  ASSUME HarnessInv, [HarnessNext]_hvars
  PROVE  IndInv'
<1> USE PeerFacts
<1>0. IndInv /\ HarnessTypeOK /\ ControlInv
  BY Zenon DEF HarnessInv
<1>1. ASSUME [Next]_vars PROVE IndInv'
  BY <1>0, <1>1, NextInd, Zenon
<1>2. ASSUME NEW i \in Peer, NEW yes, NEW op, Begin(i, yes, op) PROVE UNCHANGED vars
  BY <1>2, Zenon DEF Begin, Switch
<1>3. CASE SetMode
  <2>1. NetworkOp
    BY <1>3, Zenon DEF SetMode, NetworkOp
  <2> QED
    BY <2>1, <1>1, Zenon DEF Next
<1>4. CASE cleanup \/ UNCHANGED hvars \/ \E c \in Call : Persist(c)
  <2>1. UNCHANGED vars
    BY <1>4, Zenon DEF cleanup, hvars, Persist
  <2> QED
    BY <2>1, <1>1, Zenon
<1>5. CASE Background
  <2>1. Next
    BY <1>5, Zenon DEF Background, Next
  <2> QED
    BY <2>1, <1>1, Zenon
<1>6. CASE DoEnable \/ DoDisable
  <2>1. NetworkOp \/ UNCHANGED vars
    <3>1. CASE DoEnable
      <4>1. CASE Connectable(cursor)
        <5>1. Visited(who, cursor) \in End
          BY <1>0, <3>1, <4>1, EnabledNamed, Zenon DEF DoEnable
        <5>2. Enable(Visited(who, cursor), TRUE)
          BY <3>1, <4>1, Zenon DEF DoEnable
        <5>3. UNCHANGED <<statVars, callVars, reqVars>>
          BY <3>1, Zenon DEF DoEnable
        <5> QED
          BY <5>1, <5>2, <5>3, Zenon DEF NetworkOp
      <4>2. CASE ~Connectable(cursor)
        BY <3>1, <4>2, Zenon DEF DoEnable, vars
      <4> QED
        BY <4>1, <4>2, Zenon
    <3>2. CASE DoDisable
      <4>1. CASE Visited(who, cursor)[3] # 0
        <5>1. Visited(who, cursor) \in End
          BY <1>0, <3>2, <4>1, VisitedEnd, Zenon DEF DoDisable, Loops
        <5>2. Enable(Visited(who, cursor), FALSE)
          BY <3>2, <4>1, Zenon DEF DoDisable
        <5>3. UNCHANGED <<statVars, callVars, reqVars>>
          BY <3>2, Zenon DEF DoDisable
        <5> QED
          BY <5>1, <5>2, <5>3, Zenon DEF NetworkOp
      <4>2. CASE ~(Visited(who, cursor)[3] # 0)
        BY <3>2, <4>2, Zenon DEF DoDisable, vars
      <4> QED
        BY <4>1, <4>2, Zenon
    <3> QED
      BY <1>6, <3>1, <3>2, Zenon
  <2> QED
    BY <2>1, <1>1, Zenon DEF Next
<1>7. CASE DoDeleteServer \/ DoAddServer \/ DoCleanup
  <2>1. who \in ServerName
    BY <1>0, Zenon DEF HarnessTypeOK, TesterTypeOK
  <2>2. at = "addServer" => rafts[who] \in Instance
    <3>1. at = "addServer" => rafts[who] = <<who, starts[who]>> /\ starts[who] # 0
      BY <1>0, Zenon DEF ControlInv
    <3> QED
      BY <1>0, <3>1, InstanceOf, Zenon DEF HarnessTypeOK, TesterTypeOK
  <2>3. NetworkOp
    BY <1>7, <2>1, <2>2, Zenon DEF DoDeleteServer, DoAddServer, DoCleanup, NetworkOp
  <2> QED
    BY <2>3, <1>1, Zenon DEF Next
<1>8. CASE DoSupersede \/ DoKill \/ DoFresh \/ DoCopy \/ DoMake \/ DoKillAll
  <2>1. UNCHANGED vars
    BY <1>8, Zenon DEF DoSupersede, DoKill, DoFresh, DoCopy, DoMake, DoKillAll, Kill
  <2> QED
    BY <2>1, <1>1, Zenon
<1>9. CASE DoMakeEnds
  <2> USE DEF statVars, callVars, reqVars
  <2>1. /\ ends' \in [End -> {"unmade", "live", "deleted"}]
        /\ enabled' \in [End -> BOOLEAN]
        /\ connections' \in [End -> ServerName \cup {nil}]
    BY <1>0, <1>9, Zenon DEF IndInv, TypeOK, DoMakeEnds
  <2>2. TypeOK'
    BY <1>0, <1>9, <2>1, ZenonT(30) DEF IndInv, TypeOK, DoMakeEnds
  <2>3. RegisteredMade'
    BY <1>0, <1>9, Zenon DEF IndInv, RegisteredMade, DoMakeEnds
  <2>4. ASSUME NEW c \in Call PROVE RequestInv(c)'
    BY <1>0, <1>9, <2>4, Zenon DEF IndInv, RequestInv, DoMakeEnds
  <2> QED
    BY <2>2, <2>3, <2>4, Zenon DEF IndInv
<1> QED
  BY <1>0, <1>1, <1>2, <1>3, <1>4, <1>5, <1>6, <1>7, <1>8, <1>9, Steps, Zenon DEF Tester

(* What the two sequence operations on persister do. *)
LEMMA SavedTo ==
  ASSUME NEW s \in Seq(SUBSET Call), NEW k \in 1 .. Len(s), NEW v \in SUBSET Call,
         NEW t, t = [s EXCEPT ![k] = v]
  PROVE  /\ t \in Seq(SUBSET Call) /\ Len(t) = Len(s) /\ t[k] = v
         /\ \A j \in 1 .. Len(s) : j # k => t[j] = s[j]
<1>1. s \in [1 .. Len(s) -> SUBSET Call] /\ Len(s) \in Nat
  OBVIOUS
<1>2. t \in [1 .. Len(s) -> SUBSET Call]
  BY <1>1, Zenon
<1>3. t \in Seq(SUBSET Call) /\ Len(t) = Len(s)
  BY <1>1, <1>2
<1>4. QED
  BY <1>1, <1>3, Zenon

LEMMA AddedTo ==
  ASSUME NEW s \in Seq(SUBSET Call), NEW v \in SUBSET Call, NEW t, t = Append(s, v)
  PROVE  /\ t \in Seq(SUBSET Call) /\ Len(t) = Len(s) + 1 /\ t[Len(s) + 1] = v
         /\ \A j \in 1 .. Len(s) : t[j] = s[j]
OBVIOUS

(* Renew, and the section of start1 that prepares cfg.saved[i]: either      *)
(* nothing changes, or server i has a Persister that nobody else has.       *)
NewPersister(i) ==
  /\ persister' \in Seq(SUBSET Call)
  /\ Len(persister') = Len(persister) + 1
  /\ \A j \in 1 .. Len(persister) : persister'[j] = persister[j]
  /\ saved' = [saved EXCEPT ![i] = Len(persister) + 1]
  /\ saved[i] # 0 => persister'[Len(persister) + 1] = persister[saved[i]]

LEMMA RenewNew ==
  ASSUME HarnessTypeOK, PersisterInv, NEW i \in Peer,
         Renew(i) \/ (saved[i] = 0 /\ MakePersister(i, {}))
  PROVE  /\ NewPersister(i) \/ (saved[i] = 0 /\ UNCHANGED <<saved, persister>>)
         /\ saved[i] # 0 \/ MakePersister(i, {}) => NewPersister(i)
<1>1. /\ persister \in Seq(SUBSET Call) /\ saved[i] \in Nat /\ saved[i] <= Len(persister)
      /\ Len(persister) \in Nat
  BY DEF HarnessTypeOK, PersisterInv
<1>2. ASSUME saved[i] = 0, MakePersister(i, {}) PROVE NewPersister(i)
  BY <1>1, <1>2, AddedTo DEF MakePersister, NewPersister
<1>3. ASSUME saved[i] # 0, Renew(i) PROVE NewPersister(i)
  <2>1. saved[i] \in 1 .. Len(persister)
    BY <1>1, <1>3
  <2>2. persister[saved[i]] \in SUBSET Call
    BY <1>1, <2>1
  <2>3. /\ persister' = Append(persister, persister[saved[i]])
        /\ saved' = [saved EXCEPT ![i] = Len(persister) + 1]
    BY <1>3, Zenon DEF Renew, MakePersister
  <2> QED
    BY <1>1, <2>2, <2>3, AddedTo DEF NewPersister
<1>4. CASE saved[i] = 0 /\ Renew(i)
  BY <1>2, <1>4, Zenon DEF Renew
<1> QED
  BY <1>2, <1>3, <1>4, Zenon

(* Every step keeps the variables' types. *)
LEMMA HarnessTypeInd ==
  ASSUME HarnessInv, [HarnessNext]_hvars
  PROVE  HarnessTypeOK'
<1> USE PeerFacts DEF TesterTypeOK, testerVars, cfgVars, raftVars
<1>0. IndInv /\ HarnessTypeOK /\ ControlInv /\ PersisterInv
  BY Zenon DEF HarnessInv
<1>1. ASSUME NEW i \in Peer, NEW yes \in BOOLEAN,
             NEW op \in {"connect", "disconnect", "crash1", "start1"}, Begin(i, yes, op)
      PROVE  HarnessTypeOK'
  <2>1. connected' \in [Peer -> BOOLEAN]
    BY <1>0, <1>1, Zenon DEF HarnessTypeOK, Begin, Switch
  <2>2. TesterTypeOK'
    BY <1>0, <1>1, SMTT(30) DEF HarnessTypeOK, Begin, Switch, Loops
  <2> QED
    BY <1>0, <1>1, <2>1, <2>2, Zenon DEF HarnessTypeOK, Begin, Switch
<1>2. CASE SetMode
  BY <1>0, <1>2 DEF HarnessTypeOK, SetMode
<1>3. CASE cleanup
  BY <1>0, <1>3, Zenon DEF HarnessTypeOK, cleanup
<1>4. CASE Background \/ UNCHANGED hvars
  BY <1>0, <1>4, Zenon DEF HarnessTypeOK, Background, hvars
<1>5. ASSUME NEW c \in Call, Persist(c) PROVE HarnessTypeOK'
  <2> DEFINE r == snap[c].server
  <2>1. r \in made /\ r \in Instance
    BY <1>0, <1>5, Zenon DEF IndInv, RequestInv, Persist, TypeOK
  <2>2. /\ holds[r] \in 1 .. Len(persister) /\ memory[r] \in SUBSET Call
        /\ persister \in Seq(SUBSET Call)
    <3>1. persister \in Seq(SUBSET Call) /\ holds[r] \in Nat /\ memory[r] \in SUBSET Call
      BY <1>0, <2>1, Zenon DEF HarnessTypeOK
    <3>2. holds[r] # 0 /\ holds[r] <= Len(persister)
      BY <1>0, <2>1, Zenon DEF PersisterInv
    <3>3. Len(persister) \in Nat
      BY <3>1
    <3> QED
      BY <3>1, <3>2, <3>3
  <2>3. persister' \in Seq(SUBSET Call)
    BY <1>5, <2>2, SavedTo DEF Persist
  <2>4. memory' \in [Instance -> SUBSET Call] /\ persisted' \in SUBSET Call
    BY <1>0, <1>5, <2>1, Zenon DEF HarnessTypeOK, Persist
  <2> QED
    BY <1>0, <1>5, <2>3, <2>4, Zenon DEF HarnessTypeOK, Persist
<1>6. CASE DoEnable \/ DoDisable \/ DoDeleteServer \/ DoAddServer \/ DoKillAll \/ DoCleanup \/ DoKill
  <2>1. UNCHANGED <<cfgVars, persister, holds, memory, persisted>>
    BY <1>6, Zenon DEF DoEnable, DoDisable, DoDeleteServer, DoAddServer, DoKillAll, DoCleanup,
                DoKill, Kill
  <2>2. TesterTypeOK'
    <3> USE DEF HarnessTypeOK, TesterTypeOK, Loops, CrashSteps, StartSteps, Return, Goto
    <3>0. cursor \in Nat /\ cursor + 1 \in Nat /\ 1 \in Nat /\ 1 \in Peer
      BY <1>0
    <3>1. CASE DoEnable
      BY <1>0, <3>0, <3>1, Zenon DEF DoEnable
    <3>2. CASE DoDisable
      BY <1>0, <3>0, <3>2, Zenon DEF DoDisable
    <3>3. CASE DoDeleteServer \/ DoAddServer \/ DoCleanup \/ DoKill
      BY <1>0, <3>3, SMTT(30) DEF DoDeleteServer, DoAddServer, DoCleanup, DoKill
    <3>4. CASE DoKillAll
      BY <1>0, <3>4 DEF DoKillAll
    <3> QED
      BY <1>6, <3>1, <3>2, <3>3, <3>4, Zenon
  <2> QED
    BY <1>0, <2>1, <2>2, Zenon DEF HarnessTypeOK
<1>7. CASE DoSupersede \/ DoFresh \/ DoCopy
  <2>0. who \in Peer /\ saved \in [Peer -> Nat] /\ persister \in Seq(SUBSET Call)
    BY <1>0, Zenon DEF HarnessTypeOK, TesterTypeOK
  <2>1. who \in Peer /\ saved \in [Peer -> Nat] /\ Len(persister) + 1 \in Nat
    BY <2>0
  <2>2. NewPersister(who) \/ UNCHANGED <<saved, persister>>
    BY <1>0, <1>7, <2>1, RenewNew, Zenon DEF DoSupersede, DoFresh, DoCopy
  <2>3. saved' \in [Peer -> Nat] /\ persister' \in Seq(SUBSET Call)
    <3>1. CASE NewPersister(who)
      BY <2>1, <3>1, Zenon DEF NewPersister
    <3>2. CASE UNCHANGED <<saved, persister>>
      BY <1>0, <3>2, Zenon DEF HarnessTypeOK
    <3> QED
      BY <2>2, <3>1, <3>2, Zenon
  <2>4. rafts' \in [Peer -> Instance \cup {nil}]
    BY <1>0, <1>7, Zenon DEF HarnessTypeOK, DoSupersede, DoFresh, DoCopy
  <2>5. TesterTypeOK'
    <3> USE DEF HarnessTypeOK, TesterTypeOK, Loops, CrashSteps, StartSteps, Return, Goto
    <3>1. CASE DoSupersede \/ DoCopy
      BY <1>0, <3>1, Zenon DEF DoSupersede, DoCopy
    <3>2. CASE DoFresh
      BY <1>0, <3>2 DEF DoFresh
    <3> QED
      BY <1>7, <3>1, <3>2, Zenon
  <2>6. UNCHANGED <<starts, endnames, connected, raftVars>>
    BY <1>7, Zenon DEF DoSupersede, DoFresh, DoCopy
  <2> QED
    BY <1>0, <2>3, <2>4, <2>5, <2>6, Zenon DEF HarnessTypeOK
<1>8. CASE DoMakeEnds
  BY <1>0, <1>8 DEF HarnessTypeOK, DoMakeEnds, Goto, StartSteps
<1>9. CASE DoMake
  <2>1. who \in Peer /\ <<who, starts[who]>> \in Instance
    BY <1>0, <1>9, InstanceOf, Zenon DEF HarnessTypeOK, ControlInv, DoMake
  <2>2. saved[who] \in 1 .. Len(persister)
    BY <1>0, <1>9 DEF HarnessTypeOK, PersisterInv, DoMake
  <2>3. persister[saved[who]] \in SUBSET Call
    BY <1>0, <2>2 DEF HarnessTypeOK
  <2> QED
    BY <1>0, <1>9, <2>1, <2>2, <2>3, Zenon DEF HarnessTypeOK, DoMake, Goto, StartSteps
<1> QED
  BY <1>0, <1>1, <1>2, <1>3, <1>4, <1>5, <1>6, <1>7, <1>8, <1>9, Steps, Zenon DEF Tester

(* The tester's control: which operation it is in, and how far. *)
LEMMA ControlInd ==
  ASSUME HarnessInv, [HarnessNext]_hvars
  PROVE  ControlInv'
<1> USE PeerFacts DEF Loops, CrashSteps, StartSteps, BeforeNames
<1>0. HarnessTypeOK /\ TesterTypeOK /\ ControlInv /\ TesterTypeOK'
  BY HarnessTypeInd, Zenon DEF HarnessInv, HarnessTypeOK
<1>1. ASSUME NEW i \in Peer, NEW yes \in BOOLEAN,
             NEW op \in {"connect", "disconnect", "crash1", "start1"}, Begin(i, yes, op)
      PROVE  ControlInv'
  <2>1. /\ at = "ready" /\ at' = (IF op = "connect" THEN "enable" ELSE "disable")
        /\ who' = i /\ cursor' = 1 /\ request' = op
        /\ UNCHANGED <<starts, rafts>>
        /\ setup' = setup \/ (setup' = setup + 1 /\ (setup > N \/ (setup = i /\ op = "start1")))
        /\ i < setup'
        /\ op = "connect" => starts[i] # 0
        /\ op = "start1" => starts[i] < MaxStarts
    BY <1>1, Zenon DEF Begin, Switch
  <2>2. /\ connected'[i] <=> op = "connect"
        /\ \A j \in Peer : j # i => connected'[j] = connected[j]
    BY <1>0, <1>1, Zenon DEF Begin, Switch, HarnessTypeOK
  <2>3. ASSUME NEW j \in Peer
        PROVE  /\ starts'[j] <= MaxStarts
               /\ connected'[j] => starts'[j] # 0
               /\ j < setup' => starts'[j] # 0 \/ (who' = j /\ BeforeNames')
               /\ j >= setup' => starts'[j] = 0
               /\ rafts'[j] \in {nil, <<j, starts'[j]>>}
    <3>1. j < setup => starts[j] # 0
      BY <1>0, <2>1, Zenon DEF ControlInv
    <3>2. j \in Nat /\ j <= N /\ setup \in Nat
      BY <1>0 DEF TesterTypeOK
    <3>3. j < setup' => starts'[j] # 0 \/ (who' = j /\ BeforeNames')
      BY <2>1, <3>1, <3>2
    <3>4. j >= setup' => starts'[j] = 0
      BY <1>0, <2>1, <3>2 DEF ControlInv
    <3>5. connected'[j] => starts'[j] # 0
      BY <1>0, <2>1, <2>2, Zenon DEF ControlInv
    <3> QED
      BY <1>0, <2>1, <3>3, <3>4, <3>5, Zenon DEF ControlInv
  <2> QED
    BY <1>0, <2>1, <2>2, <2>3 DEF ControlInv
<1>2. CASE SetMode
  <2>1. UNCHANGED <<at, who, cursor, request, starts, connected, rafts>> /\ at = "ready"
    BY <1>2, Zenon DEF SetMode, cfgVars
  <2>2. setup' = setup \/ (setup = 0 /\ setup' = 1)
    BY <1>2, Zenon DEF SetMode
  <2> QED
    BY <1>0, <2>1, <2>2 DEF ControlInv, TesterTypeOK
<1>3. CASE cleanup \/ DoKillAll \/ DoCleanup
  <2>1. UNCHANGED <<setup, starts, connected, rafts>>
    BY <1>3, Zenon DEF cleanup, DoKillAll, DoCleanup, Return, Goto, Kill, cfgVars
  <2>2. at \in {"ready", "killAll", "cleanup"} /\ at' \in {"ready", "killAll", "cleanup"}
    BY <1>3, Zenon DEF cleanup, DoKillAll, DoCleanup, Return, Goto, Ready
  <2> QED
    BY <1>0, <2>1, <2>2, Zenon DEF ControlInv
<1>4. CASE Background \/ UNCHANGED hvars \/ \E c \in Call : Persist(c)
  <2>1. UNCHANGED <<at, who, cursor, request, setup, starts, connected, rafts>>
    BY <1>4, Zenon DEF Background, hvars, Persist, testerVars, cfgVars
  <2> QED
    BY <1>0, <2>1, Zenon DEF ControlInv
<1>5. CASE DoEnable
  <2>1. UNCHANGED <<setup, starts, connected, rafts>>
    BY <1>5, Zenon DEF DoEnable, Return, cfgVars
  <2>2. \/ at' = "ready"
        \/ cursor < 2 * N /\ cursor' = cursor + 1 /\ UNCHANGED <<at, who, request>>
    BY <1>5, Zenon DEF DoEnable, Return
  <2>3. at = "enable"
    BY <1>5, Zenon DEF DoEnable
  <2> QED
    BY <1>0, <2>1, <2>2, <2>3 DEF ControlInv, TesterTypeOK
<1>6. CASE DoDisable
  <2>1. UNCHANGED <<setup, starts, connected, rafts>>
    BY <1>6, Zenon DEF DoDisable, Return, Goto, cfgVars
  <2>2. \/ at' = "ready" /\ request = "disconnect"
        \/ at' = "deleteServer" /\ request # "disconnect" /\ UNCHANGED <<who, request>>
        \/ cursor < 2 * N /\ cursor' = cursor + 1 /\ UNCHANGED <<at, who, request>>
    BY <1>6, Zenon DEF DoDisable, Return, Goto
  <2>3. at = "disable"
    BY <1>6, Zenon DEF DoDisable
  <2> QED
    BY <1>0, <2>1, <2>2, <2>3 DEF ControlInv, TesterTypeOK
<1>7. CASE DoDeleteServer \/ DoSupersede \/ DoKill \/ DoCopy
  <2>1. UNCHANGED <<who, request, setup, starts, connected, rafts>>
    BY <1>7, Zenon DEF DoDeleteServer, DoSupersede, DoKill, DoCopy, Kill, Goto, cfgVars
  <2>2. \/ at = "deleteServer" /\ at' = "supersede"
        \/ at = "supersede" /\ at' = "kill"
        \/ at = "kill" /\ at' = "fresh"
        \/ at = "copy" /\ at' = "make"
    BY <1>7, Zenon DEF DoDeleteServer, DoSupersede, DoKill, DoCopy, Goto
  <2> QED
    BY <1>0, <2>1, <2>2, Zenon DEF ControlInv
<1>8. CASE DoFresh
  <2>1. /\ UNCHANGED <<setup, starts, connected>> /\ at = "fresh"
        /\ rafts' = [rafts EXCEPT ![who] = nil]
        /\ \/ at' = "ready" /\ request = "crash1"
           \/ at' = "makeEnds" /\ request # "crash1" /\ UNCHANGED <<who, request>>
    BY <1>8, Zenon DEF DoFresh, Return, Goto
  <2> QED
    BY <1>0, <2>1, Zenon DEF ControlInv, HarnessTypeOK, TesterTypeOK
<1>9. CASE DoMakeEnds
  <2>1. /\ UNCHANGED <<who, request, setup, connected, rafts>>
        /\ at = "makeEnds" /\ at' = "copy"
        /\ starts' = [starts EXCEPT ![who] = starts[who] + 1]
    BY <1>9, Zenon DEF DoMakeEnds, Goto
  <2>2. ~connected[who] /\ starts[who] < MaxStarts /\ rafts[who] = nil /\ request = "start1"
    BY <1>0, <2>1, Zenon DEF ControlInv
  <2>3. starts'[who] = starts[who] + 1 /\ starts[who] \in Nat /\ who \in Peer
    BY <1>0, <2>1, Zenon DEF HarnessTypeOK, TesterTypeOK
  <2>4. ASSUME NEW j \in Peer
        PROVE  /\ starts'[j] <= MaxStarts
               /\ connected'[j] => starts'[j] # 0
               /\ j < setup' => starts'[j] # 0 \/ (who' = j /\ BeforeNames')
               /\ j >= setup' => starts'[j] = 0
               /\ rafts'[j] \in {nil, <<j, starts'[j]>>}
    <3>1. CASE j = who
      <4>1. j < setup
        BY <1>0, <2>1, <2>2, <3>1, Zenon DEF ControlInv, TesterTypeOK
      <4> QED
        BY <1>0, <2>1, <2>2, <2>3, <3>1, <4>1 DEF ControlInv, TesterTypeOK
    <3>2. CASE j # who
      BY <1>0, <2>1, <2>3, <3>2, Zenon DEF ControlInv, HarnessTypeOK
    <3> QED
      BY <3>1, <3>2, Zenon
  <2> QED
    BY <1>0, <2>1, <2>2, <2>3, <2>4, Zenon DEF ControlInv
<1>10. CASE DoMake
  <2>1. /\ UNCHANGED <<who, request, setup, starts, connected>>
        /\ at = "make" /\ at' = "addServer"
        /\ rafts' = [rafts EXCEPT ![who] = <<who, starts[who]>>]
    BY <1>10, Zenon DEF DoMake, Goto
  <2> QED
    BY <1>0, <2>1, Zenon DEF ControlInv, HarnessTypeOK, TesterTypeOK
<1>11. CASE DoAddServer
  <2>1. /\ UNCHANGED <<setup, starts, connected, rafts>>
        /\ at = "addServer" /\ at' = "ready"
    BY <1>11, Zenon DEF DoAddServer, Return, cfgVars
  <2> QED
    BY <1>0, <2>1, Zenon DEF ControlInv
<1> QED
  BY <1>0, <1>1, <1>2, <1>3, <1>4, <1>5, <1>6, <1>7, <1>8, <1>9, <1>10, <1>11, Steps, Zenon
  DEF Tester

(* An end of a current incarnation. *)
LEMMA CurrentEnd ==
  ASSUME HarnessTypeOK, ControlInv, NEW i \in Peer, NEW j \in Peer, endnames[i] # 0
  PROVE  <<i, j, endnames[i]>> \in End
<1>1. endnames[i] \in Nat /\ endnames[i] <= MaxStarts
  BY Zenon DEF HarnessTypeOK, ControlInv
<1> QED
  BY <1>1, PeerFacts DEF Incarnation

(* One turn of a loop switches the one end it visits, which is then as it   *)
(* has to be, and leaves the others alone.                                  *)
LEMMA LoopTurn ==
  ASSUME HarnessInv, DoEnable \/ DoDisable
  PROVE  /\ \A e \in End : enabled'[e] => e[3] = endnames[e[1]]
         /\ \A i, j \in Peer :
              \/ i # who /\ j # who
              \/ i = who /\ j <= cursor
              \/ j = who /\ N + i <= cursor
              => (endnames[i] # 0 =>
                    (enabled'[<<i, j, endnames[i]>>] <=> connected[i] /\ connected[j]))
         /\ at = "enable" => \A j \in Peer :
              /\ enabled'[<<who, j, endnames[who]>>] => connected[j]
              /\ endnames[j] # 0 /\ enabled'[<<j, who, endnames[j]>>] => connected[j]
<1> USE PeerFacts
<1> DEFINE v == Visited(who, cursor)
<1>0. /\ HarnessTypeOK /\ TesterTypeOK /\ ControlInv /\ SwitchInv
      /\ at \in Loops /\ who \in Peer /\ cursor \in Nat /\ enabled \in [End -> BOOLEAN]
      /\ connected \in [Peer -> BOOLEAN]
  BY Zenon DEF HarnessInv, HarnessTypeOK, TesterTypeOK, DoEnable, DoDisable, Loops, IndInv, TypeOK
<1>1. /\ cursor \in 1 .. 2 * N /\ Other(cursor) \in Peer
      /\ cursor <= N => v = <<who, cursor, endnames[who]>> /\ Other(cursor) = cursor
      /\ cursor > N =>
           /\ v = <<cursor - N, who, endnames[cursor - N]>>
           /\ Other(cursor) = cursor - N
      /\ v[3] # 0 => v \in End
  BY <1>0, VisitedEnd, Zenon
<1>2. PICK a \in Peer, b \in Peer :
        /\ v = <<a, b, endnames[a]>>
        /\ \/ a = who /\ b = Other(cursor) /\ b = cursor
           \/ b = who /\ a = Other(cursor) /\ N + a = cursor
  <2>1. CASE cursor <= N
    BY <1>0, <1>1, <2>1, Zenon
  <2>2. CASE cursor > N
    <3>1. N + (cursor - N) = cursor
      BY <1>1
    <3> QED
      BY <1>0, <1>1, <2>2, <3>1, Zenon
  <2> QED
    BY <1>1, <2>1, <2>2
<1> HIDE DEF v
<1>3. \/ at = "enable" /\ connected[Other(cursor)] /\ v \in End /\ enabled' = [enabled EXCEPT ![v] = TRUE]
      \/ at = "enable" /\ ~connected[Other(cursor)] /\ enabled' = enabled
      \/ at = "disable" /\ v[3] # 0 /\ enabled' = [enabled EXCEPT ![v] = FALSE]
      \/ at = "disable" /\ v[3] = 0 /\ enabled' = enabled
  BY <1>0, <1>1, EnabledNamed, Zenon DEF DoEnable, DoDisable, Connectable, Enable, netVars, v
<1>4. \A e \in End : e # v => enabled'[e] = enabled[e]
  BY <1>0, <1>3, Zenon
<1>5. \A e \in End : enabled'[e] => e[3] = endnames[e[1]]
  BY <1>0, <1>2, <1>4 DEF SwitchInv
<1>6. /\ at = "enable" => connected[who]
      /\ at = "disable" => ~connected[who]
  BY <1>0, Zenon DEF ControlInv
<1>7. at = "enable" => \A j \in Peer :
        /\ enabled[<<who, j, endnames[who]>>] => connected[j]
        /\ endnames[j] # 0 /\ enabled[<<j, who, endnames[j]>>] => connected[j]
  BY <1>0, Zenon DEF SwitchInv
<1>8. endnames[a] # 0 => (enabled'[v] <=> connected[a] /\ connected[b])
  <2> SUFFICES ASSUME endnames[a] # 0 PROVE enabled'[v] <=> connected[a] /\ connected[b]
    BY Zenon
  <2>1. v \in End /\ v[3] # 0
    BY <1>1, <1>2, Zenon
  <2>2. CASE at = "enable" /\ connected[Other(cursor)]
    BY <1>0, <1>2, <1>3, <1>6, <2>1, <2>2, Zenon
  <2>3. CASE at = "enable" /\ ~connected[Other(cursor)]
    <3>1. enabled' = enabled
      BY <1>3, <2>3, Zenon
    <3>2. ~enabled[v]
      BY <1>2, <1>7, <2>3, Zenon
    <3> QED
      BY <1>2, <2>3, <3>1, <3>2, Zenon
  <2>4. CASE at = "disable"
    <3>1. enabled' = [enabled EXCEPT ![v] = FALSE]
      BY <1>3, <2>1, <2>4, Zenon
    <3>2. ~enabled'[v]
      BY <1>0, <2>1, <3>1, Zenon
    <3> QED
      BY <1>2, <1>6, <2>4, <3>2, Zenon
  <2> QED
    BY <1>0, <2>2, <2>3, <2>4, Zenon DEF Loops
<1>9. ASSUME NEW i \in Peer, NEW j \in Peer, endnames[i] # 0,
             \/ i # who /\ j # who
             \/ i = who /\ j <= cursor
             \/ j = who /\ N + i <= cursor
      PROVE  enabled'[<<i, j, endnames[i]>>] <=> connected[i] /\ connected[j]
  <2>1. CASE i = a /\ j = b
    BY <1>2, <1>8, <1>9, <2>1, Zenon
  <2>2. CASE ~(i = a /\ j = b)
    <3>1. <<i, j, endnames[i]>> \in End /\ <<i, j, endnames[i]>> # v
      BY <1>0, <1>2, <1>9, <2>2, CurrentEnd, Zenon
    <3>2. \/ i # who /\ j # who
          \/ i = who /\ j < cursor
          \/ j = who /\ N + i < cursor
      <4>1. i \in Nat /\ j \in Nat
        BY Zenon
      <4> QED
        BY <1>0, <1>1, <1>2, <1>9, <2>2, <4>1
    <3>3. Settled(i, j)
      BY <1>0, <3>2, Zenon DEF SwitchInv
    <3> QED
      BY <1>4, <1>9, <3>1, <3>3, Zenon DEF Settled
  <2> QED
    BY <2>1, <2>2, Zenon
<1>10. ASSUME at = "enable", NEW j \in Peer
       PROVE  /\ enabled'[<<who, j, endnames[who]>>] => connected[j]
              /\ endnames[j] # 0 /\ enabled'[<<j, who, endnames[j]>>] => connected[j]
  <2>1. endnames[who] # 0
    BY <1>0, <1>6, <1>10, Zenon DEF ControlInv, HarnessTypeOK
  <2>2. <<who, j, endnames[who]>> \in End /\ (endnames[j] # 0 => <<j, who, endnames[j]>> \in End)
    BY <1>0, <2>1, CurrentEnd, Zenon
  <2>3. endnames[a] # 0 => (enabled'[v] => connected[a] /\ connected[b])
    BY <1>8, Zenon
  <2>4. enabled'[<<who, j, endnames[who]>>] => connected[j]
    BY <1>0, <1>2, <1>4, <1>7, <1>10, <2>1, <2>2, <2>3, Zenon
  <2>5. endnames[j] # 0 /\ enabled'[<<j, who, endnames[j]>>] => connected[j]
    BY <1>0, <1>2, <1>4, <1>7, <1>10, <2>2, <2>3, Zenon
  <2> QED
    BY <2>4, <2>5, Zenon
<1> QED
  BY <1>5, <1>9, <1>10, Zenon

(* The ends stay switched as cfg.connected says. *)
LEMMA SwitchInd ==
  ASSUME HarnessInv, [HarnessNext]_hvars
  PROVE  SwitchInv'
<1> USE PeerFacts
<1>0. /\ HarnessTypeOK /\ TesterTypeOK /\ ControlInv /\ SwitchInv /\ who \in Peer
      /\ cursor \in Nat /\ enabled \in [End -> BOOLEAN] /\ connected \in [Peer -> BOOLEAN]
      /\ endnames = starts /\ starts \in [Peer -> Nat]
  BY Zenon DEF HarnessInv, HarnessTypeOK, TesterTypeOK, IndInv, TypeOK
<1>1. ASSUME UNCHANGED <<enabled, connected, endnames>>, at \notin Loops, at' \notin Loops
      PROVE  SwitchInv'
  BY <1>0, <1>1, Zenon DEF SwitchInv, Settled, Loops
<1>2. ASSUME NEW i \in Peer, NEW yes \in BOOLEAN,
             NEW op \in {"connect", "disconnect", "crash1", "start1"}, Begin(i, yes, op)
      PROVE  SwitchInv'
  <2>1. /\ UNCHANGED <<enabled, endnames>> /\ at \notin Loops /\ who' = i /\ cursor' = 1
        /\ at' = "enable" => endnames[i] # 0 /\ op = "connect"
        /\ at' \in Loops
    BY <1>0, <1>2, Zenon DEF Begin, Switch, Loops, vars, netVars
  <2>2. /\ connected'[i] <=> op = "connect"
        /\ \A j \in Peer : j # i => connected'[j] = connected[j]
    BY <1>0, <1>2, Zenon DEF Begin, Switch
  <2>3. \A a, b \in Peer : Settled(a, b)
    BY <1>0, <2>1, Zenon DEF SwitchInv
  <2>4. ASSUME NEW a \in Peer, NEW b \in Peer,
               \/ at' \notin Loops
               \/ a # who' /\ b # who'
               \/ a = who' /\ b < cursor'
               \/ b = who' /\ N + a < cursor'
        PROVE  Settled(a, b)'
    <3>1. a \in Nat /\ b \in Nat /\ ~(b < 1) /\ ~(N + a < 1)
      OBVIOUS
    <3>2. a # i /\ b # i
      BY <2>1, <2>4, <3>1, Zenon
    <3> QED
      BY <2>1, <2>2, <2>3, <3>2, Zenon DEF Settled
  <2>5. ASSUME at' = "enable", NEW j \in Peer
        PROVE  /\ enabled'[<<who', j, endnames'[who']>>] => connected'[j]
               /\ endnames'[j] # 0 /\ enabled'[<<j, who', endnames'[j]>>] => connected'[j]
    BY <2>1, <2>2, <2>3, <2>5, Zenon DEF Settled
  <2>6. \A e \in End : enabled'[e] => e[3] = endnames'[e[1]]
    BY <1>0, <2>1, Zenon DEF SwitchInv
  <2> QED
    BY <2>4, <2>5, <2>6, Zenon DEF SwitchInv
<1>3. CASE SetMode \/ cleanup \/ DoDeleteServer \/ DoSupersede \/ DoKill
           \/ DoFresh \/ DoCopy \/ DoMake \/ DoAddServer \/ DoKillAll \/ DoCleanup
  <2>1. at \notin Loops /\ at' \notin Loops
    BY <1>3, Zenon DEF Loops, SetMode, cleanup, Ready, DoDeleteServer, DoSupersede, DoKill,
      DoFresh, DoCopy, DoMake, DoAddServer, DoKillAll, DoCleanup, Goto, Return
  <2>2. UNCHANGED <<connected, endnames>>
    BY <1>3, Zenon DEF SetMode, cleanup, DoDeleteServer, DoSupersede, DoKill, Kill,
      DoFresh, DoCopy, DoMake, DoAddServer, DoKillAll, DoCleanup, cfgVars
  <2>3. UNCHANGED enabled
    BY <1>3, Zenon DEF SetMode, cleanup, DoDeleteServer, DoSupersede, DoKill, Kill,
      DoFresh, DoCopy, DoMake, DoAddServer, DoKillAll, DoCleanup, vars, netVars,
      Reliable, LongReordering, DeleteServer, AddServer, Cleanup
  <2> QED
    BY <1>1, <2>1, <2>2, <2>3, Zenon
<1>4. CASE Background \/ UNCHANGED hvars \/ \E c \in Call : Persist(c)
  <2>1. UNCHANGED <<at, who, cursor, connected, endnames>>
    BY <1>4, Zenon DEF Background, hvars, Persist, testerVars, cfgVars
  <2>2. UNCHANGED enabled
    <3>1. CASE Background
      BY <3>1, Zenon DEF Background, StopAccepting, Goroutine, Accept, CallDestroyed, Process,
        readEndnameInfo, DropRequest, StartHandler, ReceiveResult, WaitTimeout, FinalCheck,
        SendReply, SendFailure, Dispatch, Drain, CallBegin, HandlerReturns, netVars
    <3>2. CASE UNCHANGED hvars \/ \E c \in Call : Persist(c)
      BY <3>2, Zenon DEF hvars, Persist, vars, netVars
    <3> QED
      BY <1>4, <3>1, <3>2, Zenon
  <2> QED
    BY <1>0, <2>1, <2>2 DEF SwitchInv, Settled
<1>5. CASE DoEnable \/ DoDisable
  <2>1. UNCHANGED <<connected, endnames>>
    BY <1>5, Zenon DEF DoEnable, DoDisable, cfgVars
  <2>2. \/ cursor = 2 * N /\ at' \notin Loops
        \/ cursor' = cursor + 1 /\ UNCHANGED <<at, who>>
    <3>1. at \in Loops /\ cursor \in 1 .. 2 * N
      BY <1>0, <1>5, Zenon DEF DoEnable, DoDisable, ControlInv, Loops
    <3>2. CASE cursor < 2 * N
      BY <1>5, <3>2, Zenon DEF DoEnable, DoDisable
    <3>3. CASE ~(cursor < 2 * N)
      <4>1. cursor = 2 * N
        BY <3>1, <3>3
      <4>2. Return \/ Goto("deleteServer")
        BY <1>5, <3>3, Zenon DEF DoEnable, DoDisable
      <4> QED
        BY <4>1, <4>2, Zenon DEF Return, Goto, Loops
    <3> QED
      BY <3>2, <3>3, Zenon
  <2>3. /\ \A e \in End : enabled'[e] => e[3] = endnames[e[1]]
        /\ \A i, j \in Peer :
             \/ i # who /\ j # who
             \/ i = who /\ j <= cursor
             \/ j = who /\ N + i <= cursor
             => (endnames[i] # 0 =>
                   (enabled'[<<i, j, endnames[i]>>] <=> connected[i] /\ connected[j]))
        /\ at = "enable" => \A j \in Peer :
             /\ enabled'[<<who, j, endnames[who]>>] => connected[j]
             /\ endnames[j] # 0 /\ enabled'[<<j, who, endnames[j]>>] => connected[j]
    BY <1>5, LoopTurn, Zenon
  <2>4. ASSUME NEW a \in Peer, NEW b \in Peer,
               \/ at' \notin Loops
               \/ a # who' /\ b # who'
               \/ a = who' /\ b < cursor'
               \/ b = who' /\ N + a < cursor'
        PROVE  Settled(a, b)'
    <3>1. a \in Nat /\ b \in Nat /\ a <= N /\ b <= N
      OBVIOUS
    <3>2. \/ a # who /\ b # who
          \/ a = who /\ b <= cursor
          \/ b = who /\ N + a <= cursor
      <4>1. at \in Loops
        BY <1>5, Zenon DEF DoEnable, DoDisable, Loops
      <4> QED
        BY <1>0, <2>2, <2>4, <3>1, <4>1
    <3> QED
      BY <2>1, <2>3, <3>2, Zenon DEF Settled
  <2>5. at' = "enable" => at = "enable" /\ who' = who
    BY <2>2, Zenon DEF Loops
  <2> QED
    BY <2>1, <2>3, <2>4, <2>5, Zenon DEF SwitchInv
<1>6. CASE DoMakeEnds
  <2> DEFINE g == starts[who] + 1
             new == {<<who, j, g>> : j \in Peer}
  <2>1. /\ at \notin Loops /\ at' \notin Loops /\ UNCHANGED <<who, connected>>
        /\ endnames' = [endnames EXCEPT ![who] = g]
        /\ enabled' = [e \in End |-> IF e \in new THEN FALSE ELSE enabled[e]]
        /\ at = "makeEnds"
    BY <1>6, Zenon DEF DoMakeEnds, Goto, Loops
  <2>2. ~connected[who] /\ g \in Incarnation
    BY <1>0, <2>1 DEF ControlInv, BeforeNames, StartSteps, Incarnation
  <2>3. /\ endnames'[who] = g /\ \A i \in Peer : i # who => endnames'[i] = endnames[i]
    BY <1>0, <2>1, Zenon
  <2>4. \A e \in End : (e[1] = who /\ e[3] = g <=> e \in new)
                       /\ e = <<e[1], e[2], e[3]>> /\ e[1] \in Peer /\ e[2] \in Peer
                       /\ e[3] \in Nat /\ e[3] # 0
    BY DEF Incarnation
  <2> HIDE DEF new, g
  <2>5. \A i, j \in Peer : Settled(i, j)
    BY <1>0, <2>1, Zenon DEF SwitchInv
  <2>6. ASSUME NEW e \in End, enabled'[e] PROVE e[3] = endnames'[e[1]]
    <3>1. e \notin new /\ enabled[e]
      BY <2>1, <2>6, Zenon
    <3>2. e[3] = endnames[e[1]]
      BY <1>0, <3>1, Zenon DEF SwitchInv
    <3>3. e[1] # who
      <4> SUFFICES ASSUME e[1] = who PROVE FALSE
        BY Zenon
      <4>1. Settled(who, e[2]) /\ endnames[who] # 0 /\ e = <<who, e[2], endnames[who]>>
        BY <1>0, <2>4, <2>5, <3>2, Zenon
      <4> QED
        BY <2>2, <3>1, <4>1, Zenon DEF Settled
    <3> QED
      BY <2>3, <2>4, <3>2, <3>3, Zenon
  <2>7. ASSUME NEW i \in Peer, NEW j \in Peer, endnames'[i] # 0
        PROVE  enabled'[<<i, j, endnames'[i]>>] <=> connected'[i] /\ connected'[j]
    <3>1. CASE i = who
      <4>1. <<i, j, endnames'[i]>> \in End
        BY <2>2, <2>3, <3>1, Zenon
      <4>2. <<i, j, endnames'[i]>> \in new
        BY <2>3, <2>4, <3>1, <4>1, Zenon
      <4> QED
        BY <2>1, <2>2, <3>1, <4>1, <4>2, Zenon
    <3>2. CASE i # who
      <4>1. endnames'[i] = endnames[i] /\ <<i, j, endnames[i]>> \in End
        BY <1>0, <2>3, <2>7, <3>2, CurrentEnd, Zenon
      <4>2. <<i, j, endnames[i]>> \notin new
        BY <2>4, <3>2, <4>1, Zenon
      <4>3. enabled'[<<i, j, endnames[i]>>] = enabled[<<i, j, endnames[i]>>]
        BY <2>1, <4>1, <4>2, Zenon
      <4> QED
        BY <2>1, <2>5, <2>7, <4>1, <4>3, Zenon DEF Settled
    <3> QED
      BY <3>1, <3>2, Zenon
  <2> QED
    BY <2>1, <2>6, <2>7, Zenon DEF SwitchInv, Settled, Loops
<1>7. \/ \E i \in Peer, yes \in BOOLEAN, op \in {"connect", "disconnect", "crash1", "start1"} :
            Begin(i, yes, op)
      \/ SetMode \/ cleanup \/ Tester \/ Background
      \/ \E c \in Call : Persist(c)
      \/ UNCHANGED hvars
  BY <1>0, Steps, Zenon
<1> QED
  BY <1>2, <1>3, <1>4, <1>5, <1>6, <1>7, Zenon DEF Tester

-----------------------------------------------------------------------------
(* A new Persister for a server that is not registered keeps the Persisters *)
(* apart, whether or not the server's instance is forgotten with it.        *)
LEMMA NewPersisterInd ==
  ASSUME HarnessInv, at \in {"supersede", "fresh", "copy"},
         NewPersister(who) \/ (saved[who] = 0 /\ UNCHANGED <<saved, persister>>),
         UNCHANGED <<starts, holds, memory, servers, made>>,
         rafts' = rafts \/ rafts' = [rafts EXCEPT ![who] = nil],
         \/ at' = "ready"
         \/ at' \in {"kill", "makeEnds"} /\ who' = who
         \/ at = "copy" /\ at' = "make" /\ who' = who /\ NewPersister(who)
  PROVE  PersisterInv'
<1> USE PeerFacts
<1>0. /\ HarnessTypeOK /\ PersisterInv /\ who \in Peer /\ servers \in [Peer -> Instance \cup {nil}]
      /\ servers[who] = nil /\ made \subseteq Instance
      /\ saved \in [Peer -> Nat] /\ holds \in [Instance -> Nat]
      /\ rafts \in [Peer -> Instance \cup {nil}] /\ persister \in Seq(SUBSET Call)
  BY Zenon DEF HarnessInv, HarnessTypeOK, TesterTypeOK, IndInv, TypeOK, PersisterInv, StartSteps
<1>1. Len(persister) \in Nat /\ \A r \in Instance : r[1] \in Peer /\ holds[r] \in Nat
  BY <1>0
<1>2. \/ saved'[who] = Len(persister) + 1 /\ Len(persister') = Len(persister) + 1
      \/ saved[who] = 0 /\ saved'[who] = 0 /\ Len(persister') = Len(persister) /\ ~NewPersister(who)
  BY <1>0, Zenon DEF NewPersister
<1>3. \A j \in Peer : j # who => saved'[j] = saved[j]
  BY <1>0 DEF NewPersister
<1>4. \A k \in 1 .. Len(persister) : persister'[k] = persister[k]
  BY Zenon DEF NewPersister
<1>5. \A j \in Peer : j # who => rafts'[j] = rafts[j]
  BY <1>0, Zenon
<1>6. /\ \A j \in Peer : saved[j] \in Nat /\ saved[j] <= Len(persister)
      /\ \A r \in Instance : holds[r] # 0 =>
           holds[r] <= Len(persister) /\ holds[r] \in 1 .. Len(persister) /\ saved[r[1]] # 0
  BY <1>0, <1>1 DEF PersisterInv
<1>7. ASSUME NEW i \in Peer
      PROVE  /\ saved'[i] <= Len(persister')
             /\ \A j \in Peer : saved'[i] # 0 /\ saved'[i] = saved'[j] => i = j
             /\ servers'[i] # nil =>
                  /\ rafts'[i] = servers'[i] /\ servers'[i] \in made'
                  /\ holds'[servers'[i]] = saved'[i]
  <2>1. saved'[i] <= Len(persister')
    <3> DEFINE l == Len(persister)
               m == Len(persister')
               x == saved[i]
               y == saved'[i]
    <3>1. /\ l \in Nat /\ x \in Nat /\ x <= l /\ (m = l \/ m = l + 1)
          /\ y = x \/ (y = l + 1 /\ m = l + 1)
      BY <1>1, <1>2, <1>3, <1>6, Zenon
    <3> HIDE PeerFacts DEF l, m, x, y
    <3>2. y <= m
      BY <3>1
    <3> QED
      BY <3>2, Zenon DEF m, y
  <2>2. \A j \in Peer : saved'[i] # 0 /\ saved'[i] = saved'[j] => i = j
    <3>1. \A j \in Peer : saved[i] # 0 /\ saved[i] = saved[j] => i = j
      BY <1>0, Zenon DEF PersisterInv
    <3> QED
      BY <1>1, <1>2, <1>3, <1>6, <3>1
  <2>3. servers'[i] # nil => i # who
    BY <1>0, Zenon
  <2> QED
    BY <1>0, <1>3, <1>5, <2>1, <2>2, <2>3 DEF PersisterInv
<1>8. ASSUME NEW r \in Instance
      PROVE  /\ r \in made' => holds'[r] # 0
             /\ holds'[r] # 0 =>
                  /\ saved'[r[1]] # 0 /\ holds'[r] <= Len(persister')
                  /\ r[2] <= starts'[r[1]]
                  /\ memory'[r] = persister'[holds'[r]]
                  /\ \A s \in Instance : holds'[s] = holds'[r] => s = r
                  /\ \A i \in Peer : saved'[i] = holds'[r] => i = r[1] /\ rafts'[i] = r
  <2>1. r \in made' => holds'[r] # 0
    BY <1>0, Zenon DEF PersisterInv
  <2>2. ASSUME holds'[r] # 0
        PROVE  /\ saved'[r[1]] # 0 /\ holds'[r] <= Len(persister')
               /\ memory'[r] = persister'[holds'[r]]
               /\ r[2] <= starts'[r[1]]
               /\ \A s \in Instance : holds'[s] = holds'[r] => s = r
    <3>1. holds[r] # 0 /\ holds'[r] = holds[r]
      BY <2>2, Zenon
    <3>2. saved'[r[1]] # 0 /\ holds'[r] <= Len(persister')
      BY <1>1, <1>2, <1>3, <1>6, <3>1, SMTT(30)
    <3>3. memory'[r] = persister'[holds'[r]]
      <4>1. memory[r] = persister[holds[r]]
        BY <1>0, <3>1, Zenon DEF PersisterInv
      <4> QED
        BY <1>4, <1>6, <3>1, <4>1, Zenon
    <3> QED
      BY <1>0, <3>1, <3>2, <3>3, Zenon DEF PersisterInv
  <2>3. ASSUME holds'[r] # 0, NEW i \in Peer, saved'[i] = holds'[r]
        PROVE  i = r[1] /\ rafts'[i] = r
    <3>1. i # who
      BY <1>1, <1>2, <1>6, <2>3
    <3> QED
      BY <1>0, <1>3, <1>5, <2>3, <3>1 DEF PersisterInv
  <2> QED
    BY <2>1, <2>2, <2>3, Zenon
<1>9. /\ at' \in {"supersede", "kill", "fresh"} \cup StartSteps => servers'[who'] = nil
      /\ at' \in {"make", "addServer"} => saved'[who'] # 0
      /\ at' \in {"copy", "make"} => holds'[<<who', starts'[who']>>] = 0
      /\ at' = "addServer" => holds'[rafts'[who']] = saved'[who']
  <2>1. at' \in {"make", "addServer"} => saved'[who'] # 0
    BY <1>1, <1>2
  <2>2. at' \in {"copy", "make"} => holds'[<<who', starts'[who']>>] = 0
    BY <1>0, Zenon DEF PersisterInv
  <2>3. at' # "ready" => servers'[who'] = nil
    BY <1>0, Zenon
  <2> QED
    BY <2>1, <2>2, <2>3, Zenon DEF StartSteps
<1> QED
  BY <1>7, <1>8, <1>9, Zenon DEF PersisterInv

(* Make gives the new instance a Persister that no instance has. *)
LEMMA MakeInd ==
  ASSUME HarnessInv, DoMake
  PROVE  PersisterInv'
<1> USE PeerFacts
<1> DEFINE new == <<who, starts[who]>>
<1>0. /\ PersisterInv /\ who \in Peer /\ at = "make" /\ made \subseteq Instance
      /\ saved \in [Peer -> Nat] /\ holds \in [Instance -> Nat]
      /\ memory \in [Instance -> SUBSET Call]
      /\ rafts \in [Peer -> Instance \cup {nil}] /\ starts \in [Peer -> Nat]
  BY Zenon DEF HarnessInv, HarnessTypeOK, TesterTypeOK, IndInv, TypeOK, DoMake
<1>1. new \in Instance /\ new[1] = who /\ new[2] = starts[who]
  BY <1>0, InstanceOf, Zenon DEF HarnessInv, ControlInv
<1>2. /\ at' = "addServer" /\ who' = who
      /\ holds' = [holds EXCEPT ![new] = saved[who]]
      /\ memory' = [memory EXCEPT ![new] = persister[saved[who]]]
      /\ rafts' = [rafts EXCEPT ![who] = new]
      /\ UNCHANGED <<starts, saved, persister, servers, made>>
  BY Zenon DEF DoMake, Goto, vars, netVars
<1>3. /\ rafts[who] = nil /\ servers[who] = nil /\ saved[who] # 0 /\ holds[new] = 0
      /\ new \notin made /\ saved[who] <= Len(persister)
  BY <1>0, <1>1, Zenon DEF HarnessInv, ControlInv, PersisterInv, StartSteps
<1> HIDE DEF new
<1>4. /\ holds'[new] = saved[who] /\ \A r \in Instance : r # new => holds'[r] = holds[r]
      /\ memory'[new] = persister[saved[who]]
      /\ \A r \in Instance : r # new => memory'[r] = memory[r]
      /\ rafts'[who] = new /\ \A i \in Peer : i # who => rafts'[i] = rafts[i]
  BY <1>0, <1>1, <1>2, Zenon
<1>5. \A s \in Instance : holds[s] # saved[who]
  BY <1>0, <1>3 DEF PersisterInv
<1>6. ASSUME NEW i \in Peer
      PROVE  /\ saved'[i] <= Len(persister')
             /\ \A j \in Peer : saved'[i] # 0 /\ saved'[i] = saved'[j] => i = j
             /\ servers'[i] # nil =>
                  /\ rafts'[i] = servers'[i] /\ servers'[i] \in made'
                  /\ holds'[servers'[i]] = saved'[i]
  <2>1. servers[i] # nil => i # who /\ servers[i] # new
    <3>1. servers[i] # nil => servers[i] \in made
      BY <1>0, Zenon DEF PersisterInv
    <3> QED
      BY <1>3, <3>1, Zenon
  <2>2. /\ saved[i] <= Len(persister)
        /\ \A j \in Peer : saved[i] # 0 /\ saved[i] = saved[j] => i = j
        /\ servers[i] # nil =>
             /\ rafts[i] = servers[i] /\ servers[i] \in made /\ servers[i] \in Instance
             /\ holds[servers[i]] = saved[i]
    BY <1>0, Zenon DEF PersisterInv
  <2> QED
    BY <1>2, <1>4, <2>1, <2>2, Zenon
<1>7. ASSUME NEW r \in Instance
      PROVE  /\ r \in made' => holds'[r] # 0
             /\ holds'[r] # 0 =>
                  /\ saved'[r[1]] # 0 /\ holds'[r] <= Len(persister')
                  /\ r[2] <= starts'[r[1]]
                  /\ memory'[r] = persister'[holds'[r]]
                  /\ \A s \in Instance : holds'[s] = holds'[r] => s = r
                  /\ \A i \in Peer : saved'[i] = holds'[r] => i = r[1] /\ rafts'[i] = r
  <2>1. CASE r = new
    <3>1. starts[who] <= starts[who]
      BY <1>0
    <3>2. \A s \in Instance : holds'[s] = holds'[r] => s = r
      BY <1>4, <1>5, <2>1, Zenon
    <3>3. \A i \in Peer : saved'[i] = holds'[r] => i = who
      BY <1>0, <1>2, <1>3, <1>4, <2>1 DEF PersisterInv
    <3> QED
      BY <1>1, <1>2, <1>3, <1>4, <2>1, <3>1, <3>2, <3>3
  <2>2. CASE r # new
    <3>1. holds'[r] = holds[r] /\ memory'[r] = memory[r] /\ holds[r] # saved[who]
      BY <1>4, <1>5, <2>2, Zenon
    <3>2. ASSUME holds[r] # 0, NEW s \in Instance, holds'[s] = holds[r] PROVE s = r
      <4>1. \A t \in Instance : holds[t] = holds[r] => t = r
        BY <1>0, <3>2, Zenon DEF PersisterInv
      <4> QED
        BY <1>4, <3>1, <3>2, <4>1, Zenon
    <3>3. ASSUME holds[r] # 0, NEW i \in Peer, saved[i] = holds[r]
          PROVE  i = r[1] /\ rafts'[i] = r
      <4>1. i = r[1] /\ rafts[i] = r
        BY <1>0, <3>3, ZenonT(40) DEF PersisterInv
      <4>2. i # who
        BY <3>1, <3>3, Zenon
      <4> QED
        BY <1>4, <4>1, <4>2, Zenon
    <3> QED
      BY <1>0, <1>2, <3>1, <3>2, <3>3, Zenon DEF PersisterInv
  <2> QED
    BY <2>1, <2>2, Zenon
<1>8. /\ servers'[who'] = nil /\ saved'[who'] # 0 /\ holds'[rafts'[who']] = saved'[who']
  BY <1>2, <1>3, <1>4, Zenon
<1> QED
  BY <1>2, <1>6, <1>7, <1>8, Zenon DEF PersisterInv

(* A handler that saves changes its instance and that instance's Persister. *)
LEMMA PersistInd ==
  ASSUME HarnessInv, NEW c \in Call, Persist(c)
  PROVE  /\ PersisterInv'
         /\ UNCHANGED <<vars, testerVars, cfgVars, holds>>
         /\ snap[c].server \in Instance
         /\ memory'[snap[c].server] = memory[snap[c].server] \cup {c}
         /\ \A s \in Instance : s # snap[c].server => memory'[s] = memory[s]
         /\ \A k \in 1 .. Len(persister) :
              persister'[k] = IF k = holds[snap[c].server] THEN persister[k] \cup {c} ELSE persister[k]
<1> USE PeerFacts
<1> DEFINE r == snap[c].server
<1>0. /\ PersisterInv /\ who \in Peer /\ made \subseteq Instance
      /\ saved \in [Peer -> Nat] /\ holds \in [Instance -> Nat]
      /\ memory \in [Instance -> SUBSET Call] /\ persister \in Seq(SUBSET Call)
  BY Zenon DEF HarnessInv, HarnessTypeOK, TesterTypeOK, IndInv, TypeOK
<1>1. r \in made /\ r \in Instance
  BY Zenon DEF HarnessInv, IndInv, RequestInv, Persist, TypeOK
<1>2. /\ memory' = [memory EXCEPT ![r] = @ \cup {c}]
      /\ persister' = [persister EXCEPT ![holds[r]] = memory[r] \cup {c}]
      /\ UNCHANGED <<vars, testerVars, cfgVars, holds>>
      /\ UNCHANGED <<at, who, starts, rafts, saved, servers, made>>
  BY Zenon DEF Persist, testerVars, cfgVars, vars, netVars
<1> HIDE DEF r
<1>3. Len(persister) \in Nat /\ holds[r] \in Nat /\ holds[r] # 0 /\ holds[r] <= Len(persister)
  BY <1>0, <1>1 DEF PersisterInv
<1>4. holds[r] \in 1 .. Len(persister) /\ (memory[r] \cup {c}) \in SUBSET Call
  BY <1>0, <1>1, <1>3
<1>5. /\ Len(persister') = Len(persister) /\ persister'[holds[r]] = memory[r] \cup {c}
      /\ \A k \in 1 .. Len(persister) : k # holds[r] => persister'[k] = persister[k]
  BY <1>0, <1>2, <1>4, SavedTo
<1>6. memory'[r] = memory[r] \cup {c} /\ \A s \in Instance : s # r => memory'[s] = memory[s]
  BY <1>0, <1>1, <1>2, Zenon
<1>7. memory[r] = persister[holds[r]]
  BY <1>0, <1>1, <1>3, Zenon DEF PersisterInv
<1>8. ASSUME NEW s \in Instance, holds[s] # 0 PROVE memory'[s] = persister'[holds[s]]
  <2>1. CASE s = r
    BY <1>5, <1>6, <2>1, Zenon
  <2>2. CASE s # r
    <3>1. /\ holds[s] # holds[r] /\ holds[s] <= Len(persister) /\ holds[s] \in Nat
          /\ memory[s] = persister[holds[s]]
      BY <1>0, <1>1, <1>3, <1>8, <2>2, Zenon DEF PersisterInv
    <3>2. holds[s] \in 1 .. Len(persister)
      <4> DEFINE l == Len(persister)
                 h == holds[s]
      <4>1. l \in Nat /\ h \in Nat /\ h # 0 /\ h <= l
        BY <1>3, <1>8, <3>1, Zenon
      <4> HIDE DEF l, h
      <4>2. h \in 1 .. l
        BY <4>1
      <4> QED
        BY <4>2, Zenon DEF l, h
    <3> QED
      BY <1>5, <1>6, <2>2, <3>1, <3>2, Zenon
  <2> QED
    BY <2>1, <2>2, Zenon
<1>9. PersisterInv'
  <2>0. UNCHANGED <<at, who, starts, rafts, saved, holds, servers, made>>
    BY <1>2, Zenon
  <2>1. ASSUME NEW i \in Peer
        PROVE  /\ saved'[i] <= Len(persister')
               /\ \A j \in Peer : saved'[i] # 0 /\ saved'[i] = saved'[j] => i = j
               /\ servers'[i] # nil =>
                    /\ rafts'[i] = servers'[i] /\ servers'[i] \in made'
                    /\ holds'[servers'[i]] = saved'[i]
    BY <1>0, <1>5, <2>0 DEF PersisterInv
  <2>2. ASSUME NEW s \in Instance
        PROVE  /\ s \in made' => holds'[s] # 0
               /\ holds'[s] # 0 =>
                    /\ saved'[s[1]] # 0 /\ holds'[s] <= Len(persister')
                    /\ s[2] <= starts'[s[1]]
                    /\ memory'[s] = persister'[holds'[s]]
                    /\ \A t \in Instance : holds'[t] = holds'[s] => t = s
                    /\ \A i \in Peer : saved'[i] = holds'[s] => i = s[1] /\ rafts'[i] = s
    BY <1>0, <1>5, <1>8, <2>0 DEF PersisterInv
  <2> QED
    BY <1>0, <2>0, <2>1, <2>2, Zenon DEF PersisterInv
<1>10. \A k \in 1 .. Len(persister) :
         persister'[k] = IF k = holds[r] THEN persister[k] \cup {c} ELSE persister[k]
  BY <1>5, <1>7, Zenon
<1> QED
  BY <1>1, <1>2, <1>6, <1>9, <1>10, Zenon DEF r

(* Every step keeps the Persisters apart. *)
LEMMA PersisterInd ==
  ASSUME HarnessInv, [HarnessNext]_hvars
  PROVE  PersisterInv'
<1> USE PeerFacts
<1>0. /\ HarnessTypeOK /\ ControlInv /\ PersisterInv /\ who \in Peer
      /\ made \subseteq Instance /\ servers \in [Peer -> Instance \cup {nil}]
      /\ holds \in [Instance -> Nat] /\ starts \in [Peer -> Nat]
  BY Zenon DEF HarnessInv, HarnessTypeOK, TesterTypeOK, IndInv, TypeOK
<1>1. ASSUME UNCHANGED <<starts, rafts, saved, persister, holds, memory, servers, made>>,
             \/ at' \in {"ready", "deleteServer", "killAll", "cleanup"} \cup Loops
             \/ at' = at /\ who' = who
             \/ at = "kill" /\ at' = "fresh" /\ who' = who
      PROVE  PersisterInv'
  <2>1. /\ at' \in {"supersede", "kill", "fresh"} \cup StartSteps => servers'[who'] = nil
        /\ at' \in {"make", "addServer"} => saved'[who'] # 0
        /\ at' \in {"copy", "make"} => holds'[<<who', starts'[who']>>] = 0
        /\ at' = "addServer" => holds'[rafts'[who']] = saved'[who']
    BY <1>0, <1>1, Zenon DEF PersisterInv, StartSteps, Loops
  <2> QED
    BY <1>0, <1>1, <2>1 DEF PersisterInv
<1>2. ASSUME NEW i \in Peer, NEW yes \in BOOLEAN,
             NEW op \in {"connect", "disconnect", "crash1", "start1"}, Begin(i, yes, op)
      PROVE  PersisterInv'
  <2>1. UNCHANGED <<starts, rafts, saved, persister, holds, memory, servers, made>>
    BY <1>2, Zenon DEF Begin, Switch, vars, netVars, raftVars
  <2>2. at' \in Loops
    BY <1>2, Zenon DEF Begin, Switch, Loops
  <2> QED
    BY <1>1, <2>1, <2>2, Zenon
<1>3. CASE SetMode \/ cleanup \/ DoKill \/ DoKillAll \/ DoCleanup
  <2>1. UNCHANGED <<starts, rafts, saved, persister, holds, memory, servers, made>>
    BY <1>3, Zenon DEF SetMode, cleanup, DoKill, Kill, DoKillAll, DoCleanup, vars, netVars,
      cfgVars, raftVars, Reliable, LongReordering, Cleanup
  <2>2. \/ at' \in {"ready", "killAll", "cleanup"}
        \/ at' = at /\ who' = who
        \/ at = "kill" /\ at' = "fresh" /\ who' = who
    BY <1>3, Zenon DEF SetMode, cleanup, DoKill, DoKillAll, DoCleanup, Goto, Return
  <2> QED
    BY <1>1, <2>1, <2>2, Zenon
<1>4. CASE DoEnable \/ DoDisable
  <2>1. UNCHANGED <<starts, rafts, saved, persister, holds, memory, servers, made>>
    BY <1>4, Zenon DEF DoEnable, DoDisable, Enable, netVars, cfgVars, raftVars
  <2>2. at' \in {"ready", "deleteServer"} \/ (at' = at /\ who' = who)
    BY <1>4, Zenon DEF DoEnable, DoDisable, Goto, Return
  <2> QED
    BY <1>1, <2>1, <2>2, Zenon
<1>5. CASE Background \/ UNCHANGED hvars
  <2>1. UNCHANGED <<starts, rafts, saved, persister, holds, memory, at, who>>
    BY <1>5, Zenon DEF Background, hvars, cfgVars, raftVars, testerVars
  <2>2. UNCHANGED <<servers, made>>
    <3>1. CASE Background
      BY <3>1, Zenon DEF Background, StopAccepting, Goroutine, Accept, CallDestroyed, Process,
        readEndnameInfo, DropRequest, StartHandler, ReceiveResult, WaitTimeout, FinalCheck,
        SendReply, SendFailure, Dispatch, Drain, CallBegin, HandlerReturns, netVars
    <3>2. CASE UNCHANGED hvars
      BY <3>2, Zenon DEF hvars, vars, netVars
    <3> QED
      BY <1>5, <3>1, <3>2, Zenon
  <2> QED
    BY <1>1, <2>1, <2>2, Zenon
<1>6. CASE DoDeleteServer
  <2>1. /\ UNCHANGED <<starts, rafts, saved, persister, holds, memory, made>>
        /\ at' = "supersede" /\ who' = who /\ servers' = [servers EXCEPT ![who] = nil]
    BY <1>6, Zenon DEF DoDeleteServer, DeleteServer, Goto, cfgVars, raftVars
  <2>2. servers'[who] = nil /\ \A i \in Peer : servers'[i] # nil => servers'[i] = servers[i]
    BY <1>0, <2>1, Zenon
  <2>3. ASSUME NEW i \in Peer
        PROVE  /\ saved'[i] <= Len(persister')
               /\ \A j \in Peer : saved'[i] # 0 /\ saved'[i] = saved'[j] => i = j
               /\ servers'[i] # nil =>
                    /\ rafts'[i] = servers'[i] /\ servers'[i] \in made'
                    /\ holds'[servers'[i]] = saved'[i]
    <3>1. /\ saved[i] <= Len(persister)
          /\ \A j \in Peer : saved[i] # 0 /\ saved[i] = saved[j] => i = j
          /\ servers[i] # nil =>
               /\ rafts[i] = servers[i] /\ servers[i] \in made
               /\ holds[servers[i]] = saved[i]
      BY <1>0, Zenon DEF PersisterInv
    <3>2. UNCHANGED <<saved, persister, rafts, made, holds>>
      BY <2>1, Zenon
    <3>3. servers'[i] # nil => servers'[i] = servers[i]
      BY <2>2, Zenon
    <3> QED
      BY <3>1, <3>2, <3>3
  <2> QED
    BY <1>0, <2>1, <2>2, <2>3 DEF PersisterInv
<1>7. CASE DoSupersede \/ DoFresh \/ DoCopy
  <2>1. /\ NewPersister(who) \/ (saved[who] = 0 /\ UNCHANGED <<saved, persister>>)
        /\ at = "copy" => NewPersister(who)
    BY <1>0, <1>7, RenewNew, Zenon DEF DoSupersede, DoFresh, DoCopy
  <2>2. UNCHANGED <<starts, holds, memory, servers, made>>
    BY <1>7, Zenon DEF DoSupersede, DoFresh, DoCopy, vars, netVars, raftVars
  <2>3. /\ at \in {"supersede", "fresh", "copy"}
        /\ rafts' = rafts \/ rafts' = [rafts EXCEPT ![who] = nil]
        /\ \/ at' = "ready"
           \/ at' \in {"kill", "makeEnds"} /\ who' = who
           \/ at = "copy" /\ at' = "make" /\ who' = who
    BY <1>7, Zenon DEF DoSupersede, DoFresh, DoCopy, Goto, Return
  <2> QED
    BY <2>1, <2>2, <2>3, NewPersisterInd, Zenon
<1>8. CASE DoMakeEnds
  <2>1. /\ UNCHANGED <<rafts, saved, persister, holds, memory, servers, made>>
        /\ at = "makeEnds" /\ at' = "copy" /\ who' = who
        /\ starts' = [starts EXCEPT ![who] = starts[who] + 1]
    BY <1>8, Zenon DEF DoMakeEnds, Goto, raftVars
  <2>2. starts'[who] = starts[who] + 1 /\ \A i \in Peer : starts[i] \in Nat /\ starts[i] <= starts'[i]
    BY <1>0, <2>1
  <2>3. <<who, starts[who] + 1>> \in Instance
    BY <1>0, <2>1 DEF ControlInv, BeforeNames, StartSteps, Incarnation
  <2>4. holds[<<who, starts[who] + 1>>] = 0
    <3>1. ~(starts[who] + 1 <= starts[who])
      BY <2>2, <1>0
    <3> QED
      BY <1>0, <2>3, <3>1, Zenon DEF PersisterInv
  <2>5. servers'[who'] = nil
    BY <1>0, <2>1, Zenon DEF PersisterInv, StartSteps
  <2>6. \A r \in Instance : holds[r] # 0 => r[2] <= starts'[r[1]]
    <3> SUFFICES ASSUME NEW r \in Instance, holds[r] # 0 PROVE r[2] <= starts'[r[1]]
      BY Zenon
    <3>1. r[1] \in Peer /\ r[2] \in Nat
      BY DEF Incarnation
    <3>2. r[2] <= starts[r[1]] /\ starts[r[1]] <= starts'[r[1]]
      BY <1>0, <2>2, <3>1, Zenon DEF PersisterInv
    <3>3. starts[r[1]] \in Nat /\ starts'[r[1]] \in Nat
      BY <1>0, <2>1, <3>1
    <3> QED
      BY <3>1, <3>2, <3>3
  <2>0. /\ rafts' = rafts /\ saved' = saved /\ persister' = persister /\ holds' = holds
        /\ memory' = memory /\ servers' = servers /\ made' = made
    BY <2>1, Zenon
  <2>7. ASSUME NEW i \in Peer
        PROVE  /\ saved'[i] <= Len(persister')
               /\ \A j \in Peer : saved'[i] # 0 /\ saved'[i] = saved'[j] => i = j
               /\ servers'[i] # nil =>
                    /\ rafts'[i] = servers'[i] /\ servers'[i] \in made'
                    /\ holds'[servers'[i]] = saved'[i]
    <3>1. /\ saved[i] <= Len(persister)
          /\ \A j \in Peer : saved[i] # 0 /\ saved[i] = saved[j] => i = j
          /\ servers[i] # nil =>
               /\ rafts[i] = servers[i] /\ servers[i] \in made
               /\ holds[servers[i]] = saved[i]
      BY <1>0, Zenon DEF PersisterInv
    <3> QED
      BY <2>0, <3>1, Zenon
  <2>8. ASSUME NEW r \in Instance
        PROVE  /\ r \in made' => holds'[r] # 0
               /\ holds'[r] # 0 =>
                    /\ saved'[r[1]] # 0 /\ holds'[r] <= Len(persister')
                    /\ r[2] <= starts'[r[1]]
                    /\ memory'[r] = persister'[holds'[r]]
                    /\ \A s \in Instance : holds'[s] = holds'[r] => s = r
                    /\ \A i \in Peer : saved'[i] = holds'[r] => i = r[1] /\ rafts'[i] = r
    <3>1. /\ r \in made => holds[r] # 0
          /\ holds[r] # 0 =>
               /\ saved[r[1]] # 0 /\ holds[r] <= Len(persister)
               /\ memory[r] = persister[holds[r]]
               /\ \A s \in Instance : holds[s] = holds[r] => s = r
               /\ \A i \in Peer : saved[i] = holds[r] => i = r[1] /\ rafts[i] = r
      BY <1>0, Zenon DEF PersisterInv
    <3> QED
      BY <2>0, <2>6, <3>1, Zenon
  <2>9. /\ at' \in {"supersede", "kill", "fresh"} \cup StartSteps => servers'[who'] = nil
        /\ ~(at' \in {"make", "addServer"}) /\ at' # "addServer"
        /\ at' \in {"copy", "make"} => holds'[<<who', starts'[who']>>] = 0
    BY <2>1, <2>2, <2>4, <2>5, Zenon
  <2> QED
    BY <2>7, <2>8, <2>9, Zenon DEF PersisterInv
<1>9. CASE DoAddServer
  <2>1. /\ UNCHANGED <<starts, rafts, saved, persister, holds, memory>>
        /\ at = "addServer" /\ at' = "ready"
        /\ servers' = [servers EXCEPT ![who] = rafts[who]] /\ made' = made \cup {rafts[who]}
    BY <1>9, Zenon DEF DoAddServer, AddServer, Return, cfgVars, raftVars
  <2>2. holds[rafts[who]] = saved[who] /\ saved[who] # 0
    BY <1>0, <2>1, Zenon DEF PersisterInv
  <2>3. servers'[who] = rafts[who] /\ \A i \in Peer : i # who => servers'[i] = servers[i]
    BY <1>0, <2>1, Zenon
  <2>4. ASSUME NEW i \in Peer
        PROVE  servers'[i] # nil =>
                 /\ rafts'[i] = servers'[i] /\ servers'[i] \in made'
                 /\ holds'[servers'[i]] = saved'[i]
    <3>1. CASE i = who
      BY <2>1, <2>2, <2>3, <3>1
    <3>2. CASE i # who
      <4>1. servers[i] # nil =>
              rafts[i] = servers[i] /\ servers[i] \in made /\ holds[servers[i]] = saved[i]
        BY <1>0, Zenon DEF PersisterInv
      <4> QED
        BY <2>1, <2>3, <3>2, <4>1
    <3> QED
      BY <3>1, <3>2, Zenon
  <2>5. \A r \in made' : holds'[r] # 0
    BY <1>0, <2>1, <2>2 DEF PersisterInv
  <2> QED
    BY <1>0, <2>1, <2>4, <2>5 DEF PersisterInv, StartSteps
<1>10. \/ \E i \in Peer, yes \in BOOLEAN, op \in {"connect", "disconnect", "crash1", "start1"} :
            Begin(i, yes, op)
       \/ SetMode \/ cleanup \/ Tester \/ Background
       \/ \E c \in Call : Persist(c)
       \/ UNCHANGED hvars
  BY <1>0, Steps, Zenon
<1>11. ASSUME NEW c \in Call, Persist(c) PROVE PersisterInv'
  BY <1>11, PersistInd, Zenon
<1>12. CASE DoMake
  BY <1>12, MakeInd, Zenon
<1> QED
  BY <1>2, <1>3, <1>4, <1>5, <1>6, <1>7, <1>8, <1>9, <1>10, <1>11, <1>12, Zenon DEF Tester

-----------------------------------------------------------------------------
(* Ends only ever lead to the server they were made for. *)
LEMMA EndsLeadInd ==
  ASSUME HarnessInv, [HarnessNext]_hvars
  PROVE  EndsLead'
<1> USE PeerFacts
<1>0. /\ HarnessTypeOK /\ ControlInv /\ EndsLead
  BY Zenon DEF HarnessInv
<1>1. CASE DoMakeEnds
  BY <1>0, <1>1, Zenon DEF EndsLead, DoMakeEnds
<1>2. ASSUME NEW i \in Peer, NEW yes \in BOOLEAN,
             NEW op \in {"connect", "disconnect", "crash1", "start1"}, Begin(i, yes, op)
      PROVE  UNCHANGED connections
  BY <1>2, Zenon DEF Begin, Switch, vars, netVars
<1>3. ASSUME SetMode \/ cleanup \/ DoEnable \/ DoDisable \/ DoDeleteServer \/ DoSupersede
               \/ DoKill \/ DoFresh \/ DoCopy \/ DoMake \/ DoAddServer \/ DoKillAll
               \/ DoCleanup
      PROVE  UNCHANGED connections
  BY <1>3, Zenon DEF SetMode, cleanup, DoDeleteServer, DoSupersede, DoKill, Kill,
    DoFresh, DoCopy, DoMake, DoAddServer, DoKillAll, DoCleanup, DoEnable, DoDisable, Enable,
    vars, netVars, Reliable, LongReordering, DeleteServer, AddServer, Cleanup
<1>4. ASSUME Background \/ UNCHANGED hvars \/ \E c \in Call : Persist(c)
      PROVE  UNCHANGED connections
  <2>1. CASE Background
    BY <2>1, Zenon DEF Background, StopAccepting, Goroutine, Accept, CallDestroyed, Process,
      readEndnameInfo, DropRequest, StartHandler, ReceiveResult, WaitTimeout, FinalCheck,
      SendReply, SendFailure, Dispatch, Drain, CallBegin, HandlerReturns, netVars
  <2>2. CASE UNCHANGED hvars \/ \E c \in Call : Persist(c)
    BY <2>2, Zenon DEF hvars, Persist, vars, netVars
  <2> QED
    BY <1>4, <2>1, <2>2, Zenon
<1>5. \/ \E i \in Peer, yes \in BOOLEAN, op \in {"connect", "disconnect", "crash1", "start1"} :
           Begin(i, yes, op)
      \/ SetMode \/ cleanup \/ Tester \/ Background
      \/ \E c \in Call : Persist(c)
      \/ UNCHANGED hvars
  BY <1>0, Steps, Zenon
<1>6. UNCHANGED connections \/ DoMakeEnds
  BY <1>2, <1>3, <1>4, <1>5, Zenon DEF Tester
<1> QED
  BY <1>0, <1>1, <1>6, Zenon DEF EndsLead

(* What is known of a request whose handler has started. *)
LEMMA HandledBy ==
  ASSUME HarnessInv, NEW c \in Call, handler[c] # "none"
  PROVE  /\ snap[c].server \in made /\ snap[c].server \in Instance
         /\ via[c][2] \in Peer /\ snap[c].servername = via[c][2]
         /\ snap[c].server[1] = via[c][2]
<1>1. snap[c].servername \in ServerName /\ snap[c].server \in made /\ made \subseteq Instance
  BY Zenon DEF HarnessInv, IndInv, RequestInv, TypeOK
<1>2. snap[c].server # nil
  BY <1>1, PeerFacts, Zenon
<1>3. snap[c].servername = via[c][2] /\ snap[c].server[1] = via[c][2]
  BY <1>2, Zenon DEF HarnessInv, UpdateInv
<1> QED
  BY <1>1, <1>3, PeerFacts, Zenon

(* As long as saved states only grow, what has reached them stays there. *)
LEMMA DataGrows ==
  ASSUME HarnessInv, UNCHANGED <<callVars, reqVars, persisted>>,
         \A r \in made : memory[r] \subseteq memory'[r],
         \A i \in Peer : saved[i] # 0 =>
           saved'[i] # 0 /\ persister[saved[i]] \subseteq persister'[saved'[i]]
  PROVE  \A c \in Call : UpdateInv(c)'
<1> SUFFICES ASSUME NEW c \in Call PROVE UpdateInv(c)'
  BY Zenon
<1>1. UpdateInv(c) /\ (finish[c] = "live" => handler[c] # "none")
  BY Zenon DEF HarnessInv, IndInv, RequestInv
<1>2. UNCHANGED <<via, pc, snap, handler, finish, persisted>>
  BY Zenon DEF callVars, reqVars
<1>3. c \in persisted => c \in memory'[snap[c].server]
  <2>1. c \in persisted => snap[c].server \in made
    BY <1>1, HandledBy, Zenon DEF UpdateInv
  <2> QED
    BY <1>1, <2>1, Zenon DEF UpdateInv
<1>4. finish[c] = "live" =>
        saved'[via[c][2]] # 0 /\ c \in persister'[saved'[via[c][2]]]
  <2>1. finish[c] = "live" => via[c][2] \in Peer
    BY <1>1, HandledBy, Zenon
  <2> QED
    BY <1>1, <2>1, Zenon DEF UpdateInv
<1> QED
  BY <1>1, <1>2, <1>3, <1>4, Zenon DEF UpdateInv

(* The network's steps for one request: the snapshot leads to the server    *)
(* of the end, and a handler that returns while its server is registered    *)
(* has saved to the Persister of the tester.                                *)
LEMMA BackgroundUpdates ==
  ASSUME HarnessInv, Background
  PROVE  \A c \in Call : UpdateInv(c)'
<1> USE PeerFacts
<1>0. /\ UNCHANGED <<memory, saved, persister, persisted>>
      /\ IndInv /\ PersisterInv /\ EndsLead /\ TypeOK /\ \A c \in Call : UpdateInv(c)
  BY Zenon DEF HarnessInv, Background, cfgVars, raftVars, IndInv
<1> SUFFICES ASSUME NEW c \in Call PROVE UpdateInv(c)'
  BY Zenon
<1>1. UpdateInv(c) /\ RequestInv(c)
  BY <1>0, Zenon DEF IndInv
<1>1a. DOMAIN pc = Call /\ DOMAIN handler = Call /\ DOMAIN snap = Call
  BY <1>0 DEF TypeOK
<1>2. ASSUME UNCHANGED <<pc[c], snap[c], via[c], handler[c], finish[c]>> PROVE UpdateInv(c)'
  BY <1>0, <1>1, <1>2, Zenon DEF UpdateInv
<1>3. CASE StopAccepting
  BY <1>2, <1>3, Zenon DEF StopAccepting, callVars, reqVars
<1>4. ASSUME NEW d \in Call, NEW e \in End, CallBegin(d, e) PROVE UpdateInv(c)'
  <2>1. /\ UNCHANGED <<pc, snap, handler, finish>> /\ via' = [via EXCEPT ![d] = e]
        /\ call[d] = "idle"
    BY <1>4, Zenon DEF CallBegin, reqVars
  <2>2. CASE c = d
    <3>1. pc[c] = "none" /\ handler[c] = "none" /\ finish[c] = "none" /\ snap[c].server = nil
      BY <1>1, <2>1, <2>2, Zenon DEF RequestInv, UpdateInv
    <3> QED
      BY <1>0, <1>1, <2>1, <3>1, Zenon DEF UpdateInv
  <2>3. CASE c # d
    BY <1>0, <1>2, <2>1, <2>3 DEF TypeOK
  <2> QED
    BY <2>2, <2>3, Zenon
<1>5. ASSUME NEW d \in Call, readEndnameInfo(d) PROVE UpdateInv(c)'
  <2>1. CASE c # d
    BY <1>0, <1>2, <1>5, <2>1 DEF readEndnameInfo, callVars, TypeOK
  <2>2. CASE c = d
    <3> DEFINE name == connections[via[c]]
               server == IF name = nil THEN nil ELSE servers[name]
    <3>1. /\ UNCHANGED <<via, handler, finish>> /\ pc[c] = "start"
          /\ snap'[c].servername = name /\ snap'[c].server = server
          /\ pc'[c] \in {"request", "refuse"}
      BY <1>0, <1>5, <2>2 DEF readEndnameInfo, callVars, TypeOK
    <3>2. handler[c] = "none" /\ finish[c] = "none" /\ via[c] \in End
      BY <1>1, <3>1, Zenon DEF RequestInv
    <3>3. name \in {nil, via[c][2]} /\ via[c][2] \in Peer
      BY <1>0, <3>2, Zenon DEF EndsLead
    <3>4. server # nil => name = via[c][2] /\ name \in Peer /\ server = rafts[name]
      BY <1>0, <3>3, Zenon DEF PersisterInv
    <3>5. server # nil => server[1] = name
      <4>1. \A i \in Peer : rafts[i] \in {nil, <<i, starts[i]>>}
        BY Zenon DEF HarnessInv, ControlInv
      <4>2. \A i \in Peer : <<i, starts[i]>>[1] = i
        OBVIOUS
      <4> HIDE DEF name, server
      <4> QED
        BY <3>4, <4>1, <4>2, Zenon
    <3> HIDE DEF name, server
    <3> QED
      BY <1>0, <1>1, <3>1, <3>2, <3>4, <3>5, Zenon DEF UpdateInv
  <2> QED
    BY <2>1, <2>2, Zenon
<1>6. ASSUME NEW d \in Call,
             \/ Accept(d) \/ CallDestroyed(d) \/ DropRequest(d) \/ WaitTimeout(d)
             \/ FinalCheck(d) \/ SendReply(d) \/ SendFailure(d)
      PROVE  UpdateInv(c)'
  <2>1. UNCHANGED <<via, snap, handler, finish>>
    BY <1>6, Zenon DEF Accept, CallDestroyed, DropRequest, WaitTimeout, FinalCheck, SendReply,
      SendFailure, callVars, reqVars
  <2>2. pc'[c] \in {"none", "start"} => pc[c] \in {"none", "start"}
    <3>1. CASE Accept(d)
      <4>1. CASE c = d
        BY <1>1, <3>1, <4>1, Zenon DEF Accept, RequestInv
      <4>2. CASE c # d
        <5>1. pc' = [pc EXCEPT ![d] = "start"]
          BY <3>1, Zenon DEF Accept
        <5> QED
          BY <1>1a, <4>2, <5>1
      <4> QED
        BY <4>1, <4>2, Zenon
    <3>2. CASE ~Accept(d)
      <4>1. \/ pc' = pc
            \/ \E v \in {"refuse", "check", "delay", "reply", "end"} : pc' = [pc EXCEPT ![d] = v]
        BY <1>6, <3>2, Zenon DEF CallDestroyed, DropRequest, WaitTimeout, FinalCheck, SendReply,
          SendFailure, reqVars
      <4> QED
        BY <1>1a, <4>1
    <3> QED
      BY <3>1, <3>2, Zenon
  <2> QED
    BY <1>0, <1>1, <2>1, <2>2, Zenon DEF UpdateInv
<1>7. ASSUME NEW d \in Call, StartHandler(d) \/ ReceiveResult(d) \/ Dispatch(d) \/ Drain(d)
      PROVE  UpdateInv(c)'
  <2>1. UNCHANGED <<via, snap, finish>>
    BY <1>7, Zenon DEF StartHandler, ReceiveResult, Dispatch, Drain, callVars
  <2>2. PICK w :
          /\ pc' = pc \/ \E v \in {"wait", "check"} : pc' = [pc EXCEPT ![d] = v]
          /\ handler' = [handler EXCEPT ![d] = w]
          /\ \/ handler[d] \in {"none", "spawned"} /\ w \in {"spawned", "running"}
             \/ handler[d] = "finished" /\ w = "gone"
    <3>1. CASE StartHandler(d)
      <4>1. RequestInv(d) /\ pc[d] = "request"
        BY <1>0, <3>1, Zenon DEF IndInv, StartHandler
      <4>2. handler[d] = "none"
        BY <4>1 DEF RequestInv
      <4> QED
        BY <3>1, <4>2, Zenon DEF StartHandler
    <3>2. CASE ReceiveResult(d) \/ Dispatch(d) \/ Drain(d)
      BY <3>2, Zenon DEF ReceiveResult, Dispatch, Drain
    <3> QED
      BY <1>7, <3>1, <3>2, Zenon
  <2>3. CASE c # d
    <3>1. pc'[c] = pc[c] /\ handler'[c] = handler[c]
      BY <1>1a, <2>2, <2>3
    <3> QED
      BY <1>2, <2>1, <3>1, Zenon
  <2>4. CASE c = d
    <3>1. pc'[c] \in {"none", "start"} => pc[c] \in {"none", "start"}
      BY <1>1a, <2>2, <2>4
    <3>2. \/ handler[c] \in {"none", "spawned"} /\ handler'[c] \in {"spawned", "running"}
          \/ handler[c] = "finished" /\ handler'[c] = "gone"
      BY <1>1a, <2>2, <2>4
    <3> QED
      BY <1>0, <1>1, <2>1, <3>1, <3>2, Zenon DEF UpdateInv
  <2> QED
    BY <2>3, <2>4, Zenon
<1>8. ASSUME NEW d \in Call, d \in persisted, HandlerReturns(d) PROVE UpdateInv(c)'
  <2>1. UNCHANGED <<via, pc, snap>>
    BY <1>8, Zenon DEF HandlerReturns, callVars
  <2>2. CASE c # d
    BY <1>0, <1>2, <1>8, <2>1, <2>2 DEF HandlerReturns, TypeOK
  <2>3. CASE c = d
    <3> DEFINE r == snap[c].server
               i == via[c][2]
    <3>1. /\ handler'[c] = "finished" /\ handler[c] = "running"
          /\ finish'[c] = IF servers[snap[c].servername] = r THEN "live" ELSE "late"
      BY <1>0, <1>8, <2>3 DEF HandlerReturns, TypeOK
    <3>2. r \in made /\ r \in Instance /\ i \in Peer /\ snap[c].servername = i
      BY <3>1, HandledBy, Zenon
    <3>3. c \in memory[r]
      BY <1>1, <1>8, <2>3, Zenon DEF UpdateInv
    <3> HIDE DEF r, i
    <3>4. servers[i] = r => holds[r] = saved[i] /\ holds[r] # 0 /\ memory[r] = persister[holds[r]]
      <4>1. servers[i] # nil => holds[servers[i]] = saved[i] /\ servers[i] \in made
        BY <1>0, <3>2, Zenon DEF PersisterInv
      <4>2. (r \in made => holds[r] # 0) /\ (holds[r] # 0 => memory[r] = persister[holds[r]])
        BY <1>0, <3>2, Zenon DEF PersisterInv
      <4>3. r # nil
        BY <3>2
      <4> QED
        BY <4>1, <4>2, <4>3, Zenon
    <3>5. finish'[c] = "live" => saved[i] # 0 /\ c \in persister[saved[i]]
      BY <3>1, <3>2, <3>3, <3>4, Zenon
    <3> QED
      BY <1>0, <1>1, <1>8, <2>1, <2>3, <3>1, <3>5, Zenon DEF UpdateInv, i
  <2> QED
    BY <2>2, <2>3, Zenon
<1> QED
  BY <1>3, <1>4, <1>5, <1>6, <1>7, <1>8, Zenon DEF Background, Goroutine, Process

(* No step loses an update that has reached the tester's Persister. *)
LEMMA UpdateInd ==
  ASSUME HarnessInv, [HarnessNext]_hvars
  PROVE  \A c \in Call : UpdateInv(c)'
<1> USE PeerFacts
<1>0. /\ HarnessTypeOK /\ ControlInv /\ PersisterInv /\ who \in Peer
      /\ saved \in [Peer -> Nat] /\ made \subseteq Instance /\ persister \in Seq(SUBSET Call)
      /\ memory \in [Instance -> SUBSET Call]
  BY Zenon DEF HarnessInv, HarnessTypeOK, TesterTypeOK, IndInv, TypeOK
<1>1. ASSUME UNCHANGED <<callVars, reqVars, persisted, memory, saved, persister>>
      PROVE  \A c \in Call : UpdateInv(c)'
  BY <1>1, DataGrows, Zenon
<1>2. ASSUME NEW i \in Peer, NEW yes \in BOOLEAN,
             NEW op \in {"connect", "disconnect", "crash1", "start1"}, Begin(i, yes, op)
      PROVE  \A c \in Call : UpdateInv(c)'
  BY <1>1, <1>2, Zenon DEF Begin, Switch, vars, raftVars
<1>3. CASE SetMode \/ cleanup \/ DoEnable \/ DoDisable \/ DoDeleteServer \/ DoKill
           \/ DoMakeEnds \/ DoAddServer \/ DoKillAll \/ DoCleanup \/ UNCHANGED hvars
  <2>1. UNCHANGED <<callVars, reqVars>>
    BY <1>3, Zenon DEF SetMode, cleanup, DoEnable, DoDisable, DoDeleteServer, DoKill, Kill, DoMakeEnds,
      DoAddServer, DoKillAll, DoCleanup, hvars, vars
  <2>2. UNCHANGED <<persisted, memory, saved, persister>>
    BY <1>3, Zenon DEF SetMode, cleanup, DoEnable, DoDisable, DoDeleteServer, DoKill, Kill, DoMakeEnds,
      DoAddServer, DoKillAll, DoCleanup, hvars, cfgVars, raftVars
  <2> QED
    BY <1>1, <2>1, <2>2, Zenon
<1>4. CASE DoSupersede \/ DoFresh \/ DoCopy
  <2>1. NewPersister(who) \/ UNCHANGED <<saved, persister>>
    BY <1>0, <1>4, RenewNew, Zenon DEF DoSupersede, DoFresh, DoCopy
  <2>2. UNCHANGED <<callVars, reqVars, persisted, memory>>
    BY <1>4, Zenon DEF DoSupersede, DoFresh, DoCopy, vars, raftVars
  <2>3. CASE NewPersister(who)
    <3>1. ASSUME NEW i \in Peer, saved[i] # 0
          PROVE  saved'[i] # 0 /\ persister[saved[i]] = persister'[saved'[i]]
      <4>1. saved[i] \in 1 .. Len(persister) /\ Len(persister) \in Nat
        <5>1. saved[i] <= Len(persister)
          BY <1>0, Zenon DEF PersisterInv
        <5>2. saved[i] \in Nat /\ Len(persister) \in Nat
          BY <1>0
        <5> QED
          BY <3>1, <5>1, <5>2
      <4>2. CASE i = who
        BY <1>0, <2>3, <3>1, <4>1, <4>2 DEF NewPersister
      <4>3. CASE i # who
        BY <1>0, <2>3, <3>1, <4>1, <4>3, Zenon DEF NewPersister
      <4> QED
        BY <4>2, <4>3, Zenon
    <3> QED
      BY <2>2, <3>1, DataGrows, Zenon
  <2> QED
    BY <1>1, <2>1, <2>2, <2>3, Zenon
<1>5. CASE DoMake
  <2>1. UNCHANGED <<callVars, reqVars, persisted, saved, persister>>
    BY <1>5, Zenon DEF DoMake, vars
  <2>2. holds[<<who, starts[who]>>] = 0
    BY <1>0, <1>5, Zenon DEF DoMake, PersisterInv
  <2>3. \A r \in made : r # <<who, starts[who]>>
    <3>1. \A r \in made : r \in Instance /\ holds[r] # 0
      BY <1>0, Zenon DEF PersisterInv
    <3> QED
      BY <2>2, <3>1, Zenon
  <2>4. \A r \in made : memory'[r] = memory[r]
    BY <1>0, <1>5, <2>3, Zenon DEF DoMake
  <2> QED
    BY <2>1, <2>4, DataGrows, Zenon
<1>6. ASSUME NEW d \in Call, Persist(d) PROVE \A c \in Call : UpdateInv(c)'
  <2> DEFINE r == snap[d].server
  <2>1. /\ UNCHANGED <<vars, testerVars, cfgVars, holds>> /\ r \in Instance
        /\ memory'[r] = memory[r] \cup {d}
        /\ \A s \in Instance : s # r => memory'[s] = memory[s]
        /\ \A k \in 1 .. Len(persister) :
             persister'[k] = IF k = holds[r] THEN persister[k] \cup {d} ELSE persister[k]
    BY <1>6, PersistInd, Zenon
  <2>2. UNCHANGED <<via, pc, snap, handler, finish, saved>>
    BY <2>1, Zenon DEF vars, callVars, reqVars, cfgVars
  <2>3. handler[d] = "running" /\ persisted' = persisted \cup {d}
    BY <1>6, Zenon DEF Persist
  <2> SUFFICES ASSUME NEW c \in Call PROVE UpdateInv(c)'
    BY Zenon
  <2>4. UpdateInv(c) /\ (finish[c] = "live" => handler[c] # "none")
    BY Zenon DEF HarnessInv, IndInv, RequestInv
  <2>5. c \in persisted' => handler[c] # "none" /\ snap[c].server \in Instance
    BY <2>3, <2>4, HandledBy, Zenon DEF UpdateInv
  <2>6. c \in persisted' => c \in memory'[snap[c].server]
    <3>1. CASE c = d
      BY <2>1, <3>1, Zenon
    <3>2. CASE c # d
      BY <2>1, <2>3, <2>4, <2>5, <3>2, Zenon DEF UpdateInv
    <3> QED
      BY <3>1, <3>2, Zenon
  <2>7. finish[c] = "live" =>
          saved[via[c][2]] # 0 /\ c \in persister'[saved[via[c][2]]]
    <3> SUFFICES ASSUME finish[c] = "live"
                 PROVE  saved[via[c][2]] # 0 /\ c \in persister'[saved[via[c][2]]]
      BY Zenon
    <3>1. via[c][2] \in Peer /\ saved[via[c][2]] # 0 /\ c \in persister[saved[via[c][2]]]
      BY <2>4, HandledBy, Zenon DEF UpdateInv
    <3>2. saved[via[c][2]] \in 1 .. Len(persister)
      BY <1>0, <3>1 DEF PersisterInv
    <3> HIDE DEF r
    <3> QED
      BY <2>1, <3>1, <3>2, Zenon
  <2>8. c \in persisted' => handler[c] \in {"running", "finished", "gone"}
    BY <2>3, <2>4, Zenon DEF UpdateInv
  <2>9. handler[c] \in {"finished", "gone"} => c \in persisted'
    BY <2>3, <2>4, Zenon DEF UpdateInv
  <2> QED
    BY <2>2, <2>4, <2>6, <2>7, <2>8, <2>9, Zenon DEF UpdateInv
<1>7. CASE Background
  BY <1>7, BackgroundUpdates, Zenon
<1>8. \/ \E i \in Peer, yes \in BOOLEAN, op \in {"connect", "disconnect", "crash1", "start1"} :
           Begin(i, yes, op)
      \/ SetMode \/ cleanup \/ Tester \/ Background
      \/ \E c \in Call : Persist(c)
      \/ UNCHANGED hvars
  BY <1>0, Steps, Zenon
<1> QED
  BY <1>2, <1>3, <1>4, <1>5, <1>6, <1>7, <1>8, Zenon DEF Tester

(* The invariant holds before make_config. *)
LEMMA HarnessInitInd == HarnessInit => HarnessInv
<1> SUFFICES ASSUME HarnessInit PROVE HarnessInv
  BY Zenon
<1> USE PeerFacts
<1>1. IndInv
  BY InitInd, Zenon DEF HarnessInit
<1>2. HarnessTypeOK
  <2>1. TesterTypeOK
    BY DEF HarnessInit, TesterTypeOK
  <2>2. connected \in [Peer -> BOOLEAN]
    BY Zenon DEF HarnessInit
  <2>3. persister \in Seq(SUBSET Call)
    BY DEF HarnessInit
  <2> QED
    BY <2>1, <2>2, <2>3, Zenon DEF HarnessInit, HarnessTypeOK
<1>3. ControlInv
  BY DEF HarnessInit, ControlInv, Loops, CrashSteps, StartSteps, BeforeNames
<1>4. \A e \in End : ~enabled[e] /\ connections[e] = nil
  BY Zenon DEF HarnessInit, Init
<1>5. SwitchInv
  BY <1>4, Zenon DEF HarnessInit, SwitchInv, Settled, Loops
<1>6. PersisterInv
  BY DEF HarnessInit, Init, PersisterInv, StartSteps
<1>7. EndsLead
  BY <1>4, Zenon DEF EndsLead
<1>8. ASSUME NEW c \in Call PROVE UpdateInv(c)
  BY Zenon DEF HarnessInit, Init, UpdateInv, NoSnap
<1> QED
  BY <1>1, <1>2, <1>3, <1>5, <1>6, <1>7, <1>8, Zenon DEF HarnessInv

(* The invariant always holds. *)
LEMMA HarnessInductive == HarnessSpec => []HarnessInv
<1>1. HarnessInv /\ [HarnessNext]_hvars => HarnessInv'
  BY HarnessNetworkInd, HarnessTypeInd, ControlInd, SwitchInd, PersisterInd, EndsLeadInd,
     UpdateInd, Zenon
  DEF HarnessInv
<1> QED
  BY <1>1, HarnessInitInd, PTL DEF HarnessSpec

-----------------------------------------------------------------------------
(* For any number of servers, restarts and requests: an update whose caller *)
(* was told TRUE is in the Persister that the tester has for the server,    *)
(* at every moment of every crash1 and start1 (config.go:119-122, 297-300). *)
THEOREM AcknowledgedStaysSaved == HarnessSpec => []AcknowledgedIsSaved
<1>1. HarnessInv => AcknowledgedIsSaved
  BY Zenon DEF HarnessInv, IndInv, RequestInv, UpdateInv, AcknowledgedIsSaved
<1> QED
  BY <1>1, HarnessInductive, PTL

(* An instance that is no longer cfg.rafts[i] never has the Persister that  *)
(* the tester keeps in cfg.saved[i] (config.go:119-120, 297-298).           *)
THEOREM OldInstancesStayIsolated == HarnessSpec => []OldInstanceIsolated
<1>1. HarnessInv => OldInstanceIsolated
  <2> SUFFICES ASSUME HarnessInv, NEW r \in Instance, holds[r] # 0, r # rafts[r[1]]
               PROVE  holds[r] # saved[r[1]]
    BY Zenon DEF OldInstanceIsolated
  <2>1. r[1] \in Peer
    BY PeerFacts, Zenon
  <2> QED
    BY <2>1 DEF HarnessInv, PersisterInv
<1> QED
  BY <1>1, HarnessInductive, PTL

(* Only ends of current incarnations are enabled, and outside the loops of  *)
(* connect and disconnect exactly those between connected servers           *)
(* (config.go:279-280, 359-402).                                            *)
THEOREM EnabledStaysConnected == HarnessSpec => []EnabledIsConnected
<1>1. HarnessInv => EnabledIsConnected
  BY Zenon DEF HarnessInv, SwitchInv, Settled, Loops, EnabledIsConnected
<1> QED
  BY <1>1, HarnessInductive, PTL
=============================================================================
