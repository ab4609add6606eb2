-------------------------- MODULE RaftApplierProofs --------------------------
(***************************************************************************)
(* Proofs about two of the Go labs: RaftApplier, for any number of servers,  *)
(* restarts, messages and commands, and for any Raft; and MapReduce, an      *)
(* instance of its own, for any files.                                       *)
(***************************************************************************)
EXTENDS RaftApplier, FiniteSetTheorems, TLAPS

(* What the applier of an instance does when it has made no mistake. *)
Value == Commands \cup {"nil"}
Snapshot == {s \in Seq(Value) : Len(s) \in Index}
NoError == \A r \in Instance : ~err[r]

Location ==
    {"none", "begin", "gone", "wait", "check", "ingest", "set", "snapshot", "end"}
Command == [kind : {"command"}, index : Index, command : Commands]

Types ==
    /\ logs \in [Server -> [Index -> Value \cup {Absent}]]
    /\ starts \in [Server -> Nat] /\ rafts \in [Server -> Nat]
    /\ saved \in [Server -> Snapshot \cup {<<>>}]
    /\ taken \subseteq Snapshot
    /\ pc \in [Instance -> Location] /\ err \in [Instance -> BOOLEAN]
    /\ rf \in [Instance -> Nat] /\ DOMAIN msg = Instance
    /\ back \in BOOLEAN

(* Where the applier of an instance is and what it holds. *)
ControlOf(r) ==
    /\ rf[r] <= starts[r[1]]
    /\ r[2] > starts[r[1]] => pc[r] = "none"
    /\ err[r] => pc[r] \in {"set", "snapshot", "end"}
    /\ pc[r] \in {"set", "snapshot"} => snap
    /\ snap => pc[r] \in {"none", "begin", "gone"} \/ rf[r] >= 1
    /\ pc[r] \in {"check", "set", "snapshot"} => msg[r] \in Command
    /\ pc[r] = "ingest" => msg[r].snapshot \in taken

Control ==
    /\ \A i \in Server : rafts[i] <= starts[i] /\ saved[i] \in taken \cup {<<>>}
    /\ \A r \in Instance : ControlOf(r)

(* No log has a gap. *)
Closed == \A i \in Server, k \in Index, l \in Index :
    l <= k /\ logs[i][k] # Absent => logs[i][l] # Absent

(* Logs and snapshots agree with each other. *)
LogsAgree == \A i, j \in Server, k \in Index :
    logs[i][k] # Absent /\ logs[j][k] # Absent => logs[i][k] = logs[j][k]

SnapshotsFit == \A t \in taken, j \in Server, k \in Index :
    k <= Len(t) /\ logs[j][k] # Absent => logs[j][k] = t[k]

SnapshotsAgree == \A t, u \in taken, k \in Index :
    k <= Len(t) /\ k <= Len(u) => t[k] = u[k]

(* Every snapshot is part of the log of a server, and stays so when that    *)
(* server is restarted.                                                     *)
SnapshotsKept == \A t \in taken : \E i \in Server :
    /\ Len(saved[i]) >= Len(t)
    /\ \A k \in Index : k <= Len(t) => logs[i][k] # Absent

(* An applier about to make a snapshot finds all its entries, unless its    *)
(* Raft has been replaced.                                                  *)
EntriesFound == \A r \in Instance, l \in Index :
    pc[r] \in {"set", "snapshot"} /\ rf[r] = rafts[r[1]] /\ l <= msg[r].index =>
      logs[r[1]][l] # Absent

Agreement == LogsAgree /\ SnapshotsFit /\ SnapshotsAgree /\ SnapshotsKept /\ EntriesFound

Inv ==
    /\ Types /\ Control
    /\ NoError => Closed
    /\ NoError /\ ~back => Agreement

(* What a snapshot leaves of a log in ingestSnap. *)
LEMMA RestoredIs ==
    ASSUME ConstantsOK, NEW s \in Snapshot
    PROVE  /\ Restored(s) \in [Index -> Value \cup {Absent}]
           /\ \A k \in Index : Restored(s)[k] # Absent <=> k <= Len(s)
           /\ \A k \in Index : k <= Len(s) => Restored(s)[k] = s[k]
<1>1. s \in Seq(Value) /\ Len(s) \in Nat
  BY DEF Snapshot, Index
<1>2. \A k \in Index : k <= Len(s) => s[k] \in Value
  BY <1>1 DEF Index
<1>3. Absent \notin Value
  BY Zenon DEF ConstantsOK, Value, Absent
<1> QED
  BY <1>1, <1>2, <1>3, Zenon DEF Restored

LEMMA InitInv == ASSUME ConstantsOK, Init PROVE Inv
<1>1. Types
  <2>1. logs \in [Server -> [Index -> Value \cup {Absent}]]
    BY Zenon DEF Init, Nothing
  <2>2. err \in [Instance -> BOOLEAN]
    BY Zenon DEF Init
  <2>3. pc \in [Instance -> Location]
    BY Zenon DEF Init, First, Location
  <2> QED
    BY <2>1, <2>2, <2>3, Zenon DEF Init, Types
<1>2. Control
  BY DEF ConstantsOK, Init, Control, ControlOf, First, Server, Instance
<1>3. Closed /\ Agreement
  BY Zenon DEF Init, Closed, Agreement, LogsAgree, SnapshotsFit, SnapshotsAgree, SnapshotsKept, EntriesFound,
         Nothing, First
<1> QED
  BY <1>1, <1>2, <1>3, Zenon DEF Inv

LEMMA BeginInv == ASSUME ConstantsOK, Inv, NEW r \in Instance, Begin(r) PROVE Inv'
<1>1. r[1] \in Server
  BY Zenon DEF Instance
<1>2. Types'
  <2>1. pc' \in [Instance -> Location] /\ rf' \in [Instance -> Nat]
    BY <1>1, Zenon DEF Inv, Types, Location, Begin, Goto
  <2> QED
    BY <2>1, Zenon DEF Inv, Types, Begin, tested
<1>3. Control'
  BY <1>1 DEF Inv, Types, Control, ControlOf, Begin, Goto, tested
<1>4. NoError' => NoError /\ Closed'
  BY Zenon DEF Inv, NoError, Closed, Begin, tested
<1>5. Agreement => Agreement'
  BY <1>1 DEF Inv, Types, Agreement, LogsAgree, SnapshotsFit, SnapshotsAgree, SnapshotsKept, EntriesFound,
              Begin, Goto, tested
<1> QED
  BY <1>2, <1>3, <1>4, <1>5, Zenon DEF Inv, Begin, tested

LEMMA SendCommandInv ==
    ASSUME ConstantsOK, Inv, NEW r \in Instance, NEW k \in Index, NEW v \in Commands,
           SendCommand(r, k, v)
    PROVE  Inv'
<1>1. r[1] \in Server
  BY Zenon DEF Instance
<1>2. Types'
  <2>1. pc' \in [Instance -> Location] /\ DOMAIN msg' = Instance
    BY Zenon DEF Inv, Types, Location, SendCommand, Goto
  <2>2. err' \in [Instance -> BOOLEAN]
    BY Zenon DEF Inv, Types, SendCommand
  <2> QED
    BY <2>1, <2>2, Zenon DEF Inv, Types, SendCommand
<1>3. msg'[r] \in Command /\ \A q \in Instance \ {r} : msg'[q] = msg[q]
  BY Zenon DEF Inv, Types, SendCommand, Command
<1>4. Control'
  BY <1>1, <1>3 DEF Inv, Types, Control, ControlOf, SendCommand, Goto
<1>5. ~err[r]
  BY Zenon DEF Inv, Control, ControlOf, SendCommand, Goto
<1>6. NoError' => NoError /\ pc'[r] = "check"
  BY <1>5, Zenon DEF Inv, Types, NoError, SendCommand, Goto
<1>7. Closed => Closed'
  BY Zenon DEF Closed, SendCommand
<1>8. pc'[r] = "check" /\ Agreement => Agreement'
  <2>1. logs' = logs /\ rafts' = rafts /\ saved' = saved /\ taken' = taken /\ rf' = rf
    BY Zenon DEF SendCommand
  <2>2. \A q \in Instance \ {r} : pc'[q] = pc[q]
    BY Zenon DEF Inv, Types, SendCommand, Goto
  <2>3. LogsAgree /\ SnapshotsFit => LogsAgree' /\ SnapshotsFit'
    BY <2>1 DEF LogsAgree, SnapshotsFit
  <2>4. SnapshotsAgree /\ SnapshotsKept => SnapshotsAgree' /\ SnapshotsKept'
    BY <2>1 DEF SnapshotsAgree, SnapshotsKept
  <2>5. pc'[r] = "check" /\ EntriesFound => EntriesFound'
    BY <1>3, <2>1, <2>2, Zenon DEF EntriesFound
  <2> QED
    BY <2>3, <2>4, <2>5, Zenon DEF Agreement
<1> QED
  BY <1>2, <1>4, <1>6, <1>7, <1>8, Zenon DEF Inv, SendCommand

LEMMA SendSnapshotInv ==
    ASSUME ConstantsOK, Inv, NEW r \in Instance, NEW s \in taken, NEW k \in Index,
           SendSnapshot(r, s, k)
    PROVE  Inv'
<1>1. r[1] \in Server /\ s \in Snapshot
  BY Zenon DEF Instance, Inv, Types
<1>2. Types'
  <2>1. pc' \in [Instance -> Location] /\ DOMAIN msg' = Instance
    BY Zenon DEF Inv, Types, Location, SendSnapshot, Goto
  <2>2. saved' \in [Server -> Snapshot \cup {<<>>}]
    BY <1>1, Zenon DEF Inv, Types, SendSnapshot
  <2> QED
    BY <2>1, <2>2, Zenon DEF Inv, Types, SendSnapshot
<1>3. msg'[r].snapshot \in taken /\ \A q \in Instance \ {r} : msg'[q] = msg[q]
  BY Zenon DEF Inv, Types, SendSnapshot
<1>4. /\ pc'[r] = "ingest" /\ ~err[r] /\ (snap => rf[r] >= 1)
      /\ ~(r[2] > starts[r[1]])
  BY <1>1, Zenon DEF Inv, Types, Control, ControlOf, SendSnapshot, Goto, Instance
<1>5. \A i \in Server : saved'[i] \in taken \cup {<<>>} /\ Len(saved'[i]) >= Len(saved[i])
  <2>1. \A i \in Server : Len(saved[i]) \in Nat
    BY DEF Inv, Types, Snapshot
  <2>2. Len(s) \in Nat
    BY <1>1 DEF Snapshot, Index
  <2> QED
    BY <1>1, <2>1, <2>2 DEF Inv, Types, Control, ControlOf, SendSnapshot
<1>6. Control'
  BY <1>1, <1>3, <1>4, <1>5 DEF Inv, Types, Control, ControlOf, SendSnapshot, Goto
<1>7. NoError' => NoError
  BY Zenon DEF NoError, SendSnapshot
<1>8. Closed => Closed'
  BY Zenon DEF Closed, SendSnapshot
<1>9. ASSUME Agreement PROVE Agreement'
  <2>1. SnapshotsKept'
    <3>1. \A t \in taken \cup {<<>>} : Len(t) \in Nat
      BY DEF Inv, Types, Snapshot
    <3>2. \A i \in Server : Len(saved[i]) \in Nat /\ Len(saved'[i]) \in Nat
      BY <1>5, <3>1, Zenon DEF Inv, Control, ControlOf
    <3>3. logs' = logs /\ taken' = taken
      BY Zenon DEF SendSnapshot
    <3> QED
      BY <1>5, <1>9, <3>1, <3>2, <3>3 DEF Agreement, SnapshotsKept
  <2>2. EntriesFound'
    BY <1>3, <1>4, <1>9 DEF Inv, Types, Agreement, EntriesFound, SendSnapshot, Goto
  <2> QED
    BY <1>9, <2>1, <2>2
    DEF Agreement, LogsAgree, SnapshotsFit, SnapshotsAgree, SendSnapshot
<1> QED
  BY <1>2, <1>6, <1>7, <1>8, <1>9, Zenon DEF Inv, SendSnapshot

LEMMA IngestInv == ASSUME ConstantsOK, Inv, NEW r \in Instance, Ingest(r) PROVE Inv'
<1> DEFINE i == r[1]
           s == msg[r].snapshot
           same == msg[r].index = Len(s)
<1>1. i \in Server /\ s \in taken /\ s \in Snapshot /\ ~err[r]
  BY Zenon DEF Instance, Inv, Types, Control, ControlOf, Ingest, Goto
<1>2. /\ Restored(s) \in [Index -> Value \cup {Absent}]
      /\ \A k \in Index : Restored(s)[k] # Absent <=> k <= Len(s)
      /\ \A k \in Index : k <= Len(s) => Restored(s)[k] = s[k]
  BY <1>1, RestoredIs, Zenon
<1>3. logs' = IF same THEN [logs EXCEPT ![i] = Restored(s)] ELSE logs
  BY Zenon DEF Ingest
<1>4. Types'
  <2>1. pc' \in [Instance -> Location] /\ DOMAIN msg' = Instance
    BY Zenon DEF Inv, Types, Location, Ingest, Goto
  <2>2. err' \in [Instance -> BOOLEAN]
    BY Zenon DEF Inv, Types, Ingest
  <2>3. logs' \in [Server -> [Index -> Value \cup {Absent}]]
    BY <1>1, <1>2, <1>3, Zenon DEF Inv, Types
  <2>4. back' \in BOOLEAN
    BY Zenon DEF Inv, Types, Ingest
  <2> QED
    BY <2>1, <2>2, <2>3, <2>4, Zenon DEF Inv, Types, Ingest
<1>5. Control'
  <2>1. pc'[r] = (IF same THEN "wait" ELSE "end") /\ \A q \in Instance \ {r} : pc'[q] = pc[q]
    BY Zenon DEF Inv, Types, Ingest, Goto
  <2>2. /\ err'[r] = ~same
        /\ \A q \in Instance \ {r} : err'[q] = err[q] /\ msg'[q] = msg[q]
    BY Zenon DEF Inv, Types, Ingest
  <2>3. pc[r] = "ingest"
    BY Zenon DEF Ingest, Goto
  <2> QED
    <3>1. /\ snap' = snap /\ starts' = starts /\ rafts' = rafts /\ saved' = saved /\ taken' = taken
          /\ rf' = rf
      BY Zenon DEF Ingest
    <3>2. \A j \in Server : rafts'[j] <= starts'[j] /\ saved'[j] \in taken' \cup {<<>>}
      BY <3>1, Zenon DEF Inv, Control
    <3>3. ASSUME NEW q \in Instance, q # r PROVE ControlOf(q)'
      <4>1. pc'[q] = pc[q] /\ err'[q] = err[q] /\ msg'[q] = msg[q]
        BY <2>1, <2>2, <3>3, Zenon
      <4>2. ControlOf(q)
        BY Zenon DEF Inv, Control
      <4> QED
        BY <3>1, <4>1, <4>2, Zenon DEF ControlOf
    <3>4. ControlOf(r)'
      <4>1. ControlOf(r)
        BY Zenon DEF Inv, Control
      <4>2. pc'[r] \in {"wait", "end"} /\ (err'[r] => pc'[r] = "end")
        BY <2>1, <2>2, Zenon
      <4> QED
        BY <2>3, <3>1, <4>1, <4>2, Zenon DEF ControlOf
    <3> QED
      BY <3>2, <3>3, <3>4, Zenon DEF Control
<1>6. NoError' => NoError /\ same
  BY <1>1, Zenon DEF Inv, Types, NoError, Ingest
<1>7. ASSUME Closed, same PROVE Closed'
  <2>1. Len(s) \in Int
    BY <1>1 DEF Snapshot, Index
  <2> QED
    BY <1>1, <1>2, <1>3, <1>7, <2>1 DEF Inv, Types, Closed, Index
<1>8. ASSUME Agreement, same, ~back' PROVE ~back /\ Agreement'
  <2>1. ~back /\ \A k \in Index : k > Len(s) => logs[i][k] = Absent
    BY <1>8, Zenon DEF Ingest
  <2>2. \A k \in Index : logs[i][k] # Absent => logs'[i][k] # Absent
    <3>1. Len(s) \in Int
      BY <1>1 DEF Snapshot, Index
    <3>2. logs'[i] = Restored(s)
      BY <1>1, <1>3, <1>8, Zenon DEF Inv, Types
    <3>3. \A k \in Index : k > Len(s) \/ k <= Len(s)
      BY <3>1 DEF Index
    <3> QED
      BY <1>2, <2>1, <3>2, <3>3, Zenon
  <2>3. /\ \A k \in Index : logs'[i][k] # Absent => k <= Len(s) /\ logs'[i][k] = s[k]
        /\ \A j \in Server \ {i} : logs'[j] = logs[j]
    BY <1>1, <1>2, <1>3, <1>8, Zenon DEF Inv, Types
  <2>4. taken' = taken /\ saved' = saved /\ rafts' = rafts /\ rf' = rf
    BY Zenon DEF Ingest
  <2>5. LogsAgree'
    BY <1>1, <1>8, <2>3 DEF Agreement, LogsAgree, SnapshotsFit
  <2>6. SnapshotsFit' /\ SnapshotsAgree'
    BY <1>1, <1>8, <2>3, <2>4 DEF Agreement, SnapshotsFit, SnapshotsAgree
  <2>7. \A j \in Server, k \in Index : logs[j][k] # Absent => logs'[j][k] # Absent
    BY <2>2, <2>3, Zenon
  <2>8. SnapshotsKept'
    BY <1>8, <2>4, <2>7 DEF Agreement, SnapshotsKept
  <2>9. EntriesFound'
    <3>1. pc'[r] = "wait" /\ \A q \in Instance \ {r} : pc'[q] = pc[q] /\ msg'[q] = msg[q]
      BY <1>8, Zenon DEF Inv, Types, Ingest, Goto
    <3>2. \A q \in Instance : q[1] \in Server
      BY Zenon DEF Instance
    <3> QED
      BY <1>8, <2>4, <2>7, <3>1, <3>2, Zenon DEF Agreement, EntriesFound
  <2> QED
    BY <2>1, <2>5, <2>6, <2>8, <2>9, Zenon DEF Agreement
<1> QED
  <2>1. back => back'
    BY Zenon DEF Ingest
  <2> QED
    BY <1>4, <1>5, <1>6, <1>7, <1>8, <2>1, Zenon DEF Inv

LEMMA checkLogsInv == ASSUME ConstantsOK, Inv, NEW r \in Instance, checkLogs(r) PROVE Inv'
<1> DEFINE i == r[1]
           k == msg[r].index
           v == msg[r].command
<1>1. /\ i \in Server /\ k \in Index /\ v \in Commands /\ pc[r] = "check" /\ ~err[r]
      /\ msg[r] \in Command
  BY Zenon DEF Instance, Inv, Types, Control, ControlOf, checkLogs, Goto, Command
<1>2. v \in Value /\ v # Absent
  BY <1>1, Zenon DEF Value, ConstantsOK, Absent
<1>3. /\ logs'[i][k] = v
      /\ \A l \in Index \ {k} : logs'[i][l] = logs[i][l]
      /\ \A j \in Server \ {i} : logs'[j] = logs[j]
  BY <1>1, Zenon DEF Inv, Types, checkLogs
<1>4. /\ pc'[r] \in {"set", "end", "wait"} /\ (pc'[r] = "set" <=> snap)
      /\ \A q \in Instance \ {r} : pc'[q] = pc[q] /\ err'[q] = err[q] /\ msg'[q] = msg[q]
      /\ err'[r] => pc'[r] # "wait"
      /\ snap => msg'[r] = msg[r]
  BY Zenon DEF Inv, Types, checkLogs, Goto
<1>5. Types'
  <2>1. pc' \in [Instance -> Location] /\ DOMAIN msg' = Instance
    BY Zenon DEF Inv, Types, Location, checkLogs, Goto
  <2>2. err' \in [Instance -> BOOLEAN]
    <3>1. (Conflict(i, k, v) \/ (k > 1 /\ logs[i][k - 1] = Absent)) \in BOOLEAN
      BY Zenon DEF Conflict
    <3> QED
      BY <3>1, Zenon DEF Inv, Types, checkLogs
  <2>3. logs' \in [Server -> [Index -> Value \cup {Absent}]]
    BY <1>1, <1>2, Zenon DEF Inv, Types, checkLogs
  <2> QED
    BY <2>1, <2>2, <2>3, Zenon DEF Inv, Types, checkLogs
<1>6. Control'
  BY <1>1, <1>4 DEF Inv, Types, Control, ControlOf, checkLogs
<1>7. NoError' => NoError /\ ~Conflict(i, k, v) /\ (k > 1 => logs[i][k - 1] # Absent)
  <2>1. err'[r] = (Conflict(i, k, v) \/ (k > 1 /\ logs[i][k - 1] = Absent))
    BY Zenon DEF Inv, Types, checkLogs
  <2> QED
    BY <1>1, <1>4, <2>1, Zenon DEF NoError
<1>8. ASSUME Closed, k > 1 => logs[i][k - 1] # Absent
      PROVE  Closed' /\ \A l \in Index : l <= k => logs'[i][l] # Absent
  <2>1. \A l \in Index : l <= k => l = k \/ (k > 1 /\ k - 1 \in Index /\ l <= k - 1)
    <3>1. k \in 1 .. MaxIndex /\ MaxIndex \in Nat
      BY <1>1, Zenon DEF Index, ConstantsOK
    <3> HIDE DEF k
    <3> QED
      BY <3>1 DEF Index
  <2>2. \A l \in Index : l <= k => l = k \/ logs[i][l] # Absent
    BY <1>1, <1>8, <2>1, Zenon DEF Closed
  <2>3. \A l \in Index : l <= k => logs'[i][l] # Absent
    BY <1>2, <1>3, <2>2, Zenon
  <2>4. Closed'
    BY <1>1, <1>2, <1>3, <1>8, <2>3 DEF Closed
  <2> QED
    BY <2>3, <2>4, Zenon
<1>9. \A j \in Server, l \in Index : logs[j][l] # Absent => logs'[j][l] # Absent
  BY <1>1, <1>2, <1>3, Zenon
<1>10. ASSUME Agreement, Closed, ~Conflict(i, k, v), k > 1 => logs[i][k - 1] # Absent
       PROVE  Agreement'
  <2>1. \A j \in Server : logs[j][k] # Absent => logs[j][k] = v
    BY <1>10, Zenon DEF Conflict
  <2>2. LogsAgree'
    BY <1>1, <1>3, <1>10, <2>1 DEF Agreement, LogsAgree
  <2>3. taken' = taken /\ saved' = saved /\ rafts' = rafts /\ rf' = rf
    BY Zenon DEF checkLogs
  <2>4. \A t \in taken : k <= Len(t) => t[k] = v
    BY <1>1, <1>10, <2>1 DEF Agreement, SnapshotsFit, SnapshotsKept
  <2>5. SnapshotsFit' /\ SnapshotsAgree'
    BY <1>1, <1>3, <1>10, <2>3, <2>4 DEF Agreement, SnapshotsFit, SnapshotsAgree
  <2>6. SnapshotsKept'
    BY <1>9, <1>10, <2>3 DEF Agreement, SnapshotsKept
  <2>7. EntriesFound'
    <3>1. \A q \in Instance : q[1] \in Server
      BY Zenon DEF Instance
    <3>2. \A l \in Index : pc'[r] = "set" /\ l <= msg'[r].index => logs'[i][l] # Absent
      BY <1>4, <1>8, <1>10, Zenon
    <3>3. pc'[r] # "snapshot"
      BY <1>4, Zenon
    <3> QED
      BY <1>4, <1>9, <1>10, <2>3, <3>1, <3>2, <3>3 DEF Agreement, EntriesFound
  <2> QED
    BY <2>2, <2>5, <2>6, <2>7, Zenon DEF Agreement
<1> QED
  <2>1. back' = back
    BY Zenon DEF checkLogs
  <2> QED
    BY <1>5, <1>6, <1>7, <1>8, <1>10, <2>1, Zenon DEF Inv

LEMMA SetLastAppliedInv ==
    ASSUME ConstantsOK, Inv, NEW r \in Instance, SetLastApplied(r) PROVE Inv'
<1>1. /\ pc[r] = "set" /\ pc'[r] \in {"snapshot", "end", "wait"}
      /\ pc'[r] = "snapshot" => msg'[r] = msg[r]
      /\ err[r] => pc'[r] # "wait"
      /\ \A q \in Instance \ {r} : pc'[q] = pc[q] /\ msg'[q] = msg[q]
  BY Zenon DEF Inv, Types, SetLastApplied, Goto, Done
<1>2. Types'
  <2>1. pc' \in [Instance -> Location] /\ DOMAIN msg' = Instance
    BY Zenon DEF Inv, Types, Location, SetLastApplied, Goto, Done
  <2> QED
    BY <2>1, Zenon DEF Inv, Types, SetLastApplied
<1>3. Control'
  BY <1>1 DEF Inv, Types, Control, ControlOf, SetLastApplied
<1>4. NoError' = NoError /\ Closed' = Closed
  BY Zenon DEF NoError, Closed, SetLastApplied
<1>5. Agreement => Agreement'
  <2>1. EntriesFound => EntriesFound'
    BY <1>1 DEF EntriesFound, SetLastApplied
  <2> QED
    BY <2>1 DEF Agreement, LogsAgree, SnapshotsFit, SnapshotsAgree, SnapshotsKept, SetLastApplied
<1> QED
  BY <1>2, <1>3, <1>4, <1>5, Zenon DEF Inv, SetLastApplied

LEMMA TakeSnapshotInv ==
    ASSUME ConstantsOK, Inv, NEW r \in Instance, TakeSnapshot(r) PROVE Inv'
<1> DEFINE i == r[1]
           m == msg[r].index
           xlog == [k \in 1 .. m |-> IF logs[i][k] = Absent THEN "nil" ELSE logs[i][k]]
           current == rafts[i] = rf[r]
<1>1. /\ i \in Server /\ m \in Index /\ pc[r] = "snapshot"
      /\ pc'[r] \in {"end", "wait"} /\ (err[r] => pc'[r] = "end")
      /\ \A q \in Instance \ {r} : pc'[q] = pc[q] /\ msg'[q] = msg[q]
  BY Zenon DEF Instance, Inv, Types, Control, ControlOf, Command, TakeSnapshot, Goto, Done
<1>2. xlog \in Snapshot /\ Len(xlog) = m
  <2>1. m \in Nat /\ 1 .. m \subseteq Index
    <3>1. m \in 1 .. MaxIndex
      BY <1>1, Zenon DEF Index
    <3>2. MaxIndex \in Nat
      BY Zenon DEF ConstantsOK
    <3> HIDE DEF m
    <3> QED
      BY <3>1, <3>2 DEF Index
  <2>2. \A k \in 1 .. m : xlog[k] \in Value
    <3>1. \A k \in 1 .. m : logs[i][k] \in Value \cup {Absent}
      BY <1>1, <2>1 DEF Inv, Types
    <3>2. "nil" \in Value
      BY Zenon DEF Value
    <3> QED
      BY <3>1, <3>2, Zenon
  <2>3. xlog \in [1 .. m -> Value]
    BY <2>2, Zenon
  <2>4. xlog \in Seq(Value) /\ Len(xlog) = m
    BY <2>1, <2>3
  <2> QED
    BY <1>1, <2>4, Zenon DEF Snapshot
<1>3. /\ taken' = IF current THEN taken \cup {xlog} ELSE taken
      /\ saved' = [saved EXCEPT ![i] = IF current /\ Len(xlog) > Len(@) THEN xlog ELSE @]
      /\ logs' = logs /\ rafts' = rafts /\ rf' = rf /\ err' = err /\ back' = back
  BY Zenon DEF TakeSnapshot
<1> HIDE DEF xlog, current
<1>4. Types'
  <2>1. pc' \in [Instance -> Location] /\ DOMAIN msg' = Instance
    BY Zenon DEF Inv, Types, Location, TakeSnapshot, Goto, Done
  <2>2. saved' \in [Server -> Snapshot \cup {<<>>}]
    BY <1>1, <1>2, <1>3, Zenon DEF Inv, Types
  <2>3. taken' \subseteq Snapshot
    BY <1>2, <1>3, Zenon DEF Inv, Types
  <2> QED
    BY <2>1, <2>2, <2>3, Zenon DEF Inv, Types, TakeSnapshot
<1>5. /\ \A j \in Server : saved'[j] \in {saved[j], xlog}
      /\ \A j \in Server : saved'[j] = xlog => current \/ saved[j] = xlog
  BY <1>1, <1>3, Zenon DEF Inv, Types
<1>6. Control'
  <2>1. taken \subseteq taken' /\ (current => xlog \in taken')
    BY <1>3, Zenon
  <2> QED
    <3>1. snap' = snap /\ starts' = starts /\ rafts' = rafts /\ rf' = rf /\ err' = err
      BY Zenon DEF TakeSnapshot
    <3>2. \A j \in Server : rafts'[j] <= starts'[j]
      BY <3>1, Zenon DEF Inv, Control
    <3>3. ASSUME NEW j \in Server PROVE saved'[j] \in taken' \cup {<<>>}
      <4>1. saved[j] \in taken \cup {<<>>}
        BY Zenon DEF Inv, Control
      <4> QED
        BY <1>5, <2>1, <4>1, Zenon
    <3>4. ASSUME NEW q \in Instance, q # r PROVE ControlOf(q)'
      <4>1. pc'[q] = pc[q] /\ msg'[q] = msg[q]
        BY <1>1, <3>4, Zenon
      <4>2. ControlOf(q)
        BY Zenon DEF Inv, Control
      <4> QED
        BY <2>1, <3>1, <4>1, <4>2, Zenon DEF ControlOf
    <3>5. ControlOf(r)'
      <4>1. ControlOf(r)
        BY Zenon DEF Inv, Control
      <4> QED
        BY <1>1, <3>1, <4>1, Zenon DEF ControlOf
    <3> QED
      BY <3>2, <3>3, <3>4, <3>5, Zenon DEF Control
<1>7. NoError' = NoError /\ Closed' = Closed
  BY <1>3, Zenon DEF NoError, Closed
<1>8. ASSUME Agreement, NoError PROVE Agreement'
  <2>1. ASSUME current PROVE \A k \in Index : k <= m => logs[i][k] # Absent /\ xlog[k] = logs[i][k]
    <3>1. \A k \in Index : k <= m => logs[i][k] # Absent
      BY <1>1, <1>8, <2>1, Zenon DEF Agreement, EntriesFound, current
    <3>2. \A k \in Index : k <= m => k \in 1 .. m
      BY <1>1 DEF Index
    <3> QED
      BY <3>1, <3>2, Zenon DEF xlog
  <2>2. \A j \in Server, k \in Index : current /\ k <= m /\ logs[j][k] # Absent => logs[j][k] = xlog[k]
    BY <1>1, <1>8, <2>1, Zenon DEF Agreement, LogsAgree
  <2>3. SnapshotsFit'
    BY <1>2, <1>3, <1>8, <2>2 DEF Agreement, SnapshotsFit
  <2>4. \A t \in taken, k \in Index : current /\ k <= Len(t) /\ k <= m => t[k] = xlog[k]
    BY <1>1, <1>8, <2>1, Zenon DEF Agreement, SnapshotsFit
  <2>5. SnapshotsAgree'
    BY <1>2, <1>3, <1>8, <2>4 DEF Agreement, SnapshotsAgree
  <2>6. SnapshotsKept'
    <3>1. /\ \A j \in Server : Len(saved[j]) \in Nat /\ Len(saved'[j]) \in Nat
          /\ \A t \in taken : Len(t) \in Nat
          /\ Len(xlog) \in Nat
      BY <1>2, <1>4 DEF Inv, Types, Snapshot, Index
    <3>2. \A j \in Server : Len(saved'[j]) >= Len(saved[j])
      BY <1>1, <1>3, <3>1 DEF Inv, Types
    <3>3. current => Len(saved'[i]) >= Len(xlog)
      BY <1>1, <1>3, <3>1 DEF Inv, Types
    <3>4. \A t \in taken : \E j \in Server :
            Len(saved'[j]) >= Len(t) /\ \A k \in Index : k <= Len(t) => logs[j][k] # Absent
      BY <1>8, <3>1, <3>2 DEF Agreement, SnapshotsKept
    <3> QED
      BY <1>1, <1>2, <1>3, <2>1, <3>3, <3>4 DEF SnapshotsKept
  <2>7. EntriesFound'
    BY <1>1, <1>3, <1>8, Zenon DEF Agreement, EntriesFound
  <2> QED
    BY <1>3, <1>8, <2>3, <2>5, <2>6, <2>7, Zenon DEF Agreement, LogsAgree
<1> QED
  BY <1>3, <1>4, <1>6, <1>7, <1>8, Zenon DEF Inv

LEMMA crash1Inv == ASSUME ConstantsOK, Inv, NEW i \in Server, crash1(i) PROVE Inv'
<1>1. rafts'[i] = 0 /\ \A j \in Server \ {i} : rafts'[j] = rafts[j]
  BY Zenon DEF Inv, Types, crash1
<1>2. Types'
  BY Zenon DEF Inv, Types, crash1
<1>3. Control'
  BY <1>1 DEF Inv, Types, Control, ControlOf, crash1
<1>4. NoError' = NoError /\ Closed' = Closed
  BY Zenon DEF NoError, Closed, crash1
<1>5. Agreement => Agreement'
  <2>1. ASSUME EntriesFound PROVE EntriesFound'
    <3>1. \A q \in Instance : q[1] \in Server /\ (pc[q] \in {"set", "snapshot"} => rf[q] # 0)
      <4>1. \A q \in Instance : q[1] \in Server
        BY Zenon DEF Instance
      <4>2. \A q \in Instance : pc[q] \in {"set", "snapshot"} => rf[q] >= 1
        BY Zenon DEF Inv, Control, ControlOf
      <4>3. \A q \in Instance : rf[q] >= 1 => rf[q] # 0
        BY DEF Inv, Types
      <4> QED
        BY <4>1, <4>2, <4>3, Zenon
    <3> QED
      BY <1>1, <2>1, <3>1 DEF EntriesFound, crash1
  <2> QED
    BY <2>1 DEF Agreement, LogsAgree, SnapshotsFit, SnapshotsAgree, SnapshotsKept, crash1
<1> QED
  BY <1>2, <1>3, <1>4, <1>5, Zenon DEF Inv, crash1

LEMMA start1Inv == ASSUME ConstantsOK, Inv, NEW i \in Server, start1(i) PROVE Inv'
<1> DEFINE r == <<i, starts[i] + 1>>
           s == saved[i]
<1>1. /\ r \in Instance /\ r[1] = i /\ r[2] = starts[i] + 1 /\ pc[r] = "none" /\ ~err[r]
      /\ starts[i] \in Nat
  <2>1. starts[i] \in Nat /\ r \in Instance
    <3>1. starts[i] \in Nat
      BY Zenon DEF Inv, Types
    <3>2. starts[i] < MaxStarts /\ MaxStarts \in Nat
      BY Zenon DEF start1, ConstantsOK
    <3>3. starts[i] + 1 \in 1 .. MaxStarts
      BY <3>1, <3>2
    <3> QED
      BY <3>1, <3>3, Zenon DEF Instance
  <2>2. pc[r] = "none"
    BY <2>1 DEF Inv, Control, ControlOf
  <2> QED
    BY <2>1, <2>2, Zenon DEF Inv, Control, ControlOf
<1>2. /\ starts'[i] = starts[i] + 1 /\ rafts'[i] = starts[i] + 1
      /\ \A j \in Server \ {i} : starts'[j] = starts[j] /\ rafts'[j] = rafts[j]
      /\ pc'[r] \in {"begin", "wait"} /\ (snap => pc'[r] = "begin")
      /\ \A q \in Instance \ {r} : pc'[q] = pc[q]
  BY <1>1, Zenon DEF Inv, Types, start1, First
<1>3. /\ snap' = snap /\ saved' = saved /\ taken' = taken /\ msg' = msg /\ err' = err
      /\ rf' = rf /\ back' = back
      /\ logs' = IF s = <<>> THEN logs ELSE [logs EXCEPT ![i] = Restored(s)]
  BY Zenon DEF start1
<1>4. s # <<>> => s \in taken /\ s \in Snapshot
  BY Zenon DEF Inv, Types, Control, ControlOf
<1>5. s # <<>> =>
        /\ Restored(s) \in [Index -> Value \cup {Absent}]
        /\ \A k \in Index : Restored(s)[k] # Absent <=> k <= Len(s)
        /\ \A k \in Index : k <= Len(s) => Restored(s)[k] = s[k]
  BY <1>4, RestoredIs, Zenon
<1>6. /\ \A j \in Server \ {i} : logs'[j] = logs[j]
      /\ s = <<>> => logs' = logs
      /\ s # <<>> => logs'[i] = Restored(s)
  BY <1>3, Zenon DEF Inv, Types
<1> HIDE DEF r, s
<1>7. Types'
  <2>1. pc' \in [Instance -> Location]
    BY Zenon DEF Inv, Types, Location, start1, First
  <2>2. starts' \in [Server -> Nat] /\ rafts' \in [Server -> Nat]
    <3>1. /\ starts' = [starts EXCEPT ![i] = starts[i] + 1]
          /\ rafts' = [rafts EXCEPT ![i] = starts[i] + 1]
      BY Zenon DEF start1
    <3>2. /\ starts \in [Server -> Nat] /\ rafts \in [Server -> Nat]
          /\ starts[i] + 1 \in Nat
      BY <1>1 DEF Inv, Types
    <3> QED
      BY <3>1, <3>2, Zenon
  <2>3. logs' \in [Server -> [Index -> Value \cup {Absent}]]
    BY <1>3, <1>5, Zenon DEF Inv, Types
  <2> QED
    BY <1>3, <2>1, <2>2, <2>3, Zenon DEF Inv, Types
<1>8. Control'
  <2>1. \A j \in Server : rafts'[j] <= starts'[j] /\ starts'[j] >= starts[j] /\ starts[j] \in Nat
    <3>1. \A j \in Server : starts[j] \in Nat /\ rafts[j] \in Nat /\ rafts[j] <= starts[j]
      BY Zenon DEF Inv, Types, Control, ControlOf
    <3>2. starts[i] \in Nat /\ starts'[i] = starts[i] + 1 /\ rafts'[i] = starts[i] + 1
      BY <1>1, <1>2, Zenon
    <3>3. rafts'[i] <= starts'[i] /\ starts'[i] >= starts[i]
      BY <3>2
    <3>4. \A j \in Server \ {i} : starts'[j] = starts[j] /\ rafts'[j] = rafts[j]
      BY <1>2, Zenon
    <3>5. ASSUME NEW j \in Server, j # i
          PROVE  rafts'[j] <= starts'[j] /\ starts'[j] >= starts[j]
      <4>1. starts'[j] = starts[j] /\ rafts'[j] = rafts[j]
        BY <3>4, <3>5, Zenon
      <4>2. starts[j] \in Nat /\ rafts[j] \in Nat /\ rafts[j] <= starts[j]
        BY <3>1, Zenon
      <4> QED
        BY <4>1, <4>2
    <3> QED
      BY <3>1, <3>3, <3>5, Zenon
  <2>2. \A q \in Instance : q[1] \in Server /\ q[2] \in Nat /\ rf[q] \in Nat
    <3>1. \A q \in Instance : q[1] \in Server /\ q[2] \in Nat
      BY DEF Instance, ConstantsOK
    <3>2. \A q \in Instance : rf[q] \in Nat
      BY Zenon DEF Inv, Types
    <3> QED
      BY <3>1, <3>2, Zenon
  <2>3. \A q \in Instance : rf'[q] <= starts'[q[1]] /\ (q[2] > starts'[q[1]] => pc'[q] = "none")
    <3> SUFFICES ASSUME NEW q \in Instance
                 PROVE  rf'[q] <= starts'[q[1]] /\ (q[2] > starts'[q[1]] => pc'[q] = "none")
      BY Zenon
    <3>1. starts'[q[1]] \in Int /\ starts[q[1]] \in Int /\ starts'[q[1]] >= starts[q[1]]
      <4>1. \A j \in Server : starts'[j] \in Int
        BY <1>7 DEF Types
      <4> QED
        BY <2>1, <2>2, <4>1
    <3>2. rf[q] <= starts[q[1]] /\ (q[2] > starts[q[1]] => pc[q] = "none")
      BY Zenon DEF Inv, Control, ControlOf
    <3>3. q = r => ~(q[2] > starts'[q[1]])
      <4>1. r[2] = starts'[r[1]] /\ starts'[r[1]] \in Int
        <5>1. r[1] = i /\ r[2] = starts[i] + 1 /\ starts[i] \in Nat
          BY <1>1, Zenon
        <5>2. starts'[i] = starts[i] + 1
          BY <1>2, Zenon
        <5> QED
          BY <5>1, <5>2
      <4> QED
        BY <4>1
    <3>4. rf'[q] <= starts'[q[1]]
      BY <1>3, <2>2, <3>1, <3>2
    <3>5. q # r => pc'[q] = pc[q]
      BY <1>2, Zenon
    <3>6. q[2] > starts'[q[1]] => q[2] > starts[q[1]]
      BY <2>2, <3>1
    <3> QED
      BY <3>2, <3>3, <3>4, <3>5, <3>6, Zenon
  <2> QED
    BY <1>1, <1>2, <1>3, <2>1, <2>3, Zenon DEF Inv, Control, ControlOf
<1>9. NoError' = NoError
  BY <1>3, Zenon DEF NoError
<1>10. ASSUME Closed PROVE Closed'
  <2>1. s # <<>> => Len(s) \in Int
    BY <1>4 DEF Snapshot, Index
  <2> QED
    BY <1>5, <1>6, <1>10, <2>1 DEF Closed, Index
<1>11. ASSUME Agreement PROVE Agreement'
  <2>1. s # <<>> => \A k \in Index : logs'[i][k] # Absent => k <= Len(s) /\ logs'[i][k] = s[k]
    BY <1>5, <1>6, Zenon
  <2>2. LogsAgree'
    BY <1>4, <1>6, <1>11, <2>1 DEF Agreement, LogsAgree, SnapshotsFit
  <2>3. SnapshotsFit' /\ SnapshotsAgree'
    BY <1>3, <1>4, <1>6, <1>11, <2>1 DEF Agreement, SnapshotsFit, SnapshotsAgree
  <2>4. SnapshotsKept'
    <3>1. \A t \in taken, k \in Index :
            s # <<>> /\ Len(s) >= Len(t) /\ k <= Len(t) => logs'[i][k] # Absent
      <4>1. /\ \A t \in taken : Len(t) \in Int
            /\ s # <<>> => Len(s) \in Int
        BY <1>4 DEF Inv, Types, Snapshot, Index
      <4> QED
        <5>1. \A t \in taken, k \in Index :
                s # <<>> /\ Len(s) >= Len(t) /\ k <= Len(t) => k <= Len(s)
          BY <4>1 DEF Index
        <5> QED
          BY <1>5, <1>6, <5>1, Zenon
    <3> QED
      BY <1>3, <1>6, <1>11, <3>1 DEF Agreement, SnapshotsKept, s
  <2>5. EntriesFound'
    <3>1. \A q \in Instance : q[1] \in Server /\ (q[1] = i => rf[q] # rafts'[i])
      <4>1. \A q \in Instance : q[1] \in Server
        BY Zenon DEF Instance
      <4>2. ASSUME NEW q \in Instance, q[1] = i PROVE rf[q] # rafts'[i]
        <5>1. rf[q] <= starts[i] /\ rf[q] \in Nat
          BY <4>2, Zenon DEF Inv, Types, Control, ControlOf
        <5>2. rafts'[i] = starts[i] + 1 /\ starts[i] \in Nat
          BY <1>1, <1>2, Zenon
        <5> QED
          BY <5>1, <5>2
      <4> QED
        BY <4>1, <4>2, Zenon
    <3>2. \A q \in Instance : pc'[q] \in {"set", "snapshot"} => pc[q] = pc'[q]
      BY <1>2, Zenon
    <3>3. \A q \in Instance : q[1] # i => rafts'[q[1]] = rafts[q[1]] /\ logs'[q[1]] = logs[q[1]]
      BY <1>2, <1>6, <3>1, Zenon
    <3>4. EntriesFound
      BY <1>11, Zenon DEF Agreement
    <3>5. ASSUME NEW q \in Instance, NEW l \in Index,
                 pc'[q] \in {"set", "snapshot"}, rf[q] = rafts'[q[1]], l <= msg[q].index
          PROVE  logs'[q[1]][l] # Absent
      <4>1. q[1] # i
        BY <3>1, <3>5, Zenon
      <4>2. pc[q] \in {"set", "snapshot"} /\ rf[q] = rafts[q[1]]
        BY <3>2, <3>3, <3>5, <4>1, Zenon
      <4>3. logs[q[1]][l] # Absent
        BY <3>4, <3>5, <4>2, Zenon DEF EntriesFound
      <4> QED
        BY <3>3, <4>1, <4>3, Zenon
    <3> QED
      BY <1>3, <3>5, Zenon DEF EntriesFound
  <2> QED
    BY <2>2, <2>3, <2>4, <2>5, Zenon DEF Agreement
<1> QED
  BY <1>3, <1>7, <1>8, <1>9, <1>10, <1>11, Zenon DEF Inv

(* The goroutine of the test changes nothing that the invariant is about. *)
LEMMA TesterInv ==
    ASSUME Inv, UNCHANGED <<snap, tested, pc, msg, err, rf>> PROVE Inv'
<1>1. /\ snap' = snap /\ logs' = logs /\ starts' = starts /\ rafts' = rafts /\ saved' = saved
      /\ taken' = taken /\ back' = back /\ pc' = pc /\ msg' = msg /\ err' = err /\ rf' = rf
  BY Zenon DEF tested
<1>2. Types'
  BY <1>1, Zenon DEF Inv, Types
<1>3. Control'
  BY <1>1 DEF Inv, Control, ControlOf
<1>4. (NoError' <=> NoError) /\ (Closed' <=> Closed)
  BY <1>1, Zenon DEF NoError, Closed
<1>5. Agreement' <=> Agreement
  <2>1. (LogsAgree' <=> LogsAgree) /\ (SnapshotsFit' <=> SnapshotsFit)
    BY <1>1 DEF LogsAgree, SnapshotsFit
  <2>2. (SnapshotsAgree' <=> SnapshotsAgree) /\ (SnapshotsKept' <=> SnapshotsKept)
    BY <1>1, Zenon DEF SnapshotsAgree, SnapshotsKept
  <2>3. EntriesFound' <=> EntriesFound
    BY <1>1, Zenon DEF EntriesFound
  <2> QED
    BY <2>1, <2>2, <2>3, Zenon DEF Agreement
<1> QED
  BY <1>1, <1>2, <1>3, <1>4, <1>5, Zenon DEF Inv

LEMMA NextInv == ASSUME ConstantsOK, Inv, [Next]_vars PROVE Inv'
<1>1. CASE UNCHANGED vars
  BY <1>1, TesterInv, Zenon DEF vars
<1>2. ASSUME NEW r \in Instance, ApplyError(r) PROVE Inv'
  <2>1. pc' = pc
    BY <1>2, Zenon DEF ApplyError, Goto, Inv, Types
  <2> QED
    BY <1>2, <2>1, TesterInv, Zenon DEF ApplyError
<1>3. CASE one \/ nCommitted \/ Return
  <2>1. UNCHANGED <<snap, tested, pc, msg, err, rf>>
    BY <1>3, Zenon DEF one, nCommitted, Return, Submit, Fail, Proceed
  <2> QED
    BY <2>1, TesterInv, Zenon
<1> QED
  BY <1>1, <1>2, <1>3, BeginInv, SendCommandInv, SendSnapshotInv, IngestInv, checkLogsInv,
     SetLastAppliedInv, TakeSnapshotInv, crash1Inv, start1Inv, Zenon
  DEF Next, Inv, Types

(* Whatever Raft sends and however often servers are restarted, checkLogs   *)
(* and the appliers let no gap, and no disagreement that is not caused by   *)
(* an old snapshot, go unreported.                                          *)
THEOREM Caught == ASSUME ConstantsOK PROVE Spec => []DisagreementCaught
<1>1. Inv => DisagreementCaught
  <2> SUFFICES ASSUME Inv, NoError, NEW i \in Server, NEW k \in Index, logs[i][k] # Absent
               PROVE  /\ back \/ \A j \in Server : logs[j][k] \in {Absent, logs[i][k]}
                      /\ k > 1 => logs[i][k - 1] # Absent
    BY Zenon DEF DisagreementCaught, NoError
  <2>1. k > 1 => k - 1 \in Index /\ k - 1 <= k
    BY DEF Index, ConstantsOK
  <2> QED
    BY <2>1, Zenon DEF Inv, Closed, Agreement, LogsAgree
<1> QED
  BY <1>1, InitInv, NextInv, PTL DEF Spec

-----------------------------------------------------------------------------
(* one() *)

(* Every entry in a log is remembered. *)
Recorded ==
    /\ DOMAIN ever = Server
    /\ \A i \in Server, k \in Index : logs[i][k] # Absent => <<k, logs[i][k]>> \in ever[i]

Tester == [at : {"idle", "count", "returned"}, index : Index \cup {0}, expected : Nat, i : Nat,
           count : Nat, cmd : Value \cup {Absent}]

(* The servers below n that have had the entry <<k, v>>. *)
Holders(n, k, v) == {j \in Server : j < n /\ <<k, v>> \in ever[j]}

(* What nCommitted has counted so far really was there. *)
Counting ==
    /\ tester \in Tester
    /\ tester.at = "count" =>
         /\ tester.index \in Index /\ tester.i \in Server
         /\ tester.count <= Cardinality(Holders(tester.i, tester.index, tester.cmd))

OneInv == Inv /\ Recorded /\ Counting /\ OneSound

(* A log that replaces another is remembered. *)
LEMMA ReplacedRecorded ==
    ASSUME Inv, Recorded, NEW i \in Server, NEW log,
           logs' = [logs EXCEPT ![i] = log], ever' = [ever EXCEPT ![i] = @ \cup Entries(log)]
    PROVE  Recorded' /\ \A j \in Server : ever[j] \subseteq ever'[j]
<1>1. DOMAIN logs = Server /\ DOMAIN ever = Server
  BY Zenon DEF Inv, Types, Recorded
<1>2. /\ logs'[i] = log /\ ever'[i] = ever[i] \cup Entries(log)
      /\ \A j \in Server \ {i} : logs'[j] = logs[j] /\ ever'[j] = ever[j]
      /\ DOMAIN ever' = Server
  BY <1>1, Zenon
<1>3. \A k \in Index : log[k] # Absent => <<k, log[k]>> \in Entries(log)
  BY Zenon DEF Entries
<1>4. \A k \in Index : logs'[i][k] # Absent => <<k, logs'[i][k]>> \in ever'[i]
  BY <1>2, <1>3, Zenon
<1>5. ASSUME NEW j \in Server, j # i
      PROVE  \A k \in Index : logs'[j][k] # Absent => <<k, logs'[j][k]>> \in ever'[j]
  <2>1. \A k \in Index : logs[j][k] # Absent => <<k, logs[j][k]>> \in ever[j]
    BY Zenon DEF Recorded
  <2> QED
    BY <1>2, <1>5, <2>1, Zenon
<1>6. \A j \in Server : ever[j] \subseteq ever'[j]
  BY <1>2, Zenon
<1> QED
  BY <1>2, <1>4, <1>5, <1>6, Zenon DEF Recorded

(* Entries may leave a log, but what it held is not forgotten. *)
LEMMA RecordedNext ==
    ASSUME ConstantsOK, Inv, Recorded, [Next]_vars
    PROVE  Recorded' /\ \A i \in Server : ever[i] \subseteq ever'[i]
<1>1. CASE logs' = logs /\ ever' = ever
  BY <1>1, Zenon DEF Recorded
<1>2. ASSUME NEW r \in Instance, Ingest(r)
      PROVE  Recorded' /\ \A i \in Server : ever[i] \subseteq ever'[i]
  <2> DEFINE s == msg[r].snapshot
  <2>1. CASE UNCHANGED <<logs, ever>>
    BY <1>1, <2>1, Zenon
  <2>2. CASE /\ logs' = [logs EXCEPT ![r[1]] = Restored(s)]
             /\ ever' = [ever EXCEPT ![r[1]] = @ \cup Entries(Restored(s))]
    <3>1. r[1] \in Server
      BY Zenon DEF Instance
    <3> QED
      BY <2>2, <3>1, ReplacedRecorded, Zenon
  <2> QED
    BY <1>2, <2>1, <2>2, Zenon DEF Ingest
<1>3. ASSUME NEW r \in Instance, checkLogs(r)
      PROVE  Recorded' /\ \A i \in Server : ever[i] \subseteq ever'[i]
  <2>1. /\ r[1] \in Server /\ msg[r].index \in Index
    BY <1>3, Zenon DEF Instance, Inv, Types, Control, ControlOf, checkLogs, Goto, Command
  <2>2. /\ logs'[r[1]][msg[r].index] = msg[r].command
        /\ \A l \in Index \ {msg[r].index} : logs'[r[1]][l] = logs[r[1]][l]
        /\ ever'[r[1]] = ever[r[1]] \cup {<<msg[r].index, msg[r].command>>}
        /\ \A j \in Server \ {r[1]} : logs'[j] = logs[j] /\ ever'[j] = ever[j]
        /\ DOMAIN ever' = Server
    BY <1>3, <2>1, Zenon DEF checkLogs, Inv, Types, Recorded
  <2> DEFINE k == msg[r].index
             i == r[1]
  <2>3. logs'[i][k] = msg[r].command /\ <<k, msg[r].command>> \in ever'[i] /\ ever[i] \subseteq ever'[i]
    BY <2>2, Zenon
  <2>4. \A l \in Index \ {k} : logs'[i][l] # Absent => <<l, logs'[i][l]>> \in ever'[i]
    BY <2>1, <2>2, <2>3, Zenon DEF Recorded
  <2>5. \A j \in Server \ {i}, l \in Index : logs'[j][l] # Absent => <<l, logs'[j][l]>> \in ever'[j]
    BY <2>2, Zenon DEF Recorded
  <2>6. \A j \in Server : ever[j] \subseteq ever'[j]
    BY <2>2, <2>3, Zenon
  <2>7. DOMAIN ever' = Server
    BY <2>2, Zenon
  <2> HIDE DEF k, i
  <2> QED
    BY <2>3, <2>4, <2>5, <2>6, <2>7, Zenon DEF Recorded
<1>4. ASSUME NEW i \in Server, start1(i)
      PROVE  Recorded' /\ \A j \in Server : ever[j] \subseteq ever'[j]
  <2>1. CASE UNCHANGED <<logs, ever>>
    BY <1>1, <2>1, Zenon
  <2>2. CASE /\ logs' = [logs EXCEPT ![i] = Restored(saved[i])]
             /\ ever' = [ever EXCEPT ![i] = @ \cup Entries(Restored(saved[i]))]
    BY <2>2, ReplacedRecorded, Zenon
  <2> QED
    BY <1>4, <2>1, <2>2, Zenon DEF start1
<1> DEFINE Same == logs' = logs /\ ever' = ever
<1>5. ASSUME NEW r \in Instance PROVE Begin(r) \/ SetLastApplied(r) \/ TakeSnapshot(r) => Same
  BY Zenon DEF Begin, SetLastApplied, TakeSnapshot, tested
<1>6. ASSUME NEW r \in Instance PROVE ApplyError(r) => Same
  BY Zenon DEF ApplyError, tested
<1>7. ASSUME NEW r \in Instance, NEW k \in Index, NEW v \in Commands PROVE SendCommand(r, k, v) => Same
  BY Zenon DEF SendCommand
<1>8. ASSUME NEW r \in Instance, NEW s \in taken, NEW k \in Index PROVE SendSnapshot(r, s, k) => Same
  BY Zenon DEF SendSnapshot
<1>9. ASSUME NEW i \in Server PROVE crash1(i) => Same
  BY Zenon DEF crash1
<1>10. one => Same
  BY Zenon DEF one, Submit, Fail, Proceed, tested
<1>11. nCommitted => Same
  BY Zenon DEF nCommitted, Submit, Fail, Proceed, tested
<1>12. Return => Same
  BY Zenon DEF Return, Proceed, tested
<1>13. UNCHANGED vars => Same
  BY Zenon DEF vars, tested
<1> HIDE DEF Same
<1>14. \/ Same
       \/ \E r \in Instance : Ingest(r) \/ checkLogs(r)
       \/ \E i \in Server : start1(i)
  BY <1>5, <1>6, <1>7, <1>8, <1>9, <1>10, <1>11, <1>12, <1>13, Zenon DEF Next
<1> QED
  BY <1>1, <1>2, <1>3, <1>4, <1>14, Zenon DEF Same

(* Sets of servers can be counted. *)
LEMMA ServersFinite ==
    ASSUME ConstantsOK, NEW S \in SUBSET Server, NEW T \in SUBSET S
    PROVE  /\ IsFiniteSet(S) /\ Cardinality(S) \in Nat /\ Cardinality(T) \in Nat
           /\ Cardinality(T) <= Cardinality(S)
<1>1. IsFiniteSet(Server)
  BY FS_Interval DEF Server, ConstantsOK
<1>2. IsFiniteSet(S)
  BY <1>1, FS_Subset, Zenon
<1>3. IsFiniteSet(T) /\ Cardinality(T) <= Cardinality(S)
  BY <1>2, FS_Subset, Zenon
<1> QED
  BY <1>2, <1>3, FS_CardinalityType, Zenon

(* While the test does something else, counts stay sound. *)
LEMMA CountingKept ==
    ASSUME ConstantsOK, Counting, OneSound, \A i \in Server : ever[i] \subseteq ever'[i],
           tester' = tester
    PROVE  Counting' /\ OneSound'
<1>1. Counting'
  <2> DEFINE H == Holders(tester.i, tester.index, tester.cmd)
             G == {j \in Server : j < tester.i /\ <<tester.index, tester.cmd>> \in ever'[j]}
  <2>1. H \in SUBSET G /\ G \in SUBSET Server
    BY Zenon DEF Holders
  <2>2. Cardinality(H) <= Cardinality(G) /\ Cardinality(H) \in Nat /\ Cardinality(G) \in Nat
    BY <2>1, ServersFinite, Zenon
  <2>3. Holders(tester.i, tester.index, tester.cmd)' = G
    BY Zenon DEF Holders
  <2>4. tester.count \in Nat
    BY Zenon DEF Counting, Tester
  <2> HIDE DEF H, G
  <2>5. tester.at = "count" => tester.count <= Cardinality(G)
    <3>1. tester.at = "count" => tester.count <= Cardinality(H)
      BY Zenon DEF Counting, H
    <3> QED
      BY <2>2, <2>4, <3>1
  <2> QED
    BY <2>3, <2>5, Zenon DEF Counting
<1>2. OneSound'
  <2> DEFINE H == {i \in Server : <<tester.index, Submitted>> \in ever[i]}
             G == {i \in Server : <<tester.index, Submitted>> \in ever'[i]}
  <2>1. H \in SUBSET G /\ G \in SUBSET Server
    BY Zenon
  <2>2. Cardinality(H) <= Cardinality(G) /\ Cardinality(H) \in Nat /\ Cardinality(G) \in Nat
    BY <2>1, ServersFinite, Zenon
  <2>3. tester.expected \in Nat
    BY Zenon DEF Counting, Tester
  <2>4. tester.at = "returned" => Cardinality(H) >= tester.expected
    BY Zenon DEF OneSound
  <2> HIDE DEF H, G
  <2>5. tester.at = "returned" => Cardinality(G) >= tester.expected
    BY <2>2, <2>3, <2>4
  <2> QED
    BY <2>5, Zenon DEF OneSound, G
<1> QED
  BY <1>1, <1>2, Zenon

(* nCommitted counts one more server only if it has the entry counted. *)
LEMMA CountedSound ==
    ASSUME ConstantsOK, OneInv, tester.at = "count",
           ~(logs[tester.i][tester.index] # Absent /\ Differs(logs[tester.i][tester.index]))
    PROVE  /\ Counted \in Tester /\ Counted.i = tester.i + 1 /\ Counted.index = tester.index
           /\ Counted.at = "count" /\ Counted.expected = tester.expected
           /\ Counted.count <= Cardinality(Holders(tester.i + 1, tester.index, Counted.cmd))
<1> DEFINE c == logs[tester.i][tester.index]
           H == Holders(tester.i, tester.index, tester.cmd)
           G(v) == Holders(tester.i + 1, tester.index, v)
<1>1. /\ tester \in Tester /\ tester.index \in Index /\ tester.i \in Server /\ tester.i \in Nat
      /\ tester.count \in Nat /\ tester.count <= Cardinality(H)
  BY Zenon DEF OneInv, Counting, Tester
<1>2. c \in Value \cup {Absent}
  BY <1>1 DEF OneInv, Inv, Types
<1>3. /\ Counted \in Tester /\ Counted.i = tester.i + 1 /\ Counted.index = tester.index
      /\ Counted.at = "count" /\ Counted.expected = tester.expected
      /\ c = Absent => Counted.count = tester.count /\ Counted.cmd = tester.cmd
      /\ c # Absent => Counted.count = tester.count + 1 /\ Counted.cmd = c
  <2>1. CASE c = Absent
    <3>1. Counted = [tester EXCEPT !.i = tester.i + 1]
      BY <2>1, Zenon DEF Counted
    <3> HIDE DEF c
    <3> QED
      BY <1>1, <2>1, <3>1 DEF Tester
  <2>2. CASE c # Absent
    <3>1. Counted = [tester EXCEPT !.i = tester.i + 1, !.count = tester.count + 1, !.cmd = c]
      BY <2>2, Zenon DEF Counted
    <3> HIDE DEF c
    <3>2. tester.count + 1 \in Nat /\ tester.i + 1 \in Nat
      BY <1>1
    <3>3. Counted = [at |-> tester.at, index |-> tester.index, expected |-> tester.expected,
                     i |-> tester.i + 1, count |-> tester.count + 1, cmd |-> c]
      BY <1>1, <3>1, Zenon DEF Tester
    <3> QED
      BY <1>1, <1>2, <2>2, <3>2, <3>3, Zenon DEF Tester
  <2> QED
    BY <2>1, <2>2, Zenon
<1>4. H \in SUBSET G(tester.cmd) /\ \A v : G(v) \in SUBSET Server
  <2>1. \A j \in Server : j \in Int
    BY DEF Server
  <2>2. \A j \in Server : j < tester.i => j < tester.i + 1
    BY <1>1, <2>1
  <2> QED
    BY <2>2, Zenon DEF Holders
<1>5. /\ Cardinality(H) <= Cardinality(G(tester.cmd))
      /\ Cardinality(H) \in Nat /\ IsFiniteSet(H)
      /\ \A v : Cardinality(G(v)) \in Nat /\ IsFiniteSet(G(v))
  <2>1. \A v : Cardinality(G(v)) \in Nat /\ IsFiniteSet(G(v))
    BY <1>4, ServersFinite, Zenon
  <2>2. H \in SUBSET Server
    BY Zenon DEF Holders
  <2> QED
    BY <1>4, <2>1, <2>2, ServersFinite, Zenon
<1>6. CASE c = Absent
  <2>1. Cardinality(G(tester.cmd)) \in Nat
    BY <1>5, Zenon
  <2> HIDE DEF G, H, c
  <2>2. tester.count <= Cardinality(G(tester.cmd))
    BY <1>1, <1>5, <2>1
  <2> QED
    BY <1>3, <1>6, <2>2, Zenon DEF G
<1>7. CASE c # Absent
  <2>1. tester.i \in G(c)
    <3>1. tester.i < tester.i + 1
      BY <1>1
    <3>2. <<tester.index, c>> \in ever[tester.i]
      BY <1>1, <1>7, Zenon DEF OneInv, Recorded
    <3> HIDE DEF c
    <3> QED
      BY <1>1, <3>1, <3>2, Zenon DEF Holders
  <2>2. CASE tester.count = 0
    <3>1. G(c) # {}
      BY <2>1, Zenon
    <3>2. Cardinality(G(c)) # 0
      BY <1>5, <3>1, FS_EmptySet, Zenon
    <3>3. Cardinality(G(c)) \in Nat
      BY <1>5, Zenon
    <3> HIDE DEF G, c
    <3>4. tester.count + 1 <= Cardinality(G(c))
      BY <2>2, <3>2, <3>3
    <3> QED
      BY <1>3, <1>7, <3>4, Zenon DEF G
  <2>3. CASE tester.count > 0
    <3>1. tester.cmd = c
      BY <1>7, <2>3, Zenon DEF Differs
    <3>2. tester.i \notin H
      BY <1>1 DEF Holders
    <3>3. IsFiniteSet(H \cup {tester.i}) /\ Cardinality(H \cup {tester.i}) = Cardinality(H) + 1
      <4>1. IsFiniteSet(H)
        BY <1>5, Zenon
      <4> HIDE DEF G, H, c
      <4> QED
        BY <3>2, <4>1, FS_AddElement, Zenon
    <3>4. H \cup {tester.i} \in SUBSET G(c)
      BY <1>4, <2>1, <3>1, Zenon
    <3>5. Cardinality(H \cup {tester.i}) <= Cardinality(G(c))
      BY <1>4, <3>4, ServersFinite, Zenon
    <3>6. Cardinality(G(c)) \in Nat /\ Cardinality(H) \in Nat
      BY <1>5, Zenon
    <3> HIDE DEF G, H, c
    <3>7. tester.count + 1 <= Cardinality(G(c))
      BY <1>1, <3>3, <3>5, <3>6
    <3> QED
      BY <1>3, <1>7, <3>7, Zenon DEF G
  <2>4. tester.count = 0 \/ tester.count > 0
    BY <1>1
  <2> QED
    BY <2>2, <2>3, <2>4, Zenon
<1> QED
  BY <1>3, <1>6, <1>7, Zenon

LEMMA InitOne == ASSUME ConstantsOK, Init PROVE OneInv
<1>1. Recorded
  BY Zenon DEF Init, Recorded, Nothing
<1>2. Counting
  BY Zenon DEF Init, Counting, Waiting, Tester
<1>3. OneSound
  BY Zenon DEF Init, OneSound, Waiting
<1> QED
  BY <1>1, <1>2, <1>3, InitInv, Zenon DEF OneInv

(* The test fails, or has nothing to do. *)
LEMMA WaitingSound == ASSUME tester' = Waiting PROVE Counting' /\ OneSound'
BY Zenon DEF Counting, OneSound, Waiting, Tester

(* one() begins to count. *)
LEMMA BeginCount ==
    ASSUME ConstantsOK, tester' \in Tester, tester'.at = "count", tester'.index \in Index,
           tester'.i = 1, tester'.count = 0
    PROVE  Counting' /\ OneSound'
<1>1. Cardinality(Holders(tester.i, tester.index, tester.cmd)') \in Nat
  <2>1. Holders(tester.i, tester.index, tester.cmd)' \in SUBSET Server
    BY Zenon DEF Holders
  <2> QED
    BY <2>1, ServersFinite, Zenon
<1>2. 1 \in Server
  BY DEF Server, ConstantsOK
<1>3. 0 <= Cardinality(Holders(tester.i, tester.index, tester.cmd)')
  BY <1>1
<1> QED
  BY <1>2, <1>3, Zenon DEF Counting, OneSound

LEMMA SubmitSound ==
    ASSUME ConstantsOK, NEW from, NEW n \in Nat, Submit(from, n) PROVE Counting' /\ OneSound'
<1>1. PICK k \in Index : tester' = [Waiting EXCEPT !.at = "count", !.index = k, !.expected = n, !.i = 1]
  BY Zenon DEF Submit, Proceed
<1>2. tester' = [at |-> "count", index |-> k, expected |-> n, i |-> 1, count |-> 0, cmd |-> Absent]
  BY <1>1, Zenon DEF Waiting
<1>3. tester' \in Tester /\ tester'.at = "count" /\ tester'.index \in Index /\ tester'.i = 1
      /\ tester'.count = 0
  BY <1>2, Zenon DEF Tester
<1> QED
  BY <1>3, BeginCount, Zenon

LEMMA nCommittedSound ==
    ASSUME ConstantsOK, OneInv, nCommitted PROVE Counting' /\ OneSound'
<1> DEFINE c == logs[tester.i][tester.index]
           wrong == c # Absent /\ Differs(c)
<1>1. /\ tester.at = "count" /\ tester \in Tester /\ tester.index \in Index /\ tester.i \in Server
      /\ tester.expected \in Nat
  BY Zenon DEF nCommitted, OneInv, Counting, Tester
<1>2. \/ wrong /\ Fail("count")
      \/ ~wrong /\ tester.i = N /\ Decided /\ Proceed("count", [Counted EXCEPT !.at = "returned"])
      \/ ~wrong /\ tester.i = N /\ ~Decided
         /\ \/ Proceed("count", [tester EXCEPT !.i = 1, !.count = 0, !.cmd = Absent])
            \/ Submit("count", tester.expected)
            \/ Fail("count")
      \/ ~wrong /\ tester.i # N /\ Proceed("count", Counted)
  BY Zenon DEF nCommitted
<1>3. CASE Fail("count")
  BY <1>3, WaitingSound, Zenon DEF Fail, Proceed
<1>4. CASE Submit("count", tester.expected)
  BY <1>1, <1>4, SubmitSound, Zenon
<1>5. CASE Proceed("count", [tester EXCEPT !.i = 1, !.count = 0, !.cmd = Absent])
  <2>1. tester' = [tester EXCEPT !.i = 1, !.count = 0, !.cmd = Absent]
    BY <1>5, Zenon DEF Proceed
  <2>2. tester' \in Tester /\ tester'.at = "count" /\ tester'.index \in Index /\ tester'.i = 1
        /\ tester'.count = 0
    BY <1>1, <2>1, Zenon DEF Tester
  <2> QED
    BY <2>2, BeginCount, Zenon
<1>6. ASSUME ~wrong
      PROVE  /\ Counted \in Tester /\ Counted.i = tester.i + 1 /\ Counted.index = tester.index
             /\ Counted.at = "count" /\ Counted.expected = tester.expected
             /\ Counted.count <= Cardinality(Holders(Counted.i, Counted.index, Counted.cmd))
  BY <1>1, <1>6, CountedSound, Zenon
<1>7. CASE ~wrong /\ tester.i # N /\ Proceed("count", Counted)
  <2>1. tester' = Counted /\ ever' = ever
    BY <1>7, Zenon DEF Proceed, tested
  <2>2. tester.i + 1 \in Server
    BY <1>1, <1>7 DEF Server, ConstantsOK
  <2>3. Holders(tester.i, tester.index, tester.cmd)' = Holders(Counted.i, Counted.index, Counted.cmd)
    BY <2>1, Zenon DEF Holders
  <2> QED
    BY <1>1, <1>6, <1>7, <2>1, <2>2, <2>3, Zenon DEF Counting, OneSound
<1>8. CASE /\ ~wrong /\ tester.i = N /\ Decided
           /\ Proceed("count", [Counted EXCEPT !.at = "returned"])
  <2>1. tester' = [Counted EXCEPT !.at = "returned"] /\ ever' = ever
    BY <1>8, Zenon DEF Proceed, tested
  <2>2. tester' \in Tester /\ tester'.at = "returned" /\ tester'.index = tester.index
        /\ tester'.expected = tester.expected
    BY <1>6, <1>8, <2>1, Zenon DEF Tester
  <2>3. Counted.count >= tester.expected /\ Counted.cmd = Submitted
    BY <1>8, Zenon DEF Decided
  <2> DEFINE H == Holders(Counted.i, tester.index, Submitted)
             G == {j \in Server : <<tester.index, Submitted>> \in ever[j]}
  <2>4. H \in SUBSET G /\ G \in SUBSET Server
    BY Zenon DEF Holders
  <2>5. Cardinality(H) <= Cardinality(G) /\ Cardinality(H) \in Nat /\ Cardinality(G) \in Nat
    BY <2>4, ServersFinite, Zenon
  <2>6. Counted.count <= Cardinality(H) /\ Counted.count \in Nat
    BY <1>6, <1>8, <2>3, Zenon DEF Tester
  <2> HIDE DEF H, G
  <2>7. Cardinality(G) >= tester.expected
    BY <1>1, <2>3, <2>5, <2>6
  <2> QED
    BY <2>1, <2>2, <2>7, Zenon DEF Counting, OneSound, G
<1> QED
  BY <1>2, <1>3, <1>4, <1>5, <1>7, <1>8, Zenon

(* What one() returns was applied by as many servers as it was asked for,   *)
(* although nCommitted takes the lock once for each server.                 *)
THEOREM OneReturnsSound == ASSUME ConstantsOK PROVE Spec => []OneSound
<1>1. ASSUME OneInv, [Next]_vars PROVE OneInv'
  <2>1. Inv' /\ Recorded' /\ \A i \in Server : ever[i] \subseteq ever'[i]
    BY <1>1, NextInv, RecordedNext, Zenon DEF OneInv
  <2>2. CASE tester' = tester
    BY <1>1, <2>1, <2>2, CountingKept, Zenon DEF OneInv
  <2>3. CASE tester' = Waiting
    BY <2>1, <2>3, WaitingSound, Zenon DEF OneInv
  <2>4. CASE one
    <3>1. \/ \E n \in Expected : Submit("idle", n)
          \/ tester' = Waiting
      BY <2>4, Zenon DEF one, Fail, Proceed
    <3> QED
      BY <2>1, <3>1, <2>3, SubmitSound, Zenon DEF OneInv, ConstantsOK
  <2>5. CASE nCommitted
    BY <1>1, <2>1, <2>5, nCommittedSound, Zenon DEF OneInv
  <2> DEFINE Same == tester' = tester
             Back == tester' = Waiting
  <2>6. ASSUME NEW r \in Instance PROVE Begin(r) \/ SetLastApplied(r) \/ TakeSnapshot(r) => Same
    BY Zenon DEF Begin, SetLastApplied, TakeSnapshot
  <2>7. ASSUME NEW r \in Instance PROVE Ingest(r) \/ checkLogs(r) => Same
    BY Zenon DEF Ingest, checkLogs
  <2>8. ASSUME NEW r \in Instance, NEW k \in Index, NEW v \in Commands PROVE SendCommand(r, k, v) => Same
    BY Zenon DEF SendCommand
  <2>9. ASSUME NEW r \in Instance, NEW s \in taken, NEW k \in Index PROVE SendSnapshot(r, s, k) => Same
    BY Zenon DEF SendSnapshot
  <2>10. ASSUME NEW i \in Server PROVE crash1(i) \/ start1(i) => Same
    BY Zenon DEF crash1, start1
  <2>11. UNCHANGED vars => Same
    BY Zenon DEF vars
  <2>12. (\A r \in Instance : ApplyError(r) => Back) /\ (Return => Back)
    BY Zenon DEF ApplyError, Return, Proceed
  <2> HIDE DEF Same, Back
  <2>13. Same \/ Back \/ one \/ nCommitted
    BY <1>1, <2>6, <2>7, <2>8, <2>9, <2>10, <2>11, <2>12, Zenon DEF Next
  <2> QED
    BY <2>2, <2>3, <2>4, <2>5, <2>13, Zenon DEF Same, Back
<1>2. OneInv => OneSound
  BY Zenon DEF OneInv
<1> QED
  BY <1>1, <1>2, InitOne, PTL DEF Spec

-----------------------------------------------------------------------------
(* The jobs of the MapReduce coordinator *)

CONSTANTS Names, Sizes, MaxFiles, map_input_size, nReduce, Outputs, Workers
VARIABLES files, size, readable, directory, mapJobs, reduceJobs, mapDone, k, offset, chunkSize,
  job_id, stage, serving, worker
J == INSTANCE MapReduce

MapJob == [job_id : Nat, file_location : Names, file_index : Nat, m_size : Nat]
Calling == {"calling", "unknown task"}

JobsType ==
  /\ files \in Seq(Names) /\ size \in [Names -> Nat] /\ directory \subseteq Outputs
  /\ mapJobs \in Seq(MapJob)
  /\ reduceJobs \in Seq([job_id : Nat, intermediateFiles : SUBSET Outputs])
  /\ k \in Nat /\ offset \in Nat /\ chunkSize \in 1 .. map_input_size /\ job_id \in Nat
  /\ worker \in [Workers -> {"ask", "calling", "unknown task", "ended"}]

(* The jobs one by one. *)
JobsSound ==
  /\ job_id = 1000 + Len(mapJobs)
  /\ \A n \in 1 .. Len(mapJobs) :
       /\ mapJobs[n].job_id = 999 + n /\ mapJobs[n].m_size \in 1 .. map_input_size
       /\ mapJobs[n].file_index + mapJobs[n].m_size <= size[mapJobs[n].file_location]

(* The bytes that the first n arguments and the first x bytes of the next    *)
(* one account for are each read as often as they should be.                 *)
Split(n, x) ==
  \A f \in Names : \A b \in 0 .. size[f] - 1 :
    Cardinality(J!Reading(f, b)) =
      Cardinality(J!Named(f, n)) + (IF n < Len(files) /\ files[n + 1] = f /\ b < x THEN 1 ELSE 0)

Progress ==
  /\ stage \in {"open", "split"} => k \in 1 .. Len(files) + 1
  /\ stage = "open" => Split(k - 1, 0)
  /\ stage = "split" => k <= Len(files) /\ offset <= size[files[k]] /\ Split(k - 1, offset)
  /\ stage \in {"map", "reduce"} \/ serving \/ (\E w \in Workers : worker[w] \in Calling) =>
       stage \notin {"open", "split"} /\ Split(Len(files), 0)

Reduced ==
  /\ \A r \in 1 .. Len(reduceJobs) : reduceJobs[r].job_id = r - 1
  /\ Len(reduceJobs) <= nReduce
  /\ stage = "reduce" => mapDone = 1
  /\ serving /\ stage = "main" => mapDone = 1 /\ Len(reduceJobs) = nReduce

JobsInv == JobsType /\ JobsSound /\ Progress /\ Reduced

(* A step that makes no map job. *)
LEMMA SoundKept ==
  ASSUME JobsSound, size' = size, mapJobs' = mapJobs, job_id' = job_id
  PROVE  JobsSound'
BY DEF JobsSound

(* The sets that are counted are finite. *)
LEMMA JobsFinite ==
  ASSUME JobsType, NEW f, NEW b, NEW n \in Nat
  PROVE  IsFiniteSet(J!Reading(f, b)) /\ IsFiniteSet(J!Named(f, n))
<1>0. mapJobs \in Seq(MapJob)
  BY Zenon DEF JobsType
<1>1. 1 \in Int /\ Len(mapJobs) \in Int /\ n \in Int /\ DOMAIN mapJobs = 1 .. Len(mapJobs)
  BY <1>0
<1>2. IsFiniteSet(1 .. Len(mapJobs)) /\ IsFiniteSet(1 .. n)
  BY <1>1, FS_Interval, Zenon
<1>3. J!Reading(f, b) \in SUBSET (1 .. Len(mapJobs)) /\ J!Named(f, n) \in SUBSET (1 .. n)
  BY <1>1, Zenon DEF J!Reading, J!Named
<1> QED
  BY <1>2, <1>3, FS_Subset, Zenon

(* Before the first file there are no jobs. *)
LEMMA JobsStart == ASSUME J!ConstantsOK, J!Init PROVE JobsInv
<1> USE DEF J!Init
<1>1. files \in Seq(Names) /\ Len(files) \in Nat
  BY DEF J!ConstantsOK
<1>2. JobsType
  <2>1. size \in [Names -> Nat] /\ chunkSize \in 1 .. map_input_size
    <3>1. size \in [Names -> Sizes] /\ Sizes \subseteq Nat
      BY Zenon DEF J!ConstantsOK
    <3>2. size \in [Names -> Nat]
      BY <3>1, Zenon
    <3> QED
      BY <3>2 DEF J!ConstantsOK
  <2>2. mapJobs \in Seq(MapJob)
    OBVIOUS
  <2>3. reduceJobs \in Seq([job_id : Nat, intermediateFiles : SUBSET Outputs])
    OBVIOUS
  <2>4. /\ worker \in [Workers -> {"ask", "calling", "unknown task", "ended"}]
        /\ directory \subseteq Outputs
    BY Zenon
  <2>5. k \in Nat /\ offset \in Nat /\ job_id \in Nat
    OBVIOUS
  <2> QED
    BY <1>1, <2>1, <2>2, <2>3, <2>4, <2>5, Zenon DEF JobsType
<1>3. Split(0, 0)
  <2>1. \A f, b : J!Reading(f, b) = {} /\ J!Named(f, 0) = {}
    BY DEF J!Reading, J!Named
  <2>2. \A f, b : Cardinality(J!Reading(f, b)) = 0 /\ Cardinality(J!Named(f, 0)) = 0
    BY <2>1, FS_EmptySet, Zenon
  <2>3. ~(\E f \in Names : \E b \in 0 .. size[f] - 1 : b < 0)
    BY DEF J!ConstantsOK
  <2> QED
    BY <2>2, <2>3 DEF Split
<1>4. JobsSound
  BY DEF JobsSound
<1>5. Progress
  BY <1>1, <1>3 DEF Progress, Calling
<1>6. Reduced
  BY DEF Reduced, J!ConstantsOK
<1> QED
  BY <1>2, <1>4, <1>5, <1>6, Zenon DEF JobsInv

(* The bytes of the new job had not been read yet. *)
LEMMA AddMapJobStep == ASSUME J!ConstantsOK, JobsInv, J!AddMapJob PROVE JobsInv'
<1> DEFINE f0 == files[k]
           chunk == J!Chunk(size[f0] - offset)
           job == [job_id |-> job_id, file_location |-> f0, file_index |-> offset,
                   m_size |-> chunk]
           last == Len(mapJobs) + 1
<1>1. /\ stage = "split" /\ offset < size[f0] /\ mapJobs' = Append(mapJobs, job)
      /\ chunkSize' = chunk /\ offset' = offset + chunk /\ job_id' = job_id + 1
      /\ UNCHANGED <<files, size, directory, reduceJobs, mapDone, k, stage, serving, worker>>
  BY Zenon DEF J!AddMapJob, J!input
<1>2. /\ k \in 1 .. Len(files) /\ Len(files) \in Nat /\ offset <= size[f0]
      /\ Split(k - 1, offset)
      /\ files \in Seq(Names)
  <2>1. files \in Seq(Names) /\ k \in Nat
    BY Zenon DEF JobsInv, JobsType
  <2>2. k \in 1 .. Len(files) + 1 /\ k <= Len(files) /\ offset <= size[f0] /\ Split(k - 1, offset)
    BY <1>1, Zenon DEF JobsInv, Progress
  <2> QED
    BY <2>1, <2>2
<1>3. f0 \in Names /\ size[f0] \in Nat /\ size \in [Names -> Nat]
  <2>1. size \in [Names -> Nat]
    BY Zenon DEF JobsInv, JobsType
  <2> QED
    BY <1>2, <2>1
<1>4. offset \in Nat /\ chunkSize \in 1 .. map_input_size /\ map_input_size \in Nat /\ job_id \in Nat
  BY Zenon DEF JobsInv, JobsType, J!ConstantsOK
<1>5. chunk \in 1 .. map_input_size /\ offset + chunk <= size[f0]
  BY <1>1, <1>3, <1>4 DEF J!Chunk
<1> HIDE DEF f0, chunk
<1>6. mapJobs \in Seq(MapJob) /\ job \in MapJob
  <2>1. mapJobs \in Seq(MapJob)
    BY Zenon DEF JobsInv, JobsType
  <2>2. chunk \in Nat
    BY <1>4, <1>5
  <2>3. job \in MapJob
    BY <1>3, <1>4, <2>2, Zenon DEF MapJob
  <2> QED
    BY <2>1, <2>3, Zenon
<1> HIDE DEF job
<1>7. /\ mapJobs' \in Seq(MapJob) /\ Len(mapJobs') = last /\ Len(mapJobs) \in Nat
      /\ mapJobs'[last] = job
      /\ \A n \in 1 .. Len(mapJobs) : mapJobs'[n] = mapJobs[n]
      /\ DOMAIN mapJobs = 1 .. Len(mapJobs) /\ DOMAIN mapJobs' = 1 .. last
  BY <1>1, <1>6
<1>8. JobsType'
  <2>1. offset' \in Nat /\ chunkSize' \in 1 .. map_input_size /\ job_id' \in Nat
    BY <1>1, <1>4, <1>5
  <2> QED
    BY <1>1, <1>7, <2>1, Zenon DEF JobsInv, JobsType
<1>9. JobsSound'
  <2>1. job_id = 1000 + Len(mapJobs)
    BY Zenon DEF JobsInv, JobsSound
  <2>2. \A n \in 1 .. last : n \in 1 .. Len(mapJobs) \/ n = last
    BY <1>7
  <2>3. /\ job.job_id = 999 + last /\ job.m_size \in 1 .. map_input_size
        /\ job.file_index + job.m_size <= size[job.file_location]
    BY <1>5, <1>7, <2>1 DEF job
  <2>4. job_id' = 1000 + Len(mapJobs')
    <3>1. job_id' = job_id + 1 /\ Len(mapJobs') = Len(mapJobs) + 1 /\ Len(mapJobs) \in Nat
      BY <1>1, <1>7, Zenon
    <3> QED
      BY <2>1, <3>1
  <2> QED
    BY <1>1, <1>7, <2>2, <2>3, <2>4 DEF JobsInv, JobsSound
<1>10. Split(k - 1, offset)'
  <2>1. SUFFICES ASSUME NEW f \in Names, NEW b \in 0 .. size[f] - 1
                 PROVE  Cardinality(J!Reading(f, b)') = Cardinality(J!Named(f, k - 1)') +
                          (IF k - 1 < Len(files) /\ files[k - 1 + 1] = f /\ b < offset + chunk
                           THEN 1 ELSE 0)
    BY <1>1, Zenon DEF Split
  <2> DEFINE before == IF k - 1 < Len(files) /\ files[k - 1 + 1] = f /\ b < offset THEN 1 ELSE 0
  <2>2. Cardinality(J!Reading(f, b)) = Cardinality(J!Named(f, k - 1)) + before
    BY <1>2, <2>1, Zenon DEF Split
  <2>3. J!Named(f, k - 1)' = J!Named(f, k - 1)
    BY <1>1, Zenon DEF J!Named
  <2>4. k - 1 \in Nat /\ k - 1 < Len(files) /\ files[k - 1 + 1] = f0 /\ b \in Int
    BY <1>2, <1>3, <2>1 DEF f0
  <2>5. /\ IsFiniteSet(J!Reading(f, b)) /\ last \notin J!Reading(f, b)
        /\ Cardinality(J!Named(f, k - 1)) \in Nat
    <3>1. JobsType
      BY Zenon DEF JobsInv
    <3>2. IsFiniteSet(J!Reading(f, b)) /\ IsFiniteSet(J!Named(f, k - 1))
      BY <2>4, <3>1, JobsFinite, Zenon
    <3>3. last \notin J!Reading(f, b)
      BY <1>7 DEF J!Reading
    <3> QED
      BY <3>2, <3>3, FS_CardinalityType, Zenon
  <2>6. J!Reading(f, b)' = IF f0 = f /\ b >= offset /\ b < offset + chunk
                           THEN J!Reading(f, b) \cup {last} ELSE J!Reading(f, b)
    <3>1. job.file_location = f0 /\ job.file_index = offset /\ job.m_size = chunk
      BY Zenon DEF job
    <3>2. \A n \in 1 .. last : n \in 1 .. Len(mapJobs) \/ n = last
      BY <1>7
    <3>3. 1 .. Len(mapJobs) \subseteq 1 .. last /\ last \in 1 .. last
      BY <1>7
    <3> QED
      BY <1>7, <3>1, <3>2, <3>3, Zenon DEF J!Reading
  <2> HIDE DEF last
  <2>7. Cardinality(J!Reading(f, b)') = Cardinality(J!Reading(f, b)) +
          (IF f0 = f /\ b >= offset /\ b < offset + chunk THEN 1 ELSE 0)
    <3>1. Cardinality(J!Reading(f, b)) \in Nat
      BY <2>5, FS_CardinalityType, Zenon
    <3>2. CASE f0 = f /\ b >= offset /\ b < offset + chunk
      BY <2>5, <2>6, <3>2, FS_AddElement, Zenon
    <3>3. CASE ~(f0 = f /\ b >= offset /\ b < offset + chunk)
      BY <2>6, <3>1, <3>3
    <3> QED
      BY <3>2, <3>3, Zenon
  <2>8. offset \in Nat /\ chunk \in Nat /\ chunk > 0
    BY <1>4, <1>5
  <2>9. /\ Cardinality(J!Named(f, k - 1)') = Cardinality(J!Named(f, k - 1))
        /\ before = (IF f = f0 /\ b < offset THEN 1 ELSE 0)
    BY <2>3, <2>4, Zenon
  <2> HIDE DEF before
  <2> QED
    BY <2>2, <2>4, <2>5, <2>7, <2>8, <2>9
<1>11. Progress'
  <2>3. ~serving /\ ~\E w \in Workers : worker[w] \in Calling
    BY <1>1, Zenon DEF JobsInv, Progress
  <2>4. offset' <= size'[files'[k']] /\ k' \in 1 .. Len(files') /\ k' \in 1 .. Len(files') + 1
    BY <1>1, <1>2, <1>5 DEF f0
  <2> QED
    BY <1>1, <1>10, <2>3, <2>4 DEF Progress
<1>12. Reduced'
  BY <1>1, Zenon DEF JobsInv, Reduced
<1> QED
  BY <1>8, <1>9, <1>11, <1>12, Zenon DEF JobsInv

(* A file whose bytes have all been split counts as one more argument done. *)
LEMMA FileSplitStep == ASSUME J!ConstantsOK, JobsInv, J!FileSplit PROVE JobsInv'
<1>1. /\ stage = "split" /\ offset >= size[files[k]] /\ k' = k + 1 /\ stage' = "open"
      /\ UNCHANGED <<files, size, directory, mapJobs, reduceJobs, mapDone, offset, chunkSize,
                     job_id, serving, worker>>
  BY Zenon DEF J!FileSplit, J!input
<1>2. files \in Seq(Names) /\ k \in Nat /\ size \in [Names -> Nat] /\ offset \in Nat
  BY Zenon DEF JobsInv, JobsType
<1>3. k \in 1 .. Len(files) + 1 /\ k <= Len(files) /\ Split(k - 1, offset)
  BY <1>1, Zenon DEF JobsInv, Progress
<1>4. k \in 1 .. Len(files) /\ Len(files) \in Nat /\ files[k] \in Names
  BY <1>2, <1>3
<1>5. JobsType
  BY Zenon DEF JobsInv
<1>6. JobsType'
  <2>1. k' \in Nat
    BY <1>1, <1>2
  <2> QED
    BY <1>1, <1>5, <2>1, Zenon DEF JobsType
<1>7. JobsSound'
  BY <1>1, SoundKept, Zenon DEF JobsInv
<1>8. Split(k, 0)
  <2> SUFFICES ASSUME NEW f \in Names, NEW b \in 0 .. size[f] - 1
               PROVE  Cardinality(J!Reading(f, b)) = Cardinality(J!Named(f, k)) +
                        (IF k < Len(files) /\ files[k + 1] = f /\ b < 0 THEN 1 ELSE 0)
    BY Zenon DEF Split
  <2>1. b \in Nat /\ b < size[f] /\ size[f] \in Nat
    BY <1>2
  <2>2. Cardinality(J!Reading(f, b)) = Cardinality(J!Named(f, k - 1)) +
          (IF k - 1 < Len(files) /\ files[k - 1 + 1] = f /\ b < offset THEN 1 ELSE 0)
    BY <1>3, Zenon DEF Split
  <2>3. k - 1 \in Nat /\ k - 1 < Len(files) /\ k - 1 + 1 = k
    BY <1>4
  <2>4. /\ IsFiniteSet(J!Named(f, k - 1)) /\ k \notin J!Named(f, k - 1)
        /\ Cardinality(J!Named(f, k - 1)) \in Nat
    <3>1. IsFiniteSet(J!Named(f, k - 1))
      BY <1>5, <2>3, JobsFinite, Zenon
    <3> QED
      BY <1>4, <3>1, FS_CardinalityType DEF J!Named
  <2>5. CASE files[k] = f
    <3>1. b < offset
      BY <1>1, <1>2, <2>1, <2>5
    <3>2. J!Named(f, k) = J!Named(f, k - 1) \cup {k}
      BY <1>4, <2>5 DEF J!Named
    <3>3. Cardinality(J!Named(f, k)) = Cardinality(J!Named(f, k - 1)) + 1
      BY <2>4, <3>2, FS_AddElement, Zenon
    <3>4. /\ Cardinality(J!Reading(f, b)) = Cardinality(J!Named(f, k - 1)) + 1
          /\ ~(b < 0)
      BY <2>1, <2>2, <2>3, <2>5, <3>1
    <3>5. Cardinality(J!Named(f, k)) + 0 = Cardinality(J!Named(f, k - 1)) + 1
      BY <2>4, <3>3
    <3> QED
      BY <3>4, <3>5, Zenon
  <2>6. CASE files[k] # f
    <3>1. J!Named(f, k) = J!Named(f, k - 1)
      BY <1>4, <2>6 DEF J!Named
    <3> QED
      BY <2>1, <2>2, <2>3, <2>4, <2>6, <3>1
  <2> QED
    BY <2>5, <2>6, Zenon
<1>9. Progress'
  <2>1. k' - 1 = k /\ k' \in 1 .. Len(files) + 1
    BY <1>1, <1>2, <1>4
  <2>2. Split(k - 1, 0)'
    <3>1. Split(k, 0)
      BY <1>8, Zenon
    <3>2. \A f, b : J!Reading(f, b)' = J!Reading(f, b)
      BY <1>1, Zenon DEF J!Reading
    <3>3. \A f, n : J!Named(f, n)' = J!Named(f, n)
      BY <1>1, Zenon DEF J!Named
    <3> QED
      BY <1>1, <2>1, <3>1, <3>2, <3>3, Zenon DEF Split
  <2>3. ~serving /\ ~\E w \in Workers : worker[w] \in Calling
    BY <1>1, Zenon DEF JobsInv, Progress
  <2> QED
    BY <1>1, <2>1, <2>2, <2>3, Zenon DEF Progress
<1>10. Reduced'
  BY <1>1, Zenon DEF JobsInv, Reduced
<1> QED
  BY <1>6, <1>7, <1>9, <1>10, Zenon DEF JobsInv

(* The steps of the coordinator that make no map job. *)
LEMMA PhaseStep ==
  ASSUME J!ConstantsOK, JobsInv,
         J!OpenFile \/ J!server \/ J!MapPhaseDone \/ J!AddReduceJob \/ J!ReducePhaseDone \/ J!Exit
  PROVE  JobsInv'
<1>1. UNCHANGED <<files, size, directory, mapJobs, k, job_id, worker>>
  BY Zenon DEF J!OpenFile, J!server, J!MapPhaseDone, J!AddReduceJob, J!ReducePhaseDone, J!Exit,
         J!input, J!splitting
<1>2. JobsSound'
  BY <1>1, SoundKept, Zenon DEF JobsInv
<1>3. files \in Seq(Names) /\ Len(files) \in Nat /\ k \in Nat /\ size \in [Names -> Nat]
  <2>1. files \in Seq(Names) /\ k \in Nat /\ size \in [Names -> Nat]
    BY Zenon DEF JobsInv, JobsType
  <2> QED
    BY <2>1
<1>4. reduceJobs \in Seq([job_id : Nat, intermediateFiles : SUBSET Outputs])
  BY Zenon DEF JobsInv, JobsType
<1>5. reduceJobs' \in Seq([job_id : Nat, intermediateFiles : SUBSET Outputs])
  <2>1. CASE J!AddReduceJob
    <3>1. directory \subseteq Outputs
      BY Zenon DEF JobsInv, JobsType
    <3>2. Len(reduceJobs) \in Nat
      BY <1>4
    <3> DEFINE job == [job_id |-> Len(reduceJobs),
                       intermediateFiles |-> J!GetIntermediateFiles(Len(reduceJobs))]
    <3>3. job \in [job_id : Nat, intermediateFiles : SUBSET Outputs]
      BY <3>1, <3>2, Zenon DEF J!GetIntermediateFiles
    <3>4. reduceJobs' = Append(reduceJobs, job)
      BY <2>1, Zenon DEF J!AddReduceJob
    <3> HIDE DEF job
    <3> QED
      BY <1>4, <3>3, <3>4
  <2>2. CASE UNCHANGED reduceJobs
    BY <1>4, <2>2, Zenon
  <2> QED
    BY <2>1, <2>2, Zenon DEF J!OpenFile, J!server, J!MapPhaseDone, J!ReducePhaseDone, J!Exit
<1>6. JobsType'
  <2>1. offset' \in Nat /\ chunkSize' \in 1 .. map_input_size
    <3>1. CASE J!OpenFile
      BY <3>1 DEF J!OpenFile, J!ConstantsOK
    <3>2. CASE UNCHANGED <<offset, chunkSize>>
      BY <3>2, Zenon DEF JobsInv, JobsType
    <3> QED
      BY <3>1, <3>2, Zenon DEF J!server, J!MapPhaseDone, J!AddReduceJob, J!ReducePhaseDone, J!Exit,
                       J!splitting
  <2> QED
    BY <1>1, <1>5, <2>1, Zenon DEF JobsInv, JobsType
<1>8. Split(k - 1, 0) => Split(k - 1, 0)'
  BY <1>1, Zenon DEF Split, J!Reading, J!Named
<1>9. Split(Len(files), 0) => Split(Len(files), 0)'
  BY <1>1, Zenon DEF Split, J!Reading, J!Named
<1>10. CASE J!OpenFile
  <2>1. /\ stage = "open" /\ k <= Len(files) /\ offset' = 0 /\ stage' \in {"split", "main"}
        /\ UNCHANGED <<reduceJobs, mapDone, serving>>
    BY <1>10, Zenon DEF J!OpenFile
  <2>2. k \in 1 .. Len(files) + 1 /\ Split(k - 1, 0) /\ ~serving
        /\ ~\E w \in Workers : worker[w] \in Calling
    BY <2>1, Zenon DEF JobsInv, Progress
  <2>3. 0 <= size[files[k]]
    BY <1>3, <2>1, <2>2
  <2>4. Split(k - 1, offset)'
    BY <1>1, <1>8, <2>1, <2>2, Zenon DEF Split
  <2>5. Progress'
    BY <1>1, <2>1, <2>2, <2>3, <2>4, Zenon DEF Progress
  <2>6. Reduced'
    BY <2>1, <2>2, Zenon DEF JobsInv, Reduced
  <2> QED
    BY <1>2, <1>6, <2>5, <2>6, Zenon DEF JobsInv
<1>11. CASE J!server
  <2>1. /\ stage = "open" /\ k > Len(files) /\ UNCHANGED <<reduceJobs, mapDone>>
        /\ (stage' = "map" \/ (stage' = "gone" /\ ~serving'))
    <3>1. stage = "open" /\ k > Len(files) /\ UNCHANGED <<reduceJobs, mapDone>>
      BY <1>11, Zenon DEF J!server
    <3>2. stage' = "map" \/ (stage' = "gone" /\ ~serving')
      BY <1>11, Zenon DEF J!server
    <3> QED
      BY <3>1, <3>2, Zenon
  <2>2. k \in 1 .. Len(files) + 1 /\ Split(k - 1, 0)
    BY <2>1, Zenon DEF JobsInv, Progress
  <2>3. k - 1 = Len(files)
    BY <1>3, <2>1, <2>2
  <2>4. Split(Len(files), 0)'
    BY <1>9, <2>2, <2>3, Zenon
  <2>5. Progress'
    BY <1>1, <2>1, <2>4, Zenon DEF Progress
  <2>6. Reduced'
    BY <2>1, Zenon DEF JobsInv, Reduced
  <2> QED
    BY <1>2, <1>6, <2>5, <2>6, Zenon DEF JobsInv
<1>12. CASE J!MapPhaseDone \/ J!AddReduceJob \/ J!ReducePhaseDone
  <2>1. stage \in {"map", "reduce"} /\ stage' \in {"reduce", "main"} /\ UNCHANGED serving
    BY <1>12, Zenon DEF J!MapPhaseDone, J!AddReduceJob, J!ReducePhaseDone
  <2>2. Split(Len(files), 0)'
    BY <1>9, <2>1, Zenon DEF JobsInv, Progress
  <2>3. Progress'
    BY <2>1, <2>2, Zenon DEF Progress
  <2>4. Reduced'
    <3>1. Len(reduceJobs) \in Nat /\ nReduce \in Nat
      BY <1>4 DEF J!ConstantsOK
    <3>2. CASE J!MapPhaseDone
      BY <3>2, Zenon DEF J!MapPhaseDone, JobsInv, Reduced
    <3>3. CASE J!AddReduceJob
      <4> DEFINE job == [job_id |-> Len(reduceJobs),
                         intermediateFiles |-> J!GetIntermediateFiles(Len(reduceJobs))]
      <4>1. /\ reduceJobs' = Append(reduceJobs, job) /\ Len(reduceJobs) < nReduce
            /\ UNCHANGED <<stage, mapDone>> /\ stage = "reduce"
        BY <3>3, Zenon DEF J!AddReduceJob
      <4>2. job.job_id = Len(reduceJobs)
        BY Zenon
      <4> HIDE DEF job
      <4>3. /\ Len(reduceJobs') = Len(reduceJobs) + 1
            /\ \A r \in 1 .. Len(reduceJobs) + 1 :
                 reduceJobs'[r] = IF r <= Len(reduceJobs) THEN reduceJobs[r] ELSE job
        BY <1>4, <4>1
      <4>4. /\ \A r \in 1 .. Len(reduceJobs) : reduceJobs[r].job_id = r - 1
            /\ stage = "reduce" => mapDone = 1
        BY Zenon DEF JobsInv, Reduced
      <4>5. \A r \in 1 .. Len(reduceJobs') : reduceJobs'[r].job_id = r - 1
        <5> SUFFICES ASSUME NEW r \in 1 .. Len(reduceJobs') PROVE reduceJobs'[r].job_id = r - 1
          BY Zenon
        <5>1. CASE r \in 1 .. Len(reduceJobs)
          <6>1. r <= Len(reduceJobs)
            BY <5>1, <3>1
          <6> QED
            BY <4>3, <4>4, <5>1, <6>1, Zenon
        <5>2. CASE r \notin 1 .. Len(reduceJobs)
          <6>1. ~(r <= Len(reduceJobs)) /\ r - 1 = Len(reduceJobs)
            BY <3>1, <4>3, <5>2
          <6> QED
            BY <4>2, <4>3, <6>1, Zenon
        <5> QED
          BY <5>1, <5>2, Zenon
      <4>6. Len(reduceJobs') <= nReduce
        <5>1. Len(reduceJobs) < nReduce /\ Len(reduceJobs') = Len(reduceJobs) + 1
          BY <4>1, <4>3, Zenon
        <5> QED
          BY <3>1, <5>1
      <4> QED
        BY <4>1, <4>4, <4>5, <4>6, Zenon DEF Reduced
    <3>4. CASE J!ReducePhaseDone
      <4>1. Len(reduceJobs) <= nReduce
        BY Zenon DEF JobsInv, Reduced
      <4>2. Len(reduceJobs) >= nReduce => Len(reduceJobs) = nReduce
        BY <3>1, <4>1
      <4> QED
        BY <3>4, <4>2, Zenon DEF J!ReducePhaseDone, JobsInv, Reduced
    <3> QED
      BY <1>12, <3>2, <3>3, <3>4, Zenon
  <2> QED
    BY <1>2, <1>6, <2>3, <2>4, Zenon DEF JobsInv
<1>13. CASE J!Exit
  <2>1. /\ stage = "main" /\ stage' = "gone" /\ serving' = FALSE
        /\ UNCHANGED <<reduceJobs, mapDone>>
    BY <1>13, Zenon DEF J!Exit
  <2>2. Progress'
    BY <1>1, <1>9, <2>1, Zenon DEF JobsInv, Progress
  <2>3. Reduced'
    BY <2>1, Zenon DEF JobsInv, Reduced
  <2> QED
    BY <1>2, <1>6, <2>2, <2>3, Zenon DEF JobsInv
<1> QED
  BY <1>10, <1>11, <1>12, <1>13, Zenon

(* A worker reaches only a coordinator that serves. *)
LEMMA WorkerStep ==
  ASSUME JobsInv, NEW w \in Workers,
         J!CallGetJob(w) \/ J!AssignJob(w) \/ J!CallFails(w) \/ J!BackOff(w)
  PROVE  JobsInv'
<1>1. UNCHANGED <<files, size, readable, directory, mapJobs, reduceJobs, mapDone, k, offset,
                  chunkSize, job_id, stage, serving>>
  BY Zenon DEF J!CallGetJob, J!AssignJob, J!CallFails, J!BackOff, J!Coordinator, J!input, J!splitting
<1>2. worker \in [Workers -> {"ask", "calling", "unknown task", "ended"}]
  BY Zenon DEF JobsInv, JobsType
<1>3. /\ worker' \in [Workers -> {"ask", "calling", "unknown task", "ended"}]
      /\ \A v \in Workers : worker'[v] \in Calling => worker[v] \in Calling \/ serving
  BY <1>2, Zenon DEF J!CallGetJob, J!AssignJob, J!CallFails, J!BackOff, J!At, Calling
<1>4. JobsType' /\ JobsSound' /\ Reduced'
  <2>1. JobsType'
    BY <1>1, <1>3, Zenon DEF JobsInv, JobsType
  <2>2. JobsSound'
    BY <1>1, SoundKept, Zenon DEF JobsInv
  <2>3. Reduced'
    BY <1>1, <1>3, Zenon DEF JobsInv, Reduced
  <2> QED
    BY <2>1, <2>2, <2>3, Zenon
<1>6. Progress'
  <2>1. Split(k - 1, 0) => Split(k - 1, 0)'
    BY <1>1, Zenon DEF Split, J!Reading, J!Named
  <2>2. Split(k - 1, offset) => Split(k - 1, offset)'
    BY <1>1, Zenon DEF Split, J!Reading, J!Named
  <2>3. Split(Len(files), 0) => Split(Len(files), 0)'
    BY <1>1, Zenon DEF Split, J!Reading, J!Named
  <2> QED
    BY <1>1, <1>3, <2>1, <2>2, <2>3, Zenon DEF JobsInv, Progress
<1> QED
  BY <1>4, <1>6, Zenon DEF JobsInv

(* For any arguments and files, and whenever workers ask: they find every    *)
(* byte of the input in as many map jobs as the file was named, jobs that    *)
(* are numbered in order and lie within their files, and, at the end, one    *)
(* reduce job for each bucket.                                               *)
THEOREM JobsCover == ASSUME J!ConstantsOK PROVE J!Spec => []J!JobsCoverInput
<1>1. J!Init => JobsInv
  BY JobsStart, Zenon
<1>2. JobsInv /\ [J!Next]_J!vars => JobsInv'
  <2> SUFFICES ASSUME JobsInv, [J!Next]_J!vars PROVE JobsInv'
    BY Zenon
  <2>1. CASE UNCHANGED J!vars
    <3>1. UNCHANGED <<files, size, directory, mapJobs, reduceJobs, mapDone, k, offset,
                      chunkSize, job_id, stage, serving, worker>>
      BY <2>1, Zenon DEF J!vars, J!input, J!splitting
    <3>2. /\ \A f, b : J!Reading(f, b)' = J!Reading(f, b)
          /\ \A f, n : J!Named(f, n)' = J!Named(f, n)
      BY <3>1, Zenon DEF J!Reading, J!Named
    <3>3. (Split(k - 1, 0)' <=> Split(k - 1, 0)) /\ (Split(k - 1, offset)' <=> Split(k - 1, offset))
      BY <3>1, <3>2, Zenon DEF Split
    <3>4. Split(Len(files), 0)' <=> Split(Len(files), 0)
      BY <3>1, <3>2, Zenon DEF Split
    <3>5. Progress'
      BY <3>1, <3>3, <3>4, Zenon DEF JobsInv, Progress
    <3>6. JobsType' /\ JobsSound' /\ Reduced'
      <4>1. JobsType'
        BY <3>1, Zenon DEF JobsInv, JobsType
      <4>2. JobsSound'
        BY <3>1, SoundKept, Zenon DEF JobsInv
      <4>3. Reduced'
        BY <3>1, Zenon DEF JobsInv, Reduced
      <4> QED
        BY <4>1, <4>2, <4>3, Zenon
    <3> QED
      BY <3>5, <3>6, Zenon DEF JobsInv
  <2>2. CASE J!Terminated
    BY <2>1, <2>2, Zenon DEF J!Terminated
  <2> QED
    BY <2>1, <2>2, AddMapJobStep, FileSplitStep, PhaseStep, WorkerStep, Zenon DEF J!Next
<1>3. JobsInv => J!JobsCoverInput
  <2> SUFFICES ASSUME JobsInv PROVE J!JobsCoverInput
    BY Zenon
  <2>1. mapJobs \in Seq(MapJob) /\ files \in Seq(Names)
    BY Zenon DEF JobsInv, JobsType
  <2>2. DOMAIN mapJobs = 1 .. Len(mapJobs) /\ Len(files) \in Nat
    BY <2>1
  <2>3. \A n \in DOMAIN mapJobs :
          /\ mapJobs[n].job_id = 999 + n /\ mapJobs[n].m_size \in 1 .. map_input_size
          /\ mapJobs[n].file_index + mapJobs[n].m_size <= size[mapJobs[n].file_location]
    BY <2>2 DEF JobsInv, JobsSound
  <2>4. ASSUME serving \/ (\E w \in Workers : worker[w] \in {"calling", "unknown task"}),
               NEW f \in Names, NEW b \in 0 .. size[f] - 1
        PROVE  Cardinality(J!Reading(f, b)) = Cardinality(J!Named(f, Len(files)))
    <3>1. Split(Len(files), 0)
      BY <2>4, Zenon DEF JobsInv, Progress, Calling
    <3>2. Cardinality(J!Named(f, Len(files))) \in Nat
      BY <2>2, JobsFinite, FS_CardinalityType, Zenon DEF JobsInv
    <3> QED
      BY <2>2, <3>1, <3>2 DEF Split
  <2>5. ASSUME serving, stage = "main"
        PROVE  /\ mapDone = 1 /\ Len(reduceJobs) = nReduce
               /\ \A r \in 1 .. nReduce : reduceJobs[r].job_id = r - 1
    BY <2>5, Zenon DEF JobsInv, Reduced
  <2> QED
    BY <2>3, <2>4, <2>5, Zenon DEF J!JobsCoverInput, J!Cardinality, Cardinality
<1> QED
  BY <1>1, <1>2, <1>3, PTL DEF J!Spec

=============================================================================
