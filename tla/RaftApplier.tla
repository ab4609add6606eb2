----------------------------- MODULE RaftApplier -----------------------------
(***************************************************************************)
(* How the tester of modules/m5/raft/config.go finds out what the Raft      *)
(* servers agree on: applier and applierSnap, one goroutine for each        *)
(* instance of a server, checkLogs and ingestSnap, and one() with           *)
(* nCommitted.  A restart leaves the goroutine of the previous instance     *)
(* running.  (RaftHarness has crash1 and start1 in detail.)                 *)
(*                                                                         *)
(* Raft is external.  If Correct, an instance sends the chosen commands in  *)
(* order and nothing once it is killed; otherwise it sends any command.     *)
(* Either way snapshots are ones that an applierSnap has made.  cfg.maxIndex*)
(* is left out, and so is entry 0, which snapshots hold and nobody asks for.*)
(***************************************************************************)
EXTENDS Integers, Sequences, FiniteSets

CONSTANTS
    N,              \* cfg.n
    Restarted,      \* the servers that the test crashes and restarts
    MaxStarts,      \* how often each of them is started
    MaxSent,        \* how many messages the Raft instances send
    MaxIndex,       \* of a log entry
    Commands,       \* the values of entries; Submitted is one of them
    Submitted,      \* the command of one()
    Expected,       \* the numbers of servers it is called for
    Interval,       \* SnapShotInterval
    Snap,           \* the kinds of test: with snapshots or without
    Correct

(* What the constants have to satisfy. *)
ConstantsOK ==
    /\ N \in Nat \ {0} /\ MaxStarts \in Nat \ {0} /\ MaxIndex \in Nat
    /\ Expected \subseteq Nat /\ "absent" \notin Commands

Server == 1 .. N
Index == 1 .. MaxIndex
Instance == Server \X (1 .. MaxStarts)
NoMsg == [kind |-> "none"]

VARIABLES
    snap,               \* whether the appliers are applierSnap
    logs, lastApplied,  \* cfg.logs, cfg.lastApplied
    starts, rafts,      \* number of starts; cfg.rafts[i]: a start, 0 for nil
    saved,              \* the snapshot in cfg.saved[i]
    next,               \* of a Raft instance: the index it applies next
    pc, msg, err, rf,   \* of the applier of an instance
    sent,               \* number of messages sent
    taken,              \* snapshots given to Raft
    ever,               \* entries that were ever in logs[i]
    back,               \* whether a snapshot has ever shortened a log
    tester,             \* the goroutine of the test, in one() or not
    status              \* "running" or "fatal"

tested == <<logs, lastApplied, starts, rafts, saved, next, sent, taken, ever, back>>
vars == <<snap, tested, pc, msg, err, rf, tester, status>>

Absent == "absent"
Nothing == [k \in Index |-> Absent]
Entries(log) == {<<k, log[k]>> : k \in {j \in Index : log[j] # Absent}}

Waiting == [at |-> "idle", index |-> 0, expected |-> 0, i |-> 0, count |-> 0, cmd |-> Absent]

First == IF snap THEN "begin" ELSE "wait"

Init ==
    /\ snap \in Snap
    /\ logs = [i \in Server |-> Nothing] /\ lastApplied = [i \in Server |-> 0]
    /\ starts = [i \in Server |-> 1] /\ rafts = [i \in Server |-> 1]
    /\ saved = [i \in Server |-> <<>>] /\ next = [r \in Instance |-> 1]
    /\ pc = [r \in Instance |-> IF r[2] = 1 THEN First ELSE "none"]
    /\ msg = [r \in Instance |-> NoMsg] /\ err = [r \in Instance |-> FALSE]
    /\ rf = [r \in Instance |-> 0]
    /\ sent = 0 /\ taken = {} /\ ever = [i \in Server |-> {}] /\ back = FALSE
    /\ tester = Waiting /\ status = "running"

-----------------------------------------------------------------------------
(* The appliers *)
Goto(r, from, to) ==
    /\ status = "running" /\ pc[r] = from
    /\ pc' = [pc EXCEPT ![r] = to]

(* applierSnap fetches its Raft instance, which may be gone by now. *)
Begin(r) ==
    /\ Goto(r, "begin", IF rafts[r[1]] = 0 THEN "gone" ELSE "wait")
    /\ rf' = [rf EXCEPT ![r] = rafts[r[1]]]
    /\ UNCHANGED <<snap, tested, msg, err, tester, status>>

(* Raft sends a command.  applierSnap compares its index with lastApplied,  *)
(* for which it does not take the lock.                                     *)
SendCommand(r, k, v) ==
    /\ sent < MaxSent /\ sent' = sent + 1
    /\ Correct => k = next[r] /\ rafts[r[1]] = r[2] /\ v = Submitted
    /\ next' = [next EXCEPT ![r] = IF Correct THEN k + 1 ELSE @]
    /\ msg' = [msg EXCEPT ![r] = [kind |-> "command", index |-> k, command |-> v]]
    /\ LET misplaced == snap /\ k # lastApplied[r[1]] + 1
       IN /\ Goto(r, "wait", IF misplaced THEN "set" ELSE "check")
          /\ err' = [err EXCEPT ![r] = misplaced]
    /\ UNCHANGED <<snap, logs, lastApplied, starts, rafts, saved, taken, ever, back, rf, tester, status>>

(* Raft sends a snapshot, which it has saved. *)
SendSnapshot(r, s, k) ==
    LET i == r[1] IN
    /\ sent < MaxSent /\ sent' = sent + 1
    /\ Correct => k = Len(s) /\ k >= next[r] /\ rafts[i] = r[2]
    /\ Goto(r, "wait", "ingest")
    /\ next' = [next EXCEPT ![r] = IF Correct THEN Len(s) + 1 ELSE @]
    /\ saved' = [saved EXCEPT ![i] = IF rafts[i] = r[2] /\ Len(s) > Len(@) THEN s ELSE @]
    /\ msg' = [msg EXCEPT ![r] = [kind |-> "snapshot", index |-> k, snapshot |-> s]]
    /\ UNCHANGED <<snap, logs, lastApplied, starts, rafts, taken, ever, back, err, rf, tester, status>>

Restored(s) == [k \in Index |-> IF k <= Len(s) THEN s[k] ELSE Absent]

(* ingestSnap *)
Ingest(r) ==
    LET i == r[1]
        s == msg[r].snapshot
        same == msg[r].index = Len(s)
    IN /\ Goto(r, "ingest", IF same THEN "wait" ELSE "end")
       /\ err' = [err EXCEPT ![r] = ~same]
       /\ msg' = [msg EXCEPT ![r] = NoMsg]
       /\ IF same
          THEN /\ logs' = [logs EXCEPT ![i] = Restored(s)]
               /\ lastApplied' = [lastApplied EXCEPT ![i] = Len(s)]
               /\ ever' = [ever EXCEPT ![i] = @ \cup Entries(Restored(s))]
               /\ back' = (back \/ \E k \in Index : k > Len(s) /\ logs[i][k] # Absent)
          ELSE UNCHANGED <<logs, lastApplied, ever, back>>
       /\ UNCHANGED <<snap, starts, rafts, saved, next, sent, taken, rf, tester, status>>

(* Mutant: a server is only compared with itself. *)
Conflict_own(i, k, v) == logs[i][k] \notin {Absent, v}

Conflict(i, k, v) == \E j \in Server : logs[j][k] \notin {Absent, v}

(* checkLogs, and the applier's test of prevok. *)
checkLogs(r) ==
    LET i == r[1]
        k == msg[r].index
        v == msg[r].command
        bad == Conflict(i, k, v) \/ (k > 1 /\ logs[i][k - 1] = Absent)
    IN /\ Goto(r, "check", IF snap THEN "set" ELSE IF bad THEN "end" ELSE "wait")
       /\ err' = [err EXCEPT ![r] = bad]
       /\ logs' = [logs EXCEPT ![i][k] = v]
       /\ ever' = [ever EXCEPT ![i] = @ \cup {<<k, v>>}]
       /\ msg' = [msg EXCEPT ![r] = IF snap THEN @ ELSE NoMsg]
       /\ UNCHANGED <<snap, lastApplied, starts, rafts, saved, next, sent, taken, back, rf, tester, status>>

Done(r) == IF err[r] THEN "end" ELSE "wait"

(* applierSnap records the index, whether or not it was the right one. *)
SetLastApplied(r) ==
    LET due == (msg[r].index + 1) % Interval = 0
    IN /\ Goto(r, "set", IF due THEN "snapshot" ELSE Done(r))
       /\ lastApplied' = [lastApplied EXCEPT ![r[1]] = msg[r].index]
       /\ msg' = [msg EXCEPT ![r] = IF due THEN @ ELSE NoMsg]
       /\ UNCHANGED <<snap, logs, starts, rafts, saved, next, sent, taken, ever, back, err, rf, tester, status>>

(* It copies the log, without the lock, for its Raft instance to save: a    *)
(* missing entry becomes nil.                                               *)
TakeSnapshot(r) ==
    LET i == r[1]
        xlog == [k \in 1 .. msg[r].index |-> IF logs[i][k] = Absent THEN "nil" ELSE logs[i][k]]
        current == rafts[i] = rf[r]
    IN /\ Goto(r, "snapshot", Done(r))
       /\ saved' = [saved EXCEPT ![i] = IF current /\ Len(xlog) > Len(@) THEN xlog ELSE @]
       /\ taken' = IF current THEN taken \cup {xlog} ELSE taken
       /\ msg' = [msg EXCEPT ![r] = NoMsg]
       /\ UNCHANGED <<snap, logs, lastApplied, starts, rafts, next, sent, ever, back, err, rf, tester, status>>

(* log.Fatalf *)
ApplyError(r) ==
    /\ Goto(r, "end", "end") /\ tester' = Waiting /\ status' = "fatal"
    /\ UNCHANGED <<snap, tested, msg, err, rf>>

-----------------------------------------------------------------------------
(* The test *)
crash1(i) ==
    /\ status = "running" /\ tester.at = "idle" /\ rafts[i] # 0 /\ i \in Restarted
    /\ rafts' = [rafts EXCEPT ![i] = 0]
    /\ UNCHANGED <<snap, logs, lastApplied, starts, saved, next, sent, taken, ever, back, pc, msg, err, rf, tester,
                   status>>

start1(i) ==
    LET r == <<i, starts[i] + 1>> IN
    /\ status = "running" /\ tester.at = "idle" /\ rafts[i] = 0 /\ starts[i] < MaxStarts
    /\ starts' = [starts EXCEPT ![i] = @ + 1] /\ rafts' = [rafts EXCEPT ![i] = starts[i] + 1]
    /\ lastApplied' = [lastApplied EXCEPT ![i] = Len(saved[i])]
    /\ IF saved[i] = <<>> THEN UNCHANGED <<logs, ever>>
       ELSE /\ logs' = [logs EXCEPT ![i] = Restored(saved[i])]
            /\ ever' = [ever EXCEPT ![i] = @ \cup Entries(Restored(saved[i]))]
    /\ next' = [next EXCEPT ![r] = Len(saved[i]) + 1]
    /\ pc' = [pc EXCEPT ![r] = First]
    /\ UNCHANGED <<snap, saved, sent, taken, back, msg, err, rf, tester, status>>

Proceed(from, to) ==
    /\ status = "running" /\ tester.at = from /\ tester' = to
    /\ UNCHANGED <<snap, tested, pc, msg, err, rf>>

(* t.Fatalf ends the test. *)
Fail(from) == Proceed(from, Waiting) /\ status' = "fatal"

(* A round of one(): a server claims to be the leader and names an index.   *)
Submit(from, n) ==
    /\ \E k \in Index : Proceed(from, [Waiting EXCEPT !.at = "count", !.index = k, !.expected = n,
                                                     !.i = 1])
    /\ UNCHANGED status

(* one() is called for a number of servers; it fails if no server claims to *)
(* be the leader for ten seconds.                                           *)
one == (\E n \in Expected : Submit("idle", n)) \/ Fail("idle")

(* Mutant: values are not compared. *)
Differs_never(cmd1) == FALSE

Differs(cmd1) == tester.count > 0 /\ tester.cmd # cmd1

(* What nCommitted knows after server tester.i, whose log it has looked at  *)
(* under the lock.                                                          *)
Counted ==
    LET cmd1 == logs[tester.i][tester.index]
    IN IF cmd1 = Absent THEN [tester EXCEPT !.i = @ + 1]
       ELSE [tester EXCEPT !.i = @ + 1, !.count = @ + 1, !.cmd = cmd1]

Decided == Counted.count >= tester.expected /\ Counted.cmd = Submitted

(* nCommitted looks at one server.  After the last, one() returns, looks    *)
(* again, or after two seconds submits the command again (if retry is set)  *)
(* or fails.                                                                *)
nCommitted ==
    /\ tester.at = "count"
    /\ LET cmd1 == logs[tester.i][tester.index]
           wrong == cmd1 # Absent /\ Differs(cmd1)
       IN \/ wrong /\ Fail("count")
          \/ ~wrong /\ tester.i # N /\ Proceed("count", Counted) /\ UNCHANGED status
          \/ /\ ~wrong /\ tester.i = N /\ Decided
             /\ Proceed("count", [Counted EXCEPT !.at = "returned"]) /\ UNCHANGED status
          \/ /\ ~wrong /\ tester.i = N /\ ~Decided
             /\ \/ /\ Proceed("count", [tester EXCEPT !.i = 1, !.count = 0, !.cmd = Absent])
                   /\ UNCHANGED status
                \/ Submit("count", tester.expected)
                \/ Fail("count")

Return == Proceed("returned", Waiting) /\ UNCHANGED status

Next ==
    \/ \E r \in Instance :
         \/ Begin(r) \/ Ingest(r) \/ checkLogs(r) \/ SetLastApplied(r) \/ TakeSnapshot(r)
         \/ ApplyError(r)
         \/ \E k \in Index, v \in Commands : SendCommand(r, k, v)
         \/ \E s \in taken, k \in Index : SendSnapshot(r, s, k)
    \/ \E i \in Server : crash1(i) \/ start1(i)
    \/ one \/ nCommitted \/ Return

Spec == Init /\ [][Next]_vars

-----------------------------------------------------------------------------
(* Unless an applier is about to report an error, the logs the tester has   *)
(* recorded have no gaps, and they agree: although only commands, and never *)
(* snapshots, are compared with the logs, appliers of earlier instances     *)
(* write to the same logs, and a restart takes a log back to the snapshot   *)
(* that was saved.  They need not agree once Raft has sent a snapshot older *)
(* than the log, which ingestSnap accepts: entries that are compared with   *)
(* that log afterwards are not compared with what it has lost.              *)
DisagreementCaught ==
    status = "running" /\ (\A r \in Instance : ~err[r]) =>
      \A i \in Server, k \in Index : logs[i][k] # Absent =>
        /\ back \/ \A j \in Server : logs[j][k] \in {Absent, logs[i][k]}
        /\ k > 1 => logs[i][k - 1] # Absent

(* When one() returns an index, as many servers as it was asked for have    *)
(* applied its command there, although nCommitted looks at one server after *)
(* another while their logs change, and the command may have been submitted *)
(* more than once.                                                          *)
OneSound ==
    tester.at = "returned" =>
      Cardinality({i \in Server : <<tester.index, Submitted>> \in ever[i]}) >= tester.expected

(* start1 is to "isolate previous instance of this server": with a correct  *)
(* Raft no applier reports an error.                                        *)
PreviousIsolated == \A r \in Instance : ~err[r]
=============================================================================
