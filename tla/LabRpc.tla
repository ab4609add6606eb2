------------------------------- MODULE LabRpc -------------------------------
(***************************************************************************)
(* The simulated RPC network of modules/m5/labrpc/labrpc.go: ClientEnd.Call,*)
(* the accepting goroutine of MakeNetwork, one processReq goroutine and one *)
(* handler goroutine for each request, and the operations of Network.       *)
(*                                                                         *)
(* A critical section of Network.mu or Server.mu is one step.  A *Server    *)
(* is a member of Instance, because isServerDead compares pointers.  Delays *)
(* and timers are the freedom to take a step at any time, so longDelays,    *)
(* which only lengthens one delay, has no variable.  The payload of every   *)
(* request and reply counts as one byte.                                    *)
(***************************************************************************)
EXTENDS Naturals, FiniteSets

CONSTANTS
  Call,         \* the calls made during a run, each made once
  End,          \* names of ClientEnds
  ServerName,   \* names servers are registered under
  Instance,     \* *Server values
  nil           \* the nil pointer and the nil name

ASSUME NilAssumption == nil \notin ServerName \cup Instance
ASSUME CallAssumption == IsFiniteSet(Call)

VARIABLES
  ends,         \* Network.ends: "unmade", "live" or "deleted"
  enabled,      \* Network.enabled
  connections,  \* Network.connections
  servers,      \* Network.servers
  made,         \* the Servers that MakeServer has returned
  reliable,     \* Network.reliable
  longReordering, \* Network.longReordering
  done,         \* Network.done is closed
  accepting,    \* the goroutine of MakeNetwork is still running
  count,        \* Network.count
  bytes,        \* Network.bytes
  rpcs,         \* Server.count
  call,         \* where ClientEnd.Call stands, and what it returned
  via,          \* reqMsg.endname
  pc,           \* where processReq stands
  snap,         \* what processReq read with readEndnameInfo
  replyOK,      \* processReq's replyOK
  handler,      \* the goroutine running server.dispatch
  draining,     \* the goroutine that empties ech for an abandoned handler
  finish        \* history: was the server registered when the handler ended

netVars == <<ends, enabled, connections, servers, made, reliable,
             longReordering, done, accepting>>
statVars == <<count, bytes, rpcs>>
reqVars == <<pc, snap, replyOK, handler, draining, finish>>
callVars == <<call, via>>
vars == <<netVars, statVars, callVars, reqVars>>

NoSnap == [servername |-> nil, server |-> nil, reliable |-> TRUE,
           longreordering |-> FALSE]

Snapshot == [servername : ServerName \cup {nil}, server : Instance \cup {nil},
             reliable : BOOLEAN, longreordering : BOOLEAN]

-----------------------------------------------------------------------------
(* MakeNetwork. *)
Init ==
  /\ ends = [e \in End |-> "unmade"]
  /\ enabled = [e \in End |-> FALSE]
  /\ connections = [e \in End |-> nil]
  /\ servers = [s \in ServerName |-> nil]
  /\ made = {}
  /\ reliable = TRUE
  /\ longReordering = FALSE
  /\ done = FALSE
  /\ accepting = TRUE
  /\ count = 0
  /\ bytes = 0
  /\ rpcs = [i \in Instance |-> 0]
  /\ call = [c \in Call |-> "idle"]
  /\ via = [c \in Call |-> nil]
  /\ pc = [c \in Call |-> "none"]
  /\ snap = [c \in Call |-> NoSnap]
  /\ replyOK = [c \in Call |-> FALSE]
  /\ handler = [c \in Call |-> "none"]
  /\ draining = [c \in Call |-> FALSE]
  /\ finish = [c \in Call |-> "none"]

-----------------------------------------------------------------------------
(* Operations of Network, each under Network.mu.  A second MakeEnd of a     *)
(* name, or a DeleteEnd of an unknown one, ends the program: not a step.    *)

MakeEnd(e) ==
  /\ ends[e] # "live"
  /\ ends' = [ends EXCEPT ![e] = "live"]
  /\ enabled' = [enabled EXCEPT ![e] = FALSE]
  /\ connections' = [connections EXCEPT ![e] = nil]
  /\ UNCHANGED <<servers, made, reliable, longReordering, done, accepting>>

DeleteEnd(e) ==
  /\ ends[e] = "live"
  /\ ends' = [ends EXCEPT ![e] = "deleted"]
  /\ enabled' = [enabled EXCEPT ![e] = FALSE]
  /\ connections' = [connections EXCEPT ![e] = nil]
  /\ UNCHANGED <<servers, made, reliable, longReordering, done, accepting>>

(* The Server has just come from MakeServer, as at every call site. *)
AddServer(s, i) ==
  /\ i \notin made
  /\ servers' = [servers EXCEPT ![s] = i]
  /\ made' = made \cup {i}
  /\ UNCHANGED <<ends, enabled, connections, reliable, longReordering,
                 done, accepting>>

DeleteServer(s) ==
  /\ servers' = [servers EXCEPT ![s] = nil]
  /\ UNCHANGED <<ends, enabled, connections, made, reliable, longReordering,
                 done, accepting>>

Connect(e, s) ==
  /\ connections' = [connections EXCEPT ![e] = s]
  /\ UNCHANGED <<ends, enabled, servers, made, reliable, longReordering,
                 done, accepting>>

Enable(e, yes) ==
  /\ enabled' = [enabled EXCEPT ![e] = yes]
  /\ UNCHANGED <<ends, connections, servers, made, reliable, longReordering,
                 done, accepting>>

Reliable(yes) ==
  /\ reliable' = yes
  /\ UNCHANGED <<ends, enabled, connections, servers, made, longReordering,
                 done, accepting>>

LongReordering(yes) ==
  /\ longReordering' = yes
  /\ UNCHANGED <<ends, enabled, connections, servers, made, reliable, done,
                 accepting>>

(* close(rn.done); closing it twice would panic. *)
Cleanup ==
  /\ ~done
  /\ done' = TRUE
  /\ UNCHANGED <<ends, enabled, connections, servers, made, reliable,
                 longReordering, accepting>>

NetworkOp ==
  /\ \/ \E e \in End : MakeEnd(e) \/ DeleteEnd(e)
     \/ \E s \in ServerName, i \in Instance : AddServer(s, i)
     \/ \E s \in ServerName : DeleteServer(s)
     \/ \E e \in End, s \in ServerName : Connect(e, s)
     \/ \E e \in End, yes \in BOOLEAN : Enable(e, yes)
     \/ \E yes \in BOOLEAN : Reliable(yes) \/ LongReordering(yes)
     \/ Cleanup
  /\ UNCHANGED <<statVars, callVars, reqVars>>

-----------------------------------------------------------------------------
(* ClientEnd.Call and the accepting goroutine. *)

(* The caller holds the ClientEnd that some MakeEnd returned. *)
CallBegin(c, e) ==
  /\ call[c] = "idle"
  /\ ends[e] # "unmade"
  /\ call' = [call EXCEPT ![c] = "sending"]
  /\ via' = [via EXCEPT ![c] = e]
  /\ UNCHANGED <<netVars, statVars, reqVars>>

(* e.ch <- req meets xreq := <-rn.endCh, which starts processReq. *)
Accept(c) ==
  /\ call[c] = "sending"
  /\ accepting
  /\ call' = [call EXCEPT ![c] = "waiting"]
  /\ pc' = [pc EXCEPT ![c] = "start"]
  /\ count' = count + 1
  /\ bytes' = bytes + 1
  /\ UNCHANGED <<netVars, rpcs, via, snap, replyOK, handler, draining, finish>>

(* Mutant: the select has no case for a destroyed network. *)
CallNeverDestroyed(c) == FALSE

(* case <-e.done *)
CallDestroyed(c) ==
  /\ call[c] = "sending"
  /\ done
  /\ call' = [call EXCEPT ![c] = "false"]
  /\ UNCHANGED <<netVars, statVars, via, reqVars>>

(* case <-rn.done *)
StopAccepting ==
  /\ done /\ accepting
  /\ accepting' = FALSE
  /\ UNCHANGED <<ends, enabled, connections, servers, made, reliable,
                 longReordering, done, statVars, callVars, reqVars>>

-----------------------------------------------------------------------------
(* processReq. *)

(* Mutant: a server that was replaced under the same name passes for alive.*)
isServerNameDead(c) ==
  \/ ~enabled[via[c]]
  \/ servers[snap[c].servername] = nil

isServerDead(c) ==
  \/ ~enabled[via[c]]
  \/ servers[snap[c].servername] # snap[c].server

(* The snapshot, taken under the lock, decides between the two branches. *)
readEndnameInfo(c) ==
  LET name == connections[via[c]]
      server == IF name = nil THEN nil ELSE servers[name]
  IN  /\ pc[c] = "start"
      /\ snap' = [snap EXCEPT ![c] = [servername |-> name, server |-> server,
                    reliable |-> reliable, longreordering |-> longReordering]]
      /\ pc' = [pc EXCEPT ![c] = IF enabled[via[c]] /\ name # nil /\ server # nil
                                 THEN "request" ELSE "refuse"]
      /\ UNCHANGED <<netVars, statVars, callVars, replyOK, handler, draining,
                     finish>>

DropRequest(c) ==
  /\ pc[c] = "request"
  /\ ~snap[c].reliable
  /\ pc' = [pc EXCEPT ![c] = "refuse"]
  /\ UNCHANGED <<netVars, statVars, callVars, snap, replyOK, handler, draining,
                 finish>>

StartHandler(c) ==
  /\ pc[c] = "request"
  /\ pc' = [pc EXCEPT ![c] = "wait"]
  /\ handler' = [handler EXCEPT ![c] = "spawned"]
  /\ UNCHANGED <<netVars, statVars, callVars, snap, replyOK, draining, finish>>

(* reply = <-ech *)
ReceiveResult(c) ==
  /\ pc[c] = "wait"
  /\ handler[c] = "finished"
  /\ pc' = [pc EXCEPT ![c] = "check"]
  /\ replyOK' = [replyOK EXCEPT ![c] = TRUE]
  /\ handler' = [handler EXCEPT ![c] = "gone"]
  /\ UNCHANGED <<netVars, statVars, callVars, snap, draining, finish>>

(* Mutant: the abandoned handler's channel is never emptied. *)
WaitTimeoutNoDrain(c) ==
  /\ pc[c] = "wait"
  /\ isServerDead(c)
  /\ pc' = [pc EXCEPT ![c] = "check"]
  /\ UNCHANGED <<netVars, statVars, callVars, snap, replyOK, handler, draining,
                 finish>>

(* Mutant: the timer only notices servers whose end was disabled. *)
WaitTimeoutDisabledOnly(c) ==
  /\ pc[c] = "wait"
  /\ ~enabled[via[c]]
  /\ pc' = [pc EXCEPT ![c] = "check"]
  /\ draining' = [draining EXCEPT ![c] = TRUE]
  /\ UNCHANGED <<netVars, statVars, callVars, snap, replyOK, handler, finish>>

(* The 100 ms timer: stop waiting if the server is gone, else wait again. *)
WaitTimeout(c) ==
  /\ pc[c] = "wait"
  /\ isServerDead(c)
  /\ pc' = [pc EXCEPT ![c] = "check"]
  /\ draining' = [draining EXCEPT ![c] = TRUE]
  /\ UNCHANGED <<netVars, statVars, callVars, snap, replyOK, handler, finish>>

(* Mutant: a result that has arrived is sent without asking again whether  *)
(* the server is dead.                                                     *)
FinalCheckOnce(c) ==
  /\ pc[c] = "check"
  /\ \/ /\ ~replyOK[c] \/ ~snap[c].reliable
        /\ pc' = [pc EXCEPT ![c] = "refuse"]
     \/ /\ replyOK[c]
        /\ pc' = [pc EXCEPT ![c] = "reply"]
  /\ UNCHANGED <<netVars, statVars, callVars, snap, replyOK, handler, draining,
                 finish>>

(* The second isServerDead, and the draws that choose what becomes of the  *)
(* reply: refused, dropped, delayed by AfterFunc, or sent.                 *)
FinalCheck(c) ==
  /\ pc[c] = "check"
  /\ \/ /\ ~replyOK[c] \/ isServerDead(c) \/ ~snap[c].reliable
        /\ pc' = [pc EXCEPT ![c] = "refuse"]
     \/ /\ replyOK[c] /\ ~isServerDead(c)
        /\ \/ snap[c].longreordering /\ pc' = [pc EXCEPT ![c] = "delay"]
           \/ pc' = [pc EXCEPT ![c] = "reply"]
  /\ UNCHANGED <<netVars, statVars, callVars, snap, replyOK, handler, draining,
                 finish>>

(* req.replyCh <- reply, from processReq or from the AfterFunc timer. *)
SendReply(c) ==
  /\ pc[c] \in {"delay", "reply"}
  /\ bytes' = bytes + 1
  /\ call' = [call EXCEPT ![c] = "true"]
  /\ pc' = [pc EXCEPT ![c] = "end"]
  /\ UNCHANGED <<netVars, count, rpcs, via, snap, replyOK, handler, draining,
                 finish>>

(* req.replyCh <- replyMsg{false, nil}, at once or after a delay. *)
SendFailure(c) ==
  /\ pc[c] = "refuse"
  /\ call' = [call EXCEPT ![c] = "false"]
  /\ pc' = [pc EXCEPT ![c] = "end"]
  /\ UNCHANGED <<netVars, statVars, via, snap, replyOK, handler, draining,
                 finish>>

-----------------------------------------------------------------------------
(* The handler goroutine: server.dispatch(req), then ech <- r. *)

Dispatch(c) ==
  /\ handler[c] = "spawned"
  /\ handler' = [handler EXCEPT ![c] = "running"]
  /\ rpcs' = [rpcs EXCEPT ![snap[c].server] = @ + 1]
  /\ UNCHANGED <<netVars, count, bytes, callVars, pc, snap, replyOK, draining,
                 finish>>

(* The service's method has had its effect and returns. *)
HandlerReturns(c) ==
  /\ handler[c] = "running"
  /\ handler' = [handler EXCEPT ![c] = "finished"]
  /\ finish' = [finish EXCEPT ![c] =
                  IF servers[snap[c].servername] = snap[c].server
                  THEN "live" ELSE "late"]
  /\ UNCHANGED <<netVars, statVars, callVars, pc, snap, replyOK, draining>>

(* <-ech in the draining goroutine, so that the handler's can end. *)
Drain(c) ==
  /\ draining[c]
  /\ handler[c] = "finished"
  /\ handler' = [handler EXCEPT ![c] = "gone"]
  /\ draining' = [draining EXCEPT ![c] = FALSE]
  /\ UNCHANGED <<netVars, statVars, callVars, pc, snap, replyOK, finish>>

-----------------------------------------------------------------------------
Process(c) ==
  \/ readEndnameInfo(c) \/ DropRequest(c) \/ StartHandler(c)
  \/ ReceiveResult(c) \/ WaitTimeout(c) \/ FinalCheck(c)
  \/ SendReply(c) \/ SendFailure(c)

Goroutine(c) ==
  \/ Accept(c) \/ CallDestroyed(c) \/ Process(c) \/ Dispatch(c) \/ Drain(c)

Next ==
  \/ NetworkOp
  \/ StopAccepting
  \/ \E c \in Call :
       \/ \E e \in End : CallBegin(c, e)
       \/ Goroutine(c)
       \/ HandlerReturns(c)

Spec == Init /\ [][Next]_vars
(* The Go scheduler runs every goroutine that can run, and timers fire. *)
GoroutineFairness ==
  /\ WF_vars(StopAccepting)
  /\ \A c \in Call :
       /\ WF_vars(Accept(c) \/ CallDestroyed(c))
       /\ WF_vars(Process(c))
       /\ WF_vars(Dispatch(c))
       /\ WF_vars(Drain(c))

(* Handlers may hang: what the network owes a caller even then. *)
FairSpec == Spec /\ GoroutineFairness

-----------------------------------------------------------------------------
(* Every variable of the network keeps its type. *)
TypeOK ==
  /\ ends \in [End -> {"unmade", "live", "deleted"}]
  /\ enabled \in [End -> BOOLEAN]
  /\ connections \in [End -> ServerName \cup {nil}]
  /\ servers \in [ServerName -> Instance \cup {nil}]
  /\ made \in SUBSET Instance
  /\ reliable \in BOOLEAN /\ longReordering \in BOOLEAN
  /\ done \in BOOLEAN /\ accepting \in BOOLEAN
  /\ count \in Nat /\ bytes \in Nat
  /\ rpcs \in [Instance -> Nat]
  /\ call \in [Call -> {"idle", "sending", "waiting", "true", "false"}]
  /\ via \in [Call -> End \cup {nil}]
  /\ pc \in [Call -> {"none", "start", "request", "wait", "check", "delay",
                      "reply", "refuse", "end"}]
  /\ snap \in [Call -> Snapshot]
  /\ replyOK \in [Call -> BOOLEAN]
  /\ handler \in [Call -> {"none", "spawned", "running", "finished", "gone"}]
  /\ draining \in [Call -> BOOLEAN]
  /\ finish \in [Call -> {"none", "live", "late"}]

(* A caller that is told TRUE knows that the handler finished while its    *)
(* server was still registered, whatever AddServer, DeleteServer and       *)
(* Enable did between the snapshot, the handler's return and the reply     *)
(* (labrpc.go:266-271: no positive reply for an update that went to a      *)
(* superseded Persister).                                                  *)
PositiveReplyDurable ==
  \A c \in Call : call[c] = "true" => finish[c] = "live"

(* The variable of RpcPromise that is not one of the network's. *)
Outcome ==
  [c \in Call |-> IF call[c] \in {"sending", "waiting"} THEN "pending"
                 ELSE call[c]]

Promise == INSTANCE RpcPromise WITH outcome <- Outcome, effect <- finish

(* The network implements RpcPromise: at most one execution and at most    *)
(* one answer for each call, and TRUE only for a durable execution.        *)
ImplementsPromise == Promise!Spec

(* Call() is guaranteed to return unless the handler does not              *)
(* (labrpc.go:35-38), through lost messages, removed servers, deleted ends *)
(* and Cleanup.                                                            *)
CallReturns ==
  \A c \in Call :
    []<>(handler[c] # "running")
      => (call[c] = "sending" ~> call[c] \in {"true", "false"})

(* A caller whose handler hangs is still answered once the server has been *)
(* removed or replaced: the periodic check of processReq sees it.          *)
HungCallReleased ==
  \A c \in Call :
    (pc[c] = "wait" /\ servers[snap[c].servername] # snap[c].server)
      ~> call[c] \in {"true", "false"}

(* A handler that returns never stays blocked on ech, even if processReq   *)
(* gave up on it before (labrpc.go:259-261).                               *)
HandlerGoroutineEnds ==
  \A c \in Call : handler[c] = "finished" ~> handler[c] = "gone"
=============================================================================
