---------------------------- MODULE LabRpcProofs ----------------------------
(***************************************************************************)
(* Proofs about LabRpc for any number of calls, ends, names and servers:    *)
(* its type invariant, the durability of positive replies, and that it      *)
(* implements RpcPromise.                                                   *)
(***************************************************************************)
EXTENDS LabRpc, TLAPS

(* A name is registered for a Server that MakeServer returned. *)
RegisteredMade == \A s \in ServerName : servers[s] \in made \cup {nil}

(* How the caller, processReq and the handler of one request stand to each  *)
(* other.  The durability argument is in the last three conjuncts: a server *)
(* that was gone when the handler ended is never registered again, so the   *)
(* second isServerDead lets only "live" results through.                    *)
RequestInv(c) ==
  /\ call[c] # "idle" => via[c] \in End
  /\ call[c] \in {"idle", "sending"} => pc[c] = "none"
  /\ call[c] = "waiting" <=> pc[c] \notin {"none", "end"}
  /\ pc[c] \in {"none", "start", "request"} => handler[c] = "none"
  /\ pc[c] \in {"request", "wait", "check"} \/ handler[c] # "none" =>
       snap[c].servername \in ServerName /\ snap[c].server \in made
  /\ finish[c] = "none" <=> handler[c] \in {"none", "spawned", "running"}
  /\ replyOK[c] => handler[c] = "gone"
  /\ finish[c] = "late" => servers[snap[c].servername] # snap[c].server
  /\ pc[c] \in {"delay", "reply"} => finish[c] = "live" /\ handler[c] = "gone"
  /\ call[c] = "true" => finish[c] = "live" /\ handler[c] = "gone"

IndInv == TypeOK /\ RegisteredMade /\ \A c \in Call : RequestInv(c)

LEMMA InitInd == Init => IndInv
<1> SUFFICES ASSUME Init PROVE IndInv
  BY Zenon
<1>1. NoSnap \in Snapshot
  BY Zenon DEF NoSnap, Snapshot
<1>2. /\ reliable \in BOOLEAN /\ longReordering \in BOOLEAN
      /\ done \in BOOLEAN /\ accepting \in BOOLEAN
  BY Zenon DEF Init
<1>3. TypeOK
  BY <1>1, <1>2, Zenon DEF Init, TypeOK
<1>4. RegisteredMade
  BY Zenon DEF Init, RegisteredMade
<1>5. ASSUME NEW c \in Call PROVE RequestInv(c)
  BY Zenon DEF Init, RequestInv
<1> QED
  BY <1>3, <1>4, <1>5, Zenon DEF IndInv

(* The operations of Network keep the invariant: no name ever gets back a   *)
(* server that was removed from it.                                         *)
LEMMA NetworkOpInd ==
  ASSUME IndInv, NetworkOp
  PROVE  IndInv'
<1> USE DEF IndInv, netVars, statVars, callVars, reqVars
<1>1. TypeOK'
  <2>1. ends' \in [End -> {"unmade", "live", "deleted"}]
    BY DEF TypeOK, NetworkOp, MakeEnd, DeleteEnd, AddServer, DeleteServer,
           Connect, Enable, Reliable, LongReordering, Cleanup
  <2>2. enabled' \in [End -> BOOLEAN]
    BY Zenon DEF TypeOK, NetworkOp, MakeEnd, DeleteEnd, AddServer, DeleteServer,
           Connect, Enable, Reliable, LongReordering, Cleanup
  <2>3. connections' \in [End -> ServerName \cup {nil}]
    BY Zenon DEF TypeOK, NetworkOp, MakeEnd, DeleteEnd, AddServer, DeleteServer,
           Connect, Enable, Reliable, LongReordering, Cleanup
  <2>4. servers' \in [ServerName -> Instance \cup {nil}]
    BY Zenon DEF TypeOK, NetworkOp, MakeEnd, DeleteEnd, AddServer, DeleteServer,
           Connect, Enable, Reliable, LongReordering, Cleanup
  <2>5. made' \in SUBSET Instance
    BY DEF TypeOK, NetworkOp, MakeEnd, DeleteEnd, AddServer, DeleteServer,
           Connect, Enable, Reliable, LongReordering, Cleanup
  <2>6. /\ reliable' \in BOOLEAN /\ longReordering' \in BOOLEAN
        /\ done' \in BOOLEAN /\ accepting' \in BOOLEAN
    BY Zenon DEF TypeOK, NetworkOp, MakeEnd, DeleteEnd, AddServer, DeleteServer,
           Connect, Enable, Reliable, LongReordering, Cleanup
  <2>7. UNCHANGED <<statVars, callVars, reqVars>>
    BY Zenon DEF NetworkOp
  <2> QED
    BY <2>1, <2>2, <2>3, <2>4, <2>5, <2>6, <2>7, ZenonT(30) DEF TypeOK
<1>2. made \subseteq made' /\ RegisteredMade'
  BY Zenon DEF TypeOK, RegisteredMade, NetworkOp, MakeEnd, DeleteEnd, AddServer,
         DeleteServer, Connect, Enable, Reliable, LongReordering, Cleanup
<1>3. ASSUME NEW s \in ServerName, NEW r \in made, servers[s] # r
      PROVE  servers'[s] # r
  BY <1>3, NilAssumption
  DEF TypeOK, NetworkOp, MakeEnd, DeleteEnd, AddServer, DeleteServer, Connect,
      Enable, Reliable, LongReordering, Cleanup
<1>4. UNCHANGED <<callVars, reqVars>>
  BY Zenon DEF NetworkOp
<1>5. ASSUME NEW c \in Call PROVE RequestInv(c)'
  BY <1>2, <1>3, <1>4, Zenon DEF RequestInv, TypeOK
<1> QED
  BY <1>1, <1>2, <1>5, Zenon

(* The caller's steps and the accepting goroutine's. *)
LEMMA CallerInd ==
  ASSUME IndInv, NEW c \in Call,
         \/ \E e \in End : CallBegin(c, e)
         \/ Accept(c)
         \/ CallDestroyed(c)
  PROVE  IndInv'
<1> USE DEF IndInv, netVars, statVars, callVars, reqVars
<1>1. TypeOK'
  <2>1. ASSUME NEW e \in End, CallBegin(c, e) PROVE TypeOK'
    BY <2>1, Zenon DEF TypeOK, CallBegin
  <2>2. CASE Accept(c)
    BY <2>2 DEF TypeOK, Accept
  <2>3. CASE CallDestroyed(c)
    BY <2>3, Zenon DEF TypeOK, CallDestroyed
  <2> QED
    BY <2>1, <2>2, <2>3, Zenon
<1>2. RegisteredMade'
  BY Zenon DEF RegisteredMade, CallBegin, Accept, CallDestroyed
<1>3. ASSUME NEW d \in Call PROVE RequestInv(d)'
  <2>1. ASSUME NEW e \in End, CallBegin(c, e) PROVE RequestInv(d)'
    BY <2>1, Zenon DEF RequestInv, TypeOK, CallBegin
  <2>2. CASE Accept(c)
    BY <2>2, Zenon DEF RequestInv, TypeOK, Accept
  <2>3. CASE CallDestroyed(c)
    BY <2>3, Zenon DEF RequestInv, TypeOK, CallDestroyed
  <2> QED
    BY <2>1, <2>2, <2>3, Zenon
<1> QED
  BY <1>1, <1>2, <1>3, Zenon

(* The snapshot holds a server that was made, whichever branch is taken. *)
LEMMA SnapshotInd ==
  ASSUME IndInv, NEW c \in Call, readEndnameInfo(c)
  PROVE  IndInv'
<1> USE DEF IndInv, netVars, statVars, callVars, reqVars
<1> DEFINE name == connections[via[c]]
           server == IF name = nil THEN nil ELSE servers[name]
<1>1. via[c] \in End
  BY Zenon DEF readEndnameInfo, RequestInv, TypeOK
<1>2. name \in ServerName \cup {nil} /\ server \in made \cup {nil}
  BY <1>1, Zenon DEF TypeOK, RegisteredMade
<1>3. snap' \in [Call -> Snapshot]
  <2>1. reliable \in BOOLEAN /\ longReordering \in BOOLEAN
        /\ made \subseteq Instance
    BY Zenon DEF TypeOK
  <2>2. [servername |-> name, server |-> server, reliable |-> reliable,
         longreordering |-> longReordering] \in Snapshot
    BY <1>2, <2>1, Zenon DEF Snapshot
  <2> QED
    BY <2>2, Zenon DEF readEndnameInfo, TypeOK
<1>4. TypeOK'
  BY <1>3, Zenon DEF readEndnameInfo, TypeOK
<1>5. RegisteredMade'
  BY Zenon DEF readEndnameInfo, RegisteredMade
<1>6. RequestInv(c)'
  BY <1>2, Zenon DEF readEndnameInfo, RequestInv, TypeOK
<1>7. ASSUME NEW d \in Call, d # c PROVE RequestInv(d)'
  BY <1>7, Zenon DEF readEndnameInfo, RequestInv, TypeOK
<1> QED
  BY <1>4, <1>5, <1>6, <1>7, Zenon

(* From the request to the handler's result. *)
LEMMA WaitInd ==
  ASSUME IndInv, NEW c \in Call,
         DropRequest(c) \/ StartHandler(c) \/ ReceiveResult(c) \/ WaitTimeout(c)
  PROVE  IndInv'
<1> USE DEF IndInv, netVars, statVars, callVars, reqVars
<1>1. TypeOK'
  <2>1. CASE DropRequest(c)
    BY <2>1, Zenon DEF TypeOK, DropRequest
  <2>2. CASE StartHandler(c)
    BY <2>2, Zenon DEF TypeOK, StartHandler
  <2>3. CASE ReceiveResult(c)
    BY <2>3, Zenon DEF TypeOK, ReceiveResult
  <2>4. CASE WaitTimeout(c)
    BY <2>4, Zenon DEF TypeOK, WaitTimeout
  <2> QED
    BY <2>1, <2>2, <2>3, <2>4, Zenon
<1>2. RegisteredMade'
  BY Zenon DEF RegisteredMade, DropRequest, StartHandler, ReceiveResult, WaitTimeout
<1>3. ASSUME NEW d \in Call PROVE RequestInv(d)'
  <2>1. CASE DropRequest(c)
    BY <2>1, Zenon DEF RequestInv, TypeOK, DropRequest
  <2>2. CASE StartHandler(c)
    BY <2>2, Zenon DEF RequestInv, TypeOK, StartHandler
  <2>3. CASE ReceiveResult(c)
    BY <2>3, Zenon DEF RequestInv, TypeOK, ReceiveResult
  <2>4. CASE WaitTimeout(c)
    BY <2>4, Zenon DEF RequestInv, TypeOK, WaitTimeout
  <2> QED
    BY <2>1, <2>2, <2>3, <2>4, Zenon
<1> QED
  BY <1>1, <1>2, <1>3, Zenon

(* The second isServerDead: what passes it has finished "live". *)
LEMMA FinalCheckInd ==
  ASSUME IndInv, NEW c \in Call, FinalCheck(c)
  PROVE  IndInv'
<1> USE DEF IndInv, netVars, statVars, callVars, reqVars
<1>1. TypeOK'
  BY Zenon DEF FinalCheck, TypeOK
<1>2. RegisteredMade'
  BY Zenon DEF FinalCheck, RegisteredMade
<1>3. replyOK[c] /\ ~isServerDead(c) => finish[c] = "live"
  BY Zenon DEF RequestInv, TypeOK, isServerDead
<1>4. RequestInv(c)'
  BY <1>3 DEF FinalCheck, RequestInv, TypeOK
<1>5. ASSUME NEW d \in Call, d # c PROVE RequestInv(d)'
  BY <1>5 DEF FinalCheck, RequestInv, TypeOK
<1> QED
  BY <1>1, <1>2, <1>4, <1>5, Zenon

LEMMA SendInd ==
  ASSUME IndInv, NEW c \in Call, SendReply(c) \/ SendFailure(c)
  PROVE  IndInv'
<1> USE DEF IndInv, netVars, statVars, callVars, reqVars
<1>1. TypeOK'
  <2>1. CASE SendReply(c)
    BY <2>1 DEF TypeOK, SendReply
  <2>2. CASE SendFailure(c)
    BY <2>2, Zenon DEF TypeOK, SendFailure
  <2> QED
    BY <2>1, <2>2, Zenon
<1>2. RegisteredMade'
  BY Zenon DEF RegisteredMade, SendReply, SendFailure
<1>3. ASSUME NEW d \in Call PROVE RequestInv(d)'
  <2>1. CASE SendReply(c)
    BY <2>1, Zenon DEF RequestInv, TypeOK, SendReply
  <2>2. CASE SendFailure(c)
    BY <2>2, Zenon DEF RequestInv, TypeOK, SendFailure
  <2> QED
    BY <2>1, <2>2, Zenon
<1> QED
  BY <1>1, <1>2, <1>3, Zenon

LEMMA CountUp ==
  ASSUME NEW S, NEW f \in [S -> Nat], NEW x
  PROVE  [f EXCEPT ![x] = @ + 1] \in [S -> Nat]
<1>1. \A k \in S : f[k] \in Nat /\ f[k] + 1 \in Nat
  OBVIOUS
<1>2. [f EXCEPT ![x] = @ + 1]
        = [k \in S |-> IF k = x THEN f[k] + 1 ELSE f[k]]
  BY Zenon
<1> QED
  BY <1>1, <1>2, Zenon

LEMMA HandlerInd ==
  ASSUME IndInv, NEW c \in Call, Dispatch(c) \/ HandlerReturns(c) \/ Drain(c)
  PROVE  IndInv'
<1> USE DEF IndInv, netVars, statVars, callVars, reqVars
<1>1. TypeOK'
  <2>1. CASE Dispatch(c)
    <3>1. rpcs' \in [Instance -> Nat]
      <4>1. rpcs \in [Instance -> Nat]
        BY Zenon DEF TypeOK
      <4>2. rpcs' = [rpcs EXCEPT ![snap[c].server] = @ + 1]
        BY <2>1, Zenon DEF Dispatch
      <4> QED
        BY <4>1, <4>2, CountUp, Zenon
    <3>2. handler' \in [Call -> {"none", "spawned", "running", "finished",
                                 "gone"}]
      BY <2>1, Zenon DEF TypeOK, Dispatch
    <3> QED
      BY <2>1, <3>1, <3>2, ZenonT(30) DEF TypeOK, Dispatch
  <2>2. CASE HandlerReturns(c)
    BY <2>2, Zenon DEF TypeOK, HandlerReturns
  <2>3. CASE Drain(c)
    BY <2>3, Zenon DEF TypeOK, Drain
  <2> QED
    BY <2>1, <2>2, <2>3, Zenon
<1>2. RegisteredMade'
  BY Zenon DEF RegisteredMade, Dispatch, HandlerReturns, Drain
<1>3. ASSUME NEW d \in Call PROVE RequestInv(d)'
  <2>1. CASE Dispatch(c)
    BY <2>1, Zenon DEF RequestInv, TypeOK, Dispatch
  <2>2. CASE HandlerReturns(c)
    BY <2>2, Zenon DEF RequestInv, TypeOK, HandlerReturns
  <2>3. CASE Drain(c)
    BY <2>3, Zenon DEF RequestInv, TypeOK, Drain
  <2> QED
    BY <2>1, <2>2, <2>3, Zenon
<1> QED
  BY <1>1, <1>2, <1>3, Zenon

(* Every step of the network keeps the invariant. *)
LEMMA NextInd ==
  ASSUME IndInv, [Next]_vars
  PROVE  IndInv'
<1>1. CASE NetworkOp
  BY <1>1, NetworkOpInd, Zenon
<1>2. CASE StopAccepting
  BY <1>2, Zenon DEF IndInv, TypeOK, RegisteredMade, RequestInv, StopAccepting,
              statVars, callVars, reqVars
<1>3. CASE UNCHANGED vars
  BY <1>3, Zenon DEF IndInv, TypeOK, RegisteredMade, RequestInv, vars, netVars,
              statVars, callVars, reqVars
<1> QED
  BY <1>1, <1>2, <1>3, CallerInd, SnapshotInd, WaitInd, FinalCheckInd,
     SendInd, HandlerInd, Zenon
  DEF Next, Goroutine, Process

LEMMA Inductive == Spec => []IndInv
<1>1. IndInv /\ [Next]_vars => IndInv'
  BY NextInd, Zenon
<1> QED
  BY <1>1, InitInd, PTL DEF Spec

(* Every critical section and goroutine step keeps the variables' types.    *)
THEOREM TypeCorrect == Spec => []TypeOK
<1>1. IndInv => TypeOK
  BY Zenon DEF IndInv
<1> QED
  BY <1>1, Inductive, PTL

(* ClientEnd.Call returns TRUE only if the handler finished while its       *)
(* server was registered: processReq never acknowledges an update that went *)
(* to a superseded server, for any number of requests and servers.          *)
THEOREM Durable == Spec => []PositiveReplyDurable
<1>1. IndInv => PositiveReplyDurable
  BY Zenon DEF IndInv, RequestInv, PositiveReplyDurable
<1> QED
  BY <1>1, Inductive, PTL

(* A caller's steps are the promise's Begin and Fail, or stutter. *)
LEMMA CallerRefines ==
  ASSUME IndInv, NEW c \in Call,
         \/ \E e \in End : CallBegin(c, e)
         \/ Accept(c)
         \/ CallDestroyed(c)
  PROVE  [Promise!Next]_(Promise!vars)
<1> USE DEF IndInv, TypeOK, Outcome, netVars, statVars, callVars, reqVars
<1>1. ASSUME NEW e \in End, CallBegin(c, e) PROVE Promise!Begin(c)
  BY <1>1, Zenon DEF CallBegin, Promise!Begin
<1>2. CASE Accept(c)
  BY <1>2, Zenon DEF Accept, Promise!vars
<1>3. CASE CallDestroyed(c)
  <2>1. Promise!Fail(c)
    BY <1>3, Zenon DEF CallDestroyed, Promise!Fail
  <2> QED
    BY <2>1, Zenon DEF Promise!Next
<1> QED
  BY <1>1, <1>2, <1>3, Zenon DEF Promise!Next

(* The steps of processReq and of the handler that the promise sees. *)
LEMMA AnswerRefines ==
  ASSUME IndInv, NEW c \in Call,
         SendReply(c) \/ SendFailure(c) \/ HandlerReturns(c)
  PROVE  Promise!Next
<1> USE DEF IndInv, TypeOK, Outcome, netVars, statVars, callVars, reqVars,
            RequestInv
<1>1. CASE SendReply(c)
  <2>1. Promise!Succeed(c)
    BY <1>1, Zenon DEF SendReply, Promise!Succeed
  <2> QED
    BY <2>1, Zenon DEF Promise!Next
<1>2. CASE SendFailure(c)
  <2>1. Promise!Fail(c)
    BY <1>2, Zenon DEF SendFailure, Promise!Fail
  <2> QED
    BY <2>1, Zenon DEF Promise!Next
<1>3. CASE HandlerReturns(c)
  <2>1. \E how \in {"live", "late"} : Promise!Execute(c, how)
    BY <1>3, Zenon DEF HandlerReturns, Promise!Execute
  <2> QED
    BY <2>1, Zenon DEF Promise!Next
<1> QED
  BY <1>1, <1>2, <1>3, Zenon

(* The network of labrpc.go implements what RpcPromise promises a caller.   *)
THEOREM Refinement == Spec => ImplementsPromise
<1>1. Init => Promise!Init
  BY Zenon DEF Init, Promise!Init, Outcome
<1>2. IndInv /\ [Next]_vars => [Promise!Next]_(Promise!vars)
  <2> SUFFICES ASSUME IndInv, [Next]_vars PROVE [Promise!Next]_(Promise!vars)
    BY Zenon
  <2> USE DEF Promise!vars, Outcome, netVars, statVars, callVars, reqVars
  <2>1. CASE NetworkOp \/ StopAccepting \/ UNCHANGED vars
    BY <2>1, Zenon DEF NetworkOp, StopAccepting, vars
  <2>2. ASSUME NEW c \in Call,
               \/ readEndnameInfo(c) \/ DropRequest(c) \/ StartHandler(c)
               \/ ReceiveResult(c) \/ WaitTimeout(c) \/ FinalCheck(c)
               \/ Dispatch(c) \/ Drain(c)
        PROVE  UNCHANGED Promise!vars
    BY <2>2, Zenon DEF readEndnameInfo, DropRequest, StartHandler, ReceiveResult,
                WaitTimeout, FinalCheck, Dispatch, Drain
  <2> QED
    BY <2>1, <2>2, CallerRefines, AnswerRefines, Zenon DEF Next, Goroutine, Process
<1> QED
  BY <1>1, <1>2, Inductive, PTL DEF Spec, ImplementsPromise, Promise!Spec
=============================================================================
