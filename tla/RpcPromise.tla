----------------------------- MODULE RpcPromise -----------------------------
(***************************************************************************)
(* What the simulated RPC network of modules/m5/labrpc promises a caller.  *)
(*                                                                         *)
(* A call is made once and comes back at most once.  Its handler runs at   *)
(* most once, possibly after the caller has already been told FALSE.  A    *)
(* caller is told TRUE only when the handler has finished on a server that *)
(* was still registered when it finished: an effect of such a handler went *)
(* to the state that survives the server (labrpc.go, lines 29-38, 266-271).*)
(***************************************************************************)
CONSTANT Call       \* the calls made during a run

VARIABLES
  outcome,          \* what the caller knows of each call
  effect            \* what the handler of each call has done

vars == <<outcome, effect>>

Init ==
  /\ outcome = [c \in Call |-> "idle"]
  /\ effect = [c \in Call |-> "none"]

Begin(c) ==
  /\ outcome[c] = "idle"
  /\ outcome' = [outcome EXCEPT ![c] = "pending"]
  /\ UNCHANGED effect

(* "live": on a server that is still registered; "late": on a removed one. *)
Execute(c, how) ==
  /\ outcome[c] \in {"pending", "false"}
  /\ effect[c] = "none"
  /\ effect' = [effect EXCEPT ![c] = how]
  /\ UNCHANGED outcome

Succeed(c) ==
  /\ outcome[c] = "pending"
  /\ effect[c] = "live"
  /\ outcome' = [outcome EXCEPT ![c] = "true"]
  /\ UNCHANGED effect

Fail(c) ==
  /\ outcome[c] = "pending"
  /\ outcome' = [outcome EXCEPT ![c] = "false"]
  /\ UNCHANGED effect

Next ==
  \E c \in Call :
    \/ Begin(c)
    \/ \E how \in {"live", "late"} : Execute(c, how)
    \/ Succeed(c)
    \/ Fail(c)

Spec == Init /\ [][Next]_vars
=============================================================================
