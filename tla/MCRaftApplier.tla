---------------------------- MODULE MCRaftApplier ----------------------------
(***************************************************************************)
(* RaftApplier with a Raft that is correct: two servers, one of which the   *)
(* test restarts.                                                           *)
(***************************************************************************)
EXTENDS RaftApplier
=============================================================================
