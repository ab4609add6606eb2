--------------------------- MODULE MCRaftHarness ----------------------------
(* Small instances of RaftHarness for TLC. *)
EXTENDS RaftHarness

MCInstance == (1..N) \X (1..MaxStarts)
MCEnd == (1..N) \X (1..N) \X (1..MaxStarts)
MCServerName == 1..N
=============================================================================
