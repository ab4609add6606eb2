---------------------------- MODULE MCRoundRobin ----------------------------
(* Small instances of RoundRobin for TLC. *)
EXTENDS RoundRobin

MCArrivals == {-2, 0, 1, 4, 9}
=============================================================================
