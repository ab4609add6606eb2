--------------------------- MODULE MCRRScheduler ---------------------------
(* Small instances of RRScheduler for TLC. *)
EXTENDS RRScheduler

MCArrivals == {-2, 1, 3}
=============================================================================
