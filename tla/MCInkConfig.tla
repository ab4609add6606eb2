----------------------------- MODULE MCInkConfig -----------------------------
(***************************************************************************)
(* Model checking of InkConfig on its own, with a number, an icon and a     *)
(* message, in files of up to five lines.                                   *)
(***************************************************************************)
EXTENDS InkConfig

MCFileKeys ==
    {<<"simulation", "default_rows">>, <<"icon_directions", "none">>,
     <<"messages", "ink_tank_header">>}
MCValues == {[word |-> "number", n |-> 8], [word |-> "quoted", n |-> 8]}
=============================================================================
