-------------------------- MODULE MCVirtualMemory --------------------------
(* Three levels of two entries: eight virtual pages in four last-level      *)
(* tables, so that a call of two pages may need two new branches.           *)
EXTENDS VirtualMemory

MCPerms == {{"P", "W", "U"}, {"P"}, {}, {"W"}}
=============================================================================
