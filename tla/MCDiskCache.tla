----------------------------- MODULE MCDiskCache -----------------------------
(***************************************************************************)
(* Two processes and three objects, of which the two small ones fit in the *)
(* cache together and the big one only alone.                              *)
(***************************************************************************)
EXTENDS DiskCache

CONSTANTS big, small

Sizes == [h \in Hash |-> IF h = big THEN 2 ELSE 1]
==============================================================================
