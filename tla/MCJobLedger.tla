----------------------------- MODULE MCJobLedger -----------------------------
(***************************************************************************)
(* A job of two workloads, and a second job that claims one of them.  The  *)
(* outputs of the two workloads are the same file.                         *)
(***************************************************************************)
EXTENDS JobLedger

CONSTANTS j1, j2, a, b, r1, r2, h

SameOutput == [w \in Workload |-> h]
Target == [r \in Request |-> IF r = r1 THEN j1 ELSE j2]
Asked == [r \in Request |-> IF r = r1 THEN "best_effort" ELSE "threshold"]
Specs == [r \in Request |-> IF r = r1 THEN <<a, b>> ELSE <<b>>]
==============================================================================
