---------------------------- MODULE MCOrchestrator ----------------------------
(***************************************************************************)
(* Small instances of Orchestrator for TLC.                                *)
(***************************************************************************)
EXTENDS Orchestrator, TLC

CONSTANTS w1, w2, w3

\* No workload depends on another one.
Independent == [w \in Workloads |-> <<>>]

\* w2 needs the output of w1.
Pipeline == [w \in Workloads |-> IF w = w2 THEN <<w1>> ELSE <<>>]

\* Workers are interchangeable.
WorkerSymmetry == Permutations(Workers)

\* So are w1 and w2, when they do not depend on each other.
PairSymmetry == Permutations(Workers) \cup Permutations({w1, w2})
===============================================================================
