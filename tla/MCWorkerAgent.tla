---------------------------- MODULE MCWorkerAgent ----------------------------
(***************************************************************************)
(* Two attempts of one workload on one worker, as after a restart of the   *)
(* coordinator: they share the sandbox, the runtime table and the download *)
(* of the input.                                                           *)
(***************************************************************************)
EXTENDS WorkerAgent

CONSTANTS w1, h

OneWorkloadTwice == [a \in Attempt |-> w1]
SharedInput == [w \in Workload |-> h]
==============================================================================
