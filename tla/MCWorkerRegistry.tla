--------------------------- MODULE MCWorkerRegistry ---------------------------
(***************************************************************************)
(* Small instances of WorkerRegistry.                                      *)
(***************************************************************************)
EXTENDS WorkerRegistry
==============================================================================
