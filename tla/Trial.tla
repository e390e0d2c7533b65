-------------------------------- MODULE Trial --------------------------------
(***************************************************************************)
(* Pure algorithms are checked one input at a time: a trial is an input of *)
(* one area, and the invariants compare what the algorithm computes for it *)
(* with what it should.                                                    *)
(***************************************************************************)
VARIABLE trial

NoTrial == [area |-> "none"]

Try(area, inputs) ==
  /\ trial = NoTrial
  /\ \E i \in inputs : trial' = [area |-> area, input |-> i]

EndTrial == trial # NoTrial /\ trial' = NoTrial
==============================================================================
