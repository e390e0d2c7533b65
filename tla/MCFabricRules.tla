---------------------------- MODULE MCFabricRules ----------------------------
(***************************************************************************)
(* The fabric's algorithms on bounded inputs, one trial at a time: the     *)
(* transfer of assets, the choice and size of a cluster and the order of   *)
(* the queue, the division of jobs and the merge of their results, the     *)
(* packaging of scenes, and what is learned from finished attempts.        *)
(***************************************************************************)
EXTENDS AssetTransfer, Planning, Shards, ScenePackage, Intelligence

Init == trial = NoTrial
Next ==
  \/ TryTransfer \/ TryPlan \/ TryShards \/ TryScenePackage \/ TryIntelligence
  \/ EndTrial
Spec == Init /\ [][Next]_trial

\* AdaptersSound: what an adapter divides is put together whole.  Frame chunks
\* and data shares cover the job once (FrameScheduler.schedule, plan_shards,
\* the sampler), coverage finds every gap and merges weigh what they merge
\* (frame_coverage, merger); a package holds, or lists as missing, every file
\* its objects need, and a failed build never costs the package published
\* before (compute_closure, create_plan, build_and_validate).
AdaptersSound ==
  trial.area = "adapter" =>
    IF trial.input.kind \in SceneKinds THEN ScenePackageSound(trial.input)
    ELSE ShardsSound(trial.input)
==============================================================================
