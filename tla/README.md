# AIDARS: formal models of the distributed runtime

AIDARS runs workloads (renders, training steps, custom commands) on a cluster: a
coordinator accepts workloads, places them on workers, drives every execution
over HTTP, and survives crashes through a SQLite store. This directory holds TLA+
models of that system, the TLC runs that check them on small instances, and
TLAPS proofs for every instance.

## 1. Inventory

All paths are under `src/src/aidars/`.

| Component | State | Operations | Correct when | Module |
|---|---|---|---|---|
| Workload orchestrator `distributed/workload.py` | `_queued_ids`, `_processing_ids`, queue task, one dispatch coroutine per workload | submit, admission, dispatch, poll, settle, cancel | no workload is forgotten, verdicts are true and final, budget, capacity and dispatch limit are kept | `Orchestrator`, `WorkloadVerdict` |
| Workload and attempt registry, retry policy `workload_registry.py`, `attempt.py`, `retry.py` | durable records | create, mark, set result, `should_retry` | an active attempt has somebody driving it | `Orchestrator` |
| Coordinator service `coordinator.py` | background tasks | eviction and health loops, recovery, redrive | every crash point recovers | `Orchestrator`, `WorkerRegistry`, `JobLedger` |
| Worker registry, credentials `registry.py`, `auth.py` | workers, health, inverted asset index, credential hashes | register, heartbeat, unregister, evict, fail, decay, drain, restore | the index is exact, restored workers are not trusted, stored assets become locatable | `WorkerRegistry` |
| Worker agent, execution manager, runtimes `worker.py`, `execution.py`, `runtime.py`, `singleflight.py` | ledger, active runtimes, flights, sandboxes | submit, sync, run, time out, cancel, checkpoint, ack | processes left behind have been told to stop, outputs are the attempt's own, cancellations are explained and take effect | `WorkerAgent` |
| Job and artifact registry, rows of the state store `job_registry.py`, `artifact.py`, `state_store.py` | jobs, artifacts, index by hash, SQLite rows | submit job, derive state, record, mark, delete, purge, restore | outputs of unfinished jobs are held, nothing purged comes back, garbage goes | `JobLedger` |
| Disk cache `cache/` | objects, index rows, access order, file lock | put, get, verify, scrub, reconcile, remove, evict | quota, settled rows, no stray files, every call returns | `DiskCache` |
| Transfer, worker store, client `transfer.py`, `server.py`, `cas_adapter.py`, `client.py` | staging files | serve ranges, download, resume, fail over, upload, sync | only verified content is committed | `AssetTransfer` |
| Placement, sizing, priorities `placement.py`, `sizing.py`, `prioritizer.py` | none | evaluate, size, rank, order the queue | hard rules gate, preferences only order, all units are given away | `Planning` |
| Adapters `adapters/ml_training`, `pytorch_ddp`, `blender/strategies`, `frame_coverage.py` | none | divide, aggregate, merge, cover | what is divided is put together whole | `Shards` |
| Blender scene packaging `adapters/blender/visibility`, `intelligence`, `packaging` | package directories | eligibility, graph, closure, plan, build, validate, publish | a package has every file its objects need; a failed build costs nothing | `ScenePackage` |
| m7 adaptive control, m12 history `m7/`, `m12/` | averages, observations | project, observe, rebuild, estimate, assess risk | live and rebuilt history agree for attempts that end once, ratios stay in range | `Intelligence` |
| HTTP routing, CLI, SDK, demonstration and stress scripts | configuration | argument parsing and printing | — | — |

Hard behaviours: every coordinator coroutine shares one event loop, so state read
before an `await` may be stale after it; the coordinator may crash between two
stored writes and rebuilds everything from the store; requests between
coordinator, workers and peers are lost, late or answered after the sender gave
up; eviction, cancellation and garbage collection change records that other
coroutines are working on; several processes share one cache directory and
readers take no lock. `PROJECT.json` lists the hazards at the lines where they bite.

## 2. Modules

Each protocol module has an `MC` module with the instance for TLC. They share no
variables; where two meet, each keeps what it needs of the other:
`Orchestrator` sees a worker's ledger as its answers and membership as
`registered` and `eligible`, `WorkerRegistry` sees dispatch as "an attempt was
given to this worker", `JobLedger` sees a workload as its stored state.

### Orchestrator, WorkloadVerdict

`WorkloadVerdict` is the abstract specification: a workload is opened, may succeed
once its dependencies have, and is closed once with a true verdict.

Durable variables of `Orchestrator` (`wstate`, `attempts`, `made`, `registered`)
are what the registries write through to SQLite; `Crash` keeps them and resets the
others. `pc[w]` is where the dispatch coroutine of `w` stands. The counters in
`RunPc` lie between two awaits: while a coroutine is there `LoopFree` is false and
no other coordinator action is enabled, but `Crash` is, so every crash point
between two stored writes is covered. Those in `WirePc` are awaits. `exec[w][n]`
is the worker's ledger entry of attempt `n`, and what is still on the wire.

| Action | Code |
|---|---|
| `SubmitWorkload`, `AdmissionPass`, `QueueExit`, `EndBackoff` | `submit_workload`, `_admission_queue_loop`, `_run_queued_workload` |
| `Start`, `PlaceOn`, `NoDecision`, `Launch` | `_process_workload` up to the submit request |
| `Submit*`, `Resolve*`, `EndSleep`, `Status*`, `AckReturned`, `CancelRemoteReturned` | `_submit_and_await` |
| `Settle*`, `Seal`, `Conclude`, `RaiseHandled`, `RaiseUnexpected` | result handling and exception handlers of `_process_workload` |
| `CancelWorkload`, `CancelReturned` | `cancel_workload` |
| `Heartbeat`, `BecomeIneligible`, `Unregister`, `Evict` | worker registry, eviction and health loops |
| `WorkerAccept`, `WorkerFinish`, `WorkerCancel`, `WorkerRestart`, `RequestDropped` | worker ledger and network |
| `Crash`, `Restart` | `_restore_persisted_state`, `_redrive_recovered_workloads` |

Adjacent writes are one action where a crash between them recovers to the same
state as a crash before or after: VALIDATING with PLACING, ASSIGNED with RUNNING
(an attempt that is ASSIGNED at a crash is one whose request was dropped),
MIGRATING with SUBMITTED, the two writes of a cancellation that has nothing to
await. Recovery is one action because it is idempotent. A second cancel call for
the same workload does what the first does. `CHECKPOINTED` stands for SUCCEEDED
with `was_checkpointed`, the only distinction the retry accounting makes. The
order in which ready workloads are started, and which acceptable worker wins, are
left open: the properties hold for any ranking. The branch for a chosen worker
that is no longer registered (workload.py:1002) cannot be taken, because there is
no await between placing and looking it up; the placement lock is never
contended for the same reason. The loop that supersedes other active attempts
(workload.py:1124) is modelled, and `ActiveAttemptOwned` shows it has nothing to do.

### WorkerRegistry

The registry with its two indexes and health records, the credential store, the
control loop of every worker, and the requests between them. Handlers do not
await, so each is one step with its write to the store.

| Action | Code |
|---|---|
| `HandleRegister`, `HandleBeat`, `HandleLeave`, `Deny` | `register_worker_sync`, `heartbeat`, `unregister_worker`, `require_worker` |
| `EvictExpired`, `DecayPenalties`, `Drain`, `Revive`, `Restart` | eviction and health loops, `_restore_persisted_state` |
| `Dispatch`, `RecordFailure`, `AddOutputs` | the orchestrator's calls into the registry |
| `Start`, `Beat`, `Deliver`, `Fail`, `Stop`, `Crash`, `Ingest`, `Silence` | the worker's control loop, process and store; time passing |

A credential is only `current`, `stale` or `none`: tokens are random and never
minted twice. A request whose sender gave up either vanishes or stays to be
served late (`Abandoned`), at most one per worker.

### WorkerAgent

One worker's event loop; a step is the code between two awaits, and cancel,
checkpoint, acknowledge and second submissions fall between any two. `task[a]`
walks through `Begin` (mark running), `Located`/`Fetch`/`SourceFails` (input
synchronisation; `flight` is the single-flight table), `Isolate`/`Enter`/`Launch`
(sandbox, runtime table, subprocess), `RunEnds`, `Timeout`, `Killed`, `Ingest`.
`Cancel` is `cancel_execution` with all its cases: a task that has not begun, a
leader or follower of a download, a listed runtime with or without a process.

`runtime.cancel()` is in two places. A task enters it after a timeout or a
cancellation: `killing` is its wait of five seconds after the request to
terminate, `Escalate` the kill, `killed` the last second, after which the code
goes on whether or not the process has ended. A request handler enters it through
`CancelRuntime`; `hand` holds the runtimes such handlers wait for and `CancelDone`
is the end of the wait. `CancelTask` interrupts either wait of the task, closes the
record and leaves the process with the signal it has had. This is the POSIX
branch; on Windows the first call already is a forced `taskkill`, which the model covers as
a process that dies at once. `lead`, `reached` and `mixed` are observations: whose
download a follower waits for, whose cancellation reached a process or a task
that had begun, and who shared a sandbox.

### JobLedger

`submit_job` (`Receive`, `Infeasible`, `CreateJob`, `SubmitWorkload`), the states
of the workloads (`Dispatch`, `DispatchFails`, `Complete`, `RecordArtifacts`,
`Cancel`...), the collection pass (`GcPurge`, `GcDelete`, `GcMark`) and
`Crash`/`Damage`/`Restart`. Registries and rows are separate variables, because writes
fail and crashes fall between them; `busy` is synchronous code during which nothing
else runs but a crash may come. The state of a job is `DeriveState`, computed afresh
as the code does over `members`, the workloads recorded when the job was created: two
requests for the same job may name different ones.

The handlers of a failed dispatch do not look at the record. `DispatchFails` therefore
writes FAILED over whatever is there and may stay in the loop, sends the workload back to
the queue, or goes on with a further attempt; a failed write of an artifact
(`RecordFails`) raises into the same handlers after COMPLETED was stored. `InFlight` is
what may still overwrite a member in one of these ways, and a job is `Settled` when
it is over and none of its members is in flight. `reopened` and `dropped` note the
jobs whose verdict was overwritten and the records a fault has lost.

### DiskCache

Each step is one durable effect: a row update, a rename, an unlink. Writers hold
the cross-process lock; `ReadExists`/`ReadSize`/`ReadOpen` do not. Put is
`Stage`, `EnforceQuota`, `Commit`, `Record`; eviction `EvictBatch`, `EvictMark`,
`EvictUnlink`, `Drop`, `EvictSettle`; verification `Judge`, `Scrub`; reconciliation
`Repair`, `Audit`. Faults: a process dies, a file is damaged; other
programs open and close the files of `Lockable` as often as they like. The order
of `last_accessed_at` is the relation `older`, and `SUM(size_bytes)` the number of the
objects' bytes (`Bytes`), so that both can be reasoned about for any set of objects.

### Algorithms

`AssetTransfer`, `Planning`, `Shards`, `ScenePackage` and `Intelligence` are
operators named after the functions they translate. `Trial` picks one input at a
time, so that a failing input is a one-step trace; `MCFabricRules` puts the five
together. Reference definitions are independent of the algorithm: a partition is
said with sets, a closure by reachability, a mean by its bounds. Floating point is
replaced by exact fractions or fixed units that the divisors of the trials divide.
Loops are folds or recursive functions. Defaults are part of the functions (a total
of zero samples is a hundred, the length of the data set or a thousand; a sum of
weights that is zero divides by one), and a package is built from the sources the
resolver fixed, not from a second search. `Sorting` says what Python's `sorted` and a
list comprehension with a condition return: the place of an element is the number of
elements ahead of it, which is stable and can be reasoned about for any list.

## 3. Runs

| Run | Instance | Shows |
|---|---|---|
| `lifecycle` | 1 workload, 2 workers, budget 2, two faults | every path of one dispatch with every fault at every point |
| `contention` | 3 workloads, 1 worker of capacity 1, 2 slots, 5xx answers | capacity, dispatch limit, bounded overrun |
| `pipeline` | 2 workloads, the second depends on the first, fair | dependencies, refinement of `WorkloadVerdict`, liveness |
| `membership` | 1 worker, 1 asset, thresholds 2 and 4, penalty 2, three faults, two failures | `IndexDual`, `AckedIsIndexed`, `TrustedSeen`; `Recovers`, `AssetsPublished` under fairness |
| `worker_agent` | 2 attempts of 1 workload, shared input, two sources | `LeftoversSignalled`, `OutputsOwn`, `CancelExplained`; `CancelTakesEffect`, `FollowersLand` under fairness |
| `job_ledger` | 2 jobs that claim a common workload, equal outputs, one fault, one fragile job row | `OutputsHeld`, `NoGhostRows`, exact hash index; `VerdictStays`; `GarbageCollected` under fairness |
| `disk_cache` | 2 processes, objects of size 2, 1 and 1, quota 2, one fault, one object held open at times | `CacheTypeOK` (the access order is a total order of the rows), `QuotaRespected`, `RowsSettled`, `FilesAccounted`, `ScrubSound`; `OpsReturn` under fairness |
| `fabric_rules` | all trials over the input sets in the modules; contents of up to two bytes, chunks of one | `CommittedIsVerified`, `PlansSound`, `AdaptersSound`, `IntelligenceSound` |
| `cancel_overwritten` | violation | a cancellation is overwritten by a failing submit |
| `forced_to_reregister` | violation | after a restart in secure mode a worker is refused for ever |
| `cancel_incomplete` | violation | an accepted cancellation leaves the record open or the process running |
| `verdict_overwritten` | violation | the verdict on a finished job changes, without any fault |

Bounds. `AttemptBound` caps attempts per workload (it leaves room for the whole
retry budget after a checkpoint, see `WorkerFinish`, and for one overrun where
`ServerErrors` is on). `FaultBound` caps the faults of a module together. Recovery
starts from stored state only, so one crash reaches every recovery path; where a
second fault can meet the repair of the first (`membership`, `lifecycle`) the bound is
two or three, and in `disk_cache` files are held open and released beside the one
crash or damage (what a second one adds is left to the proofs, which have no bound). In `membership` workers do not interact: every
handler touches one worker's entries, and evicting several at once removes the
entries of each; one asset tells present from absent. Penalty 2 with thresholds 2 and 4 takes a worker
through degraded to suspect with two failures. In `worker_agent` the two attempts
share everything that can be shared. In `job_ledger` a common workload makes the
second submission fail in the middle of its loop, and equal outputs make two
artifacts share a bucket of the index. In `disk_cache` the two small objects fit
together, so their access order matters, and each put that fits alone must not fit
with both; the big one evicts everything. `fabric_rules` chooses inputs around the code's
boundaries: zero, one and more than the divisor, thresholds and their neighbours.

Deadlock is checked in `job_ledger` and `fabric_rules`. Elsewhere a state in
which everything is settled and all faults are spent has nothing left to do.
Workers are symmetric in `lifecycle` and `contention`; symmetry is off where
liveness is checked.

Fairness. Orchestrator (`Fairness`): asyncio serves ready callbacks in order, hence
strong fairness for dispatch and admission, which compete for the loop;
executions end and a crashed coordinator is restarted (weak); answers and
heartbeats that make a difference arrive if they are possible again and again
(strong), an assumption about the network: the poll loop itself never gives up on
errors. WorkerRegistry: the coordinator serves requests and runs its loops, a
running worker beats, and its HTTP calls end (their timeouts); nothing obliges a
worker to start, or a fault to happen. WorkerAgent: the loop runs every
task and every request handler, the waits of `runtime.cancel()` are bounded, and a killed
process dies; one that is only asked to terminate may run for ever. JobLedger: the collection
loop runs, a crashed coordinator restarts, a submission in progress goes on,
jobs age past their retention; a purge that can succeed again and again does
(strong, because a failed write ends a pass). DiskCache: a running process runs on.

### Findings

The four violation runs are listed under `findings`, each with the lines that claim
the property. Beside each one stands what remains true.

* `cancel_overwritten`: the exception handlers ignore a cancellation. Settled verdicts
  are final (`SettledForever`).
* `forced_to_reregister`: a 401 does not make a worker register again. A worker that
  is restarted recovers (`Recovers`).
* `cancel_incomplete`: a cancellation can come before the wrapper or the process exists,
  meet another attempt's runtime, or interrupt the wait for a process that was only
  asked to terminate. A cancellation that reaches process or task ends the attempt
  (`CancelTakesEffect`), and whoever is left behind has been signalled
  (`LeftoversSignalled`).
* `verdict_overwritten`: a member that is done is written again by a dispatch loop that
  did not return, a cancel call that returns late or a failed artifact write. Nothing
  changes the verdict on a job none of whose members is in flight (`VerdictStays`).

Further disagreements met while modelling. The models follow the code, and where a
property exempts the case its comment says so.

* `distributed/workload.py:1258`: the generic handler does not return, so a server error
  overruns the budget of `retry.py:42`; `BudgetRespected` assumes there are none, and
  `OverrunBounded` states what remains true: each overrun excludes another worker.
* `distributed/workload.py:1146`, `:1219`: an attempt that eviction marked LOST is written
  again, although `attempt.py:64` calls that status terminal.
* `m12/service.py:67`: such an attempt is averaged by a restarted coordinator and not by
  the running one (`HistorySound` states both), although history is to be
  reconstructed deterministically.
* `distributed/execution.py:87`: an attempt takes over the sandbox of another one half a second
  after asking it to stop, and may list its files; the class is documented as
  isolated (`:27`). `OutputsOwn` exempts attempts that shared a sandbox.
* `distributed/singleflight.py:71`: cancelling the leader of a download cancels its followers;
  the design shields them (`AIDAR_M6_Architecture_and_Validation_Spec.md:293`).
  `CancelExplained` says that nobody else is affected.
* `distributed/artifact.py:171`: a job whose row does not parse at a restart protects nothing, so the
  outputs of its unfinished workloads are collected, against the docstring at `:156`.
* `distributed/workload.py:1122`: a crash after COMPLETED is stored loses the artifacts of the workload,
  although `docs/M10_ARCHITECTURE.md:189` has them recorded at that moment. `OutputsHeld`
  exempts this case and the one before.
* `adapters/ml_training/merger.py:238`: weights that are all zero, because the worker with
  a weight lacks the file, stay zero and so does the merge ("renormalize", `:237`; `MergeSound`
  states it); the weight of a checkpoint that is no dictionary is counted (`:235`).
* `cache/store.py:201`: after a crash between rename and row a scrub can be refused a
  transition; `distributed/registry.py:161`: a registration served late replaces a newer
  inventory; `distributed/workload.py:703`: errors to polling are tolerated for ever. No
  document claims otherwise.
* `cache/store.py:78`: the path handed out may be evicted before it is opened, and
  `get_bytes` then raises where its docstring promises None.
* `distributed/server.py:269`: an upload answers "stored" although the commit failed.
* `distributed/placement.py:193`: `same_tag` and `different_tag` never match once
  two earlier workers share a tag or one has none, because numbers of tags and
  workers are compared.
* `distributed/prioritizer.py:262`: the docstring gives a hierarchy, the code one weighted sum.
* `distributed/workload.py:318`: admission breaks ties without `submitted_at`, `queue_snapshot` with it.
* `distributed/registry.py:664`: a draining worker that fails becomes ACTIVE again by decay.
* `adapters/pytorch_ddp/adapter.py:112`: a rank without samples is given one, and
  `__len__` then differs from what is yielded.
* `adapters/ml_training/lifecycle.py:295`: zero free memory switches the memory rule off;
  line 86 documents the selection "baseline", which is never chosen.
* `adapters/ml_training/merger.py:72`: keys missing in one checkpoint shrink the average.
* `adapters/blender/visibility/analyzer.py:273`: an object shown only before a
  keyframe inside the range is dropped when the scene is a plain dictionary
  (`eligibility.py:31` says otherwise).
* `adapters/blender/packaging`: `search_paths` is ignored (`resolver.py:334`); paths of
  duplicates never enter the remapping (`builder.py:228`); a backup that cannot be
  removed raises although the package is published (`builder.py:187`); a JSON
  scene can never be packaged (`validator.py:83`).
* `adapters/blender/intelligence/scene_engine.py:128`: a cached scene is found by the
  hash of the scene file alone.
* `m7/telemetry.py:134`: heartbeats put availability into averages that
  `features.py:34` reads as utilisation.
* `m12/service.py:116`: a request class with three rows and fewer successes hides the
  task's history.

## 4. Proofs

`WorkerRegistryProofs` proves, from `RegistryAssumption` only, `RegTypeOK`,
`IndexDual`, `TrustedSeen` and `AckedIsIndexed` for any sets of workers and assets
and any thresholds and bounds. `RegInv` adds to the first two: requests under way
and rows of the store claim only what the worker's store holds, and stores only
grow (`ClaimsBacked`, without which a late request or a restart could index an
object nobody has); and a worker not heard from has no attempt since the restart,
so failures and decay cannot touch its status (`UnheardUntouched`, from which
`TrustedSeen` follows). `AckInv` carries the argument about inventory deltas: rows
are as current as the index, so a restart loses no entry (`RowsCurrent`); nothing
reported ever disappears, so no heartbeat removes an entry (`ReportsBacked`); a
worker waits for one request at a time (`OnePending`); the pending request and the
acknowledged report together cover the snapshot it was built from
(`PendingComplete`); hence from the moment a request is served the index holds the
old report and the new one (`AnswersIndexed`). Both invariants were checked with
TLC first; the proof has one lemma per action for each.

`OrchestratorProofs` proves, from `ConstantAssumption` only, `TypeOK`,
`NoLostWakeup`, `ActiveAttemptOwned`, `NoFalseSuccess`, `DependencyRan`,
`DispatchBounded` and `SettledForever` for every set of workloads and workers and
every bound. The inductive invariant `IndInv` adds to them: slots are held exactly
by live coroutines and keep the queue task alive (`SlotInv`); a waiting workload
stays queued through its backoff (`WaitInv`, without which `EndBackoff` would
lose it); nothing volatile survives a crash (`DownInv`); attempts up to `made`
exist and later ones do not (`AttemptInv`, so "the newest attempt" is meaningful);
a held success belongs to the newest attempt and really ran (`ResultInv`); and the
dependencies of a workload at placement have run (`DependencyInv`). `IndInv`
was checked with TLC on the three instances before it was proved. The proof
summarises a dispatch step once (`DispatchFrame`, `DispatchSlot`), then has one
lemma per part of the invariant.

`OrchestratorRefinement` proves `Spec => ImplementsVerdict`: a first submission is
`Open`, a successful execution is `Run` (its workload has an attempt, hence was
opened and its dependencies ran), every other step is `Close`, which includes
showing the client nothing.

`OrchestratorLimits` proves, on top of `IndInv`, `CapacityRespected`,
`NoRepeatOnFailedWorker`, `BudgetRespected` and `OverrunBounded`. A first part shows that
every step is one of six moves of every workload (nothing, start from the records,
a new attempt, its launch, its end, its loss), so that the arithmetic is done once per move
and not once per action. `LimitsInv` then says: one coroutine at most is between two
awaits (`OneRunner`), so the room seen at placement is still there at launch
(`RoomInv`, which is what makes the unlocked count sound); a coroutine that may place
excludes every worker that failed an earlier attempt, also after a restart rebuilt
its exclusions from the records (`ExcludedInv`, `CurrentInv`); and `attempts_used` is
the number of charged attempts (`UsedInv`). `BudgetKept` assumes `~ServerErrors`, and needs
to: with server errors the property is false (set `ServerErrors = TRUE` in
`MCLifecycle.cfg`). `OverrunEnds`
covers that case and assumes finitely many workers, since it counts them.

`WorkerAgentProofs` proves, from `AgentAssumption` only, `AgentTypeOK`, `LeftoversSignalled`,
`OutputsOwn` and `CancelExplained` for any attempts that share workloads and inputs in any way.
`AgentInv` adds: a record is terminal only when its task is over (`LedgerFollows`); a
process runs while its task waits for it or behind a task that gave up, and whoever gives
up has sent the signal that is due by then (`ProcessWaitedFor`, from which
`LeftoversSignalled` follows); the leader of a download is still downloading that asset
and the followers wait for this leader (`FlightLed`); an attempt that never shared its
sandbox, neither with a task nor with a process left behind, is alone in it (`SandboxOwn`,
needed for `OutputsOwn`); a severed follower's own leader was cancelled (`SeveredExplained`).

`JobLedgerProofs` proves, from `LedgerAssumption` only, `LedgerTypeOK` (the hash index is
exact), `NoGhostRows`, `OutputsHeld` and the action property `VerdictStays`. `LedgerInv`
has `RequestsOrdered`, `OwnersKnown`, `JobsStored` and `ArtifactsStored` (no row is ahead of
its artifact, and registry and store agree about jobs, except where a fault was noted),
`CrashNoted`, `CollectedWhenOver` (collection only touches finished jobs) and
`HeldThroughout` (`OutputsHeld` also while the coordinator is down, without which a restart
could not re-establish it). What any step does to workloads, jobs and artifacts is
summarised once (`Frame`): a member that is done changes only while it is in flight, and a
known job keeps its members and policy. Hence a settled job stays settled with the same
counts of done members (`SettledStays`), whatever faults occur.

`DiskCacheProofs` proves, from `CacheAssumption` only, `CacheTypeOK`, `QuotaRespected`,
`RowsSettled`, `FilesAccounted` and `ScrubSound` for any objects, sizes, quota and processes.
`CacheInv` adds: the lock belongs to the one process inside a locked operation (`LockInv`);
each program point has the operation, list of work and marked row it should have
(`Working`), with room for the object from the quota check to the insertion of its row
(`RoomKept`, the reason a check several steps early is enough: everything in between
only deletes rows); unsettled rows, untrue verdicts and files without rows exist only in
the hands of a process, unless a crash or damage is on record (`SettledInv`, `VerdictInv`,
`AccountInv`). Because of the lock a step can be judged by what its own process sees
(`View`); there is one lemma per action about the view, and the lemmas `ViewFrom` and
`ViewBack` lead from the invariant to it and back.

All inductive invariants were checked with TLC on the instances of the runs before they
were proved.

`FabricRulesProofs` is about the algorithms: what the run `fabric_rules` tries on small
inputs is proved there for every input, from `TransferAssumption` only (bytes exist,
contents and chunks have a length). Induction has the form the provers can use, a
set of naturals without a least element is empty (`LeastNatural`); on it rest the
lemmas that recursive functions, sums (`SumEquationHolds`) and folds (`FoldExists`) exist
and that an invariant is carried along them. The results, by component:

* Transfer. `TransfersVerified` is `Spec => []CommittedIsVerified`. Chunked reading
  returns its whole slice (`ChunksConcatenate`), a staged file that passes has the
  digest (`CandidateVerified`), failover and synchronisation preserve "every stored
  content has its digest" over the list of peers and the set of digests.
  `RangesAnsweredExactly` and `PrefixResumes` are the parts about byte ranges and
  resumed downloads.
* Sorting. The number of elements ahead is a permutation for every strict weak
  order, the result is ordered and stable. `QueueInOrder`, `BestCandidatesListed`,
  `EligibleRanked` and `PlanAccountsForAll` apply it; the first includes that a starved
  workload is before everybody submitted after it.
* Planning. `AllocationIsFair` counts the remainder: fewer units are left than there are workers, so
  one each is enough. `ClusterSizedWell` describes the group of `size_cluster`:
  fastest first, limits kept, a deadline promised exactly if some admissible
  group meets it, growth only while it pays. `GroupIsBest` shows that evaluating again
  after each choice gives a prefix of the first ranking; this needs
  that a score depends on one worker only, so removing others changes no score.
  `AffinityHeld`, `NearerPeerWins`, `RttBetween`, `AgingNeverReverses` and
  `LaterDeadlineKept` are about single rules. `PlansKept` is `Spec => []PlansSound`: the
  invariant is that a planning trial has an input (`PlanType`), and every input is
  sound by these theorems (`PlacementTrialSound` and the lemmas like it). It adds that
  no term of a score is smaller for a worker that is no worse (`NoWorseScores`:
  quotients, capped quotients, shares of assets by number and by bytes), that taking
  preferences away changes no gate (`IndifferentEligible`), that asking only the
  holders of a digest loses no better peer (`HoldersRanked`), and that places in
  the queue follow the order of admission (`PlacesFollow`).
* Frames. `FramesDealtOnce` is the arithmetic of cutting by integer division;
  `CoverageExact` and `CoverageReported` follow the fold over sorted ranges with the
  invariant that merged ranges are apart and cover what the read ones cover.
* Scenes. `SearchComputesClosure` needs that the search ends because each round adds a
  node of a finite graph; `ClosureOfSeeds` and `EligibilityHolds` build on the graph and
  on keyframes. `PublishedPackageWhole` combines the plan's invariant (one kept file per
  content, every record mapped to it) with validation before the rename.
* `CapacityJudged` is the one result about `Intelligence`.

Only model-checked: all liveness (`AllSettle`, `Recovers`, `AssetsPublished`,
`CancelTakesEffect`, `FollowersLand`, `GarbageCollected`, `OpsReturn`), which is
out of the prover's reach; and `AdaptersSound` and `IntelligenceSound` as
they stand. These two speak of the literal trial sets, which have cases the theorems do
not need: the dependency part of `AdaptersSound` holds for the trial scenes only, since
constraints are followed in one pass (hazard at `influence.py:86`), and aggregation,
projection and estimates use `SelectSeq`, `SortSeq` and nested folds for which the provers have no
theory. Of `AdaptersSound` the theorems cover frames, coverage, eligibility, the closure and
the package, for all inputs; shares of data, the choice of a strategy, merging and
averaging are model-checked. Of `IntelligenceSound` they cover capacity only. What the proofs changed in the
models: `RiskSound` used to say that one more failure never lowers a worker's risk. That
held only because the trials had either no failures or nothing else; for a
worker whose record is mixed, a further failure raises the confidence of the
prediction and can lower the risk. It now says what the code does: the predicted probability of failure never
falls, and the risk falls only where the confidence rises.

## 5. Not modelled, and the plan

Not modelled: HTTP routing, request models and counters, CLI, SDK, demonstration
and stress scripts (pure I/O); detection of frameworks from source text; camera
geometry and extraction by Blender, which are inputs of `ScenePackage`; the scene
cache; probing of the machine's resources; cryptography; `record_success`,
`record_corruption` and `sync_worker_inventory` of the worker registry, which
nothing in the package calls. Within the orchestrator: execution groups, spare
promotion, drains, job affinity and speculative clones, and with them the
confinement of a job to workers (`workload.py:123`) and the edit of a stored
specification by a checkpoint migration (`workload.py:1109`).

Left for the proofs: the ML aggregation of `Shards` (weighted means as folds), the
history of `Intelligence` (a rebuild is independent of reading order), and more action
properties, such as that an attempt leaves a final status only if eviction had
marked it LOST.
