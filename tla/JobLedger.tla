------------------------------ MODULE JobLedger ------------------------------
(***************************************************************************)
(* Jobs and their artifacts on the coordinator: submission of a job        *)
(* (WorkloadOrchestrator.submit_job), the state derived from its members   *)
(* (JobRegistry), the artifacts of completed members (ArtifactRegistry),   *)
(* their garbage collection, and the rows of the state store from which    *)
(* all of it is restored.  Everything runs on one event loop: code without *)
(* an await is one step, or several steps during which only the process    *)
(* may crash (busy).  Of the workloads only the stored state is kept; how  *)
(* they reach it is the Orchestrator module.                               *)
(***************************************************************************)
EXTENDS Naturals, Sequences, FiniteSets

CONSTANTS
  Job, NoJob,       \* job ids; no job
  Workload,         \* workload ids; each workload has one output
  Hash, OutputOf,   \* content hashes; [Workload -> Hash]
  Request,          \* client requests, each of which may be sent repeatedly
  JobOf, SpecsOf,   \* [Request -> Job] and [Request -> Seq(Workload) \ {<<>>}]
  PolicyOf,         \* [Request -> completion policy]
  Threshold,        \* least number of completed members of "threshold"
  FaultBound,       \* bound: crashes and failed writes
  Fragile           \* bound: jobs whose row may be damaged

Policy == {"all_required", "any_success", "threshold", "best_effort"}

ASSUME LedgerAssumption ==
  /\ NoJob \notin Job /\ FaultBound \in Nat /\ Threshold \in Nat \ {0}
  /\ Fragile \subseteq Job
  /\ OutputOf \in [Workload -> Hash] /\ JobOf \in [Request -> Job]
  /\ SpecsOf \in [Request -> Seq(Workload) \ {<<>>}]
  /\ PolicyOf \in [Request -> Policy] /\ IsFiniteSet(Workload)
  /\ Workload \cap {"no", "submit", "delete", "mark"} = {}

VARIABLES
  up,        \* the coordinator runs and holds the writer lock of the store
  busy,      \* the code that occupies the event loop between two writes
  jobs,      \* JobRegistry: policy of each known job, or "none"
  jrow,      \* the same in the store; "bad" is a row that does not parse
  members,   \* workload_ids recorded when the job was created, in both
  young,     \* jobs within artifact_retention_seconds of their creation
  wst,       \* WorkloadRegistry: stored state of each workload
  owner,     \* job_id in the specification of each workload
  live,      \* workloads with a dispatch coroutine
  cpend,     \* workloads with a cancel_workload call that awaits the worker
  art, arow, \* lifecycle of each workload's artifact: registry and store
  byHash,    \* ArtifactRegistry._by_hash
  pc, todo,  \* submit_job per request, and the specs it has still to submit
  faults,    \* faults so far
  reopened,  \* jobs that were over when a member's state was overwritten (observation)
  dropped    \* jobs and workloads whose record a fault lost (observation)

vars == <<up, busy, jobs, jrow, members, young, wst, owner, live, cpend, art, arow,
          byHash, pc, todo, faults, reopened, dropped>>

WTerminal == {"completed", "failed", "cancelled"}
WState == {"none", "pending", "running", "cancelling"} \cup WTerminal
Lifecycle == {"none", "available", "gc_eligible", "deleted"}
WorkloadIds(r) == {SpecsOf[r][i] : i \in DOMAIN SpecsOf[r]}

Init ==
  /\ up = TRUE /\ busy = "no" /\ faults = 0
  /\ jobs = [j \in Job |-> "none"] /\ jrow = [j \in Job |-> "none"]
  /\ members = [j \in Job |-> {}]
  /\ wst = [w \in Workload |-> "none"] /\ owner = [w \in Workload |-> NoJob]
  /\ art = [w \in Workload |-> "none"] /\ arow = [w \in Workload |-> "none"]
  /\ byHash = [h \in Hash |-> {}]
  /\ pc = [r \in Request |-> "idle"] /\ todo = [r \in Request |-> <<>>]
  /\ young = {} /\ live = {} /\ cpend = {} /\ reopened = {} /\ dropped = {}

\* What a step that the event loop schedules needs.
Free == up /\ busy = "no"
\* A write to the store fails and its exception ends the operation.
WriteFails == faults < FaultBound /\ faults' = faults + 1

\* The tables of the store: upserts, deletions, and loading what parses.
SaveJob(j, p) == [jrow EXCEPT ![j] = p]
SaveWorkload(w, s) == [wst EXCEPT ![w] = s]
SaveArtifacts(S, s) == [w \in Workload |-> IF w \in S THEN s ELSE arow[w]]
DeleteArtifacts(S) == [w \in Workload |-> IF w \in S THEN "none" ELSE arow[w]]
LoadJobs == [j \in Job |-> IF jrow[j] = "bad" THEN "none" ELSE jrow[j]]

registries == <<jobs, jrow, members, young>>
workloads  == <<wst, owner, live, cpend, reopened>>
artifacts  == <<art, arow, byHash>>
clients    == <<pc, todo>>

-----------------------------------------------------------------------------
(* JobRegistry.get_aggregate *)

\* mutant: a member the workload registry does not know is left out
CountKnown(j, S) == Cardinality({w \in members[j] : wst[w] \in S \ {"none"}})
\* Members by bucket; a member nobody has submitted yet is pending.
Count(j, S) == Cardinality({w \in members[j] : wst[w] \in S})
Pending(j) == Count(j, {"none", "pending"})
\* mutant: cancelling and running members are not waited for
Unstarted(j) == Pending(j)
StillActive(j) == Pending(j) + Count(j, {"running", "cancelling"})

DeriveState(j) ==
  LET completed == Count(j, {"completed"})
      failed == Count(j, {"failed", "cancelled"})
  IN IF StillActive(j) > 0
     THEN IF completed = 0 /\ failed = 0 /\ Count(j, {"running", "cancelling"}) = 0
          THEN "submitted" ELSE "running"
     ELSE CASE jobs[j] = "all_required" -> IF failed = 0 THEN "completed" ELSE "failed"
            [] jobs[j] = "any_success" -> IF completed > 0 THEN "completed" ELSE "failed"
            [] jobs[j] = "threshold" ->
                 IF completed >= Threshold THEN "completed" ELSE "failed"
            [] jobs[j] = "best_effort" ->
                 IF failed = 0 THEN "completed"
                 ELSE IF completed > 0 THEN "partially_completed" ELSE "failed"
Known(j) == jobs[j] # "none"
Over(j) == Known(j) /\ DeriveState(j) \in {"completed", "failed", "partially_completed"}

-----------------------------------------------------------------------------
(* submit_job *)

\* The request is validated.  A known job is only completed with the
\* workloads that are missing; otherwise the cluster is sized, which awaits
\* the placement lock.
Receive(r) ==
  /\ Free /\ pc[r] = "idle"
  /\ todo' = [todo EXCEPT ![r] = SpecsOf[r]]
  /\ IF Known(JobOf[r])
     THEN busy' = "submit" /\ pc' = [pc EXCEPT ![r] = "submit"]
     ELSE UNCHANGED busy /\ pc' = [pc EXCEPT ![r] = "sizing"]
  /\ UNCHANGED <<up, registries, workloads, artifacts, faults, dropped>>

\* Too few eligible workers: nothing has been created.
Infeasible(r) ==
  /\ Free /\ pc[r] = "sizing"
  /\ pc' = [pc EXCEPT ![r] = "idle"] /\ todo' = [todo EXCEPT ![r] = <<>>]
  /\ UNCHANGED <<up, busy, registries, workloads, artifacts, faults, dropped>>

\* create_job: a job that another request created meanwhile is kept, with its
\* policy and its members.  A job whose row cannot be written stays in the
\* registry, and the request fails.
CreateJob(r) ==
  LET j == JobOf[r]
      p == PolicyOf[r]
  IN /\ Free /\ pc[r] = "sizing"
     /\ \/ /\ busy' = "submit" /\ pc' = [pc EXCEPT ![r] = "submit"]
           /\ IF Known(j) THEN UNCHANGED registries
              ELSE /\ jobs' = [jobs EXCEPT ![j] = p] /\ jrow' = SaveJob(j, p)
                   /\ members' = [members EXCEPT ![j] = WorkloadIds(r)]
                   /\ young' = young \cup {j}
           /\ UNCHANGED <<todo, faults, dropped>>
        \/ /\ ~Known(j) /\ WriteFails
           /\ jobs' = [jobs EXCEPT ![j] = p] /\ young' = young \cup {j}
           /\ members' = [members EXCEPT ![j] = WorkloadIds(r)]
           /\ pc' = [pc EXCEPT ![r] = "idle"] /\ todo' = [todo EXCEPT ![r] = <<>>]
           /\ dropped' = dropped \cup {j}
           /\ UNCHANGED <<busy, jrow>>
     /\ UNCHANGED <<up, workloads, artifacts>>

\* add_workload and enqueue_workload for the next spec; an id that is taken
\* by another job's specification ends the request.
SubmitWorkload(r) ==
  LET w == Head(todo[r])
      taken == wst[w] # "none" /\ owner[w] # JobOf[r]
      last == taken \/ Len(todo[r]) = 1
  IN /\ up /\ pc[r] = "submit"
     /\ IF wst[w] = "none"
        THEN wst' = SaveWorkload(w, "pending") /\ owner' = [owner EXCEPT ![w] = JobOf[r]]
        ELSE UNCHANGED <<wst, owner>>
     /\ pc' = [pc EXCEPT ![r] = IF last THEN "idle" ELSE "submit"]
     /\ busy' = IF last THEN "no" ELSE "submit"
     /\ todo' = [todo EXCEPT ![r] = IF last THEN <<>> ELSE Tail(@)]
     /\ UNCHANGED <<up, registries, live, cpend, reopened, artifacts, faults, dropped>>

-----------------------------------------------------------------------------
(* The workloads, as far as the job sees them *)

\* Jobs whose verdict rests on the state of w.
Rests(w) == {j \in Job : w \in members[j] /\ Over(j)}
Become(w, s) ==
  /\ wst' = SaveWorkload(w, s)
  /\ reopened' = IF s = wst[w] THEN reopened ELSE reopened \cup Rests(w)
rest == <<up, registries, owner, artifacts, clients, faults, dropped>>

Dispatch(w) ==
  /\ Free /\ wst[w] = "pending" /\ w \notin live
  /\ Become(w, "running") /\ live' = live \cup {w}
  /\ UNCHANGED <<rest, busy, cpend>>

\* A dispatch that fails concludes without a look at the record, so it may
\* overwrite a cancellation or a result, with FAILED or with a further
\* attempt, and the handler that writes FAILED may go on with the loop.  A
\* workload that finds no worker, or stops at a checkpoint, is queued again.
DispatchFails(w) ==
  /\ Free /\ w \in live
  /\ \/ Become(w, "failed") /\ live' \in {live, live \ {w}}
     \/ Become(w, "pending") /\ live' = live \ {w}
     \/ wst[w] # "running" /\ Become(w, "running") /\ UNCHANGED live
  /\ UNCHANGED <<rest, busy, cpend>>

\* A result that finds the workload cancelled is dropped.
ResultDropped(w) ==
  /\ Free /\ w \in live /\ wst[w] \in {"cancelling", "cancelled"}
  /\ Become(w, "cancelled") /\ live' = live \ {w}
  /\ UNCHANGED <<rest, busy, cpend>>

\* set_result; the artifacts are recorded by a later write.
Complete(w) ==
  /\ Free /\ w \in live /\ wst[w] = "running"
  /\ Become(w, "completed") /\ live' = live \ {w} /\ busy' = w
  /\ UNCHANGED <<rest, cpend>>

\* A write that fails raises into the handler of a failed dispatch, which
\* writes FAILED over the result or goes on with a further attempt.
RecordFails(w) ==
  /\ WriteFails /\ dropped' = dropped \cup {w} /\ live' = live \cup {w}
  /\ Become(w, "failed") \/ UNCHANGED <<wst, reopened>>
  /\ UNCHANGED arow

\* record_artifacts: an artifact that exists is kept as it is.
RecordArtifacts(w) ==
  /\ up /\ busy = w /\ busy' = "no"
  /\ IF art[w] # "none" THEN UNCHANGED <<artifacts, workloads, faults, dropped>>
     ELSE /\ art' = [art EXCEPT ![w] = "available"]
          /\ byHash' = [byHash EXCEPT ![OutputOf[w]] = @ \cup {w}]
          /\ \/ /\ arow' = SaveArtifacts({w}, "available")
                /\ UNCHANGED <<workloads, faults, dropped>>
             \/ RecordFails(w) /\ UNCHANGED <<owner, cpend>>
  /\ UNCHANGED <<up, registries, clients>>

\* cancel_job cancels every member in turn; cancel_workload awaits the worker
\* and then writes CANCELLED whatever the record says by then.
Cancel(w) ==
  /\ Free /\ wst[w] \notin WTerminal \cup {"none"} /\ w \notin cpend
  /\ Become(w, "cancelling") /\ cpend' = cpend \cup {w}
  /\ UNCHANGED <<rest, busy, live>>
Cancelled(w) ==
  /\ Free /\ w \in cpend
  /\ Become(w, "cancelled") /\ cpend' = cpend \ {w}
  /\ UNCHANGED <<rest, busy, live>>

-----------------------------------------------------------------------------
(* The garbage collection loop: purge, delete, mark, in this order *)

InState(s) == {w \in Workload : art[w] = s}
Moved(S, s) == [w \in Workload |-> IF w \in S THEN s ELSE art[w]]
\* mutant: only jobs that succeeded release their artifacts
ProtectedUnlessCompleted ==
  {j \in Job : Known(j) /\ (DeriveState(j) # "completed" \/ j \in young)}
\* Jobs whose artifacts stay: unfinished, or within the retention time.
ProtectedJobs == {j \in Job : Known(j) /\ (~Over(j) \/ j \in young)}
\* mutant: the retention time alone decides
Expired == {w \in InState("available") : owner[w] \notin young}
ComputeGcEligible == {w \in InState("available") : owner[w] \notin ProtectedJobs}

gcRest == <<up, registries, workloads, clients>>

\* mutant: the registry forgets an artifact before its row is deleted
PurgedFromMemory(S, P) == S
\* The row goes first; an artifact whose row could not be deleted stays.
Purged(S, P) == P

\* mutant: the whole entry of a content hash is dropped
BucketDropped(gone) ==
  [h \in Hash |-> IF byHash[h] \cap gone # {} THEN {} ELSE byHash[h]]
\* The index loses the purged artifacts; others keep the hash alive.
Unindexed(gone) == [h \in Hash |-> byHash[h] \ gone]

\* purge_deleted_artifacts: P is what is purged before a write fails.
GcPurge ==
  /\ Free
  /\ \E P \in SUBSET InState("deleted") :
       LET gone == Purged(InState("deleted"), P)
       IN /\ art' = Moved(gone, "none") /\ arow' = DeleteArtifacts(P)
          /\ byHash' = Unindexed(gone)
          /\ IF P = InState("deleted") THEN busy' = "delete" /\ UNCHANGED faults
             ELSE WriteFails /\ UNCHANGED busy
  /\ UNCHANGED <<gcRest, dropped>>

\* mark_deleted for each: registry, then row.
GcDelete ==
  /\ up /\ busy = "delete"
  /\ \/ /\ art' = Moved(InState("gc_eligible"), "deleted")
        /\ arow' = SaveArtifacts(InState("gc_eligible"), "deleted")
        /\ busy' = "mark" /\ UNCHANGED faults
     \/ \E x \in InState("gc_eligible") : \E P \in SUBSET (InState("gc_eligible") \ {x}) :
          /\ art' = Moved(P \cup {x}, "deleted") /\ arow' = SaveArtifacts(P, "deleted")
          /\ busy' = "no" /\ WriteFails
  /\ UNCHANGED <<gcRest, byHash, dropped>>

\* compute_gc_eligible and mark_gc_eligible: the registry, then the rows.
GcMark ==
  /\ up /\ busy = "mark" /\ busy' = "no"
  /\ art' = Moved(ComputeGcEligible, "gc_eligible")
  /\ \E P \in SUBSET ComputeGcEligible :
       /\ arow' = SaveArtifacts(P, "gc_eligible")
       /\ IF P = ComputeGcEligible THEN UNCHANGED faults ELSE WriteFails
  /\ UNCHANGED <<gcRest, byHash, dropped>>

\* The retention time of a job is over.
Age(j) ==
  /\ j \in young /\ young' = young \ {j}
  /\ UNCHANGED <<up, busy, jobs, jrow, members, workloads, artifacts, clients, faults, dropped>>

-----------------------------------------------------------------------------
(* Crash and recovery *)

\* The process dies and the operating system releases the writer lock.
Crash ==
  /\ up /\ faults < FaultBound /\ faults' = faults + 1 /\ up' = FALSE
  /\ dropped' = dropped \cup {w \in Workload : busy = w /\ art[w] = "none"}
  /\ UNCHANGED <<busy, registries, workloads, artifacts, clients>>

\* A job's row is damaged while the coordinator is down.
Damage(j) ==
  /\ ~up /\ j \in Fragile /\ jrow[j] \notin {"none", "bad"}
  /\ jrow' = [jrow EXCEPT ![j] = "bad"] /\ dropped' = dropped \cup {j}
  /\ UNCHANGED <<up, busy, jobs, members, young, workloads, artifacts, clients, faults>>

\* Recovered workloads that are not terminal are driven from the start.
Redriven(s) == IF s \in {"running", "cancelling"} THEN "pending" ELSE s

\* restore_artifact rebuilds the index by content hash.
RestoredIndex == [h \in Hash |-> {w \in Workload : arow[w] # "none" /\ OutputOf[w] = h}]

\* Rows that parse become the registries; the derived states follow.
Restart ==
  /\ ~up /\ up' = TRUE /\ busy' = "no"
  /\ jobs' = LoadJobs
  /\ wst' = [w \in Workload |-> Redriven(wst[w])]
  /\ live' = {} /\ cpend' = {} /\ art' = arow /\ byHash' = RestoredIndex
  /\ pc' = [r \in Request |-> "idle"] /\ todo' = [r \in Request |-> <<>>]
  /\ UNCHANGED <<jrow, members, young, owner, arow, faults, reopened, dropped>>

-----------------------------------------------------------------------------
Gc == GcPurge \/ GcDelete \/ GcMark
Submission(r) == Receive(r) \/ Infeasible(r) \/ CreateJob(r) \/ SubmitWorkload(r)
Step(w) == Dispatch(w) \/ DispatchFails(w) \/ ResultDropped(w) \/ Complete(w)
           \/ RecordArtifacts(w) \/ Cancel(w) \/ Cancelled(w)

Next == \/ (\E r \in Request : Submission(r)) \/ (\E w \in Workload : Step(w))
        \/ (\E j \in Job : Age(j) \/ Damage(j)) \/ Gc \/ Crash \/ Restart

\* The loop wakes up every interval, synchronous code runs on, time passes
\* and a crashed coordinator is started again.  Nobody has to submit a job
\* and workloads may run for ever.
Fairness ==
  /\ WF_vars(GcDelete) /\ WF_vars(GcMark) /\ SF_vars(GcPurge) /\ WF_vars(Restart)
  /\ \A r \in Request : WF_vars(SubmitWorkload(r))
  /\ \A w \in Workload : WF_vars(RecordArtifacts(w))
  /\ \A j \in Job : WF_vars(Age(j))

Spec == Init /\ [][Next]_vars /\ Fairness

-----------------------------------------------------------------------------
(* Properties *)

\* Types, and the index by content hash is exact: it names the artifacts
\* that exist and no other, also when two workloads have the same output.
LedgerTypeOK ==
  /\ up \in BOOLEAN /\ busy \in {"no", "submit", "delete", "mark"} \cup Workload
  /\ jobs \in [Job -> Policy \cup {"none"}]
  /\ jrow \in [Job -> Policy \cup {"none", "bad"}] /\ young \subseteq Job
  /\ members \in [Job -> SUBSET Workload] /\ todo \in [Request -> Seq(Workload)]
  /\ wst \in [Workload -> WState] /\ owner \in [Workload -> Job \cup {NoJob}]
  /\ live \subseteq Workload /\ cpend \subseteq Workload /\ reopened \subseteq Job
  /\ art \in [Workload -> Lifecycle] /\ arow \in [Workload -> Lifecycle]
  /\ pc \in [Request -> {"idle", "sizing", "submit"}] /\ faults \in 0 .. FaultBound
  /\ \A h \in Hash : byHash[h] = {w \in Workload : art[w] # "none" /\ OutputOf[w] = h}

Disturbed(j) == j \in dropped \cup reopened

\* The outputs of an unfinished job are held: as long as a job has members
\* that are not done, submitted or not, the artifact of every completed
\* member is available, through restarts, failed writes and collections.
\* Exempt are a job whose own record a fault has lost, which protects nothing
\* any more, one whose verdict was overwritten after it was reached, see
\* VerdictFinal, and a workload whose artifact was not written.
OutputsHeld ==
  \A w \in Workload :
    LET j == owner[w]
    IN up /\ busy # w /\ wst[w] = "completed" /\ ~Over(j) /\ ~Disturbed(j)
         /\ w \notin dropped
       => art[w] = "available"

\* A purged artifact does not come back: every row of the store belongs to an
\* artifact of the registry and is not ahead of it, whichever write of
\* mark_deleted or purge_deleted_artifacts fails.
Rank(s) == CASE s = "none" -> 0 [] s = "available" -> 1
             [] s = "gc_eligible" -> 2 [] s = "deleted" -> 3
NoGhostRows ==
  up => \A w \in Workload : arow[w] # "none" => Rank(arow[w]) <= Rank(art[w])

\* A member that a dispatch coroutine, a cancel call or the write of its
\* artifacts has still in hand.
InFlight(w) == w \in live \cup cpend \/ busy = w
Settled(j) == Over(j) /\ \A w \in members[j] : ~InFlight(w)

\* The verdict on a job is final when nothing is under way for its members:
\* get_aggregate, which derives it afresh each time, reports the same one
\* after restarts, lost or damaged rows, requests for the same job with other
\* members or another policy, and collections, until the job is forgotten.
VerdictStays ==
  [][\A j \in Job : Settled(j) /\ Known(j)'
       => Settled(j)' /\ DeriveState(j)' = DeriveState(j)]_vars

\* Nothing is kept for ever: no artifact of a finished job stays in the store.
GarbageCollected ==
  \A w \in Workload :
    []<>(arow[w] = "none" \/ owner[w] = NoJob \/ ~Over(owner[w]))

-----------------------------------------------------------------------------
(* What the repository says of jobs and the code does not keep *)

\* The verdict on a job that is over is final: its members are done trying
\* (job_registry).  A cancel call that returns late, a failed dispatch whose
\* loop goes on and a failed artifact write each overwrite the state of a
\* member that was done (update_state).
VerdictFinal ==
  [][\A j \in Job : Over(j) /\ Known(j)'
       => Over(j)' /\ DeriveState(j)' = DeriveState(j)]_vars
==============================================================================
