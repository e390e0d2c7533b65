----------------------------- MODULE Orchestrator -----------------------------
(***************************************************************************)
(* The coordinator's workload orchestrator (distributed/workload.py with   *)
(* the workload and attempt registries it writes through) together with    *)
(* what it can see of its workers: the execution ledger that answers       *)
(* submit, status, cancel and ack requests.                                *)
(*                                                                         *)
(* Every coordinator coroutine runs on one asyncio event loop, so code     *)
(* between two awaits cannot be interleaved with other coordinator code.   *)
(* A dispatch coroutine is a program counter per workload.  The counters   *)
(* in RunPc are points inside such a stretch: while one workload is there  *)
(* no other coordinator action is enabled (LoopFree), but the process may  *)
(* still crash there, between two durable writes.  The other counters are  *)
(* awaits.                                                                 *)
(***************************************************************************)
EXTENDS Naturals, Sequences, FiniteSets

CONSTANTS
  Workloads,         \* workload ids
  Workers,           \* worker ids
  DependsOn,         \* spec.depends_on: [Workloads -> Seq(Workloads)]
  RuntimePinned,     \* workloads with required_runtime_compatibility
  Capacity,          \* max_concurrent_workloads of every worker
  MaxAttempts,       \* retry budget (self.max_attempts)
  MaxDispatchTasks,  \* admission limit (self.max_dispatch_tasks)
  WorkerOutcomes,    \* how executions may end on a worker
  ServerErrors,      \* may a worker answer a status request with a 5xx?
  AttemptBound,      \* bound: attempts ever created per workload
  FaultBound,        \* bound: crashes, evictions, worker losses, drains
  NoWorker           \* the worker of an attempt that does not exist

-----------------------------------------------------------------------------
(* Value domains *)

Terminal == {"COMPLETED", "FAILED", "UNSCHEDULABLE", "CANCELLED"}
CancelStates == {"CANCELLATION_REQUESTED", "CANCELLED"}
WorkloadState ==
  Terminal \cup CancelStates \cup
  {"absent", "SUBMITTED", "PLACING", "PLACED", "EXECUTING"}

\* Dependency states that fail a dependent.
BrokenDependency ==
  {"FAILED", "UNSCHEDULABLE", "CANCELLED", "CANCELLATION_REQUESTED"}

AttemptNo == 1 .. AttemptBound
ActiveStatus == {"ASSIGNED", "RUNNING"}

\* CHECKPOINTED is SUCCEEDED with a result whose was_checkpointed is set:
\* the one kind of attempt that is not charged to the retry budget.
AttemptStatus ==
  ActiveStatus \cup
  {"none", "QUEUED", "SUCCEEDED", "CHECKPOINTED", "FAILED", "LOST"}

\* FailureCategory members that a dispatch can end with.
Category ==
  {"WORKER_UNAVAILABLE", "ASSET_STAGING_FAILURE", "EXECUTION_TIMEOUT",
   "TEMPORARY_CAS_FAILURE", "RESOURCE_EXHAUSTION", "ASSET_TRANSFER_FAILURE",
   "EXECUTION_FAILURE", "ARTIFACT_VERIFICATION_FAILURE", "APPLICATION_ERROR"}

Retryable ==
  {"WORKER_UNAVAILABLE", "TEMPORARY_CAS_FAILURE", "RESOURCE_EXHAUSTION",
   "EXECUTION_TIMEOUT", "ASSET_TRANSFER_FAILURE", "ASSET_STAGING_FAILURE"}

\* Categories that exclude the worker from this workload's later attempts.
Exhausting ==
  {"WORKER_UNAVAILABLE", "ASSET_STAGING_FAILURE", "EXECUTION_TIMEOUT"}

Outcome == {"SUCCESS", "CHECKPOINT"} \cup Category

AttemptRecord ==
  [status : AttemptStatus, worker : Workers \cup {NoWorker},
   category : Category \cup {"none"}]

NoAttempt == [status |-> "none", worker |-> NoWorker, category |-> "none"]

\* A worker's ledger entry for one attempt: not yet sent, on the wire,
\* running, running with cancel_requested, ended with an outcome, or gone
\* (never arrived, acknowledged, or forgotten by a worker restart).
ExecState == {"none", "sent", "running", "cancelling", "gone"} \cup Outcome

\* Points between two awaits, where the event loop is held.
RunPc == {"place", "launch", "settle", "seal", "conclude"}
\* Awaits of a coroutine whose latest attempt is in flight.
WirePc == {"submit", "resolve", "sleep", "status", "cancel", "ack"}
Pc == RunPc \cup WirePc \cup {"idle", "scheduled", "backoff"}

ASSUME ConstantAssumption ==
  /\ IsFiniteSet(Workloads)
  /\ NoWorker \notin Workers
  /\ DependsOn \in [Workloads -> Seq(Workloads)]
  /\ RuntimePinned \subseteq Workloads
  /\ Capacity \in Nat /\ MaxAttempts \in Nat \ {0}
  /\ MaxDispatchTasks \in Nat \ {0}
  /\ WorkerOutcomes \subseteq Outcome
  /\ ServerErrors \in BOOLEAN
  /\ AttemptBound \in Nat /\ FaultBound \in Nat

-----------------------------------------------------------------------------
VARIABLES
  \* durable: written through to the coordinator's SQLite store
  wstate,       \* WorkloadRecord.state
  attempts,     \* AttemptRegistry._attempts, by workload and number
  made,         \* len(AttemptRegistry._by_workload[w])
  registered,   \* workers in WorkerRegistry
  \* volatile coordinator state
  up,           \* is the coordinator process running?
  eligible,     \* registered workers that pass the placement gates
  queued,       \* _queued_ids
  processing,   \* _processing_ids
  looping,      \* is the admission queue task alive?
  pc,           \* where each dispatch coroutine is
  used,         \* its attempts_used
  exhausted,    \* its exhausted_worker_ids
  held,         \* the outcome _submit_and_await is about to return
  canceller,    \* attempt a cancel_workload() call is posting about, or 0
  \* workers and network
  exec,         \* ledger entry of every attempt on the worker it went to
  \* observation only
  ran,          \* attempts whose execution really succeeded on a worker
  faults        \* faults injected so far

durable  == <<wstate, attempts, made, registered>>
local    == <<pc, used, exhausted, held>>
queue    == <<queued, processing, looping>>
ghosts   == <<ran, faults>>
vars     == <<wstate, attempts, made, registered, up, eligible, queued,
              processing, looping, pc, used, exhausted, held, canceller,
              exec, ran, faults>>

TypeOK ==
  /\ wstate \in [Workloads -> WorkloadState]
  /\ attempts \in [Workloads -> [AttemptNo -> AttemptRecord]]
  /\ made \in [Workloads -> 0 .. AttemptBound]
  /\ registered \subseteq Workers
  /\ up \in BOOLEAN
  /\ eligible \subseteq registered
  /\ queued \subseteq Workloads
  /\ processing \subseteq Workloads
  /\ looping \in BOOLEAN
  /\ pc \in [Workloads -> Pc]
  /\ used \in [Workloads -> Nat]
  /\ exhausted \in [Workloads -> SUBSET Workers]
  /\ held \in [Workloads -> Outcome \cup {"none"}]
  /\ canceller \in [Workloads -> 0 .. AttemptBound]
  /\ exec \in [Workloads -> [AttemptNo -> ExecState]]
  /\ ran \subseteq Workloads \X AttemptNo
  /\ faults \in 0 .. FaultBound

-----------------------------------------------------------------------------
(* Derived state *)

\* No coordinator coroutine holds the event loop.
LoopFree == up /\ \A v \in Workloads : pc[v] \notin RunPc

\* The attempt a dispatch coroutine is working on is always the newest one.
Latest(w) == attempts[w][made[w]]

\* Mutant: any terminal state of a dependency will do.
OpenUntilTerminal(w) ==
  {i \in DOMAIN DependsOn[w] : wstate[DependsOn[w][i]] \notin Terminal}

\* Positions of w's dependencies that have not completed, the first of which
\* decides, and the verdict of _dependency_state.
OpenDeps(w) ==
  {i \in DOMAIN DependsOn[w] : wstate[DependsOn[w][i]] # "COMPLETED"}
Blocker(w) ==
  DependsOn[w][CHOOSE i \in OpenDeps(w) : \A j \in OpenDeps(w) : i <= j]
DependencyState(w) ==
  IF OpenDeps(w) = {} THEN "ready"
  ELSE IF wstate[Blocker(w)] \in BrokenDependency THEN "failed" ELSE "waiting"

\* Attempts charged to the retry budget, and the workers that durable attempt
\* records exclude from further attempts.
ChargedSet(w) ==
  {n \in 1 .. made[w] : attempts[w][n].status # "CHECKPOINTED"}
Charged(w) == Cardinality(ChargedSet(w))
\* Mutant: exclusions are kept in the coroutine only.
ForgetExhausted(w) == {}
ExhaustedByRecord(w) ==
  {attempts[w][n].worker : n \in
     {m \in 1 .. made[w] : /\ attempts[w][m].category \in Exhausting
                           /\ attempts[w][m].status # "LOST"}}

\* Attempts the coordinator counts against worker k (active_workload_count).
LoadSet(k) ==
  {a \in Workloads \X AttemptNo :
     /\ attempts[a[1]][a[2]].worker = k
     /\ attempts[a[1]][a[2]].status \in ActiveStatus}

\* Mutant: a full worker still takes one more attempt.
CandidatesOffByOne(w) ==
  IF w \in RuntimePinned THEN {}
  ELSE {k \in eligible \ exhausted[w] : Cardinality(LoadSet(k)) <= Capacity}

\* Workers PlacementEngine.evaluate accepts for w.  No worker reports the
\* runtime compatibility a pinned workload demands.
Candidates(w) ==
  IF w \in RuntimePinned THEN {}
  ELSE {k \in eligible \ exhausted[w] : Cardinality(LoadSet(k)) < Capacity}

\* Mutant: one attempt too many.
ShouldRetryOffByOne(w, category) ==
  category \in Retryable /\ used[w] <= MaxAttempts
ShouldRetry(w, category) ==
  category \in Retryable /\ used[w] < MaxAttempts

-----------------------------------------------------------------------------
(* Writes *)

\* The newest attempt of w gets a final status; a LOST one keeps its category.
MarkLatest(w, status, category) ==
  attempts' = [attempts EXCEPT ![w][made[w]] =
                 [@ EXCEPT !.status = status, !.category = category]]

\* _process_workload returns with workload state s and the finally block of
\* _run_queued_workload runs: a workload that is SUBMITTED again is queued and
\* keeps its dispatch slot for a second, any other one gives the slot up.
Return(w, s) ==
  /\ wstate' = [wstate EXCEPT ![w] = s]
  /\ pc' = [pc EXCEPT ![w] = IF s = "SUBMITTED" THEN "backoff" ELSE "idle"]
  /\ queued' = IF s = "SUBMITTED" THEN queued \cup {w} ELSE queued
  /\ processing' = IF s = "SUBMITTED" THEN processing ELSE processing \ {w}
  /\ used' = [used EXCEPT ![w] = 0]
  /\ exhausted' = [exhausted EXCEPT ![w] = {}]
  /\ held' = [held EXCEPT ![w] = "none"]
  /\ UNCHANGED looping

Goto(w, p) == pc' = [pc EXCEPT ![w] = p]

-----------------------------------------------------------------------------
(* Admission queue *)

\* submit_workload: a new record is stored and queued; a repeated submission
\* only queues, and only a record that may still have to run.
SubmitWorkload(w) ==
  /\ LoopFree
  /\ \/ /\ wstate[w] = "absent"
        /\ wstate' = [wstate EXCEPT ![w] = "SUBMITTED"]
     \/ /\ wstate[w] \notin {"absent", "COMPLETED", "FAILED", "UNSCHEDULABLE"}
        /\ w \notin processing \cup queued
        /\ UNCHANGED wstate
  /\ queued' = queued \cup {w}
  /\ looping' = TRUE
  /\ UNCHANGED <<attempts, made, registered, up, eligible, processing, local,
                 canceller, exec, ghosts>>

\* Workloads the 1s timeout of the queue loop puts back in the queue.
Forgotten == {w \in Workloads : wstate[w] = "SUBMITTED"} \ processing

\* Mutant: slots taken in earlier passes are not counted.
FillsAllSlots(start, ready) ==
  /\ start = {} \/ Cardinality(start) <= MaxDispatchTasks
  /\ start = ready \/ Cardinality(start) >= MaxDispatchTasks

\* Ready workloads are started as long as there are slots left.
FillsSlots(start, ready) ==
  /\ start = {} \/ Cardinality(processing \cup start) <= MaxDispatchTasks
  /\ start = ready \/ Cardinality(processing \cup start) >= MaxDispatchTasks

\* One pass of _admission_queue_loop over queue q: dependents of broken
\* workloads fail (visiting order decides whether a failure made in this pass
\* is already seen), then ready ones are started while there are slots left.
\* The order of starting is left open here.
AdmissionPass(q) ==
  LET pending == {w \in q : wstate[w] = "SUBMITTED"} \ processing
      ready   == {w \in pending : DependencyState(w) = "ready"}
  IN  /\ LoopFree /\ looping
      /\ q \cup processing # {}
      /\ \E broken \in SUBSET pending, start \in SUBSET ready :
           /\ \A w \in pending : DependencyState(w) = "failed" => w \in broken
           /\ \A w \in broken : \/ DependencyState(w) = "failed"
                                \/ /\ DependencyState(w) = "waiting"
                                   /\ Blocker(w) \in broken
           /\ FillsSlots(start, ready)
           /\ wstate' = [w \in Workloads |->
                           IF w \in broken THEN "FAILED" ELSE wstate[w]]
           /\ queued' = {w \in q : wstate[w] = "SUBMITTED"} \ (broken \cup start)
           /\ processing' = processing \cup start
           /\ pc' = [w \in Workloads |->
                       IF w \in start THEN "scheduled" ELSE pc[w]]
      /\ UNCHANGED <<attempts, made, registered, up, eligible, looping, used,
                     exhausted, held, canceller, exec, ghosts>>

\* Mutant: the loop does not wait for workloads being processed.
QueueExitEarly ==
  /\ LoopFree /\ looping
  /\ queued = {}
  /\ looping' = FALSE
  /\ UNCHANGED <<durable, up, eligible, queued, processing, local, canceller,
                 exec, ghosts>>

\* The loop ends when nothing is queued or being processed.
QueueExit ==
  /\ LoopFree /\ looping
  /\ queued = {} /\ processing = {}
  /\ looping' = FALSE
  /\ UNCHANGED <<durable, up, eligible, queued, processing, local, canceller,
                 exec, ghosts>>

\* The one-second sleep after an unplaced workload was queued again.
EndBackoff(w) ==
  /\ LoopFree
  /\ pc[w] = "backoff"
  /\ Goto(w, "idle")
  /\ processing' = processing \ {w}
  /\ UNCHANGED <<durable, up, eligible, queued, looping, used, exhausted, held,
                 canceller, exec, ghosts>>

-----------------------------------------------------------------------------
(* Dispatch: _process_workload up to the submit request *)

Start(w) ==
  /\ LoopFree
  /\ pc[w] = "scheduled"
  /\ IF wstate[w] \in CancelStates THEN Return(w, wstate[w])
     ELSE IF DependencyState(w) = "failed" THEN Return(w, "FAILED")
     ELSE IF DependencyState(w) = "waiting" THEN Return(w, wstate[w])
     ELSE IF Charged(w) >= MaxAttempts THEN Return(w, "FAILED")
     ELSE /\ wstate' = [wstate EXCEPT ![w] = "PLACING"]
          /\ used' = [used EXCEPT ![w] = Charged(w)]
          /\ exhausted' = [exhausted EXCEPT ![w] = ExhaustedByRecord(w)]
          /\ Goto(w, "place")
          /\ UNCHANGED <<queued, processing, looping, held>>
  /\ UNCHANGED <<attempts, made, registered, up, eligible, canceller, exec,
                 ghosts>>

\* Placement found a worker: the workload is PLACED and attempt made[w] + 1
\* created.  worker is the attempt's placement decision from here on.
PlaceOn(w, k) ==
  /\ up /\ pc[w] = "place"
  /\ k \in Candidates(w)
  /\ made[w] < AttemptBound
  /\ wstate' = [wstate EXCEPT ![w] = "PLACED"]
  /\ made' = [made EXCEPT ![w] = @ + 1]
  /\ attempts' = [attempts EXCEPT ![w][made[w] + 1] =
                    [status |-> "QUEUED", worker |-> k, category |-> "none"]]
  /\ used' = [used EXCEPT ![w] = @ + 1]
  /\ Goto(w, "launch")
  /\ UNCHANGED <<registered, up, eligible, queue, exhausted, held, canceller,
                 exec, ghosts>>

\* Placement found no worker.
NoDecision(w) ==
  /\ up /\ pc[w] = "place"
  /\ Candidates(w) = {}
  /\ Return(w, IF w \in RuntimePinned THEN "UNSCHEDULABLE"
               ELSE IF registered # {} /\ registered \subseteq exhausted[w]
                 THEN "FAILED" ELSE "SUBMITTED")
  /\ UNCHANGED <<attempts, made, registered, up, eligible, canceller, exec,
                 ghosts>>

\* mark_assigned, mark_running, EXECUTING, and the submit POST goes out.
Launch(w) ==
  /\ up /\ pc[w] = "launch"
  /\ attempts' = [attempts EXCEPT ![w][made[w]].status = "RUNNING"]
  /\ wstate' = [wstate EXCEPT ![w] = "EXECUTING"]
  /\ exec' = [exec EXCEPT ![w][made[w]] = "sent"]
  /\ Goto(w, "submit")
  /\ UNCHANGED <<made, registered, up, eligible, queue, used, exhausted, held,
                 canceller, ghosts>>

-----------------------------------------------------------------------------
(* Dispatch: _submit_and_await.  exec is what the worker's ledger holds when *)
(* the response the coordinator handles was produced.                       *)

Ledger(w) == exec[w][made[w]]

\* Top of the poll loop: coordinator-owned cancellation and loss come first
\* and make the coroutine cancel the remote execution; otherwise it polls.
Poll(w) ==
  IF wstate[w] \in CancelStates
  THEN Goto(w, "cancel") /\ held' = [held EXCEPT ![w] = "EXECUTION_FAILURE"]
  ELSE IF Latest(w).status = "LOST"
  THEN Goto(w, "cancel") /\ held' = [held EXCEPT ![w] = "WORKER_UNAVAILABLE"]
  ELSE Goto(w, "status") /\ UNCHANGED held

\* A terminal ledger entry was read: keep its outcome and acknowledge it.
TakeOutcome(w) ==
  /\ held' = [held EXCEPT ![w] = Ledger(w)]
  /\ Goto(w, "ack")

\* record_failure may or may not push a worker over a health threshold.
PenaliseWorker(k) == eligible' \in {eligible, eligible \ {k}}

\* The three exception handlers of _process_workload.  All of them exclude
\* the worker and charge the attempt as WORKER_UNAVAILABLE.
RaiseHandled(w, status) ==
  /\ MarkLatest(w, status, "WORKER_UNAVAILABLE")
  /\ PenaliseWorker(Latest(w).worker)
  /\ exhausted' = [exhausted EXCEPT ![w] = @ \cup {Latest(w).worker}]
  /\ Goto(w, IF ShouldRetry(w, "WORKER_UNAVAILABLE") THEN "place"
             ELSE "conclude")
  /\ UNCHANGED <<wstate, held>>

RecordLost(w)        == RaiseHandled(w, "LOST")
SubmitUnavailable(w) == RaiseHandled(w, "FAILED")

\* Mutant: the generic handler leaves the worker in play.
RaiseUnexpectedReusing(w) ==
  /\ ShouldRetry(w, "WORKER_UNAVAILABLE") \/ made[w] < AttemptBound
  /\ MarkLatest(w, "FAILED", "WORKER_UNAVAILABLE")
  /\ PenaliseWorker(Latest(w).worker)
  /\ Goto(w, "place")
  /\ wstate' = [wstate EXCEPT ![w] =
                  IF ShouldRetry(w, "WORKER_UNAVAILABLE") THEN @ ELSE "FAILED"]
  /\ UNCHANGED <<exhausted, held>>

\* The generic handler: once the budget is spent it writes FAILED, but it has
\* no return, so the placement loop goes round again.
RaiseUnexpected(w) ==
  /\ ShouldRetry(w, "WORKER_UNAVAILABLE") \/ made[w] < AttemptBound
  /\ MarkLatest(w, "FAILED", "WORKER_UNAVAILABLE")
  /\ PenaliseWorker(Latest(w).worker)
  /\ exhausted' = [exhausted EXCEPT ![w] = @ \cup {Latest(w).worker}]
  /\ Goto(w, "place")
  /\ wstate' = [wstate EXCEPT ![w] =
                  IF ShouldRetry(w, "WORKER_UNAVAILABLE") THEN @ ELSE "FAILED"]
  /\ UNCHANGED held

\* What no response handler touches.
responseRest == <<made, registered, up, queue, used, canceller, ghosts>>

\* The submit request was accepted and its response came back.
SubmitAccepted(w) ==
  /\ LoopFree /\ pc[w] = "submit"
  /\ Ledger(w) \notin {"sent", "gone"}
  /\ Poll(w)
  /\ UNCHANGED <<responseRest, wstate, attempts, eligible, exhausted, exec>>

\* Transport error or error status: ask the same worker about the attempt.
SubmitAmbiguous(w) ==
  /\ LoopFree /\ pc[w] = "submit"
  /\ Goto(w, "resolve")
  /\ UNCHANGED <<responseRest, wstate, attempts, eligible, exhausted, held, exec>>

\* The worker refused the request (404, 401, 403).
SubmitRejected(w) ==
  /\ LoopFree /\ pc[w] = "submit"
  /\ Ledger(w) = "sent"
  /\ exec' = [exec EXCEPT ![w][made[w]] = "gone"]
  /\ SubmitUnavailable(w)
  /\ UNCHANGED responseRest

\* The ambiguous submit is resolved by the worker's record of the attempt.
ResolveFound(w) ==
  /\ LoopFree /\ pc[w] = "resolve"
  /\ Ledger(w) \notin {"sent", "gone"}
  /\ IF Ledger(w) \in Outcome THEN TakeOutcome(w) ELSE Poll(w)
  /\ UNCHANGED <<responseRest, wstate, attempts, eligible, exhausted, exec>>

\* No record there, or the worker could not be asked.
ResolveUnavailable(w) ==
  /\ LoopFree /\ pc[w] = "resolve"
  /\ SubmitUnavailable(w)
  /\ UNCHANGED <<responseRest, exec>>

\* A 5xx answer to the resolving request: raise_for_status escapes to the
\* generic handler.
ResolveServerError(w) ==
  /\ ServerErrors
  /\ LoopFree /\ pc[w] = "resolve"
  /\ RaiseUnexpected(w)
  /\ UNCHANGED <<responseRest, exec>>

EndSleep(w) ==
  /\ LoopFree /\ pc[w] = "sleep"
  /\ Poll(w)
  /\ UNCHANGED <<responseRest, wstate, attempts, eligible, exhausted, exec>>

\* Still running, or a transport or status error: sleep and poll again.
StatusAgain(w) ==
  /\ LoopFree /\ pc[w] = "status"
  /\ Goto(w, "sleep")
  /\ UNCHANGED <<responseRest, wstate, attempts, eligible, exhausted, held, exec>>

StatusTerminal(w) ==
  /\ LoopFree /\ pc[w] = "status"
  /\ Ledger(w) \in Outcome
  /\ TakeOutcome(w)
  /\ UNCHANGED <<responseRest, wstate, attempts, eligible, exhausted, exec>>

\* 404: the worker forgot the attempt.
StatusMissing(w) ==
  /\ LoopFree /\ pc[w] = "status"
  /\ Ledger(w) = "gone"
  /\ RecordLost(w)
  /\ UNCHANGED <<responseRest, exec>>

\* The ack arrived, or was lost; either way the result is returned.
AckReturned(w) ==
  /\ LoopFree /\ pc[w] = "ack"
  /\ exec' \in {exec, [exec EXCEPT ![w][made[w]] = "gone"]}
  /\ Goto(w, "settle")
  /\ UNCHANGED <<responseRest, wstate, attempts, eligible, exhausted, held>>

CancelRemoteReturned(w) ==
  /\ LoopFree /\ pc[w] = "cancel"
  /\ Goto(w, "settle")
  /\ UNCHANGED <<responseRest, wstate, attempts, eligible, exhausted, held, exec>>

-----------------------------------------------------------------------------
(* Dispatch: what _process_workload does with a returned result *)

settleRest == <<made, registered, up, eligible, canceller, exec, ghosts>>

\* A cancelled workload keeps nothing of the result.
SettleCancelled(w) ==
  /\ up /\ pc[w] = "settle"
  /\ wstate[w] \in CancelStates
  /\ MarkLatest(w, "FAILED", "EXECUTION_FAILURE")
  /\ Return(w, "CANCELLED")
  /\ UNCHANGED settleRest

\* A checkpoint ends the attempt well and queues the workload again.
SettleCheckpoint(w) ==
  /\ up /\ pc[w] = "settle"
  /\ wstate[w] \notin CancelStates
  /\ held[w] = "CHECKPOINT"
  /\ MarkLatest(w, "CHECKPOINTED", Latest(w).category)
  /\ Return(w, "SUBMITTED")
  /\ UNCHANGED settleRest

\* Mutant: a checkpoint, which ends an attempt with success set, counts too.
SuccessOrCheckpoint(w) == held[w] \in {"SUCCESS", "CHECKPOINT"}

\* The result says success and was not checkpointed.
ResultSuccess(w) == held[w] = "SUCCESS"

\* Success, first the workload: result and COMPLETED are stored and any other
\* attempt still active is superseded ...
SettleSuccess(w) ==
  /\ up /\ pc[w] = "settle"
  /\ wstate[w] \notin CancelStates
  /\ ResultSuccess(w)
  /\ wstate' = [wstate EXCEPT ![w] = "COMPLETED"]
  /\ attempts' = [attempts EXCEPT ![w] = [n \in AttemptNo |->
       IF n # made[w] /\ @[n].status \in ActiveStatus
       THEN [@[n] EXCEPT !.status = "FAILED", !.category = "EXECUTION_FAILURE"]
       ELSE @[n]]]
  /\ Goto(w, "seal")
  /\ UNCHANGED <<settleRest, queue, used, exhausted, held>>

\* ... then the attempt.
Seal(w) ==
  /\ up /\ pc[w] = "seal"
  /\ MarkLatest(w, "SUCCEEDED", Latest(w).category)
  /\ Return(w, wstate[w])
  /\ UNCHANGED settleRest

\* A reported failure: the attempt first, then retry or give up.
SettleFailure(w) ==
  /\ up /\ pc[w] = "settle"
  /\ wstate[w] \notin CancelStates
  /\ held[w] \in Category
  /\ IF Latest(w).status = "LOST"
     THEN MarkLatest(w, "LOST", "WORKER_UNAVAILABLE")
     ELSE MarkLatest(w, "FAILED", held[w])
  /\ exhausted' = [exhausted EXCEPT ![w] =
       IF held[w] \in Exhausting THEN @ \cup {Latest(w).worker} ELSE @]
  /\ Goto(w, IF ShouldRetry(w, held[w]) THEN "place" ELSE "conclude")
  /\ held' = [held EXCEPT ![w] = "none"]
  /\ UNCHANGED <<settleRest, wstate, queue, used>>

Conclude(w) ==
  /\ up /\ pc[w] = "conclude"
  /\ Return(w, "FAILED")
  /\ UNCHANGED <<settleRest, attempts>>

-----------------------------------------------------------------------------
(* cancel_workload *)

\* The request is recorded.  If the newest attempt is active on a registered
\* worker the call now awaits the worker's cancel endpoint, otherwise it
\* finishes at once.
CancelWorkload(w) ==
  /\ LoopFree
  /\ wstate[w] \notin Terminal \cup {"absent"}
  /\ canceller[w] = 0
  /\ IF made[w] > 0 /\ Latest(w).status \in ActiveStatus
        /\ Latest(w).worker \in registered
     THEN /\ wstate' = [wstate EXCEPT ![w] = "CANCELLATION_REQUESTED"]
          /\ canceller' = [canceller EXCEPT ![w] = made[w]]
          /\ UNCHANGED queued
     ELSE /\ wstate' = [wstate EXCEPT ![w] = "CANCELLED"]
          /\ queued' = queued \ {w}
          /\ UNCHANGED canceller
  /\ UNCHANGED <<attempts, made, registered, up, eligible, processing, looping,
                 local, exec, ghosts>>

\* The cancel request returned or failed.
CancelReturned(w) ==
  /\ LoopFree
  /\ canceller[w] # 0
  /\ wstate' = [wstate EXCEPT ![w] = "CANCELLED"]
  /\ queued' = queued \ {w}
  /\ canceller' = [canceller EXCEPT ![w] = 0]
  /\ UNCHANGED <<attempts, made, registered, up, eligible, processing, looping,
                 local, exec, ghosts>>

-----------------------------------------------------------------------------
(* Worker registry, as far as the orchestrator depends on it *)

Fault == faults < FaultBound /\ faults' = faults + 1

\* k registers, or a heartbeat makes it eligible again.
Heartbeat(k) ==
  /\ LoopFree
  /\ k \notin eligible
  /\ registered' = registered \cup {k}
  /\ eligible' = eligible \cup {k}
  /\ UNCHANGED <<wstate, attempts, made, up, queue, local, canceller, exec,
                 ghosts>>

\* k drains, degrades or lets its telemetry go stale.
BecomeIneligible(k) ==
  /\ LoopFree /\ Fault
  /\ k \in eligible
  /\ eligible' = eligible \ {k}
  /\ UNCHANGED <<durable, up, queue, local, canceller, exec, ran>>

\* k unregisters itself; nobody tells the orchestrator.
Unregister(k) ==
  /\ LoopFree /\ Fault
  /\ k \in registered
  /\ registered' = registered \ {k}
  /\ eligible' = eligible \ {k}
  /\ UNCHANGED <<wstate, attempts, made, up, queue, local, canceller, exec, ran>>

\* The attempts in the set lost become LOST.
LoseAttempts(lost) ==
  attempts' = [w \in Workloads |-> [n \in AttemptNo |->
    IF <<w, n>> \in lost
    THEN [attempts[w][n] EXCEPT !.status = "LOST",
                                !.category = "WORKER_UNAVAILABLE"]
    ELSE attempts[w][n]]]

\* Mutant: the eviction does not reach the placement index.
EvictUnindexed(k) ==
  /\ LoopFree /\ Fault
  /\ k \in registered
  /\ registered' = registered \ {k}
  /\ LoseAttempts(LoadSet(k))
  /\ UNCHANGED <<wstate, made, up, eligible, queue, local, canceller, exec, ran>>

\* Heartbeat timeout: k is unregistered and its active attempts are LOST.
Evict(k) ==
  /\ LoopFree /\ Fault
  /\ k \in registered
  /\ registered' = registered \ {k}
  /\ eligible' = eligible \ {k}
  /\ LoseAttempts(LoadSet(k))
  /\ UNCHANGED <<wstate, made, up, queue, local, canceller, exec, ran>>

-----------------------------------------------------------------------------
(* Workers and network *)

workerRest == <<durable, up, eligible, queue, local, canceller>>

\* A submit request arrives, possibly long after the coordinator gave up.
WorkerAccept(w, n) ==
  /\ exec[w][n] = "sent"
  /\ exec' = [exec EXCEPT ![w][n] = "running"]
  /\ UNCHANGED <<workerRest, ghosts>>

RequestDropped(w, n) ==
  /\ exec[w][n] = "sent"
  /\ exec' = [exec EXCEPT ![w][n] = "gone"]
  /\ UNCHANGED <<workerRest, ghosts>>

\* An execution ends.  (The bound leaves room for the whole retry budget
\* after a checkpoint.)  A cancelled one may still have succeeded.
WorkerFinish(w, n, o) ==
  /\ \/ exec[w][n] = "running" /\ o \in WorkerOutcomes
     \/ exec[w][n] = "cancelling" /\ o \in {"SUCCESS", "EXECUTION_FAILURE"}
  /\ o = "CHECKPOINT" => n + MaxAttempts <= AttemptBound
  /\ exec' = [exec EXCEPT ![w][n] = o]
  /\ ran' = IF o = "SUCCESS" THEN ran \cup {<<w, n>>} ELSE ran
  /\ UNCHANGED <<workerRest, faults>>

\* A cancel request, sent by the poll loop or by cancel_workload, arrives.
WorkerCancel(w, n) ==
  /\ exec[w][n] = "running"
  /\ canceller[w] = n \/ (pc[w] = "cancel" /\ n = made[w])
  /\ exec' = [exec EXCEPT ![w][n] = "cancelling"]
  /\ UNCHANGED <<workerRest, ghosts>>

\* The worker process restarts: its ledger is in memory only.
WorkerRestart(k) ==
  /\ Fault
  /\ exec' = [w \in Workloads |-> [n \in AttemptNo |->
       IF attempts[w][n].worker = k /\ exec[w][n] \notin {"none", "sent"}
       THEN "gone" ELSE exec[w][n]]]
  /\ UNCHANGED <<workerRest, ran>>

-----------------------------------------------------------------------------
(* Coordinator crash and recovery *)

Crash ==
  /\ up /\ Fault
  /\ up' = FALSE
  /\ eligible' = {}
  /\ queued' = {} /\ processing' = {} /\ looping' = FALSE
  /\ pc' = [w \in Workloads |-> "idle"]
  /\ used' = [w \in Workloads |-> 0]
  /\ exhausted' = [w \in Workloads |-> {}]
  /\ held' = [w \in Workloads |-> "none"]
  /\ canceller' = [w \in Workloads |-> 0]
  /\ UNCHANGED <<durable, exec, ran>>

\* Mutants: recovery drives cancelled workloads again, or only queued ones.
RecoverUnlessDecided ==
  {w \in Workloads : wstate[w] \notin {"absent", "COMPLETED", "FAILED",
                                       "UNSCHEDULABLE"}}
RecoverSubmitted == {w \in Workloads : wstate[w] = "SUBMITTED"}

\* Workloads recovery drives again.
Recoverable == {w \in Workloads : wstate[w] \notin Terminal \cup {"absent"}}

\* Mutant: only the attempts of workloads that are driven again are closed.
InFlightOfRecoverable ==
  {a \in Recoverable \X AttemptNo :
     attempts[a[1]][a[2]].status \in ActiveStatus}

InFlightAtCrash ==
  {a \in Workloads \X AttemptNo : attempts[a[1]][a[2]].status \in ActiveStatus}

\* _restore_persisted_state and _redrive_recovered_workloads: attempts that
\* were in flight are LOST, workers are OFFLINE until they heartbeat, and
\* every workload without a terminal state is queued again.
Restart ==
  /\ ~up
  /\ up' = TRUE
  /\ LoseAttempts(InFlightAtCrash)
  /\ wstate' = [w \in Workloads |->
                  IF w \in Recoverable THEN "SUBMITTED" ELSE wstate[w]]
  /\ queued' = Recoverable
  /\ looping' = (Recoverable # {})
  /\ UNCHANGED <<made, registered, eligible, processing, local, canceller,
                 exec, ghosts>>

-----------------------------------------------------------------------------
Init ==
  /\ wstate = [w \in Workloads |-> "absent"]
  /\ attempts = [w \in Workloads |-> [n \in AttemptNo |-> NoAttempt]]
  /\ made = [w \in Workloads |-> 0]
  /\ registered = {} /\ eligible = {}
  /\ up = TRUE
  /\ queued = {} /\ processing = {} /\ looping = FALSE
  /\ pc = [w \in Workloads |-> "idle"]
  /\ used = [w \in Workloads |-> 0]
  /\ exhausted = [w \in Workloads |-> {}]
  /\ held = [w \in Workloads |-> "none"]
  /\ canceller = [w \in Workloads |-> 0]
  /\ exec = [w \in Workloads |-> [n \in AttemptNo |-> "none"]]
  /\ ran = {}
  /\ faults = 0

\* What the dispatch coroutine of w does next.
Dispatch(w) ==
  \/ Start(w) \/ NoDecision(w) \/ Launch(w) \/ EndBackoff(w)
  \/ \E k \in Workers : PlaceOn(w, k)
  \/ SubmitAccepted(w) \/ SubmitAmbiguous(w) \/ SubmitRejected(w)
  \/ ResolveFound(w) \/ ResolveUnavailable(w) \/ ResolveServerError(w)
  \/ EndSleep(w) \/ StatusAgain(w) \/ StatusTerminal(w) \/ StatusMissing(w)
  \/ AckReturned(w) \/ CancelRemoteReturned(w)
  \/ SettleCancelled(w) \/ SettleCheckpoint(w) \/ SettleSuccess(w)
  \/ SettleFailure(w) \/ Seal(w) \/ Conclude(w)

Ledgers ==
  \E w \in Workloads, n \in AttemptNo :
    \/ WorkerAccept(w, n) \/ RequestDropped(w, n) \/ WorkerCancel(w, n)
    \/ \E o \in Outcome : WorkerFinish(w, n, o)

Registry ==
  \E k \in Workers :
    \/ Heartbeat(k) \/ BecomeIneligible(k) \/ Unregister(k) \/ Evict(k)
    \/ WorkerRestart(k)

Admission == \E q \in {queued, queued \cup Forgotten} : AdmissionPass(q)

Next ==
  \/ \E w \in Workloads : SubmitWorkload(w) \/ CancelWorkload(w)
                          \/ CancelReturned(w) \/ Dispatch(w)
  \/ Admission \/ QueueExit
  \/ Ledgers \/ Registry
  \/ Crash \/ Restart

Spec == Init /\ [][Next]_vars

-----------------------------------------------------------------------------
(* Safety *)

\* No lost wakeup: while the coordinator is up, a workload that waits in
\* SUBMITTED is in the queue or holds a dispatch slot, and the admission queue
\* task that will look at it is alive.
NoLostWakeup ==
  \A w \in Workloads :
    up /\ wstate[w] = "SUBMITTED" => looping /\ w \in queued \cup processing

\* Only the newest attempt of a workload can be ASSIGNED or RUNNING, and only
\* while a dispatch coroutine is working on it: neither a retry, a
\* cancellation nor a restart leaves an attempt that looks active for ever.
ActiveAttemptOwned ==
  \A w \in Workloads, n \in AttemptNo :
    up /\ attempts[w][n].status \in ActiveStatus =>
      n = made[w] /\ pc[w] \in WirePc \cup {"settle", "seal"}

\* Placement never gives a worker more active attempts than it advertises
\* room for, although several workloads are placed concurrently.
CapacityRespected ==
  \A k \in Workers : Cardinality(LoadSet(k)) <= Capacity

\* No more than MaxDispatchTasks workloads are being dispatched.
DispatchBounded == Cardinality(processing) <= MaxDispatchTasks

\* A workload is COMPLETED only if one of its attempts really ran to success
\* on a worker, and an attempt is SUCCEEDED only if that very attempt did.
NoFalseSuccess ==
  \A w \in Workloads :
    /\ wstate[w] = "COMPLETED" => \E n \in AttemptNo : <<w, n>> \in ran
    /\ \A n \in AttemptNo :
         attempts[w][n].status = "SUCCEEDED" => <<w, n>> \in ran

\* Every dependency of w has succeeded on some worker.
DepsRan(w) ==
  \A i \in DOMAIN DependsOn[w] :
    \E n \in AttemptNo : <<DependsOn[w][i], n>> \in ran

\* A workload is attempted only after every workload it depends on has
\* succeeded on some worker, whatever crashed in between.
DependencyRan ==
  \A w \in Workloads :
    made[w] > 0 => DepsRan(w)

\* A worker that failed an attempt of a workload in a way that excludes it is
\* never given a later attempt of the same workload, restarts included.
NoRepeatOnFailedWorker ==
  \A w \in Workloads : \A m, n \in AttemptNo :
    /\ m < n
    /\ attempts[w][m].status = "FAILED"
    /\ attempts[w][m].category \in Exhausting
    /\ attempts[w][n].status # "none"
    => attempts[w][n].worker # attempts[w][m].worker

\* Attempts other than checkpointed ones stay within the retry budget, unless
\* a server error is answered to a submission (RaiseUnexpected); OverrunBounded
\* is about that case.
BudgetRespected == \A w \in Workloads : Charged(w) <= MaxAttempts

\* Server errors do overrun the budget (BudgetRespected fails), but each one
\* excludes a worker, so the overrun ends with the supply of workers.
OverrunBounded ==
  \A w \in Workloads :
    Charged(w) <= MaxAttempts + Cardinality(Workers) - 1

\* w has a terminal state and neither its dispatch coroutine nor a
\* cancel_workload call is still running.
Settled(w) ==
  wstate[w] \in Terminal /\ pc[w] = "idle" /\ canceller[w] = 0

\* Once settled, the verdict on a workload is final: no resubmission, queue
\* pass, dependency check, eviction, crash or recovery changes it or drives
\* the workload again.
SettledForever ==
  [][\A w \in Workloads :
       Settled(w) => Settled(w)' /\ wstate'[w] = wstate[w]
                     /\ made'[w] = made[w]]_vars

\* The orchestrator, its attempts, workers, retries and crashes hidden,
\* implements WorkloadVerdict: a settled workload is closed, every other
\* submitted one is open.
Phase ==
  [w \in Workloads |-> IF wstate[w] = "absent" THEN "absent"
                       ELSE IF Settled(w) THEN wstate[w] ELSE "open"]
Succeeded == {w \in Workloads : \E n \in AttemptNo : <<w, n>> \in ran}
Abstract == INSTANCE WorkloadVerdict WITH phase <- Phase, succeeded <- Succeeded

\* Clients see one final, truthful verdict per workload.
ImplementsVerdict == Abstract!Spec

\* What cancel_workload promises: once a cancellation is recorded, nothing but
\* the cancellation itself changes the workload's state.
CancelFinal ==
  [][\A w \in Workloads :
       wstate[w] \in CancelStates => wstate'[w] \in CancelStates]_vars

-----------------------------------------------------------------------------
(* The inductive invariant behind the safety properties *)

\* A dispatch slot is held exactly while a coroutine runs, and the queue task
\* outlives everything queued or processed.
SlotInv ==
  /\ \A w \in Workloads : w \in processing <=> pc[w] # "idle"
  /\ queued \cup processing # {} => looping

\* A workload that waits is queued, and stays queued through its backoff.
WaitInv ==
  \A w \in Workloads : up /\ wstate[w] = "SUBMITTED" =>
    /\ w \in queued \cup processing
    /\ pc[w] = "backoff" => w \in queued

\* Nothing volatile survives a crash.
DownInv ==
  ~up => \A w \in Workloads : pc[w] = "idle" /\ canceller[w] = 0

\* Attempts up to made[w] exist and have a worker, later ones do not, and a
\* coroutine past placement has one to work on.
AttemptInv ==
  \A w \in Workloads :
    /\ pc[w] \in WirePc \cup {"launch", "settle", "seal"} => made[w] > 0
    /\ made[w] > 0 \/ pc[w] # "idle" \/ canceller[w] # 0 => wstate[w] # "absent"
    /\ \A n \in AttemptNo :
         /\ n <= made[w] => attempts[w][n].worker \in Workers
         /\ n > made[w] => attempts[w][n] = NoAttempt /\ exec[w][n] = "none"

\* A result is held only between reading and settling it, and success is held
\* or stored only for an attempt that ran.
ResultInv ==
  \A w \in Workloads :
    /\ held[w] # "none" => pc[w] \in {"ack", "cancel", "settle", "seal"}
    /\ held[w] = "SUCCESS" => <<w, made[w]>> \in ran
    /\ pc[w] = "seal" => held[w] = "SUCCESS"
    /\ \A n \in AttemptNo : exec[w][n] = "SUCCESS" => <<w, n>> \in ran

\* What placement relies on: the dependencies of w have run.
DependencyInv ==
  \A w \in Workloads : pc[w] = "place" \/ made[w] > 0 => DepsRan(w)

IndInv ==
  /\ TypeOK
  /\ SlotInv /\ WaitInv /\ DownInv
  /\ AttemptInv /\ ActiveAttemptOwned
  /\ ResultInv /\ NoFalseSuccess /\ DependencyInv

-----------------------------------------------------------------------------
(* Liveness *)

\* Answers and heartbeats from the workers that make a difference.
Arrival ==
  \/ \E w \in Workloads :
       StatusTerminal(w) \/ StatusMissing(w) \/ CancelReturned(w)
  \/ \E k \in Workers : Heartbeat(k)

\* asyncio runs ready callbacks in the order they became ready, so whatever
\* waits only for the event loop to be free gets its turn: that is strong
\* fairness, LoopFree coming and going.  Every request is answered or times
\* out, polling does not fail for ever, executions end, workers send heartbeats,
\* and a crashed coordinator is restarted.
Fairness ==
  /\ WF_vars(Restart)
  /\ SF_vars(Admission) /\ SF_vars(Arrival)
  /\ \A w \in Workloads :
       /\ SF_vars(Dispatch(w))
       /\ \A n \in AttemptNo :
            WF_vars(\E o \in Outcome : WorkerFinish(w, n, o))

FairSpec == Spec /\ Fairness

\* Once all workloads have been submitted, each of them is eventually settled
\* for good, whatever faults happen on the way.
AllSettle ==
  (\A w \in Workloads : wstate[w] # "absent")
    ~> [](\A w \in Workloads : Settled(w))
====
