---------------------------- MODULE JobLedgerProofs ----------------------------
(***************************************************************************)
(* Proofs about JobLedger, for any jobs, requests, workloads and outputs,  *)
(* any number of crashes and failed writes and any damaged job rows.       *)
(***************************************************************************)
EXTENDS JobLedger, FiniteSetTheorems, TLAPS

-----------------------------------------------------------------------------
(* The inductive invariant *)

Typed == LedgerTypeOK /\ byHash \in [Hash -> SUBSET Workload]

\* A request in progress has workloads to submit; while it submits them it
\* has the event loop to itself and its job is known.
RequestsOrdered ==
  \A r \in Request :
    /\ pc[r] # "idle" => todo[r] # <<>>
    /\ pc[r] = "submit" => busy = "submit" /\ Known(JobOf[r])
    /\ \A q \in Request : pc[r] = "submit" /\ pc[q] = "submit" => q = r

\* A workload with a record was submitted for a job that is known, unless the
\* record of the job is lost; nothing else is dispatched or has artifacts.
OwnersKnown ==
  \A w \in Workload :
    /\ wst[w] = "none" <=> owner[w] = NoJob
    /\ owner[w] # NoJob => Known(owner[w]) \/ owner[w] \in dropped
    /\ art[w] # "none" \/ busy = w \/ w \in live \cup cpend => owner[w] # NoJob

\* Registry and store agree about every job, or its record is lost: there is
\* no row, or none that parses.
JobsStored ==
  \A j \in Job : jrow[j] = jobs[j] \/ (j \in dropped /\ jrow[j] \in {"none", "bad"})

\* No row is ahead of its artifact, and an available artifact has its row.
ArtifactsStored ==
  \A w \in Workload :
    /\ arow[w] = "none" \/ Rank(arow[w]) <= Rank(art[w])
    /\ art[w] = "available" => arow[w] = "available" \/ w \in dropped

\* A crash between a result and its artifact is noted.
CrashNoted ==
  \A w \in Workload : ~up /\ busy = w => art[w] # "none" \/ w \in dropped

\* Only the artifacts of finished jobs are collected.
CollectedWhenOver ==
  \A w \in Workload :
    owner[w] # NoJob /\ art[w] \in {"gc_eligible", "deleted"}
      => Over(owner[w]) \/ Disturbed(owner[w])

\* OutputsHeld, also while the coordinator is down.
HeldThroughout ==
  \A w \in Workload :
    owner[w] # NoJob /\ busy # w /\ wst[w] = "completed" /\ ~Over(owner[w])
      /\ ~Disturbed(owner[w]) /\ w \notin dropped
    => art[w] = "available"

BaseInv == Typed /\ RequestsOrdered /\ OwnersKnown /\ JobsStored /\ ArtifactsStored /\ CrashNoted
LedgerInv == BaseInv /\ CollectedWhenOver /\ HeldThroughout

-----------------------------------------------------------------------------
(* What any step does, as far as verdicts and artifacts are concerned *)

\* A member that is done changes only while it is in flight, and then the jobs
\* whose verdict rests on it are noted; a completed one was just completed or
\* has been before.
WorkloadsStep ==
  \A w \in Workload :
    /\ wst[w] \in WTerminal => wst'[w] = wst[w] \/ Rests(w) \subseteq reopened'
    /\ wst[w] \in WTerminal /\ ~InFlight(w) => wst'[w] = wst[w] /\ ~InFlight(w)'
    /\ wst'[w] = "completed" => wst[w] = "completed" \/ busy' = w
    /\ owner[w] # NoJob => owner'[w] = owner[w]

\* A job keeps its policy and members as long as it is known, which it stays
\* unless its record is lost.
JobsStep ==
  /\ dropped \subseteq dropped' /\ reopened \subseteq reopened'
  /\ \A j \in Job : Known(j) =>
       /\ Known(j)' \/ j \in dropped'
       /\ Known(j)' => jobs'[j] = jobs[j] /\ members'[j] = members[j]

\* Artifacts leave "available" only for unprotected jobs or by a lost write,
\* and the result of a workload ends with an artifact.
ArtifactsStep ==
  \A w \in Workload :
    /\ art'[w] \in {"gc_eligible", "deleted"}
         => \/ art[w] \in {"gc_eligible", "deleted"}
            \/ art[w] = "available" /\ owner[w] \notin ProtectedJobs
    /\ art[w] = "available"
         => art'[w] = "available" \/ w \in dropped' \/ owner[w] \notin ProtectedJobs
    /\ busy = w /\ busy' # w
         => art'[w] = "available" \/ w \in dropped' \/ art[w] \in {"gc_eligible", "deleted"}

Frame == WorkloadsStep /\ JobsStep /\ ArtifactsStep

-----------------------------------------------------------------------------
(* Ranks and verdicts *)

\* The rank of a lifecycle state grows from no artifact to a deleted one.
LEMMA Ranks ==
  /\ Rank("none") = 0 /\ Rank("available") = 1
  /\ Rank("gc_eligible") = 2 /\ Rank("deleted") = 3
BY DEF Rank


\* The members of a job that is over are all done.
LEMMA OverDone ==
  ASSUME Typed, NEW j \in Job, Over(j)
  PROVE  \A w \in members[j] : w \in Workload /\ wst[w] \in WTerminal
<1>1. members[j] \subseteq Workload /\ IsFiniteSet(members[j])
  BY LedgerAssumption, FS_Subset DEF Typed, LedgerTypeOK
<1>2. ASSUME NEW S PROVE Count(j, S) \in Nat /\ (Count(j, S) = 0 => \A w \in members[j] : wst[w] \notin S)
  <2> DEFINE C == {w \in members[j] : wst[w] \in S}
  <2>1. IsFiniteSet(C) BY <1>1, FS_Subset
  <2>2. Cardinality(C) \in Nat /\ (Cardinality(C) = 0 <=> C = {})
    BY <2>1, FS_CardinalityType, FS_EmptySet
  <2> QED BY <2>2 DEF Count
<1>3. ~(StillActive(j) > 0)
  <2> SUFFICES ASSUME StillActive(j) > 0 PROVE FALSE OBVIOUS
  <2>1. DeriveState(j) \in {"submitted", "running"} BY DEF DeriveState
  <2> QED BY <2>1 DEF Over
<1>4. Count(j, {"none", "pending"}) \in Nat /\ Count(j, {"running", "cancelling"}) \in Nat
  BY <1>2
<1>5. Count(j, {"none", "pending"}) = 0 /\ Count(j, {"running", "cancelling"}) = 0
  BY <1>3, <1>4 DEF StillActive, Pending
<1>6. \A w \in members[j] : wst[w] \notin {"none", "pending"} /\ wst[w] \notin {"running", "cancelling"}
  BY <1>2, <1>5
<1>7. \A w \in members[j] : w \in Workload /\ wst[w] \in WState BY <1>1 DEF Typed,
      LedgerTypeOK
<1> QED BY <1>6, <1>7 DEF WState

\* The verdict depends on the policy and on the states of the members only.
LEMMA SameVerdict ==
  ASSUME NEW j \in Job, jobs'[j] = jobs[j], members'[j] = members[j],
         \A w \in members[j] : wst'[w] = wst[w]
  PROVE  DeriveState(j)' = DeriveState(j) /\ (Over(j)' <=> Over(j))
<1>1. ASSUME NEW S PROVE Count(j, S)' = Count(j, S)
  <2>1. {w \in members'[j] : wst'[w] \in S} = {w \in members[j] : wst[w] \in S} OBVIOUS
  <2> QED BY <2>1 DEF Count
<1>2. /\ Count(j, {"none", "pending"})' = Count(j, {"none", "pending"})
      /\ Count(j, {"running", "cancelling"})' = Count(j, {"running", "cancelling"})
      /\ Count(j, {"completed"})' = Count(j, {"completed"})
      /\ Count(j, {"failed", "cancelled"})' = Count(j, {"failed", "cancelled"})
  BY <1>1
<1>3. StillActive(j)' = StillActive(j) BY <1>2 DEF StillActive, Pending
<1>4. jobs'[j] = jobs[j] OBVIOUS
<1>5. DeriveState(j)' = DeriveState(j)
  <2> DEFINE Verdict(a, c, f, g, p) ==
        IF a > 0 THEN IF c = 0 /\ f = 0 /\ g = 0 THEN "submitted" ELSE "running"
        ELSE CASE p = "all_required" -> IF f = 0 THEN "completed" ELSE "failed"
               [] p = "any_success" -> IF c > 0 THEN "completed" ELSE "failed"
               [] p = "threshold" -> IF c >= Threshold THEN "completed" ELSE "failed"
               [] p = "best_effort" ->
                    IF f = 0 THEN "completed"
                    ELSE IF c > 0 THEN "partially_completed" ELSE "failed"
  <2>1. DeriveState(j) = Verdict(StillActive(j), Count(j, {"completed"}),
          Count(j, {"failed", "cancelled"}), Count(j, {"running", "cancelling"}), jobs[j])
    BY DEF DeriveState
  <2>2. DeriveState(j)' = Verdict(StillActive(j)', Count(j, {"completed"})',
          Count(j, {"failed", "cancelled"})', Count(j, {"running", "cancelling"})', jobs'[j])
    BY DEF DeriveState
  <2> HIDE DEF Verdict
  <2> QED BY <1>2, <1>3, <1>4, <2>1, <2>2
<1> QED BY <1>4, <1>5 DEF Over, Known

\* A verdict stays, unless a disturbance is observed.
LEMMA VerdictKept ==
  ASSUME Typed, Frame, NEW j \in Job, Over(j), ~Disturbed(j)'
  PROVE  Over(j)' /\ DeriveState(j)' = DeriveState(j)
<1>1. Known(j) /\ j \notin dropped' /\ j \notin reopened' BY DEF Over, Disturbed
<1>2. jobs'[j] = jobs[j] /\ members'[j] = members[j] BY <1>1 DEF Frame, JobsStep
<1>3. \A w \in members[j] : w \in Workload /\ wst[w] \in WTerminal BY OverDone
<1>4. \A w \in members[j] : j \in Rests(w) BY DEF Rests
<1>5. \A w \in members[j] : wst'[w] = wst[w]
  BY <1>1, <1>3, <1>4 DEF Frame, WorkloadsStep
<1> QED BY <1>2, <1>5, SameVerdict

\* A verdict with nothing under way stays, until the job is forgotten.
LEMMA SettledStays ==
  ASSUME Typed, Frame, NEW j \in Job, Settled(j), Known(j)'
  PROVE  Settled(j)' /\ DeriveState(j)' = DeriveState(j)
<1>1. Over(j) /\ Known(j) /\ \A w \in members[j] : ~InFlight(w) BY DEF Settled, Over
<1>2. jobs'[j] = jobs[j] /\ members'[j] = members[j] BY <1>1 DEF Frame, JobsStep
<1>3. \A w \in members[j] : w \in Workload /\ wst[w] \in WTerminal BY <1>1, OverDone
<1>4. \A w \in members[j] : wst'[w] = wst[w] /\ ~InFlight(w)'
  BY <1>1, <1>3 DEF Frame, WorkloadsStep
<1>5. Over(j)' /\ DeriveState(j)' = DeriveState(j) BY <1>1, <1>2, <1>4, SameVerdict
<1> QED BY <1>2, <1>4, <1>5 DEF Settled

\* A disturbance of a job is never forgotten.
LEMMA DisturbedKept ==
  ASSUME Typed, Frame, NEW j \in Job, Known(j) \/ j \in dropped, Disturbed(j)
  PROVE  Disturbed(j)'
BY DEF Disturbed, Frame, JobsStep

-----------------------------------------------------------------------------
(* Every step keeps the base of the invariant and obeys the frame *)

\* A request is queued with everything it asks for.
LEMMA ReceiveStep ==
  ASSUME BaseInv, NEW r \in Request, Receive(r) PROVE BaseInv' /\ Frame
<1> USE DEF Receive, Free, WriteFails, registries, workloads, artifacts, clients, rest,
      gcRest
<1>0. /\ JobOf[r] \in Job /\ PolicyOf[r] \in Policy
      /\ SpecsOf[r] \in Seq(Workload) /\ SpecsOf[r] # <<>>
  BY LedgerAssumption
<1>1. Typed'
  <2>1. (up \in BOOLEAN /\ faults \in 0 .. FaultBound)'
    BY LedgerAssumption DEF BaseInv, Typed, LedgerTypeOK, Policy, WState, WTerminal,
          Lifecycle
  <2>2. (busy \in {"no", "submit", "delete", "mark"} \cup Workload)'
    BY LedgerAssumption DEF BaseInv, Typed, LedgerTypeOK, Policy, WState, WTerminal,
          Lifecycle
  <2>3. (jobs \in [Job -> Policy \cup {"none"}] /\ jrow \in [Job -> Policy \cup {"none", "bad"}])'
    BY LedgerAssumption DEF BaseInv, Typed, LedgerTypeOK, Policy, WState, WTerminal,
          Lifecycle
  <2>4. (members \in [Job -> SUBSET Workload] /\ young \subseteq Job)'
    BY LedgerAssumption DEF BaseInv, Typed, LedgerTypeOK, Policy, WState, WTerminal,
          Lifecycle
  <2>5. (pc \in [Request -> {"idle", "sizing", "submit"}])'
    BY DEF BaseInv, Typed, LedgerTypeOK
  <2>6. (todo \in [Request -> Seq(Workload)])'
    BY <1>0 DEF BaseInv, Typed, LedgerTypeOK
  <2>7. (wst \in [Workload -> WState] /\ owner \in [Workload -> Job \cup {NoJob}])'
    BY LedgerAssumption DEF BaseInv, Typed, LedgerTypeOK, Policy, WState, WTerminal,
          Lifecycle
  <2>8. (live \subseteq Workload /\ cpend \subseteq Workload /\ reopened \subseteq Job)'
    BY LedgerAssumption DEF BaseInv, Typed, LedgerTypeOK, Policy, WState, WTerminal,
          Lifecycle
  <2>9. (art \in [Workload -> Lifecycle] /\ arow \in [Workload -> Lifecycle])'
    BY LedgerAssumption DEF BaseInv, Typed, LedgerTypeOK, Policy, WState, WTerminal,
          Lifecycle
  <2>10. (byHash \in [Hash -> SUBSET Workload])'
    BY LedgerAssumption DEF BaseInv, Typed, LedgerTypeOK, Policy, WState, WTerminal,
          Lifecycle
  <2>11. (\A h \in Hash : byHash[h] = {x \in Workload : art[x] # "none" /\ OutputOf[x] = h})'
    BY LedgerAssumption DEF BaseInv, Typed, LedgerTypeOK, Policy, WState, WTerminal,
          Lifecycle
  <2> QED BY <2>1, <2>2, <2>3, <2>4, <2>5, <2>6, <2>7, <2>8, <2>9, <2>10,
        <2>11 DEF Typed, LedgerTypeOK
<1>2. RequestsOrdered'
  BY <1>0 DEF BaseInv, Typed, LedgerTypeOK, RequestsOrdered, Known
<1>3. OwnersKnown'
  BY LedgerAssumption DEF BaseInv, Typed, LedgerTypeOK, OwnersKnown, Known
<1>4. JobsStored'
  BY DEF BaseInv, Typed, LedgerTypeOK, JobsStored
<1>5. ArtifactsStored'
  BY DEF BaseInv, Typed, LedgerTypeOK, ArtifactsStored, Rank, Lifecycle
<1>6. CrashNoted'
  BY LedgerAssumption DEF BaseInv, Typed, LedgerTypeOK, CrashNoted
<1>7. WorkloadsStep
  BY LedgerAssumption DEF BaseInv, Typed, LedgerTypeOK, OwnersKnown, WorkloadsStep, WTerminal, InFlight
<1>8. JobsStep
  BY DEF BaseInv, Typed, LedgerTypeOK, JobsStored, JobsStep, Known
<1>9. ArtifactsStep
  BY LedgerAssumption DEF BaseInv, Typed, LedgerTypeOK, ArtifactsStep, ArtifactsStored
<1> QED BY <1>1, <1>2, <1>3, <1>4, <1>5, <1>6, <1>7, <1>8, <1>9 DEF BaseInv, Frame

\* A request that is refused leaves nothing.
LEMMA InfeasibleStep ==
  ASSUME BaseInv, NEW r \in Request, Infeasible(r) PROVE BaseInv' /\ Frame
<1> USE DEF Infeasible, Free, WriteFails, registries, workloads, artifacts, clients,
      rest, gcRest
<1>1. Typed'
  BY LedgerAssumption DEF BaseInv, Typed, LedgerTypeOK, Policy, WState, WTerminal, Lifecycle
<1>2. RequestsOrdered'
  BY LedgerAssumption DEF BaseInv, Typed, LedgerTypeOK, RequestsOrdered, Known
<1>3. OwnersKnown'
  BY LedgerAssumption DEF BaseInv, Typed, LedgerTypeOK, OwnersKnown, Known
<1>4. JobsStored'
  BY DEF BaseInv, Typed, LedgerTypeOK, JobsStored
<1>5. ArtifactsStored'
  BY DEF BaseInv, Typed, LedgerTypeOK, ArtifactsStored, Rank, Lifecycle
<1>6. CrashNoted'
  BY LedgerAssumption DEF BaseInv, Typed, LedgerTypeOK, CrashNoted
<1>7. WorkloadsStep
  BY LedgerAssumption DEF BaseInv, Typed, LedgerTypeOK, OwnersKnown, WorkloadsStep, WTerminal, InFlight
<1>8. JobsStep
  BY DEF BaseInv, Typed, LedgerTypeOK, JobsStored, JobsStep, Known
<1>9. ArtifactsStep
  BY LedgerAssumption DEF BaseInv, Typed, LedgerTypeOK, ArtifactsStep, ArtifactsStored
<1> QED BY <1>1, <1>2, <1>3, <1>4, <1>5, <1>6, <1>7, <1>8, <1>9 DEF BaseInv, Frame

\* A job is created with its row, or noted as lost.
LEMMA CreateJobStep ==
  ASSUME BaseInv, NEW r \in Request, CreateJob(r) PROVE BaseInv' /\ Frame
<1> USE DEF CreateJob, SaveJob, WorkloadIds, Free, WriteFails, registries, workloads,
      artifacts, clients, rest, gcRest
<1>0. /\ JobOf[r] \in Job /\ PolicyOf[r] \in Policy
      /\ SpecsOf[r] \in Seq(Workload) /\ SpecsOf[r] # <<>>
  BY LedgerAssumption
<1>10. WorkloadIds(r) \subseteq Workload BY <1>0 DEF WorkloadIds
<1> HIDE DEF WorkloadIds
<1>11. members' = members \/ members' = [members EXCEPT ![JobOf[r]] = WorkloadIds(r)] OBVIOUS
<1>12. todo' = todo \/ todo' = [todo EXCEPT ![r] = <<>>] OBVIOUS
<1>13. young' = young \/ young' = young \cup {JobOf[r]} OBVIOUS
<1>1. Typed'
  <2>1. (up \in BOOLEAN /\ faults \in 0 .. FaultBound)'
    BY LedgerAssumption DEF BaseInv, Typed, LedgerTypeOK, Policy, WState, WTerminal,
          Lifecycle
  <2>2. (busy \in {"no", "submit", "delete", "mark"} \cup Workload)'
    BY LedgerAssumption DEF BaseInv, Typed, LedgerTypeOK, Policy, WState, WTerminal,
          Lifecycle
  <2>3. (jobs \in [Job -> Policy \cup {"none"}] /\ jrow \in [Job -> Policy \cup {"none", "bad"}])'
    BY <1>0 DEF BaseInv, Typed, LedgerTypeOK, Policy
  <2>4. (members \in [Job -> SUBSET Workload] /\ young \subseteq Job)'
    <3>1. members \in [Job -> SUBSET Workload] /\ young \subseteq Job BY DEF BaseInv,
          Typed, LedgerTypeOK
    <3> HIDE DEF CreateJob
    <3>2. members' \in [Job -> SUBSET Workload] BY <1>10, <1>11, <3>1
    <3>3. young' \subseteq Job BY <1>0, <1>13, <3>1
    <3> QED BY <3>2, <3>3
  <2>5. (pc \in [Request -> {"idle", "sizing", "submit"}])'
    BY DEF BaseInv, Typed, LedgerTypeOK
  <2>6. (todo \in [Request -> Seq(Workload)])'
    <3>1. todo \in [Request -> Seq(Workload)] /\ <<>> \in Seq(Workload) BY DEF BaseInv,
          Typed, LedgerTypeOK
    <3> HIDE DEF CreateJob
    <3> QED BY <1>12, <3>1
  <2>7. (wst \in [Workload -> WState] /\ owner \in [Workload -> Job \cup {NoJob}])'
    BY LedgerAssumption DEF BaseInv, Typed, LedgerTypeOK, Policy, WState, WTerminal,
          Lifecycle
  <2>8. (live \subseteq Workload /\ cpend \subseteq Workload /\ reopened \subseteq Job)'
    BY LedgerAssumption DEF BaseInv, Typed, LedgerTypeOK, Policy, WState, WTerminal,
          Lifecycle
  <2>9. (art \in [Workload -> Lifecycle] /\ arow \in [Workload -> Lifecycle])'
    BY LedgerAssumption DEF BaseInv, Typed, LedgerTypeOK, Policy, WState, WTerminal,
          Lifecycle
  <2>10. (byHash \in [Hash -> SUBSET Workload])'
    BY LedgerAssumption DEF BaseInv, Typed, LedgerTypeOK, Policy, WState, WTerminal,
          Lifecycle
  <2>11. (\A h \in Hash : byHash[h] = {x \in Workload : art[x] # "none" /\ OutputOf[x] = h})'
    BY LedgerAssumption DEF BaseInv, Typed, LedgerTypeOK, Policy, WState, WTerminal,
          Lifecycle
  <2> QED BY <2>1, <2>2, <2>3, <2>4, <2>5, <2>6, <2>7, <2>8, <2>9, <2>10,
        <2>11 DEF Typed, LedgerTypeOK
<1>2. RequestsOrdered'
  BY <1>0 DEF BaseInv, Typed, LedgerTypeOK, RequestsOrdered, Known, Policy
<1>3. OwnersKnown'
  BY LedgerAssumption DEF BaseInv, Typed, LedgerTypeOK, OwnersKnown, Known
<1>4. JobsStored'
  <2>1. CASE UNCHANGED <<jobs, jrow, dropped>> BY <2>1 DEF BaseInv, JobsStored
  <2>2. CASE /\ jobs' = [jobs EXCEPT ![JobOf[r]] = PolicyOf[r]] /\ dropped' = dropped
             /\ jrow' = [jrow EXCEPT ![JobOf[r]] = PolicyOf[r]]
    BY <1>0, <2>2 DEF BaseInv, Typed, LedgerTypeOK, JobsStored
  <2>3. CASE /\ jobs' = [jobs EXCEPT ![JobOf[r]] = PolicyOf[r]] /\ jrow' = jrow
             /\ dropped' = dropped \cup {JobOf[r]} /\ jobs[JobOf[r]] = "none"
    BY <1>0, <2>3 DEF BaseInv, Typed, LedgerTypeOK, JobsStored
  <2> QED BY <2>1, <2>2, <2>3 DEF Known
<1>5. ArtifactsStored'
  BY DEF BaseInv, Typed, LedgerTypeOK, ArtifactsStored, Rank, Lifecycle
<1>6. CrashNoted'
  BY LedgerAssumption DEF BaseInv, Typed, LedgerTypeOK, CrashNoted
<1>7. WorkloadsStep
  BY LedgerAssumption DEF BaseInv, Typed, LedgerTypeOK, OwnersKnown, WorkloadsStep, WTerminal, InFlight
<1>8. JobsStep
  BY DEF BaseInv, Typed, LedgerTypeOK, JobsStored, JobsStep, Known
<1>9. ArtifactsStep
  BY LedgerAssumption DEF BaseInv, Typed, LedgerTypeOK, ArtifactsStep, ArtifactsStored
<1> QED BY <1>1, <1>2, <1>3, <1>4, <1>5, <1>6, <1>7, <1>8, <1>9 DEF BaseInv, Frame

\* Only an unknown workload gets a record and an owner.
LEMMA SubmitWorkloadStep ==
  ASSUME BaseInv, NEW r \in Request, SubmitWorkload(r) PROVE BaseInv' /\ Frame
<1> USE DEF SubmitWorkload, SaveWorkload, Free, WriteFails, registries, workloads,
      artifacts, clients, rest, gcRest
<1>0. /\ JobOf[r] \in Job /\ PolicyOf[r] \in Policy
      /\ SpecsOf[r] \in Seq(Workload) /\ SpecsOf[r] # <<>>
  BY LedgerAssumption
<1>10. /\ todo[r] \in Seq(Workload) /\ todo[r] # <<>> /\ busy = "submit" /\ Known(JobOf[r])
       /\ \A q \in Request : pc[q] = "submit" => q = r
  BY DEF BaseInv, Typed, LedgerTypeOK, RequestsOrdered
<1>11. /\ Head(todo[r]) \in Workload /\ Tail(todo[r]) \in Seq(Workload)
       /\ Len(todo[r]) = 1 \/ Tail(todo[r]) # <<>>
  <2>1. Head(todo[r]) \in Workload /\ Tail(todo[r]) \in Seq(Workload) BY <1>10
  <2>2. Len(todo[r]) \in Nat \ {0} /\ Len(Tail(todo[r])) = Len(todo[r]) - 1 BY <1>10
  <2>3. Len(todo[r]) = 1 \/ Len(Tail(todo[r])) # 0 BY <2>2
  <2>4. Len(<<>>) = 0 OBVIOUS
  <2> QED BY <2>1, <2>3, <2>4, Zenon
<1>1. Typed'
  <2>1. (up \in BOOLEAN /\ faults \in 0 .. FaultBound)'
    BY LedgerAssumption DEF BaseInv, Typed, LedgerTypeOK, Policy, WState, WTerminal,
          Lifecycle
  <2>2. (busy \in {"no", "submit", "delete", "mark"} \cup Workload)'
    BY DEF BaseInv, Typed, LedgerTypeOK
  <2>3. (jobs \in [Job -> Policy \cup {"none"}] /\ jrow \in [Job -> Policy \cup {"none", "bad"}])'
    BY LedgerAssumption DEF BaseInv, Typed, LedgerTypeOK, Policy, WState, WTerminal,
          Lifecycle
  <2>4. (members \in [Job -> SUBSET Workload] /\ young \subseteq Job)'
    BY LedgerAssumption DEF BaseInv, Typed, LedgerTypeOK, Policy, WState, WTerminal,
          Lifecycle
  <2>5. (pc \in [Request -> {"idle", "sizing", "submit"}])'
    BY DEF BaseInv, Typed, LedgerTypeOK
  <2>6. (todo \in [Request -> Seq(Workload)])'
    BY <1>11 DEF BaseInv, Typed, LedgerTypeOK
  <2>7. (wst \in [Workload -> WState] /\ owner \in [Workload -> Job \cup {NoJob}])'
    BY <1>0, <1>11 DEF BaseInv, Typed, LedgerTypeOK, WState, WTerminal
  <2>8. (live \subseteq Workload /\ cpend \subseteq Workload /\ reopened \subseteq Job)'
    BY LedgerAssumption DEF BaseInv, Typed, LedgerTypeOK, Policy, WState, WTerminal,
          Lifecycle
  <2>9. (art \in [Workload -> Lifecycle] /\ arow \in [Workload -> Lifecycle])'
    BY LedgerAssumption DEF BaseInv, Typed, LedgerTypeOK, Policy, WState, WTerminal,
          Lifecycle
  <2>10. (byHash \in [Hash -> SUBSET Workload])'
    BY LedgerAssumption DEF BaseInv, Typed, LedgerTypeOK, Policy, WState, WTerminal,
          Lifecycle
  <2>11. (\A h \in Hash : byHash[h] = {x \in Workload : art[x] # "none" /\ OutputOf[x] = h})'
    BY LedgerAssumption DEF BaseInv, Typed, LedgerTypeOK, Policy, WState, WTerminal,
          Lifecycle
  <2> QED BY <2>1, <2>2, <2>3, <2>4, <2>5, <2>6, <2>7, <2>8, <2>9, <2>10,
        <2>11 DEF Typed, LedgerTypeOK
<1>2. RequestsOrdered'
  BY <1>0, <1>10, <1>11 DEF BaseInv, Typed, LedgerTypeOK, RequestsOrdered, Known
<1>3. OwnersKnown'
  <2>1. /\ up' = up /\ jobs' = jobs /\ dropped' = dropped /\ art' = art /\ live' = live /\ cpend' = cpend
        /\ busy' \in {"no", "submit"}
    OBVIOUS
  <2>2. ASSUME NEW x \in Workload, x # Head(todo[r]) PROVE wst'[x] = wst[x] /\ owner'[x] = owner[x]
    BY <1>11, <2>2 DEF BaseInv, Typed, LedgerTypeOK
  <2>3. LET x == Head(todo[r])
        IN \/ wst[x] = "none" /\ wst'[x] = "pending" /\ owner'[x] = JobOf[r]
           \/ wst[x] # "none" /\ wst'[x] = wst[x] /\ owner'[x] = owner[x]
    BY <1>11 DEF BaseInv, Typed, LedgerTypeOK
  <2> HIDE DEF SubmitWorkload
  <2>4. Head(todo[r]) # "no" /\ Head(todo[r]) # "submit" /\ JobOf[r] # NoJob
    BY LedgerAssumption, <1>0, <1>11
  <2> QED
    <3> SUFFICES ASSUME NEW x \in Workload
                 PROVE  /\ wst'[x] = "none" <=> owner'[x] = NoJob
                        /\ owner'[x] # NoJob => jobs'[owner'[x]] # "none" \/ owner'[x] \in dropped'
                        /\ art'[x] # "none" \/ busy' = x \/ x \in live' \cup cpend' => owner'[x] # NoJob
      BY DEF OwnersKnown, Known
    <3>1. x # busy' BY LedgerAssumption, <2>1
    <3>2. CASE x # Head(todo[r]) BY <2>1, <2>2, <3>1, <3>2 DEF BaseInv, OwnersKnown, Known
    <3>3. CASE x = Head(todo[r]) BY <1>10, <2>1, <2>3, <2>4, <3>1, <3>3 DEF BaseInv,
          OwnersKnown, Known
    <3> QED BY <3>2, <3>3
<1>4. JobsStored'
  BY DEF BaseInv, Typed, LedgerTypeOK, JobsStored
<1>5. ArtifactsStored'
  BY DEF BaseInv, Typed, LedgerTypeOK, ArtifactsStored, Rank, Lifecycle
<1>6. CrashNoted'
  BY LedgerAssumption DEF BaseInv, Typed, LedgerTypeOK, CrashNoted
<1>7. WorkloadsStep
  BY LedgerAssumption DEF BaseInv, Typed, LedgerTypeOK, OwnersKnown, WorkloadsStep, WTerminal, InFlight
<1>8. JobsStep
  BY DEF BaseInv, Typed, LedgerTypeOK, JobsStored, JobsStep, Known
<1>9. ArtifactsStep
  BY LedgerAssumption, <1>10 DEF BaseInv, Typed, LedgerTypeOK, ArtifactsStep
<1> QED BY <1>1, <1>2, <1>3, <1>4, <1>5, <1>6, <1>7, <1>8, <1>9 DEF BaseInv, Frame

\* A dispatch touches no terminal record.
LEMMA DispatchStep ==
  ASSUME BaseInv, NEW w \in Workload, Dispatch(w) PROVE BaseInv' /\ Frame
<1> USE DEF Dispatch, Become, SaveWorkload, Free, WriteFails, registries, workloads,
      artifacts, clients, rest, gcRest
<1>r. Rests(w) \subseteq Job BY DEF Rests
<1>1. Typed'
  BY <1>r, LedgerAssumption DEF BaseInv, Typed, LedgerTypeOK, Policy, WState, WTerminal, Lifecycle
<1>2. RequestsOrdered'
  BY LedgerAssumption DEF BaseInv, Typed, LedgerTypeOK, RequestsOrdered, Known
<1>3. OwnersKnown'
  BY LedgerAssumption DEF BaseInv, Typed, LedgerTypeOK, OwnersKnown, Known
<1>4. JobsStored'
  BY DEF BaseInv, Typed, LedgerTypeOK, JobsStored
<1>5. ArtifactsStored'
  BY DEF BaseInv, Typed, LedgerTypeOK, ArtifactsStored, Rank, Lifecycle
<1>6. CrashNoted'
  BY LedgerAssumption DEF BaseInv, Typed, LedgerTypeOK, CrashNoted
<1>7. WorkloadsStep
  BY LedgerAssumption DEF BaseInv, Typed, LedgerTypeOK, OwnersKnown, WorkloadsStep, WTerminal, InFlight
<1>8. JobsStep
  BY DEF BaseInv, Typed, LedgerTypeOK, JobsStored, JobsStep, Known
<1>9. ArtifactsStep
  BY LedgerAssumption DEF BaseInv, Typed, LedgerTypeOK, ArtifactsStep, ArtifactsStored
<1> QED BY <1>1, <1>2, <1>3, <1>4, <1>5, <1>6, <1>7, <1>8, <1>9 DEF BaseInv, Frame

\* A failed dispatch may overwrite one, which is observed.
LEMMA DispatchFailsStep ==
  ASSUME BaseInv, NEW w \in Workload, DispatchFails(w) PROVE BaseInv' /\ Frame
<1> USE DEF DispatchFails, Become, SaveWorkload, Free, WriteFails, registries,
      workloads, artifacts, clients, rest, gcRest
<1>r. Rests(w) \subseteq Job BY DEF Rests
<1>1. Typed'
  <2>1. (up \in BOOLEAN /\ faults \in 0 .. FaultBound)'
    BY LedgerAssumption DEF BaseInv, Typed, LedgerTypeOK, Policy, WState, WTerminal,
          Lifecycle
  <2>2. (busy \in {"no", "submit", "delete", "mark"} \cup Workload)'
    BY LedgerAssumption DEF BaseInv, Typed, LedgerTypeOK, Policy, WState, WTerminal,
          Lifecycle
  <2>3. (jobs \in [Job -> Policy \cup {"none"}] /\ jrow \in [Job -> Policy \cup {"none", "bad"}])'
    BY LedgerAssumption DEF BaseInv, Typed, LedgerTypeOK, Policy, WState, WTerminal,
          Lifecycle
  <2>4. (members \in [Job -> SUBSET Workload] /\ young \subseteq Job)'
    BY LedgerAssumption DEF BaseInv, Typed, LedgerTypeOK, Policy, WState, WTerminal,
          Lifecycle
  <2>5. (pc \in [Request -> {"idle", "sizing", "submit"}])'
    BY LedgerAssumption DEF BaseInv, Typed, LedgerTypeOK, Policy, WState, WTerminal,
          Lifecycle
  <2>6. (todo \in [Request -> Seq(Workload)])'
    BY LedgerAssumption DEF BaseInv, Typed, LedgerTypeOK, Policy, WState, WTerminal,
          Lifecycle
  <2>7. (wst \in [Workload -> WState] /\ owner \in [Workload -> Job \cup {NoJob}])'
    BY DEF BaseInv, Typed, LedgerTypeOK, WState, WTerminal
  <2>8. (live \subseteq Workload /\ cpend \subseteq Workload /\ reopened \subseteq Job)'
    BY <1>r DEF BaseInv, Typed, LedgerTypeOK
  <2>9. (art \in [Workload -> Lifecycle] /\ arow \in [Workload -> Lifecycle])'
    BY LedgerAssumption DEF BaseInv, Typed, LedgerTypeOK, Policy, WState, WTerminal,
          Lifecycle
  <2>10. (byHash \in [Hash -> SUBSET Workload])'
    BY LedgerAssumption DEF BaseInv, Typed, LedgerTypeOK, Policy, WState, WTerminal,
          Lifecycle
  <2>11. (\A h \in Hash : byHash[h] = {x \in Workload : art[x] # "none" /\ OutputOf[x] = h})'
    BY LedgerAssumption DEF BaseInv, Typed, LedgerTypeOK, Policy, WState, WTerminal,
          Lifecycle
  <2> QED BY <2>1, <2>2, <2>3, <2>4, <2>5, <2>6, <2>7, <2>8, <2>9, <2>10,
        <2>11 DEF Typed, LedgerTypeOK
<1>2. RequestsOrdered'
  BY LedgerAssumption DEF BaseInv, Typed, LedgerTypeOK, RequestsOrdered, Known
<1>3. OwnersKnown'
  BY LedgerAssumption DEF BaseInv, Typed, LedgerTypeOK, OwnersKnown, Known
<1>4. JobsStored'
  BY DEF BaseInv, Typed, LedgerTypeOK, JobsStored
<1>5. ArtifactsStored'
  BY DEF BaseInv, Typed, LedgerTypeOK, ArtifactsStored, Rank, Lifecycle
<1>6. CrashNoted'
  BY LedgerAssumption DEF BaseInv, Typed, LedgerTypeOK, CrashNoted
<1>7. WorkloadsStep
  BY LedgerAssumption DEF BaseInv, Typed, LedgerTypeOK, OwnersKnown, WorkloadsStep, WTerminal, InFlight
<1>8. JobsStep
  BY DEF BaseInv, Typed, LedgerTypeOK, JobsStored, JobsStep, Known
<1>9. ArtifactsStep
  BY LedgerAssumption DEF BaseInv, Typed, LedgerTypeOK, ArtifactsStep, ArtifactsStored
<1> QED BY <1>1, <1>2, <1>3, <1>4, <1>5, <1>6, <1>7, <1>8, <1>9 DEF BaseInv, Frame

\* A dropped result leaves the workload cancelled.
LEMMA ResultDroppedStep ==
  ASSUME BaseInv, NEW w \in Workload, ResultDropped(w) PROVE BaseInv' /\ Frame
<1> USE DEF ResultDropped, Become, SaveWorkload, Free, WriteFails, registries,
      workloads, artifacts, clients, rest, gcRest
<1>r. Rests(w) \subseteq Job BY DEF Rests
<1>1. Typed'
  BY <1>r, LedgerAssumption DEF BaseInv, Typed, LedgerTypeOK, Policy, WState, WTerminal, Lifecycle
<1>2. RequestsOrdered'
  BY LedgerAssumption DEF BaseInv, Typed, LedgerTypeOK, RequestsOrdered, Known
<1>3. OwnersKnown'
  BY LedgerAssumption DEF BaseInv, Typed, LedgerTypeOK, OwnersKnown, Known
<1>4. JobsStored'
  BY DEF BaseInv, Typed, LedgerTypeOK, JobsStored
<1>5. ArtifactsStored'
  BY DEF BaseInv, Typed, LedgerTypeOK, ArtifactsStored, Rank, Lifecycle
<1>6. CrashNoted'
  BY LedgerAssumption DEF BaseInv, Typed, LedgerTypeOK, CrashNoted
<1>7. WorkloadsStep
  BY LedgerAssumption DEF BaseInv, Typed, LedgerTypeOK, OwnersKnown, WorkloadsStep, WTerminal, InFlight
<1>8. JobsStep
  BY DEF BaseInv, Typed, LedgerTypeOK, JobsStored, JobsStep, Known
<1>9. ArtifactsStep
  BY LedgerAssumption DEF BaseInv, Typed, LedgerTypeOK, ArtifactsStep, ArtifactsStored
<1> QED BY <1>1, <1>2, <1>3, <1>4, <1>5, <1>6, <1>7, <1>8, <1>9 DEF BaseInv, Frame

\* A result occupies the event loop until its artifact is recorded.
LEMMA CompleteStep ==
  ASSUME BaseInv, NEW w \in Workload, Complete(w) PROVE BaseInv' /\ Frame
<1> USE DEF Complete, Become, SaveWorkload, Free, WriteFails, registries, workloads,
      artifacts, clients, rest, gcRest
<1>r. Rests(w) \subseteq Job BY DEF Rests
<1>1. Typed'
  BY <1>r, LedgerAssumption DEF BaseInv, Typed, LedgerTypeOK, Policy, WState, WTerminal, Lifecycle
<1>2. RequestsOrdered'
  BY LedgerAssumption DEF BaseInv, Typed, LedgerTypeOK, RequestsOrdered, Known
<1>3. OwnersKnown'
  BY LedgerAssumption DEF BaseInv, Typed, LedgerTypeOK, OwnersKnown, Known
<1>4. JobsStored'
  BY DEF BaseInv, Typed, LedgerTypeOK, JobsStored
<1>5. ArtifactsStored'
  BY DEF BaseInv, Typed, LedgerTypeOK, ArtifactsStored, Rank, Lifecycle
<1>6. CrashNoted'
  BY LedgerAssumption DEF BaseInv, Typed, LedgerTypeOK, CrashNoted
<1>7. WorkloadsStep
  BY LedgerAssumption DEF BaseInv, Typed, LedgerTypeOK, OwnersKnown, WorkloadsStep, WTerminal, InFlight
<1>8. JobsStep
  BY DEF BaseInv, Typed, LedgerTypeOK, JobsStored, JobsStep, Known
<1>9. ArtifactsStep
  BY LedgerAssumption DEF BaseInv, Typed, LedgerTypeOK, ArtifactsStep, ArtifactsStored
<1> QED BY <1>1, <1>2, <1>3, <1>4, <1>5, <1>6, <1>7, <1>8, <1>9 DEF BaseInv, Frame

\* The artifact is recorded, with its row or with a note that the row is missing.
LEMMA RecordArtifactsStep ==
  ASSUME BaseInv, NEW w \in Workload, RecordArtifacts(w) PROVE BaseInv' /\ Frame
<1> USE DEF RecordArtifacts, RecordFails, Become, SaveWorkload, SaveArtifacts, Free, WriteFails, registries, workloads,
      artifacts, clients, rest, gcRest
<1>0. OutputOf[w] \in Hash BY LedgerAssumption
<1>r. Rests(w) \subseteq Job BY DEF Rests
<1>1. Typed'
  <2>1. (up \in BOOLEAN /\ faults \in 0 .. FaultBound)'
    BY LedgerAssumption DEF BaseInv, Typed, LedgerTypeOK, Policy, WState, WTerminal,
          Lifecycle
  <2>2. (busy \in {"no", "submit", "delete", "mark"} \cup Workload)'
    BY LedgerAssumption DEF BaseInv, Typed, LedgerTypeOK, Policy, WState, WTerminal,
          Lifecycle
  <2>3. (jobs \in [Job -> Policy \cup {"none"}] /\ jrow \in [Job -> Policy \cup {"none", "bad"}])'
    BY LedgerAssumption DEF BaseInv, Typed, LedgerTypeOK, Policy, WState, WTerminal,
          Lifecycle
  <2>4. (members \in [Job -> SUBSET Workload] /\ young \subseteq Job)'
    BY LedgerAssumption DEF BaseInv, Typed, LedgerTypeOK, Policy, WState, WTerminal,
          Lifecycle
  <2>5. (pc \in [Request -> {"idle", "sizing", "submit"}])'
    BY LedgerAssumption DEF BaseInv, Typed, LedgerTypeOK, Policy, WState, WTerminal,
          Lifecycle
  <2>6. (todo \in [Request -> Seq(Workload)])'
    BY LedgerAssumption DEF BaseInv, Typed, LedgerTypeOK, Policy, WState, WTerminal,
          Lifecycle
  <2>7. (wst \in [Workload -> WState] /\ owner \in [Workload -> Job \cup {NoJob}])'
    BY LedgerAssumption DEF BaseInv, Typed, LedgerTypeOK, Policy, WState, WTerminal,
          Lifecycle
  <2>8. (live \subseteq Workload /\ cpend \subseteq Workload /\ reopened \subseteq Job)'
    <3>1. /\ live' = live \/ live' = live \cup {w}
          /\ reopened' = reopened \/ reopened' = reopened \cup Rests(w)
          /\ cpend' = cpend
      OBVIOUS
    <3>2. live \subseteq Workload /\ cpend \subseteq Workload /\ reopened \subseteq Job
      BY DEF BaseInv, Typed, LedgerTypeOK
    <3> HIDE DEF RecordArtifacts
    <3> QED BY <1>r, <3>1, <3>2
  <2>9. (art \in [Workload -> Lifecycle] /\ arow \in [Workload -> Lifecycle])'
    <3>1. art' = art \/ art' = [art EXCEPT ![w] = "available"] OBVIOUS
    <3>2. arow' = arow \/ arow' = SaveArtifacts({w}, "available") OBVIOUS
    <3>3. art \in [Workload -> Lifecycle] /\ arow \in [Workload -> Lifecycle]
      BY DEF BaseInv, Typed, LedgerTypeOK
    <3> HIDE DEF RecordArtifacts
    <3> QED BY <3>1, <3>2, <3>3 DEF Lifecycle
  <2>10. (byHash \in [Hash -> SUBSET Workload])'
    <3>1. byHash' = byHash \/ byHash' = [byHash EXCEPT ![OutputOf[w]] = @ \cup {w}] OBVIOUS
    <3>2. byHash \in [Hash -> SUBSET Workload] BY DEF BaseInv, Typed
    <3> HIDE DEF RecordArtifacts
    <3> QED BY <1>0, <3>1, <3>2
  <2>11. (\A h \in Hash : byHash[h] = {x \in Workload : art[x] # "none" /\ OutputOf[x] = h})'
    <3>1. CASE UNCHANGED <<art, byHash>> BY <3>1 DEF BaseInv, Typed, LedgerTypeOK
    <3>2. CASE /\ art' = [art EXCEPT ![w] = "available"]
               /\ byHash' = [byHash EXCEPT ![OutputOf[w]] = @ \cup {w}]
      <4>1. \A x \in Workload : art'[x] # "none" <=> art[x] # "none" \/ x = w
        BY <3>2 DEF BaseInv, Typed, LedgerTypeOK
      <4>2. \A h \in Hash : byHash'[h] = IF h = OutputOf[w] THEN byHash[h] \cup {w} ELSE byHash[h]
        BY <3>2 DEF BaseInv, Typed, LedgerTypeOK
      <4> HIDE DEF RecordArtifacts
      <4>3. ASSUME NEW h \in Hash
            PROVE  byHash'[h] = {x \in Workload : art'[x] # "none" /\ OutputOf[x] = h}
        <5>1. byHash[h] = {x \in Workload : art[x] # "none" /\ OutputOf[x] = h}
          BY DEF BaseInv, Typed, LedgerTypeOK
        <5>2. CASE h = OutputOf[w] BY <4>1, <4>2, <5>1, <5>2
        <5>3. CASE h # OutputOf[w] BY <4>1, <4>2, <5>1, <5>3
        <5> QED BY <5>2, <5>3
      <4> QED BY <4>3
    <3> QED BY <3>1, <3>2
  <2> QED BY <2>1, <2>2, <2>3, <2>4, <2>5, <2>6, <2>7, <2>8, <2>9, <2>10,
        <2>11 DEF Typed, LedgerTypeOK
<1>2. RequestsOrdered'
  BY LedgerAssumption DEF BaseInv, Typed, LedgerTypeOK, RequestsOrdered, Known
<1>3. OwnersKnown'
  BY LedgerAssumption DEF BaseInv, Typed, LedgerTypeOK, OwnersKnown, Known
<1>4. JobsStored'
  BY DEF BaseInv, Typed, LedgerTypeOK, JobsStored
<1>5. ArtifactsStored'
  BY DEF BaseInv, Typed, LedgerTypeOK, ArtifactsStored, Rank, Lifecycle
<1>6. CrashNoted'
  BY LedgerAssumption DEF BaseInv, Typed, LedgerTypeOK, CrashNoted
<1>7. WorkloadsStep
  BY LedgerAssumption DEF BaseInv, Typed, LedgerTypeOK, OwnersKnown, WorkloadsStep, WTerminal, InFlight
<1>8. JobsStep
  BY DEF BaseInv, Typed, LedgerTypeOK, JobsStored, JobsStep, Known
<1>9. ArtifactsStep
  BY LedgerAssumption DEF BaseInv, Typed, LedgerTypeOK, ArtifactsStep, ArtifactsStored,
        Lifecycle
<1> QED BY <1>1, <1>2, <1>3, <1>4, <1>5, <1>6, <1>7, <1>8, <1>9 DEF BaseInv, Frame

\* A cancellation begins with a workload that is not done.
LEMMA CancelStep ==
  ASSUME BaseInv, NEW w \in Workload, Cancel(w) PROVE BaseInv' /\ Frame
<1> USE DEF Cancel, Become, SaveWorkload, Free, WriteFails, registries, workloads,
      artifacts, clients, rest, gcRest
<1>r. Rests(w) \subseteq Job BY DEF Rests
<1>1. Typed'
  BY <1>r, LedgerAssumption DEF BaseInv, Typed, LedgerTypeOK, Policy, WState, WTerminal, Lifecycle
<1>2. RequestsOrdered'
  BY LedgerAssumption DEF BaseInv, Typed, LedgerTypeOK, RequestsOrdered, Known
<1>3. OwnersKnown'
  BY LedgerAssumption DEF BaseInv, Typed, LedgerTypeOK, OwnersKnown, Known
<1>4. JobsStored'
  BY DEF BaseInv, Typed, LedgerTypeOK, JobsStored
<1>5. ArtifactsStored'
  BY DEF BaseInv, Typed, LedgerTypeOK, ArtifactsStored, Rank, Lifecycle
<1>6. CrashNoted'
  BY LedgerAssumption DEF BaseInv, Typed, LedgerTypeOK, CrashNoted
<1>7. WorkloadsStep
  BY LedgerAssumption DEF BaseInv, Typed, LedgerTypeOK, OwnersKnown, WorkloadsStep, WTerminal, InFlight
<1>8. JobsStep
  BY DEF BaseInv, Typed, LedgerTypeOK, JobsStored, JobsStep, Known
<1>9. ArtifactsStep
  BY LedgerAssumption DEF BaseInv, Typed, LedgerTypeOK, ArtifactsStep, ArtifactsStored
<1> QED BY <1>1, <1>2, <1>3, <1>4, <1>5, <1>6, <1>7, <1>8, <1>9 DEF BaseInv, Frame

\* It ends by overwriting whatever is there.
LEMMA CancelledStep ==
  ASSUME BaseInv, NEW w \in Workload, Cancelled(w) PROVE BaseInv' /\ Frame
<1> USE DEF Cancelled, Become, SaveWorkload, Free, WriteFails, registries, workloads,
      artifacts, clients, rest, gcRest
<1>r. Rests(w) \subseteq Job BY DEF Rests
<1>1. Typed'
  BY <1>r, LedgerAssumption DEF BaseInv, Typed, LedgerTypeOK, Policy, WState, WTerminal, Lifecycle
<1>2. RequestsOrdered'
  BY LedgerAssumption DEF BaseInv, Typed, LedgerTypeOK, RequestsOrdered, Known
<1>3. OwnersKnown'
  BY LedgerAssumption DEF BaseInv, Typed, LedgerTypeOK, OwnersKnown, Known
<1>4. JobsStored'
  BY DEF BaseInv, Typed, LedgerTypeOK, JobsStored
<1>5. ArtifactsStored'
  BY DEF BaseInv, Typed, LedgerTypeOK, ArtifactsStored, Rank, Lifecycle
<1>6. CrashNoted'
  BY LedgerAssumption DEF BaseInv, Typed, LedgerTypeOK, CrashNoted
<1>7. WorkloadsStep
  BY LedgerAssumption DEF BaseInv, Typed, LedgerTypeOK, OwnersKnown, WorkloadsStep, WTerminal, InFlight
<1>8. JobsStep
  BY DEF BaseInv, Typed, LedgerTypeOK, JobsStored, JobsStep, Known
<1>9. ArtifactsStep
  BY LedgerAssumption DEF BaseInv, Typed, LedgerTypeOK, ArtifactsStep, ArtifactsStored
<1> QED BY <1>1, <1>2, <1>3, <1>4, <1>5, <1>6, <1>7, <1>8, <1>9 DEF BaseInv, Frame

\* Rows are purged before artifacts.
LEMMA GcPurgeStep ==
  ASSUME BaseInv, GcPurge PROVE BaseInv' /\ Frame
<1> USE DEF GcPurge, Purged, Unindexed, Moved, DeleteArtifacts, InState, Free,
      WriteFails, registries, workloads, artifacts, clients, rest, gcRest
<1>1. Typed'
  BY LedgerAssumption DEF BaseInv, Typed, LedgerTypeOK, Policy, WState, WTerminal, Lifecycle
<1>2. RequestsOrdered'
  BY LedgerAssumption DEF BaseInv, Typed, LedgerTypeOK, RequestsOrdered, Known
<1>3. OwnersKnown'
  BY LedgerAssumption DEF BaseInv, Typed, LedgerTypeOK, OwnersKnown, Known
<1>4. JobsStored'
  BY DEF BaseInv, Typed, LedgerTypeOK, JobsStored
<1>5. ArtifactsStored'
  BY DEF BaseInv, Typed, LedgerTypeOK, ArtifactsStored, Rank, Lifecycle
<1>6. CrashNoted'
  BY LedgerAssumption DEF BaseInv, Typed, LedgerTypeOK, CrashNoted
<1>7. WorkloadsStep
  BY LedgerAssumption DEF BaseInv, Typed, LedgerTypeOK, OwnersKnown, WorkloadsStep, WTerminal, InFlight
<1>8. JobsStep
  BY DEF BaseInv, Typed, LedgerTypeOK, JobsStored, JobsStep, Known
<1>9. ArtifactsStep
  BY LedgerAssumption DEF BaseInv, Typed, LedgerTypeOK, ArtifactsStep, ArtifactsStored
<1> QED BY <1>1, <1>2, <1>3, <1>4, <1>5, <1>6, <1>7, <1>8, <1>9 DEF BaseInv, Frame

\* Deletion is recorded in the registry first.
LEMMA GcDeleteStep ==
  ASSUME BaseInv, GcDelete PROVE BaseInv' /\ Frame
<1> USE DEF GcDelete, Moved, SaveArtifacts, InState, Free, WriteFails, registries,
      workloads, artifacts, clients, rest, gcRest
<1>1. Typed'
  BY LedgerAssumption DEF BaseInv, Typed, LedgerTypeOK, Policy, WState, WTerminal, Lifecycle
<1>2. RequestsOrdered'
  BY LedgerAssumption DEF BaseInv, Typed, LedgerTypeOK, RequestsOrdered, Known
<1>3. OwnersKnown'
  <2>1. \A x \in Workload : art'[x] # "none" => art[x] # "none" OBVIOUS
  <2>2. /\ wst' = wst /\ owner' = owner /\ jobs' = jobs /\ dropped' = dropped /\ live' = live /\ cpend' = cpend
        /\ busy' \in {"no", "mark"}
    OBVIOUS
  <2> HIDE DEF GcDelete
  <2> QED BY LedgerAssumption, <2>1, <2>2 DEF BaseInv, OwnersKnown, Known
<1>4. JobsStored'
  BY DEF BaseInv, Typed, LedgerTypeOK, JobsStored
<1>5. ArtifactsStored'
  BY DEF BaseInv, Typed, LedgerTypeOK, ArtifactsStored, Rank, Lifecycle
<1>6. CrashNoted'
  BY LedgerAssumption DEF BaseInv, Typed, LedgerTypeOK, CrashNoted
<1>7. WorkloadsStep
  BY LedgerAssumption DEF BaseInv, Typed, LedgerTypeOK, OwnersKnown, WorkloadsStep, WTerminal, InFlight
<1>8. JobsStep
  BY DEF BaseInv, Typed, LedgerTypeOK, JobsStored, JobsStep, Known
<1>9. ArtifactsStep
  BY LedgerAssumption DEF BaseInv, Typed, LedgerTypeOK, ArtifactsStep, ArtifactsStored
<1> QED BY <1>1, <1>2, <1>3, <1>4, <1>5, <1>6, <1>7, <1>8, <1>9 DEF BaseInv, Frame

\* Only artifacts of unprotected jobs are marked.
LEMMA GcMarkStep ==
  ASSUME BaseInv, GcMark PROVE BaseInv' /\ Frame
<1> USE DEF GcMark, Moved, SaveArtifacts, ComputeGcEligible, InState, Free, WriteFails,
      registries, workloads, artifacts, clients, rest, gcRest
<1>1. Typed'
  BY LedgerAssumption DEF BaseInv, Typed, LedgerTypeOK, Policy, WState, WTerminal, Lifecycle
<1>2. RequestsOrdered'
  BY LedgerAssumption DEF BaseInv, Typed, LedgerTypeOK, RequestsOrdered, Known
<1>3. OwnersKnown'
  BY LedgerAssumption DEF BaseInv, Typed, LedgerTypeOK, OwnersKnown, Known
<1>4. JobsStored'
  BY DEF BaseInv, Typed, LedgerTypeOK, JobsStored
<1>5. ArtifactsStored'
  BY DEF BaseInv, Typed, LedgerTypeOK, ArtifactsStored, Rank, Lifecycle
<1>6. CrashNoted'
  BY LedgerAssumption DEF BaseInv, Typed, LedgerTypeOK, CrashNoted
<1>7. WorkloadsStep
  BY LedgerAssumption DEF BaseInv, Typed, LedgerTypeOK, OwnersKnown, WorkloadsStep, WTerminal, InFlight
<1>8. JobsStep
  BY DEF BaseInv, Typed, LedgerTypeOK, JobsStored, JobsStep, Known
<1>9. ArtifactsStep
  BY LedgerAssumption DEF BaseInv, Typed, LedgerTypeOK, ArtifactsStep, ArtifactsStored
<1> QED BY <1>1, <1>2, <1>3, <1>4, <1>5, <1>6, <1>7, <1>8, <1>9 DEF BaseInv, Frame

\* Time passing changes no record.
LEMMA AgeStep ==
  ASSUME BaseInv, NEW j \in Job, Age(j) PROVE BaseInv' /\ Frame
<1> USE DEF Age, Free, WriteFails, registries, workloads, artifacts, clients, rest, gcRest
<1>1. Typed'
  BY LedgerAssumption DEF BaseInv, Typed, LedgerTypeOK, Policy, WState, WTerminal, Lifecycle
<1>2. RequestsOrdered'
  BY LedgerAssumption DEF BaseInv, Typed, LedgerTypeOK, RequestsOrdered, Known
<1>3. OwnersKnown'
  BY LedgerAssumption DEF BaseInv, Typed, LedgerTypeOK, OwnersKnown, Known
<1>4. JobsStored'
  BY DEF BaseInv, Typed, LedgerTypeOK, JobsStored
<1>5. ArtifactsStored'
  BY DEF BaseInv, Typed, LedgerTypeOK, ArtifactsStored, Rank, Lifecycle
<1>6. CrashNoted'
  BY LedgerAssumption DEF BaseInv, Typed, LedgerTypeOK, CrashNoted
<1>7. WorkloadsStep
  BY LedgerAssumption DEF BaseInv, Typed, LedgerTypeOK, OwnersKnown, WorkloadsStep, WTerminal, InFlight
<1>8. JobsStep
  BY DEF BaseInv, Typed, LedgerTypeOK, JobsStored, JobsStep, Known
<1>9. ArtifactsStep
  BY LedgerAssumption DEF BaseInv, Typed, LedgerTypeOK, ArtifactsStep, ArtifactsStored
<1> QED BY <1>1, <1>2, <1>3, <1>4, <1>5, <1>6, <1>7, <1>8, <1>9 DEF BaseInv, Frame

\* A crash leaves the store as it is.
LEMMA CrashStep ==
  ASSUME BaseInv, Crash PROVE BaseInv' /\ Frame
<1> USE DEF Crash, Free, WriteFails, registries, workloads, artifacts, clients, rest, gcRest
<1>1. Typed'
  <2>1. (up \in BOOLEAN /\ faults \in 0 .. FaultBound)'
    <3>1. faults' = faults + 1 /\ faults < FaultBound /\ up' = FALSE OBVIOUS
    <3>2. faults \in 0 .. FaultBound BY DEF BaseInv, Typed, LedgerTypeOK
    <3>3. FaultBound \in Nat BY LedgerAssumption
    <3> HIDE DEF Crash
    <3>4. faults' \in 0 .. FaultBound BY <3>1, <3>2, <3>3
    <3> QED BY <3>1, <3>4
  <2>2. (busy \in {"no", "submit", "delete", "mark"} \cup Workload)'
    BY LedgerAssumption DEF BaseInv, Typed, LedgerTypeOK, Policy, WState, WTerminal,
          Lifecycle
  <2>3. (jobs \in [Job -> Policy \cup {"none"}] /\ jrow \in [Job -> Policy \cup {"none", "bad"}])'
    BY LedgerAssumption DEF BaseInv, Typed, LedgerTypeOK, Policy, WState, WTerminal,
          Lifecycle
  <2>4. (members \in [Job -> SUBSET Workload] /\ young \subseteq Job)'
    BY LedgerAssumption DEF BaseInv, Typed, LedgerTypeOK, Policy, WState, WTerminal,
          Lifecycle
  <2>5. (pc \in [Request -> {"idle", "sizing", "submit"}])'
    BY LedgerAssumption DEF BaseInv, Typed, LedgerTypeOK, Policy, WState, WTerminal,
          Lifecycle
  <2>6. (todo \in [Request -> Seq(Workload)])'
    BY LedgerAssumption DEF BaseInv, Typed, LedgerTypeOK, Policy, WState, WTerminal,
          Lifecycle
  <2>7. (wst \in [Workload -> WState] /\ owner \in [Workload -> Job \cup {NoJob}])'
    BY LedgerAssumption DEF BaseInv, Typed, LedgerTypeOK, Policy, WState, WTerminal,
          Lifecycle
  <2>8. (live \subseteq Workload /\ cpend \subseteq Workload /\ reopened \subseteq Job)'
    BY LedgerAssumption DEF BaseInv, Typed, LedgerTypeOK, Policy, WState, WTerminal,
          Lifecycle
  <2>9. (art \in [Workload -> Lifecycle] /\ arow \in [Workload -> Lifecycle])'
    BY LedgerAssumption DEF BaseInv, Typed, LedgerTypeOK, Policy, WState, WTerminal,
          Lifecycle
  <2>10. (byHash \in [Hash -> SUBSET Workload])'
    BY LedgerAssumption DEF BaseInv, Typed, LedgerTypeOK, Policy, WState, WTerminal,
          Lifecycle
  <2>11. (\A h \in Hash : byHash[h] = {x \in Workload : art[x] # "none" /\ OutputOf[x] = h})'
    BY LedgerAssumption DEF BaseInv, Typed, LedgerTypeOK, Policy, WState, WTerminal,
          Lifecycle
  <2> QED BY <2>1, <2>2, <2>3, <2>4, <2>5, <2>6, <2>7, <2>8, <2>9, <2>10,
        <2>11 DEF Typed, LedgerTypeOK
<1>2. RequestsOrdered'
  BY LedgerAssumption DEF BaseInv, Typed, LedgerTypeOK, RequestsOrdered, Known
<1>3. OwnersKnown'
  BY LedgerAssumption DEF BaseInv, Typed, LedgerTypeOK, OwnersKnown, Known
<1>4. JobsStored'
  BY DEF BaseInv, Typed, LedgerTypeOK, JobsStored
<1>5. ArtifactsStored'
  BY DEF BaseInv, Typed, LedgerTypeOK, ArtifactsStored, Rank, Lifecycle
<1>6. CrashNoted'
  BY LedgerAssumption DEF BaseInv, Typed, LedgerTypeOK, CrashNoted
<1>7. WorkloadsStep
  BY LedgerAssumption DEF BaseInv, Typed, LedgerTypeOK, OwnersKnown, WorkloadsStep, WTerminal, InFlight
<1>8. JobsStep
  BY DEF BaseInv, Typed, LedgerTypeOK, JobsStored, JobsStep, Known
<1>9. ArtifactsStep
  BY LedgerAssumption DEF BaseInv, Typed, LedgerTypeOK, ArtifactsStep, ArtifactsStored
<1> QED BY <1>1, <1>2, <1>3, <1>4, <1>5, <1>6, <1>7, <1>8, <1>9 DEF BaseInv, Frame

\* A damaged row is noted.
LEMMA DamageStep ==
  ASSUME BaseInv, NEW j \in Job, Damage(j) PROVE BaseInv' /\ Frame
<1> USE DEF Damage, Free, WriteFails, registries, workloads, artifacts, clients, rest,
      gcRest
<1>1. Typed'
  BY LedgerAssumption DEF BaseInv, Typed, LedgerTypeOK, Policy, WState, WTerminal, Lifecycle
<1>2. RequestsOrdered'
  BY LedgerAssumption DEF BaseInv, Typed, LedgerTypeOK, RequestsOrdered, Known
<1>3. OwnersKnown'
  BY LedgerAssumption DEF BaseInv, Typed, LedgerTypeOK, OwnersKnown, Known
<1>4. JobsStored'
  BY DEF BaseInv, Typed, LedgerTypeOK, JobsStored
<1>5. ArtifactsStored'
  BY DEF BaseInv, Typed, LedgerTypeOK, ArtifactsStored, Rank, Lifecycle
<1>6. CrashNoted'
  BY LedgerAssumption DEF BaseInv, Typed, LedgerTypeOK, CrashNoted
<1>7. WorkloadsStep
  BY LedgerAssumption DEF BaseInv, Typed, LedgerTypeOK, OwnersKnown, WorkloadsStep, WTerminal, InFlight
<1>8. JobsStep
  BY DEF BaseInv, Typed, LedgerTypeOK, JobsStored, JobsStep, Known
<1>9. ArtifactsStep
  BY LedgerAssumption DEF BaseInv, Typed, LedgerTypeOK, ArtifactsStep, ArtifactsStored
<1> QED BY <1>1, <1>2, <1>3, <1>4, <1>5, <1>6, <1>7, <1>8, <1>9 DEF BaseInv, Frame

\* The registries are rebuilt from what the store holds.
LEMMA RestartStep ==
  ASSUME BaseInv, Restart PROVE BaseInv' /\ Frame
<1> USE DEF Restart, LoadJobs, RestoredIndex, Redriven, Free, WriteFails, registries,
      workloads, artifacts, clients, rest, gcRest
<1>1. Typed'
  BY LedgerAssumption DEF BaseInv, Typed, LedgerTypeOK, Policy, WState, WTerminal, Lifecycle
<1>2. RequestsOrdered'
  BY LedgerAssumption DEF BaseInv, Typed, LedgerTypeOK, RequestsOrdered, Known
<1>3. OwnersKnown'
  <2>1. \A x \in Workload : arow[x] # "none" => art[x] # "none"
    <3> SUFFICES ASSUME NEW x \in Workload, arow[x] # "none", art[x] = "none" PROVE FALSE OBVIOUS
    <3>1. Rank(arow[x]) <= Rank("none") /\ arow[x] \in {"available", "gc_eligible", "deleted"}
      BY DEF BaseInv, Typed, LedgerTypeOK, ArtifactsStored, Lifecycle
    <3> HIDE DEF Restart
    <3>2. Rank(arow[x]) \in {1, 2, 3} BY <3>1, Ranks
    <3> QED BY <3>1, <3>2, Ranks
  <2>2. \A j \in Job : Known(j) => Known(j)' \/ j \in dropped
    BY DEF BaseInv, Typed, LedgerTypeOK, JobsStored, Known, Policy
  <2>3. \A x \in Workload : wst'[x] = "none" <=> wst[x] = "none" BY DEF BaseInv, Typed,
        LedgerTypeOK
  <2>4. owner' = owner /\ dropped' = dropped /\ art' = arow /\ live' = {} /\ cpend' = {} /\ busy' = "no"
    OBVIOUS
  <2> HIDE DEF Restart
  <2> QED BY LedgerAssumption, <2>1, <2>2, <2>3, <2>4 DEF BaseInv, Typed, LedgerTypeOK,
        OwnersKnown
<1>4. JobsStored'
  BY LedgerAssumption DEF BaseInv, Typed, LedgerTypeOK, JobsStored, Policy
<1>5. ArtifactsStored'
  BY DEF BaseInv, Typed, LedgerTypeOK, ArtifactsStored, Rank, Lifecycle
<1>6. CrashNoted'
  BY LedgerAssumption DEF BaseInv, Typed, LedgerTypeOK, CrashNoted
<1>7. WorkloadsStep
  BY LedgerAssumption DEF BaseInv, Typed, LedgerTypeOK, OwnersKnown, WorkloadsStep, WTerminal, InFlight
<1>8. JobsStep
  BY LedgerAssumption DEF BaseInv, Typed, LedgerTypeOK, JobsStored, JobsStep, Known, Policy
<1>9. ArtifactsStep
  BY LedgerAssumption DEF BaseInv, Typed, LedgerTypeOK, ArtifactsStep, ArtifactsStored,
        CrashNoted, Rank, Lifecycle
<1> QED BY <1>1, <1>2, <1>3, <1>4, <1>5, <1>6, <1>7, <1>8, <1>9 DEF BaseInv, Frame

-----------------------------------------------------------------------------
(* The invariant and the theorems *)

\* Every step keeps the base and obeys the frame.
LEMMA NextStep == ASSUME BaseInv, [Next]_vars PROVE BaseInv' /\ Frame
<1>1. ASSUME NEW r \in Request, Submission(r) PROVE BaseInv' /\ Frame
  BY <1>1, ReceiveStep, InfeasibleStep, CreateJobStep, SubmitWorkloadStep DEF Submission
<1>2. ASSUME NEW w \in Workload, Step(w) PROVE BaseInv' /\ Frame
  BY <1>2, DispatchStep, DispatchFailsStep, ResultDroppedStep, CompleteStep, RecordArtifactsStep,
     CancelStep, CancelledStep DEF Step
<1>3. CASE Gc BY <1>3, GcPurgeStep, GcDeleteStep, GcMarkStep DEF Gc
<1>4. CASE UNCHANGED vars
  <2> USE <1>4 DEF vars
  <2>1. BaseInv'
    BY DEF BaseInv, Typed, LedgerTypeOK, RequestsOrdered, Known, OwnersKnown, JobsStored,
           ArtifactsStored, CrashNoted
  <2>2. WorkloadsStep BY DEF WorkloadsStep, InFlight
  <2>3. JobsStep BY DEF JobsStep, Known
  <2>4. ArtifactsStep BY DEF ArtifactsStep, BaseInv, Typed, LedgerTypeOK
  <2> QED BY <2>1, <2>2, <2>3, <2>4 DEF Frame
<1> QED BY <1>1, <1>2, <1>3, <1>4, AgeStep, DamageStep, CrashStep, RestartStep DEF Next

\* Nothing is submitted and nothing stored.
LEMMA InitBase == Init => BaseInv
<1> SUFFICES ASSUME Init PROVE BaseInv OBVIOUS
<1> USE LedgerAssumption DEF Init
<1>1. Typed BY DEF Typed, LedgerTypeOK, WState, Lifecycle
<1>2. RequestsOrdered /\ OwnersKnown /\ JobsStored /\ ArtifactsStored /\ CrashNoted
  BY DEF RequestsOrdered, OwnersKnown, JobsStored, ArtifactsStored, CrashNoted
<1> QED BY <1>1, <1>2 DEF BaseInv

\* The owner of a workload is a job, known unless its record is lost.
LEMMA OwnerJob ==
  ASSUME BaseInv, NEW w \in Workload, owner[w] # NoJob
  PROVE  owner[w] \in Job /\ (Known(owner[w]) \/ owner[w] \in dropped)
BY DEF BaseInv, Typed, LedgerTypeOK, OwnersKnown

\* The collector takes what belongs to finished jobs, or to jobs it has lost.
LEMMA UnprotectedOver ==
  ASSUME BaseInv, NEW w \in Workload, owner[w] # NoJob, owner[w] \notin ProtectedJobs
  PROVE  Over(owner[w]) \/ Disturbed(owner[w])
BY OwnerJob DEF ProtectedJobs, Disturbed

\* What is over or disturbed stays so.
LEMMA SettledKept ==
  ASSUME BaseInv, Frame, NEW j \in Job, Known(j) \/ j \in dropped, Over(j) \/ Disturbed(j)
  PROVE  Over(j)' \/ Disturbed(j)'
BY VerdictKept, DisturbedKept DEF BaseInv

\* A collected artifact belongs to a job that was over or disturbed before.
LEMMA CollectedKept ==
  ASSUME BaseInv, Frame, CollectedWhenOver PROVE CollectedWhenOver'
<1> SUFFICES ASSUME NEW w \in Workload, owner'[w] # NoJob, art'[w] \in {"gc_eligible", "deleted"}
             PROVE  \E j \in Job : j = owner'[w] /\ (Over(j)' \/ Disturbed(j)')
  BY DEF CollectedWhenOver
<1>1. \/ art[w] \in {"gc_eligible", "deleted"}
      \/ art[w] = "available" /\ owner[w] \notin ProtectedJobs
  BY DEF Frame, ArtifactsStep
<1>2. owner[w] # NoJob BY <1>1 DEF BaseInv, OwnersKnown
<1>3. PICK j \in Job : j = owner[w] BY <1>2, OwnerJob
<1>4. owner'[w] = j BY <1>2, <1>3 DEF Frame, WorkloadsStep
<1>5. Over(j) \/ Disturbed(j) BY <1>1, <1>2, <1>3, UnprotectedOver DEF CollectedWhenOver
<1>6. Known(j) \/ j \in dropped BY <1>2, <1>3, OwnerJob
<1> QED BY <1>4, <1>5, <1>6, SettledKept

\* A completed member whose artifact is not available was collected, which
\* only a verdict or a disturbance allows, and both stay.
LEMMA HeldKept ==
  ASSUME BaseInv, BaseInv', Frame, CollectedWhenOver, HeldThroughout PROVE HeldThroughout'
<1> SUFFICES ASSUME NEW w \in Workload, owner'[w] # NoJob, busy' # w, wst'[w] = "completed",
                    w \notin dropped', art'[w] # "available"
             PROVE  \E j \in Job : j = owner'[w] /\ (Over(j)' \/ Disturbed(j)')
  BY DEF HeldThroughout
<1>1. wst[w] = "completed" BY DEF Frame, WorkloadsStep
<1>2. owner[w] # NoJob BY <1>1 DEF BaseInv, OwnersKnown
<1>3. PICK j \in Job : j = owner[w] BY <1>2, OwnerJob
<1>4. owner'[w] = j BY <1>2, <1>3 DEF Frame, WorkloadsStep
<1>5. Known(j) \/ j \in dropped BY <1>2, <1>3, OwnerJob
<1>6. w \notin dropped BY DEF Frame, JobsStep
<1>7. Over(j) \/ Disturbed(j)
  <2>1. CASE busy = w
    <3>1. art[w] \in {"gc_eligible", "deleted"} BY <2>1 DEF Frame, ArtifactsStep
    <3> QED BY <1>2, <1>3, <3>1 DEF CollectedWhenOver
  <2>2. CASE busy # w /\ art[w] = "available"
    <3>1. owner[w] \notin ProtectedJobs BY <2>2 DEF Frame, ArtifactsStep
    <3> QED BY <1>2, <1>3, <3>1, UnprotectedOver
  <2>3. CASE busy # w /\ art[w] # "available"
    BY <1>1, <1>2, <1>3, <1>6, <2>3 DEF HeldThroughout
  <2> QED BY <2>1, <2>2, <2>3
<1> QED BY <1>4, <1>5, <1>7, SettledKept

\* The invariant holds at the start.
LEMMA InitInv == Init => LedgerInv
<1> SUFFICES ASSUME Init PROVE LedgerInv OBVIOUS
<1>1. CollectedWhenOver /\ HeldThroughout BY DEF Init, CollectedWhenOver, HeldThroughout
<1> QED BY <1>1, InitBase DEF LedgerInv

\* And every step keeps it.
LEMMA InvStep == ASSUME LedgerInv, [Next]_vars PROVE LedgerInv'
<1>1. BaseInv' /\ Frame BY NextStep DEF LedgerInv
<1> QED BY <1>1, CollectedKept, HeldKept DEF LedgerInv

\* The inductive invariant holds in every reachable state.
THEOREM Invariance == Spec => []LedgerInv
<1>1. LedgerInv /\ [Next]_vars => LedgerInv' BY InvStep
<1> QED BY <1>1, InitInv, PTL DEF Spec

\* LedgerTypeOK: the types, and the index by content hash is exact, through
\* record_artifacts, purge_deleted_artifacts and restore_artifact, however
\* many workloads have the same output.
THEOREM TypesKept == Spec => []LedgerTypeOK
<1>1. LedgerInv => LedgerTypeOK BY DEF LedgerInv, BaseInv, Typed
<1> QED BY <1>1, Invariance, PTL

\* NoGhostRows: every row of the store belongs to an artifact of the registry
\* and is not ahead of it, whichever writes of mark_gc_eligible,
\* mark_deleted or purge_deleted_artifacts fail and wherever it crashes.
THEOREM RowsFollowArtifacts == Spec => []NoGhostRows
<1>1. LedgerInv => NoGhostRows BY DEF LedgerInv, BaseInv, ArtifactsStored, NoGhostRows
<1> QED BY <1>1, Invariance, PTL

\* OutputsHeld: compute_gc_eligible never takes an output of a job that
\* get_aggregate does not report as finished, for any number of jobs,
\* requests that disagree about a job, crashes and failed writes.
THEOREM OutputsOfUnfinishedHeld == Spec => []OutputsHeld
<1>1. ASSUME LedgerInv, NEW w \in Workload, wst[w] = "completed" PROVE owner[w] # NoJob
  BY <1>1 DEF LedgerInv, BaseInv, OwnersKnown
<1>2. LedgerInv => OutputsHeld BY <1>1 DEF LedgerInv, HeldThroughout, OutputsHeld
<1> QED BY <1>2, Invariance, PTL

\* VerdictStays: what get_aggregate reports of a job that is over is reported
\* in every later state in which the job is known, once no coroutine, cancel
\* call or artifact write of a member is under way, for any jobs and requests
\* and with no exemption for faults.
THEOREM VerdictsFinal == Spec => VerdictStays
<1>1. ASSUME LedgerInv, [Next]_vars, NEW j \in Job, Settled(j), Known(j)'
      PROVE  Settled(j)' /\ DeriveState(j)' = DeriveState(j)
  <2>1. BaseInv /\ Typed /\ Frame BY <1>1, NextStep DEF LedgerInv, BaseInv
  <2> QED BY <1>1, <2>1, SettledStays
<1>2. LedgerInv /\ [Next]_vars
      => [\A j \in Job : Settled(j) /\ Known(j)'
            => Settled(j)' /\ DeriveState(j)' = DeriveState(j)]_vars
  BY <1>1
<1> QED BY <1>2, Invariance, PTL DEF Spec, VerdictStays

================================================================================
