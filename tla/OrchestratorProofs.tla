-------------------------- MODULE OrchestratorProofs --------------------------
(***************************************************************************)
(* Theorems about Orchestrator, for every set of workloads and workers and *)
(* every value of the other constants.                                     *)
(***************************************************************************)
EXTENDS Orchestrator, FiniteSetTheorems, TLAPS

-----------------------------------------------------------------------------
(* Type correctness *)

\* mark_succeeded, mark_failed and mark_lost keep the attempts well typed.
LEMMA MarkType ==
  ASSUME TypeOK, NEW w \in Workloads, NEW s \in AttemptStatus,
         NEW c \in Category \cup {"none"}, MarkLatest(w, s, c)
  PROVE  attempts' \in [Workloads -> [AttemptNo -> AttemptRecord]]
<1>1. ASSUME NEW v \in Workloads, NEW n \in AttemptNo
      PROVE  attempts'[v][n] \in AttemptRecord
  <2>1. attempts[v][n] \in AttemptRecord
    BY DEF TypeOK
  <2>2. [attempts[v][n] EXCEPT !.status = s, !.category = c] \in AttemptRecord
    BY <2>1 DEF AttemptRecord
  <2>3. attempts'[v][n] \in {attempts[v][n],
                             [attempts[v][n] EXCEPT !.status = s, !.category = c]}
    BY DEF TypeOK, MarkLatest
  <2>4. QED
    BY <2>1, <2>2, <2>3
<1>2. QED
  BY <1>1 DEF TypeOK, MarkLatest

\* Losing attempts (eviction, recovery) keeps the attempt table well typed.
LEMMA LoseType ==
  ASSUME TypeOK, NEW lost, LoseAttempts(lost)
  PROVE  attempts' \in [Workloads -> [AttemptNo -> AttemptRecord]]
<1>1. ASSUME NEW v \in Workloads, NEW n \in AttemptNo
      PROVE  attempts'[v][n] \in AttemptRecord
  <2>1. attempts[v][n] \in AttemptRecord
    BY DEF TypeOK
  <2>2. [attempts[v][n] EXCEPT !.status = "LOST",
                               !.category = "WORKER_UNAVAILABLE"] \in AttemptRecord
    BY <2>1 DEF AttemptRecord, AttemptStatus, Category
  <2>3. attempts'[v][n] \in
          {attempts[v][n],
           [attempts[v][n] EXCEPT !.status = "LOST",
                                  !.category = "WORKER_UNAVAILABLE"]}
    BY DEF LoseAttempts
  <2>4. QED
    BY <2>1, <2>2, <2>3
<1>2. QED
  BY <1>1 DEF LoseAttempts

\* The number of attempts charged to the retry budget is a natural number.
LEMMA ChargedType ==
  ASSUME TypeOK, NEW w \in Workloads
  PROVE  Charged(w) \in Nat
<1>1. IsFiniteSet(1 .. made[w])
  BY FS_Interval, ConstantAssumption DEF TypeOK
<1>2. IsFiniteSet(ChargedSet(w))
  BY <1>1, FS_Subset DEF ChargedSet
<1>3. QED
  BY <1>2, FS_CardinalityType DEF Charged

\* What the end of a dispatch leaves is well typed.
LEMMA ReturnType ==
  ASSUME TypeOK, NEW w \in Workloads, NEW s \in WorkloadState, Return(w, s)
  PROVE  /\ wstate' \in [Workloads -> WorkloadState]
         /\ pc' \in [Workloads -> Pc]
         /\ queued' \subseteq Workloads /\ processing' \subseteq Workloads
         /\ looping' \in BOOLEAN
         /\ used' \in [Workloads -> Nat]
         /\ exhausted' \in [Workloads -> SUBSET Workers]
         /\ held' \in [Workloads -> Outcome \cup {"none"}]
  BY DEF TypeOK, Return, Pc

\* A ledger entry changes to another ledger entry.
LEMMA ExecType ==
  ASSUME TypeOK, NEW w \in Workloads, NEW n, NEW e \in ExecState
  PROVE  [exec EXCEPT ![w][n] = e] \in [Workloads -> [AttemptNo -> ExecState]]
  BY DEF TypeOK

\* A coroutine past placement has a current attempt, placed on a worker.
LEMMA LatestAttempt ==
  ASSUME TypeOK, AttemptInv, NEW w \in Workloads,
         pc[w] \in WirePc \cup {"launch", "settle", "seal"}
  PROVE  /\ made[w] \in AttemptNo
         /\ Latest(w) \in AttemptRecord
         /\ Latest(w).worker \in Workers
<1>1. made[w] \in AttemptNo
  BY ConstantAssumption DEF TypeOK, AttemptInv, AttemptNo
<1>2. QED
  BY <1>1 DEF TypeOK, AttemptInv, Latest

\* Every step keeps every variable in its type.
LEMMA TypeStep ==
  ASSUME TypeOK, AttemptInv, [Next]_vars
  PROVE  TypeOK'
<1> USE DEF durable, local, queue, ghosts, settleRest, responseRest, workerRest
<1>1. ASSUME NEW w \in Workloads, SubmitWorkload(w) PROVE TypeOK'
  BY <1>1 DEF SubmitWorkload, TypeOK, WorkloadState
<1>2. ASSUME NEW w \in Workloads, CancelWorkload(w) PROVE TypeOK'
  <2>1. {"CANCELLATION_REQUESTED", "CANCELLED"} \subseteq WorkloadState
    BY DEF WorkloadState, Terminal, CancelStates
  <2>2. wstate' \in [Workloads -> WorkloadState]
    BY <1>2, <2>1 DEF CancelWorkload, TypeOK
  <2>3. UNCHANGED <<attempts, made, registered, up, eligible, processing, looping,
                    pc, used, exhausted, held, exec, ran, faults>>
    BY <1>2 DEF CancelWorkload
  <2>4. canceller' \in [Workloads -> 0 .. AttemptBound]
    BY <1>2 DEF CancelWorkload, TypeOK
  <2>5. queued' \subseteq Workloads
    BY <1>2 DEF CancelWorkload, TypeOK
  <2>6. QED
    BY <2>2, <2>3, <2>4, <2>5 DEF TypeOK
<1>3. ASSUME NEW w \in Workloads, CancelReturned(w) PROVE TypeOK'
  BY <1>3, ConstantAssumption DEF CancelReturned, TypeOK, WorkloadState, Terminal, CancelStates
<1>4. ASSUME NEW w \in Workloads, Start(w) PROVE TypeOK'
  <2>1. ExhaustedByRecord(w) \subseteq Workers
    BY ConstantAssumption DEF ExhaustedByRecord, TypeOK, AttemptInv, AttemptNo
  <2>2. CASE \E s \in WorkloadState : Return(w, s)
    BY <1>4, <2>2, ReturnType DEF Start, TypeOK
  <2>3. CASE ~ \E s \in WorkloadState : Return(w, s)
    <3>1. wstate[w] \in WorkloadState /\ "FAILED" \in WorkloadState
      BY DEF TypeOK, WorkloadState, Terminal
    <3>2. /\ wstate' = [wstate EXCEPT ![w] = "PLACING"]
          /\ used' = [used EXCEPT ![w] = Charged(w)]
          /\ exhausted' = [exhausted EXCEPT ![w] = ExhaustedByRecord(w)]
          /\ Goto(w, "place")
          /\ UNCHANGED <<queued, processing, looping, held>>
      BY <1>4, <2>3, <3>1 DEF Start
    <3>3. QED
      BY <1>4, <2>1, <3>2, ChargedType
         DEF Start, Goto, TypeOK, WorkloadState, Pc, RunPc
  <2>4. QED
    BY <2>2, <2>3
<1>5. ASSUME NEW w \in Workloads, NoDecision(w) PROVE TypeOK'
  BY <1>5, ReturnType DEF NoDecision, TypeOK, WorkloadState, Terminal
<1>6. ASSUME NEW w \in Workloads, Launch(w) PROVE TypeOK'
  <2>1. made[w] \in AttemptNo /\ Latest(w) \in AttemptRecord
    BY <1>6, LatestAttempt DEF Launch
  <2>2. [Latest(w) EXCEPT !.status = "RUNNING"] \in AttemptRecord
    BY <2>1 DEF AttemptRecord, AttemptStatus, ActiveStatus
  <2>3. attempts' \in [Workloads -> [AttemptNo -> AttemptRecord]]
    BY <1>6, <2>1, <2>2 DEF Launch, Latest, TypeOK
  <2>4. exec' \in [Workloads -> [AttemptNo -> ExecState]]
    BY <1>6, ExecType DEF Launch, ExecState
  <2>5. QED
    BY <1>6, <2>3, <2>4 DEF Launch, Goto, TypeOK, WorkloadState, Pc, WirePc
<1>7. ASSUME NEW w \in Workloads, EndBackoff(w) PROVE TypeOK'
  BY <1>7 DEF EndBackoff, Goto, TypeOK, Pc
<1>8. ASSUME NEW w \in Workloads, NEW k \in Workers, PlaceOn(w, k) PROVE TypeOK'
  <2>1. made' \in [Workloads -> 0 .. AttemptBound]
    BY <1>8, ConstantAssumption DEF PlaceOn, TypeOK
  <2>2. [status |-> "QUEUED", worker |-> k, category |-> "none"] \in AttemptRecord
    BY DEF AttemptRecord, AttemptStatus
  <2>3. attempts' \in [Workloads -> [AttemptNo -> AttemptRecord]]
    BY <1>8, <2>2 DEF PlaceOn, TypeOK
  <2>4. QED
    BY <1>8, <2>1, <2>3 DEF PlaceOn, Goto, TypeOK, WorkloadState, Pc, RunPc
<1>9. ASSUME NEW w \in Workloads, SubmitAccepted(w) \/ SubmitAmbiguous(w) \/ EndSleep(w) \/ StatusAgain(w) \/ CancelRemoteReturned(w) PROVE TypeOK'
  BY <1>9 DEF SubmitAccepted, SubmitAmbiguous, EndSleep, StatusAgain, CancelRemoteReturned, Poll, Goto, TypeOK, Pc, WirePc, RunPc, Outcome, Category
<1>10. ASSUME NEW w \in Workloads, ResolveFound(w) \/ StatusTerminal(w) PROVE TypeOK'
  <2>1. /\ TakeOutcome(w) \/ Poll(w)
        /\ TakeOutcome(w) => Ledger(w) \in Outcome \/ Poll(w)
        /\ UNCHANGED <<responseRest, wstate, attempts, eligible, exhausted, exec>>
    BY <1>10 DEF ResolveFound, StatusTerminal
  <2>2. {"EXECUTION_FAILURE", "WORKER_UNAVAILABLE"} \subseteq Outcome
    BY DEF Outcome, Category
  <2>3. held' \in [Workloads -> Outcome \cup {"none"}]
    BY <2>1, <2>2 DEF TakeOutcome, Poll, TypeOK
  <2>4. pc' \in [Workloads -> Pc]
    BY <2>1 DEF TakeOutcome, Poll, Goto, TypeOK, Pc, WirePc
  <2>5. QED
    BY <2>1, <2>3, <2>4 DEF TypeOK
<1>11. ASSUME NEW w \in Workloads, AckReturned(w) PROVE TypeOK'
  <2>1. exec' \in [Workloads -> [AttemptNo -> ExecState]]
    <3>1. "gone" \in ExecState
      BY DEF ExecState
    <3>2. [exec EXCEPT ![w][made[w]] = "gone"] \in [Workloads -> [AttemptNo -> ExecState]]
      BY <3>1, ExecType
    <3>3. exec \in [Workloads -> [AttemptNo -> ExecState]]
      BY DEF TypeOK
    <3>4. QED
      BY <1>11, <3>2, <3>3 DEF AckReturned
  <2>2. QED
    BY <1>11, <2>1 DEF AckReturned, Goto, TypeOK, Pc, RunPc
<1>12. ASSUME NEW w \in Workloads, pc[w] \in WirePc, NEW s \in {"LOST", "FAILED"},
              RaiseHandled(w, s), UNCHANGED responseRest,
              exec' \in [Workloads -> [AttemptNo -> ExecState]]
       PROVE  TypeOK'
  <2>1. attempts' \in [Workloads -> [AttemptNo -> AttemptRecord]]
    BY <1>12, MarkType DEF RaiseHandled, AttemptStatus, Category
  <2>2. exhausted' \in [Workloads -> SUBSET Workers]
    BY <1>12, LatestAttempt DEF RaiseHandled, TypeOK
  <2>3. QED
    BY <1>12, <2>1, <2>2 DEF RaiseHandled, PenaliseWorker, Goto, TypeOK, Pc, RunPc
<1>13. ASSUME NEW w \in Workloads, SubmitRejected(w) PROVE TypeOK'
  <2>1. exec' \in [Workloads -> [AttemptNo -> ExecState]]
    BY <1>13, ExecType DEF SubmitRejected, ExecState
  <2>2. QED
    BY <1>12, <1>13, <2>1 DEF SubmitRejected, SubmitUnavailable, WirePc
<1>14. ASSUME NEW w \in Workloads, ResolveUnavailable(w) PROVE TypeOK'
  BY <1>12, <1>14 DEF ResolveUnavailable, SubmitUnavailable, WirePc, TypeOK
<1>15. ASSUME NEW w \in Workloads, StatusMissing(w) PROVE TypeOK'
  BY <1>12, <1>15 DEF StatusMissing, RecordLost, WirePc, TypeOK
<1>16. ASSUME NEW w \in Workloads, ResolveServerError(w) PROVE TypeOK'
  <2>1. attempts' \in [Workloads -> [AttemptNo -> AttemptRecord]]
    BY <1>16, MarkType DEF ResolveServerError, RaiseUnexpected, AttemptStatus, Category
  <2>2. exhausted' \in [Workloads -> SUBSET Workers]
    BY <1>16, LatestAttempt DEF ResolveServerError, RaiseUnexpected, TypeOK, WirePc
  <2>3. QED
    BY <1>16, <2>1, <2>2 DEF ResolveServerError, RaiseUnexpected, PenaliseWorker,
       Goto, TypeOK, Pc, RunPc, WorkloadState, Terminal
<1>17. ASSUME NEW w \in Workloads, SettleCancelled(w) PROVE TypeOK'
  <2>1. attempts' \in [Workloads -> [AttemptNo -> AttemptRecord]]
    BY <1>17, MarkType DEF SettleCancelled, AttemptStatus, Category
  <2>2. QED
    BY <1>17, <2>1, ReturnType DEF SettleCancelled, TypeOK, WorkloadState, Terminal
<1>18. ASSUME NEW w \in Workloads, SettleCheckpoint(w) PROVE TypeOK'
  <2>1. attempts' \in [Workloads -> [AttemptNo -> AttemptRecord]]
    BY <1>18, MarkType, LatestAttempt DEF SettleCheckpoint, AttemptStatus, AttemptRecord
  <2>2. QED
    BY <1>18, <2>1, ReturnType DEF SettleCheckpoint, TypeOK, WorkloadState
<1>19. ASSUME NEW w \in Workloads, Seal(w) PROVE TypeOK'
  <2>1. attempts' \in [Workloads -> [AttemptNo -> AttemptRecord]]
    BY <1>19, MarkType, LatestAttempt DEF Seal, AttemptStatus, AttemptRecord
  <2>2. QED
    BY <1>19, <2>1, ReturnType DEF Seal, TypeOK
<1>20. ASSUME NEW w \in Workloads, Conclude(w) PROVE TypeOK'
  BY <1>20, ReturnType DEF Conclude, TypeOK, WorkloadState, Terminal
<1>21. ASSUME NEW w \in Workloads, SettleSuccess(w) PROVE TypeOK'
  <2>1. attempts' \in [Workloads -> [AttemptNo -> AttemptRecord]]
    <3>1. ASSUME NEW v \in Workloads, NEW n \in AttemptNo
          PROVE  attempts'[v][n] \in AttemptRecord
      <4>1. attempts[v][n] \in AttemptRecord
        BY DEF TypeOK
      <4>2. [attempts[v][n] EXCEPT !.status = "FAILED",
                                   !.category = "EXECUTION_FAILURE"] \in AttemptRecord
        BY <4>1 DEF AttemptRecord, AttemptStatus, Category
      <4>3. attempts'[v][n] \in
              {attempts[v][n],
               [attempts[v][n] EXCEPT !.status = "FAILED",
                                      !.category = "EXECUTION_FAILURE"]}
        BY <1>21 DEF SettleSuccess, TypeOK
      <4>4. QED
        BY <4>1, <4>2, <4>3
    <3>2. QED
      BY <1>21, <3>1 DEF SettleSuccess, TypeOK
  <2>2. QED
    BY <1>21, <2>1 DEF SettleSuccess, Goto, TypeOK, Pc, RunPc, WorkloadState, Terminal
<1>22. ASSUME NEW w \in Workloads, SettleFailure(w) PROVE TypeOK'
  <2>1. attempts' \in [Workloads -> [AttemptNo -> AttemptRecord]]
    BY <1>22, MarkType DEF SettleFailure, AttemptStatus, Category
  <2>2. exhausted' \in [Workloads -> SUBSET Workers]
    BY <1>22, LatestAttempt DEF SettleFailure, TypeOK
  <2>3. QED
    BY <1>22, <2>1, <2>2 DEF SettleFailure, Goto, TypeOK, Pc, RunPc
<1>23. ASSUME Admission PROVE TypeOK'
  BY <1>23 DEF Admission, AdmissionPass, Forgotten, TypeOK, Pc, WorkloadState, Terminal
<1>24. ASSUME QueueExit PROVE TypeOK'
  BY <1>24 DEF QueueExit, TypeOK
<1>25. ASSUME NEW k \in Workers, Heartbeat(k) \/ BecomeIneligible(k) \/ Unregister(k)
       PROVE  TypeOK'
  BY <1>25, ConstantAssumption DEF Heartbeat, BecomeIneligible, Unregister, Fault, TypeOK
<1>26. ASSUME NEW k \in Workers, Evict(k) PROVE TypeOK'
  BY <1>26, LoseType, ConstantAssumption DEF Evict, Fault, TypeOK
<1>27. ASSUME NEW w \in Workloads, NEW n \in AttemptNo,
              WorkerAccept(w, n) \/ RequestDropped(w, n) \/ WorkerCancel(w, n)
       PROVE  TypeOK'
  <2>1. exec' \in [Workloads -> [AttemptNo -> ExecState]]
    <3>1. {"running", "gone", "cancelling"} \subseteq ExecState
      BY DEF ExecState
    <3>2. QED
      BY <1>27, <3>1, ExecType DEF WorkerAccept, RequestDropped, WorkerCancel
  <2>2. QED
    BY <1>27, <2>1 DEF WorkerAccept, RequestDropped, WorkerCancel, TypeOK
<1>28. ASSUME NEW w \in Workloads, NEW n \in AttemptNo, NEW o \in Outcome,
              WorkerFinish(w, n, o)
       PROVE  TypeOK'
  <2>1. exec' \in [Workloads -> [AttemptNo -> ExecState]]
    BY <1>28, ExecType DEF WorkerFinish, ExecState
  <2>2. QED
    BY <1>28, <2>1 DEF WorkerFinish, TypeOK
<1>29. ASSUME NEW k \in Workers, WorkerRestart(k) PROVE TypeOK'
  BY <1>29, ConstantAssumption DEF WorkerRestart, Fault, TypeOK, ExecState
<1>30. ASSUME Crash PROVE TypeOK'
  <2>1. 0 \in 0 .. AttemptBound /\ faults' \in 0 .. FaultBound
    BY <1>30, ConstantAssumption DEF Crash, Fault, TypeOK
  <2>2. QED
    BY <1>30, <2>1 DEF Crash, TypeOK, Pc
<1>31. ASSUME Restart PROVE TypeOK'
  BY <1>31, LoseType DEF Restart, Recoverable, TypeOK, WorkloadState
<1>32. ASSUME UNCHANGED vars PROVE TypeOK'
  BY <1>32 DEF vars, TypeOK
<1>33. QED
  BY <1>1, <1>2, <1>3, <1>4, <1>5, <1>6, <1>7, <1>8, <1>9, <1>10, <1>11, <1>13,
     <1>14, <1>15, <1>16, <1>17, <1>18, <1>19, <1>20, <1>21, <1>22, <1>23, <1>24,
     <1>25, <1>26, <1>27, <1>28, <1>29, <1>30, <1>31, <1>32
     DEF Next, Dispatch, Ledgers, Registry

-----------------------------------------------------------------------------
(* What the steps of one dispatch coroutine have in common *)

\* A step of the coroutine of w leaves every other workload alone.
Elsewhere(w) ==
  \A v \in Workloads \ {w} :
    /\ wstate'[v] = wstate[v] /\ pc'[v] = pc[v] /\ held'[v] = held[v]
    /\ made'[v] = made[v] /\ attempts'[v] = attempts[v] /\ exec'[v] = exec[v]

\* It happens while the coordinator is up and the coroutine is alive, and
\* touches neither the canceller nor what has run.
LEMMA DispatchFrame ==
  ASSUME TypeOK, NEW w \in Workloads, Dispatch(w)
  PROVE  /\ up /\ pc[w] # "idle"
         /\ UNCHANGED <<up, canceller, ran>>
         /\ Elsewhere(w)
<1> USE DEF durable, local, queue, ghosts, settleRest, responseRest, LoopFree,
            Elsewhere, TypeOK, Goto, Return
<1>1. CASE Start(w)
  BY <1>1 DEF Start
<1>2. CASE NoDecision(w) \/ Launch(w) \/ EndBackoff(w)
  BY <1>2 DEF NoDecision, Launch, EndBackoff
<1>3. CASE \E k \in Workers : PlaceOn(w, k)
  BY <1>3 DEF PlaceOn
<1>4. CASE SubmitAccepted(w) \/ SubmitAmbiguous(w) \/ EndSleep(w)
           \/ StatusAgain(w) \/ CancelRemoteReturned(w)
  BY <1>4 DEF SubmitAccepted, SubmitAmbiguous, EndSleep, StatusAgain,
     CancelRemoteReturned, Poll
<1>5. CASE ResolveFound(w) \/ StatusTerminal(w) \/ AckReturned(w)
  BY <1>5 DEF ResolveFound, StatusTerminal, AckReturned, TakeOutcome, Poll
<1>6. CASE SubmitRejected(w) \/ ResolveUnavailable(w) \/ StatusMissing(w)
  BY <1>6 DEF SubmitRejected, ResolveUnavailable, StatusMissing, RecordLost,
     SubmitUnavailable, RaiseHandled, MarkLatest
<1>7. CASE ResolveServerError(w)
  BY <1>7 DEF ResolveServerError, RaiseUnexpected, MarkLatest
<1>8. CASE SettleCancelled(w) \/ SettleCheckpoint(w) \/ Seal(w) \/ Conclude(w)
  BY <1>8 DEF SettleCancelled, SettleCheckpoint, Seal, Conclude, MarkLatest
<1>9. CASE SettleSuccess(w)
  BY <1>9 DEF SettleSuccess
<1>10. CASE SettleFailure(w)
  <2>1. CASE Latest(w).status = "LOST"
    BY <1>10, <2>1 DEF SettleFailure, MarkLatest
  <2>2. CASE Latest(w).status # "LOST"
    BY <1>10, <2>2 DEF SettleFailure, MarkLatest
  <2>3. QED
    BY <2>1, <2>2
<1>11. QED
  BY <1>1, <1>2, <1>3, <1>4, <1>5, <1>6, <1>7, <1>8, <1>9, <1>10 DEF Dispatch

\* What it does to its slot: return, end the backoff, or go on.
GoesOn(w) ==
  /\ pc'[w] \in RunPc \cup WirePc
  /\ wstate'[w] = "SUBMITTED" => wstate[w] = "SUBMITTED"
  /\ UNCHANGED queue

\* A dispatch step returns and gives up or keeps the slot, ends a backoff, or
\* goes on and leaves the queue alone.
LEMMA DispatchSlot ==
  ASSUME TypeOK, NEW w \in Workloads, Dispatch(w)
  PROVE  \/ \E s \in WorkloadState : Return(w, s)
         \/ EndBackoff(w)
         \/ GoesOn(w)
<1> USE DEF durable, local, queue, settleRest, responseRest,
            GoesOn, TypeOK, Goto, RunPc, WirePc
<1>1. {"FAILED", "SUBMITTED", "UNSCHEDULABLE", "CANCELLED", wstate[w]}
        \subseteq WorkloadState
  BY DEF WorkloadState, Terminal
<1>2. CASE Start(w) \/ NoDecision(w)
  BY <1>1, <1>2 DEF Start, NoDecision
<1>3. CASE Launch(w) \/ EndBackoff(w) \/ \E k \in Workers : PlaceOn(w, k)
  BY <1>3 DEF Launch, PlaceOn
<1>4. CASE SubmitAccepted(w) \/ SubmitAmbiguous(w) \/ EndSleep(w)
           \/ StatusAgain(w) \/ CancelRemoteReturned(w)
  BY <1>4 DEF SubmitAccepted, SubmitAmbiguous, EndSleep, StatusAgain,
     CancelRemoteReturned, Poll
<1>5. CASE ResolveFound(w) \/ StatusTerminal(w) \/ AckReturned(w)
  BY <1>5 DEF ResolveFound, StatusTerminal, AckReturned, TakeOutcome, Poll
<1>6. CASE SubmitRejected(w) \/ ResolveUnavailable(w) \/ StatusMissing(w)
  BY <1>6 DEF SubmitRejected, ResolveUnavailable, StatusMissing, RecordLost,
     SubmitUnavailable, RaiseHandled
<1>7. CASE ResolveServerError(w)
  BY <1>7 DEF ResolveServerError, RaiseUnexpected
<1>8. CASE SettleCancelled(w) \/ SettleCheckpoint(w) \/ Seal(w) \/ Conclude(w)
  BY <1>1, <1>8 DEF SettleCancelled, SettleCheckpoint, Seal, Conclude
<1>9. CASE SettleSuccess(w) \/ SettleFailure(w)
  BY <1>9 DEF SettleSuccess, SettleFailure
<1>10. QED
  BY <1>2, <1>3, <1>4, <1>5, <1>6, <1>7, <1>8, <1>9 DEF Dispatch

-----------------------------------------------------------------------------
(* Slots, queue and wakeups *)

\* Workers, the network and the worker registry do not touch the queue.
LEMMA QuietStep ==
  ASSUME Ledgers \/ Registry
  PROVE  UNCHANGED <<wstate, made, up, queue, local, canceller>>
  BY DEF Ledgers, Registry, WorkerAccept, RequestDropped, WorkerCancel,
     WorkerFinish, Heartbeat, BecomeIneligible, Unregister, Evict,
     WorkerRestart, workerRest, durable, queue, local

\* SlotInv, WaitInv and DownInv are preserved together.
LEMMA QueueStep ==
  ASSUME TypeOK, SlotInv, WaitInv, DownInv, [Next]_vars
  PROVE  SlotInv' /\ WaitInv' /\ DownInv'
<1> USE DEF SlotInv, WaitInv, DownInv, durable, local, queue, LoopFree
<1>1. ASSUME NEW w \in Workloads, SubmitWorkload(w)
      PROVE  SlotInv' /\ WaitInv' /\ DownInv'
  BY <1>1 DEF SubmitWorkload, TypeOK
<1>2. ASSUME NEW w \in Workloads, CancelWorkload(w) \/ CancelReturned(w)
      PROVE  SlotInv' /\ WaitInv' /\ DownInv'
  BY <1>2 DEF CancelWorkload, CancelReturned, TypeOK
<1>3. ASSUME NEW w \in Workloads, Dispatch(w)
      PROVE  SlotInv' /\ WaitInv' /\ DownInv'
  <2>1. up /\ up' /\ pc[w] # "idle" /\ Elsewhere(w)
    BY <1>3, DispatchFrame
  <2>2. CASE \E s \in WorkloadState : Return(w, s)
    BY <2>1, <2>2 DEF Return, Elsewhere, TypeOK
  <2>3. CASE EndBackoff(w)
    BY <2>1, <2>3 DEF EndBackoff, Goto, Elsewhere, TypeOK
  <2>4. CASE GoesOn(w)
    BY <2>1, <2>4 DEF GoesOn, Elsewhere, TypeOK, RunPc, WirePc
  <2>5. QED
    BY <1>3, <2>2, <2>3, <2>4, DispatchSlot
<1>4. ASSUME Admission PROVE SlotInv' /\ WaitInv' /\ DownInv'
  BY <1>4 DEF Admission, AdmissionPass, Forgotten, TypeOK
<1>5. ASSUME QueueExit PROVE SlotInv' /\ WaitInv' /\ DownInv'
  BY <1>5 DEF QueueExit, TypeOK
<1>6. ASSUME Ledgers \/ Registry PROVE SlotInv' /\ WaitInv' /\ DownInv'
  BY <1>6, QuietStep
<1>7. ASSUME Crash PROVE SlotInv' /\ WaitInv' /\ DownInv'
  BY <1>7 DEF Crash, TypeOK
<1>8. ASSUME Restart PROVE SlotInv' /\ WaitInv' /\ DownInv'
  BY <1>8 DEF Restart, Recoverable, TypeOK, Terminal
<1>9. ASSUME UNCHANGED vars PROVE SlotInv' /\ WaitInv' /\ DownInv'
  BY <1>9 DEF vars
<1>10. QED
  BY <1>1, <1>2, <1>3, <1>4, <1>5, <1>6, <1>7, <1>8, <1>9 DEF Next

-----------------------------------------------------------------------------
(* Attempts *)

\* The part of AttemptInv and ActiveAttemptOwned that concerns one workload.
AttemptInvOf(w) ==
  /\ pc[w] \in WirePc \cup {"launch", "settle", "seal"} => made[w] > 0
  /\ made[w] > 0 \/ pc[w] # "idle" \/ canceller[w] # 0 => wstate[w] # "absent"
  /\ \A n \in AttemptNo :
       /\ n <= made[w] => attempts[w][n].worker \in Workers
       /\ n > made[w] => attempts[w][n] = NoAttempt /\ exec[w][n] = "none"
  /\ \A n \in AttemptNo :
       up /\ attempts[w][n].status \in ActiveStatus =>
         n = made[w] /\ pc[w] \in WirePc \cup {"settle", "seal"}

\* How a final status is written: to the newest attempt only, which keeps its
\* worker.
LEMMA MarkPoint ==
  ASSUME TypeOK, AttemptInv, NEW w \in Workloads, NEW s, NEW c,
         pc[w] \in WirePc \cup {"launch", "settle", "seal"},
         MarkLatest(w, s, c)
  PROVE  /\ attempts'[w][made[w]].status = s
         /\ attempts'[w][made[w]].worker \in Workers
         /\ \A n \in AttemptNo : n # made[w] => attempts'[w][n] = attempts[w][n]
<1>1. made[w] \in AttemptNo /\ Latest(w) \in AttemptRecord /\ Latest(w).worker \in Workers
  BY LatestAttempt
<1>2. attempts'[w][made[w]] = [Latest(w) EXCEPT !.status = s, !.category = c]
  BY <1>1 DEF MarkLatest, Latest, TypeOK
<1>3. QED
  BY <1>1, <1>2 DEF MarkLatest, TypeOK, AttemptRecord

\* Once the newest attempt of w has a final status none of them is active, and
\* the coroutine may go anywhere.
LEMMA MarkedInv ==
  ASSUME TypeOK, AttemptInv, ActiveAttemptOwned, NEW w \in Workloads, up,
         pc[w] \in WirePc \cup {"settle", "seal"},
         NEW s \in {"FAILED", "LOST", "SUCCEEDED", "CHECKPOINTED"}, NEW c,
         MarkLatest(w, s, c), made' = made, canceller' = canceller,
         wstate'[w] # "absent",
         \A n \in AttemptNo : n # made[w] => exec'[w][n] = exec[w][n]
  PROVE  AttemptInvOf(w)'
<1>1. /\ attempts'[w][made[w]].status = s
      /\ attempts'[w][made[w]].worker \in Workers
      /\ \A n \in AttemptNo : n # made[w] => attempts'[w][n] = attempts[w][n]
  BY MarkPoint
<1>2. made[w] > 0 /\ made[w] \in Nat
  BY DEF AttemptInv, TypeOK
<1>3. \A n \in AttemptNo : attempts'[w][n].status \notin ActiveStatus
  BY <1>1 DEF ActiveAttemptOwned, ActiveStatus
<1>4. \A n \in AttemptNo :
        /\ n <= made[w] => attempts'[w][n].worker \in Workers
        /\ n > made[w] => attempts'[w][n] = NoAttempt /\ exec'[w][n] = "none"
  BY <1>1, <1>2 DEF AttemptInv, AttemptNo
<1>5. QED
  BY <1>2, <1>3, <1>4 DEF AttemptInvOf

\* A step that changes no attempt and no ledger, and keeps the coroutine inside
\* or outside the await section, or outside only if nothing is active.
LEMMA MovedInv ==
  ASSUME TypeOK, AttemptInv, ActiveAttemptOwned, NEW w \in Workloads, up,
         attempts'[w] = attempts[w], made'[w] = made[w],
         \A n \in AttemptNo : n # made[w] => exec'[w][n] = exec[w][n],
         canceller' = canceller, wstate'[w] # "absent",
         \/ pc[w] \in WirePc \cup {"settle", "seal"}
            /\ pc'[w] \in WirePc \cup {"settle", "seal"}
         \/ pc'[w] \notin WirePc \cup {"launch", "settle", "seal"}
            /\ pc[w] \notin WirePc \cup {"settle", "seal"}
  PROVE  AttemptInvOf(w)'
<1>1. made[w] \in Nat
  BY DEF TypeOK
<1>2. \A n \in AttemptNo :
        n > made[w] => attempts'[w][n] = NoAttempt /\ exec'[w][n] = "none"
  BY <1>1 DEF AttemptInv, AttemptNo
<1>3. QED
  BY <1>2 DEF AttemptInv, ActiveAttemptOwned, AttemptInvOf, WirePc

\* A dispatch step keeps what AttemptInv says of its own workload.
LEMMA AttemptDispatch ==
  ASSUME TypeOK, AttemptInv, ActiveAttemptOwned, NEW w \in Workloads, Dispatch(w)
  PROVE  AttemptInvOf(w)'
<1> USE DEF durable, local, queue, ghosts, settleRest, responseRest
<1>1. /\ up /\ up' /\ pc[w] # "idle" /\ wstate[w] # "absent"
      /\ canceller' = canceller
  BY DispatchFrame DEF AttemptInv
<1>2. pc \in [Workloads -> Pc] /\ wstate \in [Workloads -> WorkloadState]
      /\ made \in [Workloads -> 0 .. AttemptBound]
      /\ exec \in [Workloads -> [AttemptNo -> ExecState]]
  BY DEF TypeOK
<1>3. CASE Start(w) \/ NoDecision(w) \/ Conclude(w)
  <2>1. /\ wstate'[w] # "absent"
        /\ pc'[w] \in {"idle", "backoff", "place"}
        /\ pc[w] \in {"scheduled", "place", "conclude"}
        /\ UNCHANGED <<attempts, made, exec>>
    BY <1>1, <1>2, <1>3 DEF Start, NoDecision, Conclude, Return, Goto
  <2>2. QED
    BY <1>1, <2>1, MovedInv DEF WirePc
<1>4. CASE EndBackoff(w)
  <2>1. /\ pc'[w] = "idle" /\ pc[w] = "backoff" /\ wstate'[w] = wstate[w]
        /\ UNCHANGED <<attempts, made, exec>>
    BY <1>2, <1>4 DEF EndBackoff, Goto
  <2>2. QED
    BY <1>1, <2>1, MovedInv DEF WirePc
<1>5. CASE Launch(w)
  <2>1. /\ made[w] \in AttemptNo /\ Latest(w) \in AttemptRecord
        /\ Latest(w).worker \in Workers
    BY <1>5, LatestAttempt DEF Launch
  <2>2. attempts'[w][made[w]] = [Latest(w) EXCEPT !.status = "RUNNING"]
    BY <1>5, <2>1 DEF Launch, Latest, TypeOK
  <2>3. \A n \in AttemptNo : n # made[w] => attempts'[w][n] = attempts[w][n]
                                            /\ exec'[w][n] = exec[w][n]
    BY <1>5, <2>1 DEF Launch, TypeOK
  <2>4. pc'[w] = "submit" /\ made' = made /\ wstate'[w] = "EXECUTING"
    BY <1>2, <1>5 DEF Launch, Goto
  <2>5. attempts'[w][made[w]].worker \in Workers
    BY <2>1, <2>2 DEF AttemptRecord
  <2>6. \A n \in AttemptNo :
          /\ n <= made[w] => attempts'[w][n].worker \in Workers
          /\ n > made[w] => attempts'[w][n] = NoAttempt /\ exec'[w][n] = "none"
    BY <2>1, <2>3, <2>5 DEF AttemptInv, AttemptNo
  <2>7. \A n \in AttemptNo :
          attempts'[w][n].status \in ActiveStatus => n = made[w]
    BY <1>1, <2>3 DEF ActiveAttemptOwned
  <2>8. made[w] > 0
    BY <1>5 DEF Launch, AttemptInv
  <2>9. QED
    BY <2>4, <2>6, <2>7, <2>8 DEF AttemptInvOf, WirePc
<1>6. ASSUME NEW k \in Workers, PlaceOn(w, k) PROVE AttemptInvOf(w)'
  <2>1. made'[w] = made[w] + 1 /\ made[w] \in Nat /\ made'[w] \in AttemptNo
    BY <1>2, <1>6, ConstantAssumption DEF PlaceOn, AttemptNo
  <2>2. attempts'[w][made'[w]] =
          [status |-> "QUEUED", worker |-> k, category |-> "none"]
    BY <1>6, <2>1 DEF PlaceOn, TypeOK
  <2>3. \A n \in AttemptNo : n # made'[w] => attempts'[w][n] = attempts[w][n]
    BY <1>6, <2>1 DEF PlaceOn, TypeOK
  <2>4. \A n \in AttemptNo : attempts[w][n].status \notin ActiveStatus
    BY <1>1, <1>6 DEF PlaceOn, WirePc, ActiveAttemptOwned
  <2>5. \A n \in AttemptNo : attempts'[w][n].status \notin ActiveStatus
    BY <2>2, <2>3, <2>4 DEF ActiveStatus
  <2>6. \A n \in AttemptNo :
          /\ n <= made'[w] => attempts'[w][n].worker \in Workers
          /\ n > made'[w] => attempts'[w][n] = NoAttempt /\ exec'[w][n] = "none"
    BY <1>6, <2>1, <2>2, <2>3 DEF PlaceOn, AttemptInv, AttemptNo
  <2>7. made'[w] > 0 /\ wstate'[w] # "absent"
    BY <1>2, <1>6, <2>1 DEF PlaceOn
  <2>8. QED
    BY <2>5, <2>6, <2>7 DEF AttemptInvOf
<1>7. CASE SubmitAccepted(w) \/ SubmitAmbiguous(w) \/ EndSleep(w)
           \/ StatusAgain(w) \/ CancelRemoteReturned(w) \/ ResolveFound(w)
           \/ StatusTerminal(w)
  <2>1. /\ pc[w] \in WirePc /\ pc'[w] \in WirePc \cup {"settle"}
        /\ UNCHANGED <<wstate, attempts, made, exec>>
    BY <1>2, <1>7 DEF SubmitAccepted, SubmitAmbiguous, EndSleep, StatusAgain,
       CancelRemoteReturned, ResolveFound, StatusTerminal, TakeOutcome, Poll,
       Goto, WirePc
  <2>2. QED
    BY <1>1, <2>1, MovedInv
<1>8. CASE AckReturned(w)
  <2>1. /\ pc[w] \in WirePc /\ pc'[w] = "settle"
        /\ UNCHANGED <<wstate, attempts, made>>
    BY <1>2, <1>8 DEF AckReturned, Goto, WirePc
  <2>2. \A n \in AttemptNo : n # made[w] => exec'[w][n] = exec[w][n]
    BY <1>2, <1>8 DEF AckReturned
  <2>3. QED
    BY <1>1, <2>1, <2>2, MovedInv
<1>9. CASE SubmitRejected(w) \/ ResolveUnavailable(w) \/ StatusMissing(w)
           \/ ResolveServerError(w)
  <2>1. /\ pc[w] \in WirePc /\ wstate'[w] # "absent" /\ made' = made
        /\ \E s \in {"FAILED", "LOST"} : MarkLatest(w, s, "WORKER_UNAVAILABLE")
    BY <1>1, <1>2, <1>9 DEF SubmitRejected, ResolveUnavailable, StatusMissing,
       ResolveServerError, RaiseUnexpected, RecordLost, SubmitUnavailable,
       RaiseHandled, WirePc
  <2>2. \A n \in AttemptNo : n # made[w] => exec'[w][n] = exec[w][n]
    BY <1>2, <1>9 DEF SubmitRejected, ResolveUnavailable, StatusMissing,
       ResolveServerError
  <2>3. QED
    BY <1>1, <2>1, <2>2, MarkedInv
<1>10. CASE SettleCancelled(w) \/ SettleCheckpoint(w) \/ Seal(w)
            \/ SettleFailure(w)
  <2>1. /\ pc[w] \in {"settle", "seal"} /\ wstate'[w] # "absent"
        /\ UNCHANGED <<made, exec>>
        /\ \E s \in {"FAILED", "LOST", "SUCCEEDED", "CHECKPOINTED"}, c \in {held[w], Latest(w).category, "EXECUTION_FAILURE", "WORKER_UNAVAILABLE"} :
             MarkLatest(w, s, c)
    BY <1>1, <1>2, <1>10 DEF SettleCancelled, SettleCheckpoint, Seal,
       SettleFailure, Return
  <2>2. QED
    BY <1>1, <2>1, MarkedInv
<1>11. CASE SettleSuccess(w)
  <2>1. /\ pc[w] = "settle" /\ pc'[w] = "seal" /\ wstate'[w] = "COMPLETED"
        /\ UNCHANGED <<made, exec>>
    BY <1>2, <1>11 DEF SettleSuccess, Goto
  <2>2. made[w] \in AttemptNo
    BY <2>1, LatestAttempt
  <2>3. \A n \in AttemptNo :
          n # made[w] => attempts[w][n].status \notin ActiveStatus
    BY <1>1 DEF ActiveAttemptOwned
  <2>4. attempts'[w] = attempts[w]
    BY <1>11, <2>3 DEF SettleSuccess, TypeOK
  <2>5. QED
    BY <1>1, <2>1, <2>4, MovedInv
<1>12. QED
  BY <1>3, <1>4, <1>5, <1>6, <1>7, <1>8, <1>9, <1>10, <1>11 DEF Dispatch

\* Losing attempts activates none and moves none to another worker.
LEMMA LosePoint ==
  ASSUME TypeOK, NEW lost, LoseAttempts(lost),
         NEW w \in Workloads, NEW n \in AttemptNo
  PROVE  /\ attempts'[w][n].worker = attempts[w][n].worker
         /\ attempts'[w][n].status \in {"LOST", attempts[w][n].status}
         /\ <<w, n>> \in lost => attempts'[w][n].status = "LOST"
         /\ <<w, n>> \notin lost => attempts'[w][n] = attempts[w][n]
<1>1. attempts[w][n] \in AttemptRecord
  BY DEF TypeOK
<1>2. QED
  BY <1>1 DEF LoseAttempts, AttemptRecord

\* AttemptInv and ActiveAttemptOwned are preserved together.
LEMMA AttemptStep ==
  ASSUME TypeOK, SlotInv, AttemptInv, ActiveAttemptOwned, [Next]_vars
  PROVE  AttemptInv' /\ ActiveAttemptOwned'
<1> USE DEF durable, local, queue, ghosts, workerRest
<1>1. SUFFICES ASSUME NEW v \in Workloads PROVE AttemptInvOf(v)'
  BY DEF AttemptInv, ActiveAttemptOwned, AttemptInvOf
<1>2. AttemptInvOf(v)
  BY DEF AttemptInv, ActiveAttemptOwned, AttemptInvOf
<1>3. made[v] \in Nat /\ exec[v] \in [AttemptNo -> ExecState]
      /\ attempts[v] \in [AttemptNo -> AttemptRecord]
  BY DEF TypeOK
<1>4. ASSUME NEW w \in Workloads,
             SubmitWorkload(w) \/ CancelWorkload(w) \/ CancelReturned(w)
      PROVE  AttemptInvOf(v)'
  BY <1>2, <1>4 DEF SubmitWorkload, CancelWorkload, CancelReturned, AttemptInvOf, TypeOK
<1>5. ASSUME NEW w \in Workloads, Dispatch(w) PROVE AttemptInvOf(v)'
  <2>1. CASE v = w
    BY <1>5, <2>1, AttemptDispatch
  <2>2. CASE v # w
    BY <1>2, <1>5, <2>2, DispatchFrame DEF Elsewhere, AttemptInvOf
  <2>3. QED
    BY <2>1, <2>2
<1>6. ASSUME Admission PROVE AttemptInvOf(v)'
  <2>1. /\ wstate'[v] \in {wstate[v], "FAILED"}
        /\ \/ pc'[v] = pc[v]
           \/ pc'[v] = "scheduled" /\ wstate[v] = "SUBMITTED" /\ v \notin processing
        /\ UNCHANGED <<attempts, made, up, canceller, exec>>
    BY <1>6 DEF Admission, AdmissionPass
  <2>2. v \notin processing => pc[v] = "idle"
    BY DEF SlotInv
  <2>3. QED
    BY <1>2, <2>1, <2>2 DEF AttemptInvOf, WirePc
<1>7. ASSUME QueueExit PROVE AttemptInvOf(v)'
  BY <1>2, <1>7 DEF QueueExit, AttemptInvOf
<1>8. ASSUME Ledgers PROVE AttemptInvOf(v)'
  <2>1. UNCHANGED <<wstate, attempts, made, up, pc, canceller>>
    BY <1>8 DEF Ledgers, WorkerAccept, RequestDropped, WorkerCancel, WorkerFinish
  <2>2. \A n \in AttemptNo : exec[v][n] = "none" => exec'[v][n] = "none"
    <3>1. PICK w \in Workloads, m \in AttemptNo, e \in ExecState :
            exec[w][m] # "none" /\ exec' = [exec EXCEPT ![w][m] = e]
      BY <1>8 DEF Ledgers, WorkerAccept, RequestDropped, WorkerCancel,
         WorkerFinish, ExecState
    <3>2. QED
      BY <3>1 DEF TypeOK
  <2>3. QED
    BY <1>2, <2>1, <2>2 DEF AttemptInvOf
<1>9. ASSUME NEW k \in Workers,
             Heartbeat(k) \/ BecomeIneligible(k) \/ Unregister(k)
      PROVE  AttemptInvOf(v)'
  BY <1>2, <1>9 DEF Heartbeat, BecomeIneligible, Unregister, AttemptInvOf
<1>10. ASSUME NEW k \in Workers, WorkerRestart(k) PROVE AttemptInvOf(v)'
  BY <1>2, <1>10 DEF WorkerRestart, AttemptInvOf
<1>11. ASSUME NEW k \in Workers, Evict(k) PROVE AttemptInvOf(v)'
  <2>1. LoseAttempts(LoadSet(k))
        /\ UNCHANGED <<wstate, made, up, pc, canceller, exec>>
    BY <1>11 DEF Evict
  <2>2. \A n \in AttemptNo :
          n > made[v] => <<v, n>> \notin LoadSet(k)
    BY <1>2 DEF LoadSet, AttemptInvOf, NoAttempt, ActiveStatus
  <2>3. \A n \in AttemptNo :
          /\ attempts'[v][n].worker = attempts[v][n].worker
          /\ n > made[v] => attempts'[v][n] = attempts[v][n]
          /\ attempts'[v][n].status \in ActiveStatus =>
               attempts[v][n].status \in ActiveStatus
    BY <2>1, <2>2, LosePoint DEF ActiveStatus
  <2>4. QED
    BY <1>2, <2>1, <2>3 DEF AttemptInvOf
<1>12. ASSUME Crash PROVE AttemptInvOf(v)'
  BY <1>2, <1>12 DEF Crash, AttemptInvOf, WirePc
<1>13. ASSUME Restart PROVE AttemptInvOf(v)'
  <2>1. LoseAttempts(InFlightAtCrash)
        /\ UNCHANGED <<made, pc, canceller, exec>>
    BY <1>13 DEF Restart
  <2>2. \A n \in AttemptNo : attempts'[v][n].status \notin ActiveStatus
    <3>1. ASSUME NEW n \in AttemptNo PROVE attempts'[v][n].status \notin ActiveStatus
      <4>1. CASE <<v, n>> \in InFlightAtCrash
        BY <2>1, <4>1, LosePoint DEF ActiveStatus
      <4>2. CASE <<v, n>> \notin InFlightAtCrash
        BY <2>1, <4>2, LosePoint DEF InFlightAtCrash
      <4>3. QED
        BY <4>1, <4>2
    <3>2. QED
      BY <3>1
  <2>3. \A n \in AttemptNo : n > made[v] => <<v, n>> \notin InFlightAtCrash
    BY <1>2 DEF InFlightAtCrash, AttemptInvOf, NoAttempt, ActiveStatus
  <2>4. wstate[v] # "absent" => wstate'[v] # "absent"
    BY <1>13 DEF Restart, Recoverable
  <2>5. \A n \in AttemptNo :
          /\ attempts'[v][n].worker = attempts[v][n].worker
          /\ n > made[v] => attempts'[v][n] = attempts[v][n]
    BY <2>1, <2>3, LosePoint
  <2>6. QED
    BY <1>2, <2>1, <2>2, <2>4, <2>5 DEF AttemptInvOf
<1>14. ASSUME UNCHANGED vars PROVE AttemptInvOf(v)'
  BY <1>2, <1>14 DEF vars, AttemptInvOf
<1>15. QED
  BY <1>4, <1>5, <1>6, <1>7, <1>8, <1>9, <1>10, <1>11, <1>12, <1>13, <1>14
     DEF Next, Registry

-----------------------------------------------------------------------------
(* Results *)

\* The part of ResultInv and NoFalseSuccess that concerns one workload.
ResultInvOf(w) ==
  /\ held[w] # "none" => pc[w] \in {"ack", "cancel", "settle", "seal"}
  /\ held[w] = "SUCCESS" => <<w, made[w]>> \in ran
  /\ pc[w] = "seal" => held[w] = "SUCCESS"
  /\ wstate[w] = "COMPLETED" => \E n \in AttemptNo : <<w, n>> \in ran
  /\ \A n \in AttemptNo :
       /\ exec[w][n] = "SUCCESS" => <<w, n>> \in ran
       /\ attempts[w][n].status = "SUCCEEDED" => <<w, n>> \in ran

\* A step claims no new success of w: it does not complete w or an attempt of
\* it, and drops the held result, replaces it by a failure or passes it on.
NoNewSuccess(w) ==
  /\ ran \subseteq ran'
  /\ wstate'[w] = "COMPLETED" => wstate[w] = "COMPLETED"
  /\ \A n \in AttemptNo :
       /\ exec'[w][n] = "SUCCESS" => exec[w][n] = "SUCCESS"
       /\ attempts'[w][n].status = "SUCCEEDED" => attempts[w][n].status = "SUCCEEDED"
  /\ \/ pc'[w] # "seal" /\ held'[w] = "none"
     \/ pc'[w] \in {"ack", "cancel", "settle"} /\ held'[w] # "SUCCESS"
     \/ /\ held'[w] = held[w] /\ made'[w] = made[w]
        /\ \/ pc'[w] = pc[w]
           \/ pc'[w] \in {"ack", "cancel", "settle"}

\* A step that claims no new success keeps what is known about results.
LEMMA NoNewSuccessInv ==
  ASSUME NEW w \in Workloads, ResultInvOf(w), NoNewSuccess(w)
  PROVE  ResultInvOf(w)'
  BY DEF ResultInvOf, NoNewSuccess

\* Writing any other final status than SUCCEEDED claims no success.
LEMMA MarkNoSuccess ==
  ASSUME TypeOK, AttemptInv, NEW w \in Workloads, NEW s, NEW c, s # "SUCCEEDED",
         pc[w] \in WirePc \cup {"launch", "settle", "seal"},
         MarkLatest(w, s, c), NEW n \in AttemptNo
  PROVE  attempts'[w][n].status = "SUCCEEDED" => attempts[w][n].status = "SUCCEEDED"
  BY MarkPoint

\* A dispatch step keeps what ResultInv says of its own workload.
LEMMA ResultDispatch ==
  ASSUME TypeOK, AttemptInv, NEW w \in Workloads, ResultInvOf(w), Dispatch(w)
  PROVE  ResultInvOf(w)'
<1> USE DEF durable, local, queue, ghosts, settleRest, responseRest
<1>1. UNCHANGED ran
  BY DispatchFrame
<1>2. pc \in [Workloads -> Pc] /\ wstate \in [Workloads -> WorkloadState]
      /\ made \in [Workloads -> 0 .. AttemptBound]
      /\ held \in [Workloads -> Outcome \cup {"none"}]
      /\ exec \in [Workloads -> [AttemptNo -> ExecState]]
  BY DEF TypeOK
<1>3. CASE Start(w) \/ NoDecision(w) \/ Conclude(w) \/ EndBackoff(w)
  <2>1. /\ wstate'[w] \in {wstate[w], "FAILED", "UNSCHEDULABLE", "SUBMITTED", "PLACING"}
        /\ pc'[w] # "seal" /\ held'[w] \in {"none", held[w]}
        /\ pc[w] \in {"scheduled", "place", "conclude", "backoff"}
        /\ UNCHANGED <<attempts, made, exec>>
    BY <1>2, <1>3 DEF Start, NoDecision, Conclude, EndBackoff, Return, Goto
  <2>2. held'[w] = "none"
    BY <2>1 DEF ResultInvOf
  <2>3. QED
    BY <1>1, <2>1, <2>2, NoNewSuccessInv DEF NoNewSuccess
<1>4. CASE Launch(w) \/ \E k \in Workers : PlaceOn(w, k)
  <2>1. /\ wstate'[w] \in {"PLACED", "EXECUTING"}
        /\ pc'[w] \in {"launch", "submit"} /\ held'[w] = held[w]
        /\ pc[w] \in {"place", "launch"}
    BY <1>2, <1>4 DEF Launch, PlaceOn, Goto
  <2>2. held'[w] = "none"
    BY <2>1 DEF ResultInvOf
  <2>3. \A n \in AttemptNo :
          exec'[w][n] = "SUCCESS" => exec[w][n] = "SUCCESS"
    <3>1. CASE Launch(w)
      BY <1>2, <3>1 DEF Launch
    <3>2. CASE \E k \in Workers : PlaceOn(w, k)
      BY <3>2 DEF PlaceOn
    <3>3. QED
      BY <1>4, <3>1, <3>2
  <2>4. ASSUME NEW n \in AttemptNo, attempts'[w][n].status = "SUCCEEDED"
        PROVE  attempts[w][n].status = "SUCCEEDED"
    <3>1. CASE Launch(w)
      BY <2>4, <3>1 DEF Launch, TypeOK, AttemptRecord
    <3>2. CASE \E k \in Workers : PlaceOn(w, k)
      BY <2>4, <3>2 DEF PlaceOn, TypeOK
    <3>3. QED
      BY <1>4, <3>1, <3>2
  <2>5. QED
    BY <1>1, <2>1, <2>2, <2>3, <2>4, NoNewSuccessInv DEF NoNewSuccess
<1>5. CASE SubmitAccepted(w) \/ SubmitAmbiguous(w) \/ EndSleep(w)
           \/ StatusAgain(w)
  <2>1. /\ pc[w] \in {"submit", "sleep", "status"}
        /\ \/ pc'[w] \in {"resolve", "sleep", "status"} /\ held'[w] = held[w]
           \/ pc'[w] = "cancel" /\ held'[w] # "SUCCESS"
        /\ UNCHANGED <<wstate, attempts, made, exec>>
    BY <1>2, <1>5 DEF SubmitAccepted, SubmitAmbiguous, EndSleep, StatusAgain,
       Poll, Goto
  <2>2. held[w] = "none"
    BY <2>1 DEF ResultInvOf
  <2>3. QED
    BY <1>1, <2>1, <2>2, NoNewSuccessInv DEF NoNewSuccess
<1>6. CASE ResolveFound(w) \/ StatusTerminal(w)
  <2>1. /\ pc[w] \in {"resolve", "status"}
        /\ \/ pc'[w] = "status" /\ held'[w] = held[w]
           \/ pc'[w] = "cancel" /\ held'[w] # "SUCCESS"
           \/ pc'[w] = "ack" /\ held'[w] = Ledger(w)
        /\ UNCHANGED <<wstate, attempts, made, exec>>
    BY <1>2, <1>6 DEF ResolveFound, StatusTerminal, TakeOutcome, Poll, Goto
  <2>2. held[w] = "none" /\ made[w] \in AttemptNo
    BY <2>1, LatestAttempt DEF ResultInvOf, WirePc
  <2>3. Ledger(w) = "SUCCESS" => <<w, made[w]>> \in ran
    BY <2>2 DEF Ledger, ResultInvOf
  <2>4. QED
    BY <1>1, <2>1, <2>2, <2>3 DEF ResultInvOf
<1>7. CASE AckReturned(w) \/ CancelRemoteReturned(w)
  <2>1. /\ pc'[w] = "settle" /\ UNCHANGED <<wstate, attempts, made, held>>
    BY <1>2, <1>7 DEF AckReturned, CancelRemoteReturned, Goto
  <2>2. \A n \in AttemptNo :
          exec'[w][n] = "SUCCESS" => exec[w][n] = "SUCCESS"
    BY <1>2, <1>7 DEF AckReturned, CancelRemoteReturned
  <2>3. QED
    BY <1>1, <2>1, <2>2, NoNewSuccessInv DEF NoNewSuccess
<1>8. CASE SubmitRejected(w) \/ ResolveUnavailable(w) \/ StatusMissing(w)
           \/ ResolveServerError(w)
  <2>1. /\ pc[w] \in {"submit", "resolve", "status"}
        /\ pc'[w] \in {"place", "conclude"}
        /\ wstate'[w] \in {wstate[w], "FAILED"} /\ UNCHANGED <<made, held>>
        /\ \E s \in {"FAILED", "LOST"} : MarkLatest(w, s, "WORKER_UNAVAILABLE")
    BY <1>2, <1>8 DEF SubmitRejected, ResolveUnavailable, StatusMissing,
       ResolveServerError, RaiseUnexpected, RecordLost, SubmitUnavailable,
       RaiseHandled, Goto
  <2>2. held[w] = "none"
    BY <2>1 DEF ResultInvOf
  <2>3. \A n \in AttemptNo :
          exec'[w][n] = "SUCCESS" => exec[w][n] = "SUCCESS"
    BY <1>2, <1>8 DEF SubmitRejected, ResolveUnavailable, StatusMissing,
       ResolveServerError
  <2>4. QED
    BY <1>1, <2>1, <2>2, <2>3, MarkNoSuccess, NoNewSuccessInv
       DEF NoNewSuccess, WirePc
<1>9. CASE SettleCancelled(w) \/ SettleCheckpoint(w) \/ SettleFailure(w)
  <2>1. /\ pc[w] = "settle" /\ pc'[w] # "seal" /\ held'[w] = "none"
        /\ wstate'[w] \in {wstate[w], "CANCELLED", "SUBMITTED"}
        /\ UNCHANGED <<made, exec>>
    BY <1>2, <1>9 DEF SettleCancelled, SettleCheckpoint, SettleFailure, Return, Goto
  <2>2. \E s \in {"FAILED", "LOST", "CHECKPOINTED"},
           c \in {held[w], Latest(w).category, "EXECUTION_FAILURE", "WORKER_UNAVAILABLE"} :
          MarkLatest(w, s, c)
    BY <1>9 DEF SettleCancelled, SettleCheckpoint, SettleFailure
  <2>3. QED
    BY <1>1, <2>1, <2>2, MarkNoSuccess, NoNewSuccessInv DEF NoNewSuccess
<1>10. CASE SettleSuccess(w)
  <2>1. /\ pc[w] = "settle" /\ pc'[w] = "seal" /\ wstate'[w] = "COMPLETED"
        /\ held[w] = "SUCCESS" /\ UNCHANGED <<made, held, exec>>
    BY <1>2, <1>10 DEF SettleSuccess, ResultSuccess, Goto
  <2>2. made[w] \in AttemptNo /\ <<w, made[w]>> \in ran
    BY <2>1, LatestAttempt DEF ResultInvOf
  <2>3. ASSUME NEW n \in AttemptNo, attempts'[w][n].status = "SUCCEEDED"
        PROVE  attempts[w][n].status = "SUCCEEDED"
    <3>1. attempts[w][n] \in AttemptRecord
      BY DEF TypeOK
    <3>2. attempts'[w][n] \in
            {attempts[w][n],
             [attempts[w][n] EXCEPT !.status = "FAILED",
                                    !.category = "EXECUTION_FAILURE"]}
      BY <1>10 DEF SettleSuccess, TypeOK
    <3>3. QED
      BY <2>3, <3>1, <3>2 DEF AttemptRecord
  <2>4. QED
    BY <1>1, <2>1, <2>2, <2>3 DEF ResultInvOf
<1>11. CASE Seal(w)
  <2>1. /\ pc[w] = "seal" /\ pc'[w] \in {"idle", "backoff"} /\ held'[w] = "none"
        /\ wstate'[w] = wstate[w] /\ UNCHANGED <<made, exec>>
        /\ MarkLatest(w, "SUCCEEDED", Latest(w).category)
    BY <1>2, <1>11 DEF Seal, Return
  <2>2. <<w, made[w]>> \in ran
    BY <2>1 DEF ResultInvOf
  <2>3. \A n \in AttemptNo : n # made[w] => attempts'[w][n] = attempts[w][n]
    BY <2>1, MarkPoint
  <2>4. QED
    BY <1>1, <2>1, <2>2, <2>3 DEF ResultInvOf
<1>12. QED
  BY <1>3, <1>4, <1>5, <1>6, <1>7, <1>8, <1>9, <1>10, <1>11 DEF Dispatch

\* ResultInv and NoFalseSuccess are preserved together.
LEMMA ResultStep ==
  ASSUME TypeOK, SlotInv, AttemptInv, ResultInv, NoFalseSuccess, [Next]_vars
  PROVE  ResultInv' /\ NoFalseSuccess'
<1> USE DEF durable, local, queue, ghosts, workerRest
<1>1. SUFFICES ASSUME NEW v \in Workloads PROVE ResultInvOf(v)'
  BY DEF ResultInv, NoFalseSuccess, ResultInvOf
<1>2. ResultInvOf(v)
  BY DEF ResultInv, NoFalseSuccess, ResultInvOf
<1>3. SUFFICES ASSUME ~ \E w \in Workloads : Dispatch(w) PROVE NoNewSuccess(v) \/ ResultInvOf(v)'
  <2>1. ASSUME NEW w \in Workloads, Dispatch(w) PROVE ResultInvOf(v)'
    <3>1. CASE v = w
      BY <1>2, <2>1, <3>1, ResultDispatch
    <3>2. CASE v # w
      BY <1>2, <2>1, <3>2, DispatchFrame DEF Elsewhere, ResultInvOf
    <3>3. QED
      BY <3>1, <3>2
  <2>2. QED
    BY <1>2, <2>1, NoNewSuccessInv
<1>4. ASSUME NEW w \in Workloads,
             SubmitWorkload(w) \/ CancelWorkload(w) \/ CancelReturned(w)
      PROVE  NoNewSuccess(v)
  BY <1>4 DEF SubmitWorkload, CancelWorkload, CancelReturned, NoNewSuccess, TypeOK
<1>5. ASSUME Admission PROVE NoNewSuccess(v)
  <2>1. /\ wstate'[v] \in {wstate[v], "FAILED"}
        /\ pc'[v] = pc[v] \/ (pc'[v] = "scheduled" /\ v \notin processing)
        /\ UNCHANGED <<attempts, made, held, exec, ran>>
    BY <1>5 DEF Admission, AdmissionPass
  <2>2. v \notin processing => held[v] = "none"
    BY <1>2 DEF SlotInv, ResultInvOf
  <2>3. QED
    BY <2>1, <2>2 DEF NoNewSuccess
<1>6. ASSUME QueueExit PROVE NoNewSuccess(v)
  BY <1>6 DEF QueueExit, NoNewSuccess
<1>7. ASSUME NEW w \in Workloads, NEW m \in AttemptNo,
             WorkerAccept(w, m) \/ RequestDropped(w, m) \/ WorkerCancel(w, m)
      PROVE  NoNewSuccess(v)
  <2>1. PICK e \in {"running", "gone", "cancelling"} : exec' = [exec EXCEPT ![w][m] = e]
    BY <1>7 DEF WorkerAccept, RequestDropped, WorkerCancel
  <2>2. UNCHANGED <<wstate, attempts, made, pc, held, ran>>
    BY <1>7 DEF WorkerAccept, RequestDropped, WorkerCancel
  <2>3. \A n \in AttemptNo : exec'[v][n] = "SUCCESS" => exec[v][n] = "SUCCESS"
    BY <2>1 DEF TypeOK
  <2>4. QED
    BY <2>2, <2>3 DEF NoNewSuccess
<1>8. ASSUME NEW w \in Workloads, NEW m \in AttemptNo, NEW o \in Outcome,
             WorkerFinish(w, m, o)
      PROVE  ResultInvOf(v)'
  <2>1. /\ exec' = [exec EXCEPT ![w][m] = o]
        /\ ran \subseteq ran' /\ (o = "SUCCESS" => <<w, m>> \in ran')
        /\ UNCHANGED <<wstate, attempts, made, pc, held>>
    BY <1>8 DEF WorkerFinish
  <2>2. \A n \in AttemptNo : exec'[v][n] = "SUCCESS" => <<v, n>> \in ran'
    BY <1>2, <2>1 DEF TypeOK, ResultInvOf
  <2>3. QED
    BY <1>2, <2>1, <2>2 DEF ResultInvOf
<1>9. ASSUME NEW k \in Workers,
             Heartbeat(k) \/ BecomeIneligible(k) \/ Unregister(k)
      PROVE  NoNewSuccess(v)
  BY <1>9 DEF Heartbeat, BecomeIneligible, Unregister, NoNewSuccess
<1>10. ASSUME NEW k \in Workers, WorkerRestart(k) PROVE NoNewSuccess(v)
  BY <1>10 DEF WorkerRestart, NoNewSuccess
<1>11. ASSUME NEW k \in Workers, Evict(k) PROVE NoNewSuccess(v)
  <2>1. \A n \in AttemptNo : attempts'[v][n].status \in {"LOST", attempts[v][n].status}
    BY <1>11, LosePoint DEF Evict
  <2>2. QED
    BY <1>11, <2>1 DEF Evict, NoNewSuccess
<1>12. ASSUME Crash PROVE NoNewSuccess(v)
  BY <1>12 DEF Crash, NoNewSuccess
<1>13. ASSUME Restart PROVE NoNewSuccess(v)
  <2>1. \A n \in AttemptNo : attempts'[v][n].status \in {"LOST", attempts[v][n].status}
    BY <1>13, LosePoint DEF Restart
  <2>2. QED
    BY <1>13, <2>1 DEF Restart, NoNewSuccess
<1>14. ASSUME UNCHANGED vars PROVE NoNewSuccess(v)
  BY <1>14 DEF vars, NoNewSuccess
<1>15. QED
  BY <1>3, <1>4, <1>5, <1>6, <1>7, <1>8, <1>9, <1>10, <1>11, <1>12, <1>13, <1>14
     DEF Next, Ledgers, Registry

-----------------------------------------------------------------------------
(* Dependencies *)

\* Whatever has run stays run.
LEMMA RanGrows ==
  ASSUME TypeOK, [Next]_vars
  PROVE  ran \subseteq ran'
<1> USE DEF durable, local, queue, ghosts, workerRest
<1>1. ASSUME NEW w \in Workloads, Dispatch(w) PROVE ran \subseteq ran'
  BY <1>1, DispatchFrame
<1>2. ASSUME Ledgers \/ Registry PROVE ran \subseteq ran'
  BY <1>2 DEF Ledgers, Registry, WorkerAccept, RequestDropped, WorkerCancel,
     WorkerFinish, Heartbeat, BecomeIneligible, Unregister, Evict, WorkerRestart
<1>3. ASSUME ~ \E w \in Workloads : Dispatch(w), ~ (Ledgers \/ Registry)
      PROVE  ran \subseteq ran'
  BY <1>3 DEF Next, vars, SubmitWorkload, CancelWorkload, CancelReturned,
     Admission, AdmissionPass, QueueExit, Crash, Restart
<1>4. QED
  BY <1>1, <1>2, <1>3

\* A dependency state of "ready" means that every dependency has succeeded.
LEMMA ReadyMeansRan ==
  ASSUME TypeOK, NoFalseSuccess, NEW w \in Workloads, DependencyState(w) = "ready"
  PROVE  DepsRan(w)
<1>1. OpenDeps(w) = {}
  BY DEF DependencyState
<1>2. ASSUME NEW i \in DOMAIN DependsOn[w]
      PROVE  \E n \in AttemptNo : <<DependsOn[w][i], n>> \in ran
  <2>1. DependsOn[w][i] \in Workloads
    BY ConstantAssumption
  <2>2. wstate[DependsOn[w][i]] = "COMPLETED"
    BY <1>1 DEF OpenDeps
  <2>3. QED
    BY <2>1, <2>2 DEF NoFalseSuccess
<1>3. QED
  BY <1>2 DEF DepsRan

\* Placement is reached, and an attempt created, only after the dependencies
\* of the workload have run.
LEMMA DependencyStep ==
  ASSUME TypeOK, SlotInv, AttemptInv, NoFalseSuccess, DependencyInv, [Next]_vars
  PROVE  DependencyInv'
<1> USE DEF durable, local, queue, ghosts, settleRest, responseRest, workerRest
<1>1. SUFFICES ASSUME NEW v \in Workloads, pc'[v] = "place" \/ made'[v] > 0
               PROVE  DepsRan(v)
  BY RanGrows DEF DependencyInv, DepsRan
<1>2. pc[v] = "place" \/ made[v] > 0 => DepsRan(v)
  BY DEF DependencyInv
<1>3. pc \in [Workloads -> Pc] /\ made \in [Workloads -> 0 .. AttemptBound]
  BY DEF TypeOK
<1>4. ASSUME Dispatch(v) PROVE DepsRan(v)
  <2>1. CASE Start(v)
    <3>1. CASE DependencyState(v) = "ready"
      BY <3>1, ReadyMeansRan
    <3>2. CASE DependencyState(v) # "ready"
      BY <1>1, <1>2, <1>3, <2>1, <3>2 DEF Start, Return, DependencyState
    <3>3. QED
      BY <3>1, <3>2
  <2>2. CASE NoDecision(v) \/ EndBackoff(v) \/ Conclude(v)
    BY <1>1, <1>2, <1>3, <2>2 DEF NoDecision, EndBackoff, Conclude, Return, Goto
  <2>3. CASE \E k \in Workers : PlaceOn(v, k)
    BY <1>2, <2>3 DEF PlaceOn
  <2>4. CASE pc[v] \in WirePc \cup {"launch", "settle", "seal"}
    BY <1>2, <2>4 DEF AttemptInv
  <2>5. QED
    BY <1>4, <2>1, <2>2, <2>3, <2>4 DEF Dispatch, Launch, SubmitAccepted,
       SubmitAmbiguous, SubmitRejected, ResolveFound, ResolveUnavailable,
       ResolveServerError, EndSleep, StatusAgain, StatusTerminal, StatusMissing,
       AckReturned, CancelRemoteReturned, SettleCancelled, SettleCheckpoint,
       SettleSuccess, SettleFailure, Seal, WirePc
<1>5. ASSUME NEW w \in Workloads, w # v, Dispatch(w) PROVE DepsRan(v)
  BY <1>1, <1>2, <1>5, DispatchFrame DEF Elsewhere
<1>6. ASSUME Ledgers \/ Registry PROVE DepsRan(v)
  BY <1>1, <1>2, <1>6, QuietStep
<1>7. ASSUME Admission PROVE DepsRan(v)
  BY <1>1, <1>2, <1>7 DEF Admission, AdmissionPass
<1>8. ASSUME ~ \E w \in Workloads : Dispatch(w), ~ (Ledgers \/ Registry), ~ Admission
      PROVE  DepsRan(v)
  BY <1>1, <1>2, <1>8 DEF Next, vars, SubmitWorkload, CancelWorkload,
     CancelReturned, QueueExit, Crash, Restart
<1>9. QED
  BY <1>4, <1>5, <1>6, <1>7, <1>8

-----------------------------------------------------------------------------
(* The invariants *)

\* An orchestrator with no workloads satisfies the inductive invariant.
LEMMA IndInvInit == Init => IndInv
<1> SUFFICES ASSUME Init PROVE IndInv
  OBVIOUS
<1>1. 0 \in 0 .. AttemptBound /\ 0 \in 0 .. FaultBound
  BY ConstantAssumption
<1>2. NoAttempt \in AttemptRecord
  BY DEF NoAttempt, AttemptRecord, AttemptStatus
<1>3. TypeOK
  BY <1>1, <1>2 DEF Init, TypeOK, WorkloadState, Pc, ExecState
<1>4. SlotInv /\ WaitInv /\ DownInv
  BY DEF Init, SlotInv, WaitInv, DownInv
<1>5. AttemptInv /\ ActiveAttemptOwned
  BY DEF Init, AttemptInv, ActiveAttemptOwned, NoAttempt, ActiveStatus, WirePc, AttemptNo
<1>6. ResultInv /\ NoFalseSuccess /\ DependencyInv
  BY DEF Init, ResultInv, NoFalseSuccess, DependencyInv, NoAttempt
<1>7. QED
  BY <1>3, <1>4, <1>5, <1>6 DEF IndInv

\* Every step of coordinator, workers, network and faults preserves it.
LEMMA IndInvStep == IndInv /\ [Next]_vars => IndInv'
  BY TypeStep, QueueStep, AttemptStep, ResultStep, DependencyStep DEF IndInv

\* IndInv holds in every reachable state.
THEOREM IndInvInvariant == Spec => []IndInv
  BY IndInvInit, IndInvStep, PTL DEF Spec

\* Every variable always has its type: in particular a worker that placement
\* may choose is registered, and every attempt number stays within the registry.
THEOREM TypeCorrect == Spec => []TypeOK
<1>1. IndInv => TypeOK
  BY DEF IndInv
<1>2. QED
  BY <1>1, IndInvInvariant, PTL

\* No wakeup is lost: a workload that waits in SUBMITTED is in the admission
\* queue or holds a slot, and the admission loop is alive.
THEOREM WakeupsKept == Spec => []NoLostWakeup
<1>1. IndInv => NoLostWakeup
  BY DEF IndInv, SlotInv, WaitInv, NoLostWakeup
<1>2. QED
  BY <1>1, IndInvInvariant, PTL

\* An ASSIGNED or RUNNING attempt is always the newest one of a workload whose
\* dispatch coroutine is at work on it.
THEOREM AttemptsOwned == Spec => []ActiveAttemptOwned
<1>1. IndInv => ActiveAttemptOwned
  BY DEF IndInv
<1>2. QED
  BY <1>1, IndInvInvariant, PTL

\* COMPLETED and SUCCEEDED are never claimed of what did not run to success.
THEOREM SuccessTruthful == Spec => []NoFalseSuccess
<1>1. IndInv => NoFalseSuccess
  BY DEF IndInv
<1>2. QED
  BY <1>1, IndInvInvariant, PTL

\* Nothing is attempted before all it depends on has succeeded.
THEOREM DependenciesFirst == Spec => []DependencyRan
<1>1. IndInv => DependencyRan
  BY DEF IndInv, DependencyInv, DependencyRan
<1>2. QED
  BY <1>1, IndInvInvariant, PTL

-----------------------------------------------------------------------------
(* Dispatch slots *)

\* Only the admission pass takes dispatch slots, and it counts them.
LEMMA DispatchBoundedStep ==
  ASSUME TypeOK, DispatchBounded, [Next]_vars
  PROVE  DispatchBounded'
<1> USE DEF durable, local, queue, ghosts, workerRest
<1>1. IsFiniteSet(processing)
  BY FS_Subset, ConstantAssumption DEF TypeOK
<1>2. ASSUME processing' \subseteq processing PROVE DispatchBounded'
  <2>1. IsFiniteSet(processing') /\ Cardinality(processing') <= Cardinality(processing)
    BY <1>1, <1>2, FS_Subset
  <2>2. Cardinality(processing') \in Nat /\ Cardinality(processing) \in Nat
    BY <1>1, <2>1, FS_CardinalityType
  <2>3. QED
    BY <2>1, <2>2, ConstantAssumption DEF DispatchBounded
<1>3. ASSUME Admission PROVE DispatchBounded'
  BY <1>3 DEF Admission, AdmissionPass, FillsSlots, DispatchBounded
<1>4. ASSUME NEW w \in Workloads, Dispatch(w) PROVE processing' \subseteq processing
  <2>1. CASE \E s \in WorkloadState : Return(w, s)
    BY <2>1 DEF Return
  <2>2. CASE EndBackoff(w) \/ GoesOn(w)
    BY <2>2 DEF EndBackoff, GoesOn
  <2>3. QED
    BY <1>4, <2>1, <2>2, DispatchSlot
<1>5. ASSUME Ledgers \/ Registry PROVE processing' \subseteq processing
  BY <1>5, QuietStep
<1>6. ASSUME ~ Admission, ~ (Ledgers \/ Registry), ~ \E w \in Workloads : Dispatch(w)
      PROVE  processing' \subseteq processing
  BY <1>6 DEF Next, vars, SubmitWorkload, CancelWorkload, CancelReturned,
     QueueExit, Crash, Restart
<1>7. QED
  BY <1>2, <1>3, <1>4, <1>5, <1>6

\* There are never more dispatch coroutines than max_dispatch_tasks.
THEOREM DispatchLimit == Spec => []DispatchBounded
<1>1. Init => DispatchBounded
  BY FS_EmptySet, ConstantAssumption DEF Init, DispatchBounded
<1>2. TypeOK /\ DispatchBounded /\ [Next]_vars => DispatchBounded'
  BY DispatchBoundedStep
<1>3. QED
  BY <1>1, <1>2, TypeCorrect, PTL DEF Spec

-----------------------------------------------------------------------------
(* Verdicts *)

\* No step touches a settled workload.
LEMMA SettledStep ==
  ASSUME TypeOK, [Next]_vars, NEW v \in Workloads, Settled(v)
  PROVE  Settled(v)' /\ wstate'[v] = wstate[v] /\ made'[v] = made[v]
<1> USE DEF durable, local, queue, ghosts, workerRest, Settled
<1>1. ASSUME NEW w \in Workloads, Dispatch(w)
      PROVE  Settled(v)' /\ wstate'[v] = wstate[v] /\ made'[v] = made[v]
  <2>1. v # w
    BY <1>1, DispatchFrame
  <2>2. QED
    BY <1>1, <2>1, DispatchFrame DEF Elsewhere
<1>2. ASSUME NEW w \in Workloads,
             SubmitWorkload(w) \/ CancelWorkload(w) \/ CancelReturned(w)
      PROVE  Settled(v)' /\ wstate'[v] = wstate[v] /\ made'[v] = made[v]
  BY <1>2 DEF SubmitWorkload, CancelWorkload, CancelReturned, TypeOK, Terminal
<1>3. ASSUME Admission
      PROVE  Settled(v)' /\ wstate'[v] = wstate[v] /\ made'[v] = made[v]
  BY <1>3 DEF Admission, AdmissionPass, Terminal
<1>4. ASSUME Ledgers \/ Registry
      PROVE  Settled(v)' /\ wstate'[v] = wstate[v] /\ made'[v] = made[v]
  BY <1>4, QuietStep
<1>5. ASSUME QueueExit \/ Crash \/ Restart \/ UNCHANGED vars
      PROVE  Settled(v)' /\ wstate'[v] = wstate[v] /\ made'[v] = made[v]
  BY <1>5 DEF QueueExit, Crash, Restart, Recoverable, vars
<1>6. QED
  BY <1>1, <1>2, <1>3, <1>4, <1>5 DEF Next

\* The verdict on a settled workload is final, across crashes and resubmission.
THEOREM VerdictFinal == Spec => SettledForever
<1>1. TypeOK /\ [Next]_vars =>
        [\A w \in Workloads :
           Settled(w) => Settled(w)' /\ wstate'[w] = wstate[w]
                         /\ made'[w] = made[w]]_vars
  BY SettledStep
<1>2. QED
  BY <1>1, TypeCorrect, PTL DEF Spec, SettledForever

\* A workload record is never forgotten.
LEMMA NeverForgotten ==
  ASSUME TypeOK, AttemptInv, [Next]_vars, NEW v \in Workloads,
         ~ SubmitWorkload(v)
  PROVE  wstate'[v] = "absent" <=> wstate[v] = "absent"
<1> USE DEF durable, local, queue, ghosts, settleRest, responseRest, workerRest
<1>1. wstate \in [Workloads -> WorkloadState]
  BY DEF TypeOK
<1>2. ASSUME Dispatch(v) PROVE wstate'[v] # "absent" /\ wstate[v] # "absent"
  <2>1. wstate[v] # "absent"
    BY <1>2, DispatchFrame DEF AttemptInv
  <2>2. CASE Start(v) \/ NoDecision(v) \/ Launch(v) \/ EndBackoff(v)
             \/ \E k \in Workers : PlaceOn(v, k)
    BY <1>1, <2>1, <2>2 DEF Start, NoDecision, Launch, EndBackoff, PlaceOn, Return
  <2>3. CASE SettleCancelled(v) \/ SettleCheckpoint(v) \/ SettleSuccess(v)
             \/ SettleFailure(v) \/ Seal(v) \/ Conclude(v)
    BY <1>1, <2>1, <2>3 DEF SettleCancelled, SettleCheckpoint, SettleSuccess,
       SettleFailure, Seal, Conclude, Return
  <2>4. CASE SubmitRejected(v) \/ ResolveUnavailable(v) \/ StatusMissing(v)
             \/ ResolveServerError(v)
    BY <1>1, <2>1, <2>4 DEF SubmitRejected, ResolveUnavailable, StatusMissing,
       ResolveServerError, RaiseUnexpected, RecordLost, SubmitUnavailable, RaiseHandled
  <2>5. CASE SubmitAccepted(v) \/ SubmitAmbiguous(v) \/ ResolveFound(v)
             \/ EndSleep(v) \/ StatusAgain(v) \/ StatusTerminal(v)
             \/ AckReturned(v) \/ CancelRemoteReturned(v)
    BY <2>1, <2>5 DEF SubmitAccepted, SubmitAmbiguous, ResolveFound, EndSleep,
       StatusAgain, StatusTerminal, AckReturned, CancelRemoteReturned
  <2>6. QED
    BY <1>2, <2>1, <2>2, <2>3, <2>4, <2>5 DEF Dispatch
<1>3. ASSUME NEW w \in Workloads, w # v, Dispatch(w) \/ SubmitWorkload(w)
      PROVE  wstate'[v] = wstate[v]
  BY <1>1, <1>3, DispatchFrame DEF Elsewhere, SubmitWorkload
<1>4. ASSUME NEW w \in Workloads, CancelWorkload(w) \/ CancelReturned(w)
      PROVE  wstate'[v] = "absent" <=> wstate[v] = "absent"
  <2>1. wstate[w] # "absent"
    BY <1>4 DEF CancelWorkload, CancelReturned, AttemptInv
  <2>2. QED
    BY <1>1, <1>4, <2>1 DEF CancelWorkload, CancelReturned
<1>5. ASSUME Admission PROVE wstate'[v] = "absent" <=> wstate[v] = "absent"
  BY <1>5 DEF Admission, AdmissionPass
<1>6. ASSUME Ledgers \/ Registry PROVE wstate'[v] = wstate[v]
  BY <1>6, QuietStep
<1>7. ASSUME QueueExit \/ Crash \/ Restart \/ UNCHANGED vars
      PROVE  wstate'[v] = "absent" <=> wstate[v] = "absent"
  BY <1>7 DEF QueueExit, Crash, Restart, Recoverable, vars
<1>8. QED
  BY <1>2, <1>3, <1>4, <1>5, <1>6, <1>7 DEF Next
===============================================================================
