-------------------------- MODULE OrchestratorLimits --------------------------
(***************************************************************************)
(* The limits Orchestrator keeps, proved for every set of workloads and    *)
(* workers: what a worker has room for, which workers a retry may use and  *)
(* how many attempts the retry budget allows.                              *)
(***************************************************************************)
EXTENDS OrchestratorProofs

-----------------------------------------------------------------------------
(* What one step does to the attempts of one workload *)

\* No attempt of the workload is worked on; the coroutine has one in flight.
Out == {"idle", "scheduled", "backoff", "conclude"}
InFlight == WirePc \cup {"settle", "seal"}

SameLocal(v) == used'[v] = used[v] /\ exhausted'[v] = exhausted[v]

\* The step leaves the attempts alone and goes on, or ends the dispatch.
Stays(v) ==
  /\ attempts'[v] = attempts[v] /\ made'[v] = made[v]
  /\ \/ pc'[v] \in Out
     \/ SameLocal(v) /\ (pc'[v] = pc[v] \/ {pc[v], pc'[v]} \subseteq InFlight)

\* The coroutine starts from the attempt records.
Begins(v) ==
  /\ attempts'[v] = attempts[v] /\ made'[v] = made[v]
  /\ pc[v] = "scheduled" /\ pc'[v] = "place"
  /\ Charged(v) < MaxAttempts /\ used'[v] = Charged(v)
  /\ exhausted'[v] = ExhaustedByRecord(v)

\* A new attempt on a worker that has room and is not excluded.
PlacedOn(v, k) ==
  /\ pc[v] = "place" /\ pc'[v] = "launch"
  /\ made[v] < AttemptBound /\ made'[v] = made[v] + 1
  /\ used'[v] = used[v] + 1 /\ exhausted'[v] = exhausted[v]
  /\ k \notin exhausted[v] /\ Cardinality(LoadSet(k)) < Capacity
  /\ attempts'[v][made[v] + 1] = [status |-> "QUEUED", worker |-> k, category |-> "none"]
  /\ \A n \in AttemptNo : n # made[v] + 1 => attempts'[v][n] = attempts[v][n]

\* Only the newest attempt may change, and keeps its worker.
NewestOnly(v) ==
  /\ made'[v] = made[v]
  /\ attempts'[v][made[v]].worker = Latest(v).worker
  /\ \A n \in AttemptNo : n # made[v] => attempts'[v][n] = attempts[v][n]

Launched(v) ==
  /\ pc[v] = "launch" /\ pc'[v] = "submit" /\ SameLocal(v)
  /\ NewestOnly(v) /\ attempts'[v][made[v]].status = "RUNNING"

\* The newest attempt ends; the coroutine does too, or retries within the
\* budget or because of the generic exception handler.
Ended(v) ==
  /\ pc[v] \in InFlight /\ NewestOnly(v)
  /\ attempts'[v][made[v]].status \in {"FAILED", "LOST", "SUCCEEDED", "CHECKPOINTED"}
  /\ \/ pc'[v] \in Out
     \/ /\ pc'[v] = "place" /\ used'[v] = used[v]
        /\ attempts'[v][made[v]].status \in {"FAILED", "LOST"}
        /\ \/ exhausted'[v] = exhausted[v] \cup {Latest(v).worker}
              /\ (used[v] < MaxAttempts \/ ServerErrors)
           \/ exhausted'[v] = exhausted[v] /\ used[v] < MaxAttempts
              /\ \/ attempts'[v][made[v]].status = "LOST"
                 \/ attempts'[v][made[v]].category \notin Exhausting

\* Attempts that were active are lost with their worker or at a recovery.
Lost(v) ==
  /\ pc'[v] = pc[v] /\ made'[v] = made[v] /\ SameLocal(v)
  /\ \A n \in AttemptNo :
       /\ attempts'[v][n].worker = attempts[v][n].worker
       /\ \/ attempts'[v][n] = attempts[v][n]
          \/ attempts[v][n].status \in ActiveStatus /\ attempts'[v][n].status = "LOST"

Move(v) ==
  Stays(v) \/ Begins(v) \/ (\E k \in Workers : PlacedOn(v, k)) \/ Launched(v) \/ Ended(v) \/ Lost(v)

-----------------------------------------------------------------------------
(* The invariants *)

\* At most one coroutine holds the event loop.
OneRunner == \A v, w \in Workloads : pc[v] \in RunPc /\ pc[w] \in RunPc => v = w

\* The worker an attempt was placed on has room until the attempt is launched:
\* placement and launch are one stretch without an await.
RoomInv ==
  \A w \in Workloads : pc[w] = "launch" => Cardinality(LoadSet(Latest(w).worker)) < Capacity

\* A coroutine that may place an attempt excludes every worker that failed an
\* earlier one.  The newest attempt is not among them while it is in flight.
ExcludedInv ==
  \A w \in Workloads : pc[w] \in InFlight \cup {"place", "launch"} =>
    \A n \in 1 .. made[w] :
      (n < made[w] \/ pc[w] = "place") /\ attempts[w][n].status = "FAILED"
        /\ attempts[w][n].category \in Exhausting
      => attempts[w][n].worker \in exhausted[w]

\* The attempt in flight is charged, and its worker is not excluded yet.
CurrentInv ==
  \A w \in Workloads : pc[w] \in InFlight \cup {"launch"} =>
    Latest(w).status # "CHECKPOINTED" /\ Latest(w).worker \notin exhausted[w]

\* attempts_used counts every charged attempt, and the next attempt is allowed
\* by the budget or by a server error.
UsedInv ==
  \A w \in Workloads :
    /\ pc[w] = "place" => Charged(w) <= used[w] /\ (used[w] < MaxAttempts \/ ServerErrors)
    /\ pc[w] \in InFlight \cup {"launch"} =>
         Charged(w) <= used[w] /\ (used[w] <= MaxAttempts \/ ServerErrors)
    /\ Charged(w) <= MaxAttempts \/ ServerErrors

\* Every attempt beyond the budget was preceded by the exclusion of a worker.
OverrunInv ==
  \A w \in Workloads :
    /\ pc[w] = "place" => Charged(w) < MaxAttempts + Cardinality(exhausted[w])
    /\ pc[w] \in InFlight \cup {"launch"} =>
         Charged(w) <= MaxAttempts + Cardinality(exhausted[w])

-----------------------------------------------------------------------------
(* Every step is such a move *)

\* A final status is written to the newest attempt, which keeps its worker.
LEMMA MarkNewest ==
  ASSUME TypeOK, AttemptInv, NEW w \in Workloads, NEW s, NEW c,
         pc[w] \in InFlight \cup {"launch"}, MarkLatest(w, s, c), made' = made
  PROVE  /\ NewestOnly(w)
         /\ attempts'[w][made[w]].status = s /\ attempts'[w][made[w]].category = c
<1>1. made[w] \in AttemptNo /\ Latest(w) \in AttemptRecord
  BY LatestAttempt DEF InFlight
<1>2. attempts'[w][made[w]] = [Latest(w) EXCEPT !.status = s, !.category = c]
  BY <1>1 DEF MarkLatest, Latest, TypeOK
<1>3. \A n \in AttemptNo : n # made[w] => attempts'[w][n] = attempts[w][n]
  BY DEF MarkLatest, TypeOK
<1> QED
  BY <1>1, <1>2, <1>3 DEF NewestOnly, AttemptRecord

\* A dispatch leaves the coroutines of the other workloads alone.
LEMMA OthersStay ==
  ASSUME TypeOK, NEW w \in Workloads, Dispatch(w), NEW v \in Workloads \ {w}
  PROVE  Stays(v) /\ pc'[v] = pc[v]
<1> USE DEF durable, local, queue, ghosts, settleRest, responseRest, TypeOK, Goto, Return
<1>1. attempts'[v] = attempts[v] /\ made'[v] = made[v] /\ pc'[v] = pc[v]
  BY DispatchFrame DEF Elsewhere
<1>2. SameLocal(v)
  <2> USE DEF SameLocal
  <2>1. CASE Start(w)
    BY <2>1 DEF Start
  <2>2. CASE NoDecision(w) \/ Launch(w) \/ EndBackoff(w) \/ \E k \in Workers : PlaceOn(w, k)
    BY <2>2 DEF NoDecision, Launch, EndBackoff, PlaceOn
  <2>3. CASE SubmitAccepted(w) \/ SubmitAmbiguous(w) \/ EndSleep(w) \/ StatusAgain(w)
             \/ CancelRemoteReturned(w) \/ ResolveFound(w) \/ StatusTerminal(w) \/ AckReturned(w)
    BY <2>3 DEF SubmitAccepted, SubmitAmbiguous, EndSleep, StatusAgain,
       CancelRemoteReturned, ResolveFound, StatusTerminal, AckReturned
  <2>4. CASE SubmitRejected(w) \/ ResolveUnavailable(w) \/ StatusMissing(w) \/ ResolveServerError(w)
    BY <2>4 DEF SubmitRejected, ResolveUnavailable, StatusMissing, RecordLost,
       SubmitUnavailable, RaiseHandled, ResolveServerError, RaiseUnexpected
  <2>5. CASE SettleCancelled(w) \/ SettleCheckpoint(w) \/ Seal(w) \/ Conclude(w)
    BY <2>5 DEF SettleCancelled, SettleCheckpoint, Seal, Conclude
  <2>6. CASE SettleSuccess(w) \/ SettleFailure(w)
    BY <2>6 DEF SettleSuccess, SettleFailure
  <2> QED
    BY <2>1, <2>2, <2>3, <2>4, <2>5, <2>6 DEF Dispatch
<1> QED
  BY <1>1, <1>2 DEF Stays

\* Every dispatch step is a move of its workload.
LEMMA DispatchMove ==
  ASSUME TypeOK, AttemptInv, ActiveAttemptOwned, NEW w \in Workloads, Dispatch(w)
  PROVE  Move(w)
<1> USE DEF durable, local, queue, ghosts, settleRest, responseRest
<1>1. ASSUME NEW s, Return(w, s) PROVE pc'[w] \in {"idle", "backoff"}
  BY <1>1 DEF Return, TypeOK
<1>2. CASE Start(w)
  <2>1. CASE \E s : Return(w, s)
    BY <1>1, <1>2, <2>1 DEF Start, Move, Stays, Out
  <2>2. CASE ~ \E s : Return(w, s)
    <3>1. Charged(w) < MaxAttempts
      BY <1>2, <2>2, ChargedType, ConstantAssumption DEF Start
    <3>2. Begins(w)
      BY <1>2, <2>2, <3>1 DEF Start, Begins, Goto, TypeOK
    <3> QED BY <3>2 DEF Move
  <2> QED BY <2>1, <2>2
<1>3. CASE NoDecision(w) \/ Conclude(w)
  BY <1>1, <1>3 DEF NoDecision, Conclude, Move, Stays, Out
<1>4. CASE EndBackoff(w)
  BY <1>4 DEF EndBackoff, Goto, TypeOK, Move, Stays, Out
<1>5. CASE Launch(w)
  <2>1. made[w] \in AttemptNo /\ Latest(w) \in AttemptRecord
    BY <1>5, LatestAttempt DEF Launch
  <2>2. attempts'[w][made[w]] = [Latest(w) EXCEPT !.status = "RUNNING"]
    BY <1>5, <2>1 DEF Launch, Latest, TypeOK
  <2>3. \A n \in AttemptNo : n # made[w] => attempts'[w][n] = attempts[w][n]
    BY <1>5 DEF Launch, TypeOK
  <2>4. NewestOnly(w) /\ attempts'[w][made[w]].status = "RUNNING"
    BY <1>5, <2>1, <2>2, <2>3 DEF Launch, NewestOnly, AttemptRecord
  <2> QED BY <1>5, <2>4 DEF Launch, Goto, TypeOK, Launched, SameLocal, Move
<1>6. ASSUME NEW k \in Workers, PlaceOn(w, k) PROVE Move(w)
  <2>1. made[w] + 1 \in AttemptNo
    BY <1>6, ConstantAssumption DEF PlaceOn, TypeOK, AttemptNo
  <2>2. k \notin exhausted[w] /\ Cardinality(LoadSet(k)) < Capacity
    BY <1>6 DEF PlaceOn, Candidates
  <2>3. PlacedOn(w, k)
    BY <1>6, <2>1, <2>2 DEF PlaceOn, PlacedOn, Goto, TypeOK
  <2> QED BY <2>3 DEF Move
<1>7. CASE SubmitAccepted(w) \/ SubmitAmbiguous(w) \/ EndSleep(w) \/ StatusAgain(w)
           \/ CancelRemoteReturned(w) \/ ResolveFound(w) \/ StatusTerminal(w) \/ AckReturned(w)
  <2>1. pc[w] \in WirePc /\ UNCHANGED <<attempts, made, used, exhausted>>
    BY <1>7 DEF SubmitAccepted, SubmitAmbiguous, EndSleep, StatusAgain,
       CancelRemoteReturned, ResolveFound, StatusTerminal, AckReturned, WirePc
  <2>2. pc'[w] \in WirePc \cup {"settle"}
    BY <1>7 DEF SubmitAccepted, SubmitAmbiguous, EndSleep, StatusAgain,
          CancelRemoteReturned,
       ResolveFound, StatusTerminal, AckReturned, TakeOutcome, Poll, Goto, TypeOK, WirePc
  <2> QED BY <2>1, <2>2 DEF Move, Stays, SameLocal, InFlight
<1>8. ASSUME NEW s \in {"LOST", "FAILED"}, pc[w] \in WirePc, RaiseHandled(w, s), UNCHANGED responseRest
      PROVE  Move(w)
  <2>1. NewestOnly(w) /\ attempts'[w][made[w]].status = s
    BY <1>8, MarkNewest DEF RaiseHandled, InFlight
  <2>2. pc'[w] = "conclude" \/ (pc'[w] = "place" /\ used[w] < MaxAttempts)
    BY <1>8 DEF RaiseHandled, ShouldRetry, Goto, TypeOK
  <2>3. exhausted'[w] = exhausted[w] \cup {Latest(w).worker} /\ used'[w] = used[w]
    BY <1>8 DEF RaiseHandled, TypeOK
  <2>4. Ended(w)
    BY <1>8, <2>1, <2>2, <2>3 DEF Ended, InFlight, Out
  <2> QED BY <2>4 DEF Move
<1>9. CASE SubmitRejected(w) \/ ResolveUnavailable(w) \/ StatusMissing(w)
  BY <1>8, <1>9 DEF SubmitRejected, ResolveUnavailable, StatusMissing, RecordLost,
     SubmitUnavailable, WirePc
<1>10. CASE ResolveServerError(w)
  <2>1. pc[w] \in WirePc /\ ServerErrors
    BY <1>10 DEF ResolveServerError, WirePc
  <2>2. NewestOnly(w) /\ attempts'[w][made[w]].status = "FAILED"
    BY <1>10, <2>1, MarkNewest DEF ResolveServerError, RaiseUnexpected, InFlight
  <2>3. /\ pc'[w] = "place" /\ used'[w] = used[w]
        /\ exhausted'[w] = exhausted[w] \cup {Latest(w).worker}
    BY <1>10 DEF ResolveServerError, RaiseUnexpected, Goto, TypeOK
  <2>4. Ended(w)
    BY <2>1, <2>2, <2>3 DEF Ended, InFlight
  <2> QED BY <2>4 DEF Move
<1>11. CASE SettleCancelled(w) \/ SettleCheckpoint(w) \/ Seal(w)
  <2>1. PICK s \in {"FAILED", "CHECKPOINTED", "SUCCEEDED"} : \E c : MarkLatest(w, s, c)
    BY <1>11 DEF SettleCancelled, SettleCheckpoint, Seal
  <2>2. pc[w] \in InFlight /\ made' = made /\ \E s1 : Return(w, s1)
    BY <1>11 DEF SettleCancelled, SettleCheckpoint, Seal, InFlight
  <2>3. NewestOnly(w) /\ attempts'[w][made[w]].status = s
    BY <2>1, <2>2, MarkNewest
  <2>4. Ended(w)
    BY <1>1, <2>2, <2>3 DEF Ended, Out
  <2> QED BY <2>4 DEF Move
<1>12. CASE SettleSuccess(w)
  <2>1. \A n \in AttemptNo : n # made[w] => attempts[w][n].status \notin ActiveStatus
    BY <1>12 DEF SettleSuccess, ActiveAttemptOwned
  <2>2. attempts'[w] = attempts[w]
    BY <1>12, <2>1 DEF SettleSuccess, TypeOK
  <2>3. pc[w] = "settle" /\ pc'[w] = "seal" /\ SameLocal(w) /\ made' = made
    BY <1>12 DEF SettleSuccess, Goto, TypeOK, SameLocal
  <2> QED BY <2>2, <2>3 DEF Move, Stays, InFlight
<1>13. CASE SettleFailure(w)
  <2>1. pc[w] = "settle" /\ made' = made /\ used' = used
    BY <1>13 DEF SettleFailure
  <2>2. NewestOnly(w) /\ \/ attempts'[w][made[w]].status = "LOST"
                         \/ /\ attempts'[w][made[w]].status = "FAILED"
                            /\ attempts'[w][made[w]].category = held[w]
    BY <1>13, <2>1, MarkNewest DEF SettleFailure, InFlight
  <2>3. exhausted'[w] = IF held[w] \in Exhausting THEN exhausted[w] \cup {Latest(w).worker}
                        ELSE exhausted[w]
    BY <1>13 DEF SettleFailure, TypeOK
  <2>4. pc'[w] = "conclude" \/ (pc'[w] = "place" /\ used[w] < MaxAttempts)
    BY <1>13 DEF SettleFailure, ShouldRetry, Goto, TypeOK
  <2>5. Ended(w)
    BY <2>1, <2>2, <2>3, <2>4 DEF Ended, InFlight, Out
  <2> QED BY <2>5 DEF Move
<1> QED
  BY <1>2, <1>3, <1>4, <1>5, <1>6, <1>7, <1>9, <1>10, <1>11, <1>12, <1>13 DEF Dispatch

\* Losing attempts is a move of every workload.
LEMMA LoseMove ==
  ASSUME TypeOK, NEW lost \in SUBSET (Workloads \X AttemptNo), LoseAttempts(lost),
         \A a \in lost : attempts[a[1]][a[2]].status \in ActiveStatus,
         UNCHANGED <<made, local>>, NEW v \in Workloads
  PROVE  Lost(v)
<1>1. ASSUME NEW n \in AttemptNo
      PROVE  /\ attempts'[v][n].worker = attempts[v][n].worker
             /\ \/ attempts'[v][n] = attempts[v][n]
                \/ attempts[v][n].status \in ActiveStatus /\ attempts'[v][n].status = "LOST"
  <2>1. CASE <<v, n>> \in lost
    <3>1. attempts[<<v, n>>[1]][<<v, n>>[2]].status \in ActiveStatus BY <2>1
    <3> QED BY <2>1, <3>1, LosePoint
  <2>2. CASE <<v, n>> \notin lost BY <2>2, LosePoint
  <2> QED BY <2>1, <2>2
<1> QED BY <1>1 DEF Lost, SameLocal, local

\* And so is any other step.
LEMMA NextMove ==
  ASSUME TypeOK, AttemptInv, ActiveAttemptOwned, [Next]_vars, NEW v \in Workloads
  PROVE  Move(v)
<1> USE DEF durable, local, queue, ghosts, workerRest
<1>1. ASSUME NEW w \in Workloads, Dispatch(w) PROVE Move(v)
  BY <1>1, DispatchMove, OthersStay DEF Move
<1>2. ASSUME UNCHANGED <<attempts, made, pc, used, exhausted>> PROVE Move(v)
  BY <1>2 DEF Move, Stays, SameLocal
<1>3. ASSUME NEW w \in Workloads, SubmitWorkload(w) \/ CancelWorkload(w) \/ CancelReturned(w)
      PROVE  Move(v)
  BY <1>2, <1>3 DEF SubmitWorkload, CancelWorkload, CancelReturned
<1>4. CASE Admission
  <2>1. UNCHANGED <<attempts, made, used, exhausted>> /\ pc'[v] \in {"scheduled", pc[v]}
    BY <1>4 DEF Admission, AdmissionPass
  <2> QED BY <2>1 DEF Move, Stays, SameLocal, Out
<1>5. CASE QueueExit BY <1>2, <1>5 DEF QueueExit
<1>6. CASE Ledgers
  BY <1>2, <1>6 DEF Ledgers, WorkerAccept, RequestDropped, WorkerCancel, WorkerFinish
<1>7. ASSUME NEW k \in Workers, Evict(k) PROVE Move(v)
  <2>1. /\ LoadSet(k) \in SUBSET (Workloads \X AttemptNo)
        /\ \A a \in LoadSet(k) : attempts[a[1]][a[2]].status \in ActiveStatus
    BY DEF LoadSet
  <2>2. LoseAttempts(LoadSet(k)) /\ UNCHANGED <<made, local>> BY <1>7 DEF Evict
  <2> QED BY <2>1, <2>2, LoseMove DEF Move
<1>8. CASE Registry
  BY <1>2, <1>7, <1>8 DEF Registry, Heartbeat, BecomeIneligible, Unregister, WorkerRestart
<1>9. CASE Crash
  BY <1>9 DEF Crash, Move, Stays, Out
<1>10. CASE Restart
  <2>1. /\ InFlightAtCrash \in SUBSET (Workloads \X AttemptNo)
        /\ \A a \in InFlightAtCrash : attempts[a[1]][a[2]].status \in ActiveStatus
    BY DEF InFlightAtCrash
  <2>2. LoseAttempts(InFlightAtCrash) /\ UNCHANGED <<made, local>> BY <1>10 DEF Restart
  <2> QED BY <2>1, <2>2, LoseMove DEF Move
<1>11. CASE UNCHANGED vars BY <1>2, <1>11 DEF vars
<1> QED
  BY <1>1, <1>3, <1>4, <1>5, <1>6, <1>8, <1>9, <1>10, <1>11 DEF Next

-----------------------------------------------------------------------------
(* Capacity *)

\* A coroutine takes the event loop only when it is free.
LEMMA DispatchRunner ==
  ASSUME NEW w \in Workloads, Dispatch(w) PROVE pc[w] \in RunPc \/ LoopFree
<1>1. CASE Start(w) \/ NoDecision(w) \/ Launch(w) \/ EndBackoff(w) \/ \E k \in Workers : PlaceOn(w, k)
  BY <1>1 DEF Start, NoDecision, Launch, EndBackoff, PlaceOn, RunPc
<1>2. CASE SubmitAccepted(w) \/ SubmitAmbiguous(w) \/ SubmitRejected(w) \/ ResolveFound(w)
           \/ ResolveUnavailable(w) \/ ResolveServerError(w) \/ EndSleep(w) \/ StatusAgain(w)
           \/ StatusTerminal(w) \/ StatusMissing(w) \/ AckReturned(w) \/ CancelRemoteReturned(w)
  BY <1>2 DEF SubmitAccepted, SubmitAmbiguous, SubmitRejected, ResolveFound,
        ResolveUnavailable,
     ResolveServerError, EndSleep, StatusAgain, StatusTerminal, StatusMissing, AckReturned,
     CancelRemoteReturned
<1>3. CASE SettleCancelled(w) \/ SettleCheckpoint(w) \/ SettleSuccess(w) \/ SettleFailure(w)
           \/ Seal(w) \/ Conclude(w)
  BY <1>3 DEF SettleCancelled, SettleCheckpoint, SettleSuccess, SettleFailure, Seal,
        Conclude, RunPc
<1> QED BY <1>1, <1>2, <1>3 DEF Dispatch

\* No other step takes it.
LEMMA OnlyDispatchRuns ==
  ASSUME [Next]_vars, ~ \E w \in Workloads : Dispatch(w),
         NEW v \in Workloads, pc'[v] \in RunPc
  PROVE  pc[v] = pc'[v]
<1> USE DEF durable, local, queue, ghosts, workerRest
<1>1. CASE Ledgers \/ Registry BY <1>1, QuietStep
<1>2. CASE Admission BY <1>2 DEF Admission, AdmissionPass, RunPc
<1>3. CASE Crash BY <1>3 DEF Crash, RunPc
<1> QED
  BY <1>1, <1>2, <1>3
     DEF Next, SubmitWorkload, CancelWorkload, CancelReturned, QueueExit, Restart, vars

\* Two coroutines never hold the event loop.
LEMMA OneRunnerStep ==
  ASSUME TypeOK, OneRunner, [Next]_vars PROVE OneRunner'
<1> SUFFICES ASSUME NEW v \in Workloads, NEW u \in Workloads, pc'[v] \in RunPc, pc'[u] \in RunPc
             PROVE  v = u
  BY DEF OneRunner
<1>1. ASSUME NEW w \in Workloads, Dispatch(w) PROVE v = u
  <2>1. \A x \in Workloads \ {w} : pc'[x] = pc[x] BY <1>1, OthersStay
  <2>2. \A x \in Workloads \ {w} : pc[x] \in RunPc => pc[w] \notin RunPc /\ ~LoopFree
    BY DEF OneRunner, LoopFree
  <2> QED BY <1>1, <2>1, <2>2, DispatchRunner DEF OneRunner
<1>2. CASE ~ \E w \in Workloads : Dispatch(w) BY <1>2, OnlyDispatchRuns DEF OneRunner
<1> QED BY <1>1, <1>2

\* Only a launch makes an attempt active.
LEMMA NoNewActive ==
  ASSUME TypeOK, NEW v \in Workloads, Move(v), ~Launched(v),
         NEW n \in AttemptNo, attempts'[v][n].status \in ActiveStatus
  PROVE  attempts[v][n].status \in ActiveStatus /\ attempts'[v][n].worker = attempts[v][n].worker
<1>1. made[v] \in Nat BY DEF TypeOK
<1>2. CASE \E k \in Workers : PlacedOn(v, k) BY <1>1, <1>2 DEF PlacedOn, ActiveStatus
<1>3. CASE Ended(v) BY <1>3 DEF Ended, NewestOnly, ActiveStatus
<1>4. CASE Stays(v) \/ Begins(v) \/ Lost(v) BY <1>4 DEF Stays, Begins, Lost, ActiveStatus
<1> QED BY <1>2, <1>3, <1>4 DEF Move

\* The attempts counted against a worker are finitely many.
LEMMA LoadFinite == ASSUME NEW k PROVE IsFiniteSet(LoadSet(k)) /\ Cardinality(LoadSet(k)) \in Nat
<1>1. IsFiniteSet(Workloads) /\ IsFiniteSet(AttemptNo)
  BY ConstantAssumption, FS_Interval DEF AttemptNo
<1>2. IsFiniteSet(Workloads \X AttemptNo) BY <1>1, FS_Product
<1> QED BY <1>2, FS_Subset, FS_CardinalityType DEF LoadSet

\* A set with one element more counts at most one more.
LEMMA OneMore ==
  ASSUME NEW S, NEW x, IsFiniteSet(S)
  PROVE  /\ IsFiniteSet(S \cup {x}) /\ Cardinality(S \cup {x}) \in Nat
         /\ Cardinality(S \cup {x}) <= Cardinality(S) + 1
<1>1. Cardinality(S) \in Nat BY FS_CardinalityType
<1>2. /\ IsFiniteSet(S \cup {x})
      /\ Cardinality(S \cup {x}) = IF x \in S THEN Cardinality(S) ELSE Cardinality(S) + 1
  BY FS_AddElement
<1> QED BY <1>1, <1>2

\* A smaller load counts less.
LEMMA LoadShrinks ==
  ASSUME NEW k, LoadSet(k)' \subseteq LoadSet(k)
  PROVE  Cardinality(LoadSet(k)') \in Nat /\ Cardinality(LoadSet(k)') <= Cardinality(LoadSet(k))
BY LoadFinite, FS_Subset, FS_CardinalityType

\* Without a launch no worker gets more to do.
LEMMA LoadKept ==
  ASSUME TypeOK, \A v \in Workloads : Move(v) /\ ~Launched(v), NEW k
  PROVE  LoadSet(k)' \subseteq LoadSet(k)
<1> SUFFICES ASSUME NEW v \in Workloads, NEW n \in AttemptNo, attempts'[v][n].worker = k,
                    attempts'[v][n].status \in ActiveStatus
             PROVE  attempts[v][n].worker = k /\ attempts[v][n].status \in ActiveStatus
  BY DEF LoadSet
<1> QED BY NoNewActive

\* A launch adds one attempt, to the worker it was placed on.
LEMMA LoadLaunched ==
  ASSUME TypeOK, AttemptInv, \A v \in Workloads : Move(v), NEW w \in Workloads, Launched(w),
         \A v \in Workloads : v # w => ~Launched(v), NEW k
  PROVE  LoadSet(k)' \subseteq IF k = Latest(w).worker THEN LoadSet(k) \cup {<<w, made[w]>>}
                               ELSE LoadSet(k)
<1>1. ASSUME NEW v \in Workloads, NEW n \in AttemptNo, attempts'[v][n].worker = k,
             attempts'[v][n].status \in ActiveStatus, <<v, n>> # <<w, made[w]>>
      PROVE  attempts[v][n].worker = k /\ attempts[v][n].status \in ActiveStatus
  <2>1. CASE v = w BY <1>1, <2>1 DEF Launched, NewestOnly
  <2>2. CASE v # w BY <1>1, <2>2, NoNewActive
  <2> QED BY <2>1, <2>2
<1>2. attempts'[w][made[w]].worker = Latest(w).worker BY DEF Launched, NewestOnly
<1>3. ASSUME NEW a \in Workloads \X AttemptNo, a \in LoadSet(k)'
      PROVE  a \in LoadSet(k) \/ (a = <<w, made[w]>> /\ k = Latest(w).worker)
  <2>1. PICK v \in Workloads, n \in AttemptNo : a = <<v, n>> OBVIOUS
  <2>2. attempts'[v][n].worker = k /\ attempts'[v][n].status \in ActiveStatus
    BY <1>3, <2>1 DEF LoadSet
  <2>3. CASE <<v, n>> = <<w, made[w]>> BY <1>2, <2>1, <2>2, <2>3
  <2>4. CASE <<v, n>> # <<w, made[w]>> BY <1>1, <2>1, <2>2, <2>4 DEF LoadSet
  <2> QED BY <2>3, <2>4
<1>4. LoadSet(k)' \subseteq Workloads \X AttemptNo BY DEF LoadSet
<1> QED BY <1>3, <1>4

\* Capacity and the room for the attempt about to be launched are kept.
LEMMA CapacityStep ==
  ASSUME TypeOK, AttemptInv, OneRunner, RoomInv, CapacityRespected,
         \A v \in Workloads : Move(v)
  PROVE  CapacityRespected' /\ RoomInv'
<1>1. Capacity \in Nat BY ConstantAssumption
<1>2. ASSUME NEW w \in Workloads, Launched(w) PROVE CapacityRespected' /\ RoomInv'
  <2>1. \A v \in Workloads : v # w => pc[v] \notin RunPc
    BY <1>2 DEF OneRunner, Launched, RunPc
  <2>2. \A v \in Workloads : v # w => ~Launched(v) BY <2>1 DEF Launched, RunPc
  <2>3. CapacityRespected'
    <3> SUFFICES ASSUME NEW k \in Workers PROVE Cardinality(LoadSet(k)') <= Capacity
      BY DEF CapacityRespected
    <3>1. CASE k # Latest(w).worker
      BY <1>1, <1>2, <2>2, <3>1, LoadLaunched, LoadShrinks, LoadFinite DEF CapacityRespected
    <3>2. CASE k = Latest(w).worker
      <4>1. LoadSet(k)' \subseteq LoadSet(k) \cup {<<w, made[w]>>}
        BY <1>2, <2>2, <3>2, LoadLaunched
      <4>2. /\ IsFiniteSet(LoadSet(k) \cup {<<w, made[w]>>})
            /\ Cardinality(LoadSet(k) \cup {<<w, made[w]>>}) <= Cardinality(LoadSet(k)) + 1
            /\ Cardinality(LoadSet(k) \cup {<<w, made[w]>>}) \in Nat
        BY LoadFinite, OneMore
      <4>3. /\ Cardinality(LoadSet(k)') \in Nat
            /\ Cardinality(LoadSet(k)') <= Cardinality(LoadSet(k) \cup {<<w, made[w]>>})
        BY <4>1, <4>2, FS_Subset, FS_CardinalityType
      <4>4. Cardinality(LoadSet(k)) < Capacity /\ Cardinality(LoadSet(k)) \in Nat
        BY <1>2, <3>2, LoadFinite DEF RoomInv, Launched
      <4> QED BY <1>1, <4>2, <4>3, <4>4
    <3> QED BY <3>1, <3>2
  <2>4. RoomInv'
    <3> SUFFICES ASSUME NEW v \in Workloads PROVE pc'[v] # "launch"
      BY DEF RoomInv
    <3>1. CASE v = w BY <1>2, <3>1 DEF Launched
    <3>2. CASE v # w
      <4>1. pc[v] \notin RunPc BY <2>1, <3>2
      <4> QED BY <4>1 DEF Move, Stays, Begins, PlacedOn, Launched, Ended, Lost, Out,
            InFlight, WirePc, RunPc
    <3> QED BY <3>1, <3>2
  <2> QED BY <2>3, <2>4
<1>3. ASSUME \A v \in Workloads : ~Launched(v) PROVE CapacityRespected' /\ RoomInv'
  <2>1. \A k : /\ Cardinality(LoadSet(k)') \in Nat /\ Cardinality(LoadSet(k)) \in Nat
               /\ Cardinality(LoadSet(k)') <= Cardinality(LoadSet(k))
    BY <1>3, LoadKept, LoadShrinks, LoadFinite
  <2>2. CapacityRespected' BY <1>1, <2>1 DEF CapacityRespected
  <2>3. RoomInv'
    <3> SUFFICES ASSUME NEW v \in Workloads, pc'[v] = "launch"
                 PROVE  (Cardinality(LoadSet(Latest(v).worker)) < Capacity)'
      BY DEF RoomInv
    <3>0. ASSUME NEW k, k = attempts'[v][made'[v]].worker
          PROVE  LoadSet(Latest(v).worker)' = LoadSet(k)'
      BY <3>0 DEF LoadSet, Latest
    <3>1. CASE \E k \in Workers : PlacedOn(v, k)
      <4>1. PICK k \in Workers : PlacedOn(v, k) BY <3>1
      <4>2. attempts'[v][made'[v]].worker = k /\ Cardinality(LoadSet(k)) < Capacity
        BY <4>1 DEF PlacedOn
      <4>3. Cardinality(LoadSet(k)') < Capacity BY <1>1, <2>1, <4>2
      <4> QED BY <3>0, <4>2, <4>3
    <3>2. CASE ~ \E k \in Workers : PlacedOn(v, k)
      <4>1. pc[v] = "launch" /\ (Stays(v) \/ Lost(v))
        BY <3>2 DEF Move, Stays, Begins, Launched, Ended, Lost, Out, InFlight, WirePc
      <4>2. made[v] \in AttemptNo BY <4>1, LatestAttempt
      <4>3. attempts'[v][made'[v]].worker = Latest(v).worker
        BY <4>1, <4>2 DEF Stays, Lost, Latest
      <4>4. Cardinality(LoadSet(Latest(v).worker)) < Capacity BY <4>1 DEF RoomInv
      <4>5. PICK k : k = Latest(v).worker OBVIOUS
      <4>6. Cardinality(LoadSet(k)) < Capacity BY <4>4, <4>5
      <4>7. Cardinality(LoadSet(k)') < Capacity BY <1>1, <2>1, <4>6
      <4> QED BY <3>0, <4>3, <4>5, <4>7
    <3> QED BY <3>1, <3>2
  <2> QED BY <2>2, <2>3
<1> QED BY <1>2, <1>3

-----------------------------------------------------------------------------
(* Excluded workers *)

\* A coroutine keeps excluding the workers that failed earlier attempts.
LEMMA ExcludedStep ==
  ASSUME TypeOK, AttemptInv, ExcludedInv, \A v \in Workloads : Move(v)
  PROVE  ExcludedInv'
<1> SUFFICES ASSUME NEW v \in Workloads, pc'[v] \in InFlight \cup {"place", "launch"},
                    NEW n \in 1 .. made'[v], n < made'[v] \/ pc'[v] = "place",
                    attempts'[v][n].status = "FAILED", attempts'[v][n].category \in Exhausting
             PROVE  attempts'[v][n].worker \in exhausted'[v]
  BY DEF ExcludedInv
<1>1. /\ made[v] \in 0 .. AttemptBound /\ AttemptBound \in Nat
      /\ \A m \in 1 .. made[v] : m \in AttemptNo
  BY ConstantAssumption DEF TypeOK, AttemptNo
<1>2. ASSUME n \in 1 .. made[v], attempts'[v][n] = attempts[v][n], exhausted[v] \subseteq exhausted'[v],
             pc[v] \in InFlight \cup {"place", "launch"}, n < made[v] \/ pc[v] = "place"
      PROVE  attempts'[v][n].worker \in exhausted'[v]
  BY <1>2 DEF ExcludedInv
<1>3. CASE Stays(v)
  <2>1. pc'[v] \notin Out BY DEF Out, InFlight, WirePc
  <2> QED BY <1>2, <1>3, <2>1 DEF Stays, SameLocal, InFlight, WirePc
<1>4. CASE Begins(v)
  <2>1. n \in 1 .. made[v] /\ attempts'[v][n] = attempts[v][n] BY <1>4 DEF Begins
  <2> QED BY <1>4, <2>1 DEF Begins, ExhaustedByRecord
<1>5. CASE \E k \in Workers : PlacedOn(v, k)
  <2>1. pc[v] = "place" /\ n \in 1 .. made[v] /\ exhausted'[v] = exhausted[v]
    BY <1>1, <1>5 DEF PlacedOn
  <2>2. attempts'[v][n] = attempts[v][n] BY <1>1, <1>5, <2>1 DEF PlacedOn
  <2> QED BY <1>2, <2>1, <2>2
<1>6. CASE Launched(v)
  <2>1. n \in 1 .. made[v] /\ n < made[v] BY <1>1, <1>6 DEF Launched, NewestOnly
  <2>2. attempts'[v][n] = attempts[v][n] BY <1>1, <1>6, <2>1 DEF Launched, NewestOnly
  <2> QED BY <1>2, <1>6, <2>1, <2>2 DEF Launched, SameLocal
<1>7. CASE Ended(v)
  <2>1. pc'[v] = "place" /\ exhausted[v] \subseteq exhausted'[v] /\ pc[v] \in InFlight
    BY <1>7 DEF Ended, Out, InFlight, WirePc
  <2>2. n \in 1 .. made[v] /\ n \in AttemptNo BY <1>1, <1>7 DEF Ended, NewestOnly
  <2>3. CASE n = made[v]
    <3>1. exhausted'[v] = exhausted[v] \cup {Latest(v).worker}
      BY <1>7, <2>1, <2>3 DEF Ended, Out
    <3> QED BY <1>7, <2>3, <3>1 DEF Ended, NewestOnly
  <2>4. CASE n # made[v]
    <3>1. n < made[v] BY <1>1, <2>2, <2>4
    <3>2. attempts'[v][n] = attempts[v][n] BY <1>7, <2>2, <2>4 DEF Ended, NewestOnly
    <3> QED BY <1>2, <2>1, <2>2, <3>1, <3>2
  <2> QED BY <2>3, <2>4
<1>8. CASE Lost(v)
  <2>1. n \in 1 .. made[v] /\ n \in AttemptNo BY <1>1, <1>8 DEF Lost
  <2>2. attempts'[v][n] = attempts[v][n] BY <1>8, <2>1 DEF Lost
  <2> QED BY <1>2, <1>8, <2>1, <2>2 DEF Lost, SameLocal
<1> QED BY <1>3, <1>4, <1>5, <1>6, <1>7, <1>8 DEF Move

\* The attempt in flight is not checkpointed, nor on an excluded worker.
LEMMA CurrentStep ==
  ASSUME TypeOK, AttemptInv, CurrentInv, \A v \in Workloads : Move(v)
  PROVE  CurrentInv'
<1> SUFFICES ASSUME NEW v \in Workloads, pc'[v] \in InFlight \cup {"launch"}
             PROVE  /\ attempts'[v][made'[v]].status # "CHECKPOINTED"
                    /\ attempts'[v][made'[v]].worker \notin exhausted'[v]
  BY DEF CurrentInv, Latest
<1>1. pc'[v] \notin Out /\ pc'[v] # "place" BY DEF Out, InFlight, WirePc
<1>2. ASSUME pc[v] \in InFlight \cup {"launch"}
      PROVE  /\ made[v] \in AttemptNo
             /\ Latest(v).status # "CHECKPOINTED" /\ Latest(v).worker \notin exhausted[v]
  BY <1>2, LatestAttempt DEF CurrentInv, InFlight
<1>3. CASE Stays(v)
  <2>1. pc[v] \in InFlight \cup {"launch"} BY <1>1, <1>3 DEF Stays
  <2> QED BY <1>1, <1>2, <1>3, <2>1 DEF Stays, SameLocal, Latest
<1>4. CASE \E k \in Workers : PlacedOn(v, k)
  BY <1>4 DEF PlacedOn
<1>5. CASE Launched(v)
  BY <1>2, <1>5 DEF Launched, NewestOnly, SameLocal
<1>6. CASE Lost(v)
  <2>1. pc[v] \in InFlight \cup {"launch"} BY <1>6 DEF Lost
  <2> QED BY <1>2, <1>6, <2>1 DEF Lost, SameLocal, Latest
<1>7. ~Begins(v) /\ ~Ended(v) BY <1>1 DEF Begins, Ended
<1> QED BY <1>3, <1>4, <1>5, <1>6, <1>7 DEF Move

\* A retry never goes back to a worker that failed an earlier attempt.
LEMMA NoRepeatStep ==
  ASSUME TypeOK, AttemptInv, ExcludedInv, CurrentInv, NoRepeatOnFailedWorker,
         \A v \in Workloads : Move(v)
  PROVE  NoRepeatOnFailedWorker'
<1> SUFFICES ASSUME NEW v \in Workloads, NEW m \in AttemptNo, NEW n \in AttemptNo, m < n,
                    attempts'[v][m].status = "FAILED", attempts'[v][m].category \in Exhausting,
                    attempts'[v][n].status # "none"
             PROVE  attempts'[v][n].worker # attempts'[v][m].worker
  BY DEF NoRepeatOnFailedWorker
<1>1. made[v] \in Nat /\ m \in Nat /\ n \in Nat /\ 1 <= m
  BY ConstantAssumption DEF TypeOK, AttemptNo
<1>2. ASSUME attempts'[v][m] = attempts[v][m], attempts'[v][n].worker = attempts[v][n].worker,
             attempts[v][n].status # "none"
      PROVE  attempts'[v][n].worker # attempts'[v][m].worker
  BY <1>2 DEF NoRepeatOnFailedWorker
<1>3. ASSUME n > made[v] PROVE attempts[v][n].status = "none"
  BY <1>3 DEF AttemptInv, NoAttempt
<1>4. ASSUME pc[v] \in InFlight \cup {"launch"}, NewestOnly(v)
      PROVE  attempts'[v][n].worker # attempts'[v][m].worker
  <2>1. CASE n = made[v]
    <3>1. attempts'[v][m] = attempts[v][m] /\ m \in 1 .. made[v] /\ m < made[v]
      BY <1>1, <1>4, <2>1 DEF NewestOnly
    <3>2. attempts[v][m].worker \in exhausted[v] BY <1>4, <3>1 DEF ExcludedInv
    <3>3. Latest(v).worker \notin exhausted[v] BY <1>4 DEF CurrentInv
    <3> QED BY <1>4, <2>1, <3>1, <3>2, <3>3 DEF NewestOnly
  <2>2. CASE n # made[v]
    <3>1. attempts'[v][n] = attempts[v][n] BY <1>4, <2>2 DEF NewestOnly
    <3>2. n < made[v] BY <1>1, <1>3, <2>2, <3>1
    <3>3. attempts'[v][m] = attempts[v][m] BY <1>1, <1>4, <3>2 DEF NewestOnly
    <3> QED BY <1>2, <3>1, <3>3
  <2> QED BY <2>1, <2>2
<1>5. CASE Stays(v) \/ Begins(v) BY <1>2, <1>5 DEF Stays, Begins
<1>6. CASE Launched(v) \/ Ended(v) BY <1>4, <1>6 DEF Launched, Ended
<1>7. CASE Lost(v) BY <1>2, <1>7 DEF Lost, ActiveStatus
<1>8. CASE \E k \in Workers : PlacedOn(v, k)
  <2>1. PICK k \in Workers : PlacedOn(v, k) BY <1>8
  <2>2. m # made[v] + 1 BY <2>1 DEF PlacedOn
  <2>3. attempts'[v][m] = attempts[v][m] BY <2>1, <2>2 DEF PlacedOn
  <2>4. CASE n = made[v] + 1
    <3>1. m \in 1 .. made[v] BY <1>1, <2>4
    <3>2. attempts[v][m].worker \in exhausted[v] BY <2>1, <2>3, <3>1 DEF ExcludedInv,
          PlacedOn
    <3> QED BY <2>1, <2>3, <2>4, <3>2 DEF PlacedOn
  <2>5. CASE n # made[v] + 1 BY <1>2, <2>1, <2>3, <2>5 DEF PlacedOn
  <2> QED BY <2>4, <2>5
<1> QED BY <1>5, <1>6, <1>7, <1>8 DEF Move

-----------------------------------------------------------------------------
(* The retry budget *)

\* The charged attempts are finitely many.
LEMMA ChargedFinite ==
  ASSUME TypeOK, NEW v \in Workloads PROVE IsFiniteSet(ChargedSet(v)) /\ Charged(v) \in Nat
<1>1. IsFiniteSet(1 .. made[v]) BY FS_Interval, ConstantAssumption DEF TypeOK
<1>2. IsFiniteSet(ChargedSet(v)) BY <1>1, FS_Subset DEF ChargedSet
<1> QED BY <1>2, ChargedType

\* Only a placement charges an attempt, and it charges one.
LEMMA ChargedStep ==
  ASSUME TypeOK, AttemptInv, CurrentInv, NEW v \in Workloads, Move(v)
  PROVE  /\ Charged(v) \in Nat /\ Charged(v)' \in Nat /\ Charged(v)' <= Charged(v) + 1
         /\ (~ \E k \in Workers : PlacedOn(v, k)) => Charged(v)' <= Charged(v)
<1>1. IsFiniteSet(ChargedSet(v)) /\ Charged(v) \in Nat BY ChargedFinite
<1>2. /\ made[v] \in 0 .. AttemptBound /\ AttemptBound \in Nat
      /\ \A m \in 1 .. made[v] : m \in AttemptNo
  BY ConstantAssumption DEF TypeOK, AttemptNo
<1>3. CASE \E k \in Workers : PlacedOn(v, k)
  <2>1. ChargedSet(v)' \subseteq ChargedSet(v) \cup {made[v] + 1}
    <3> SUFFICES ASSUME NEW n \in 1 .. made'[v], attempts'[v][n].status # "CHECKPOINTED",
                        n # made[v] + 1
                 PROVE  n \in 1 .. made[v] /\ attempts[v][n].status # "CHECKPOINTED"
      BY DEF ChargedSet
    <3>1. n \in 1 .. made[v] BY <1>2, <1>3 DEF PlacedOn
    <3> QED BY <1>2, <1>3, <3>1 DEF PlacedOn
  <2>2. /\ IsFiniteSet(ChargedSet(v) \cup {made[v] + 1})
        /\ Cardinality(ChargedSet(v) \cup {made[v] + 1}) \in Nat
        /\ Cardinality(ChargedSet(v) \cup {made[v] + 1}) <= Charged(v) + 1
    BY <1>1, OneMore DEF Charged
  <2>3. /\ IsFiniteSet(ChargedSet(v)') /\ Cardinality(ChargedSet(v)') \in Nat
        /\ Cardinality(ChargedSet(v)') <= Cardinality(ChargedSet(v) \cup {made[v] + 1})
    BY <2>1, <2>2, FS_Subset, FS_CardinalityType
  <2>4. Charged(v)' = Cardinality(ChargedSet(v)') BY DEF Charged
  <2> QED BY <1>1, <1>3, <2>2, <2>3, <2>4
<1>4. CASE ~ \E k \in Workers : PlacedOn(v, k)
  <2>1. ASSUME NEW n \in 1 .. made'[v], attempts'[v][n].status # "CHECKPOINTED"
        PROVE  n \in 1 .. made[v] /\ attempts[v][n].status # "CHECKPOINTED"
    <3>1. made'[v] = made[v]
      BY <1>4 DEF Move, Stays, Begins, Launched, Ended, Lost, NewestOnly
    <3>2. n \in AttemptNo BY <1>2, <3>1
    <3>3. CASE Stays(v) \/ Begins(v) BY <2>1, <3>1, <3>3 DEF Stays, Begins
    <3>4. CASE Launched(v) \/ Ended(v)
      <4>1. Latest(v).status # "CHECKPOINTED" BY <3>4 DEF CurrentInv, Launched, Ended
      <4>2. n # made[v] => attempts'[v][n] = attempts[v][n]
        BY <3>2, <3>4 DEF Launched, Ended, NewestOnly
      <4> QED BY <2>1, <3>1, <4>1, <4>2 DEF Latest
    <3>5. CASE Lost(v) BY <2>1, <3>1, <3>2, <3>5 DEF Lost, ActiveStatus
    <3> QED BY <1>4, <3>3, <3>4, <3>5 DEF Move
  <2>2. ChargedSet(v)' \subseteq ChargedSet(v) BY <2>1 DEF ChargedSet
  <2>3. /\ Cardinality(ChargedSet(v)') \in Nat
        /\ Cardinality(ChargedSet(v)') <= Cardinality(ChargedSet(v))
    BY <1>1, <2>2, FS_Subset, FS_CardinalityType
  <2> QED BY <1>1, <2>3 DEF Charged
<1> QED BY <1>3, <1>4

\* attempts_used stays ahead of what is charged, and within the budget.
LEMMA UsedStep ==
  ASSUME TypeOK, AttemptInv, CurrentInv, UsedInv, \A v \in Workloads : Move(v)
  PROVE  UsedInv'
<1> SUFFICES ASSUME NEW v \in Workloads
             PROVE  /\ pc'[v] = "place" =>
                         Charged(v)' <= used'[v] /\ (used'[v] < MaxAttempts \/ ServerErrors)
                    /\ pc'[v] \in InFlight \cup {"launch"} =>
                         Charged(v)' <= used'[v] /\ (used'[v] <= MaxAttempts \/ ServerErrors)
                    /\ Charged(v)' <= MaxAttempts \/ ServerErrors
  BY DEF UsedInv
<1>1. used[v] \in Nat /\ MaxAttempts \in Nat BY ConstantAssumption DEF TypeOK
<1>2. /\ Charged(v) \in Nat /\ Charged(v)' \in Nat /\ Charged(v)' <= Charged(v) + 1
      /\ (~ \E k \in Workers : PlacedOn(v, k)) => Charged(v)' <= Charged(v)
  BY ChargedStep
<1>3. CASE \E k \in Workers : PlacedOn(v, k)
  <2>1. /\ pc[v] = "place" /\ pc'[v] = "launch" /\ used'[v] = used[v] + 1
    BY <1>3 DEF PlacedOn
  <2>2. Charged(v) <= used[v] /\ (used[v] < MaxAttempts \/ ServerErrors) BY <2>1 DEF UsedInv
  <2> QED BY <1>1, <1>2, <2>1, <2>2
<1>4. CASE ~ \E k \in Workers : PlacedOn(v, k)
  <2>1. Charged(v)' <= MaxAttempts \/ ServerErrors BY <1>1, <1>2, <1>4 DEF UsedInv
  <2>2. CASE Begins(v)
    <3>1. pc'[v] = "place" /\ used'[v] = Charged(v) /\ Charged(v) < MaxAttempts BY <2>2 DEF Begins
    <3> QED BY <1>2, <1>4, <2>1, <3>1 DEF InFlight, WirePc
  <2>3. CASE Ended(v)
    <3>1. pc[v] \in InFlight /\ pc'[v] \in Out \cup {"place"} BY <2>3 DEF Ended
    <3>2. Charged(v) <= used[v] BY <3>1 DEF UsedInv
    <3>3. pc'[v] = "place" => used'[v] = used[v] /\ (used[v] < MaxAttempts \/ ServerErrors)
      BY <2>3 DEF Ended, Out
    <3> QED BY <1>1, <1>2, <1>4, <2>1, <3>1, <3>2, <3>3 DEF InFlight, WirePc, Out
  <2>4. CASE Stays(v) \/ Launched(v) \/ Lost(v)
    <3>1. \/ pc'[v] \in Out
          \/ /\ used'[v] = used[v]
             /\ pc'[v] = pc[v] \/ {pc[v], pc'[v]} \subseteq InFlight \cup {"launch"}
      BY <2>4 DEF Stays, Launched, Lost, SameLocal, InFlight, WirePc
    <3>2. CASE pc'[v] \in Out BY <2>1, <3>2 DEF Out, InFlight, WirePc
    <3>3. CASE used'[v] = used[v] /\ (pc'[v] = pc[v] \/ {pc[v], pc'[v]} \subseteq InFlight \cup {"launch"})
      <4>1. /\ pc'[v] = "place" => pc[v] = "place"
            /\ pc'[v] \in InFlight \cup {"launch"} => pc[v] \in InFlight \cup {"launch"}
        BY <3>3 DEF InFlight, WirePc
      <4> QED BY <1>1, <1>2, <1>4, <2>1, <3>3, <4>1 DEF UsedInv
    <3> QED BY <3>1, <3>2, <3>3
  <2> QED BY <1>4, <2>2, <2>3, <2>4 DEF Move
<1> QED BY <1>3, <1>4

\* Every attempt beyond the budget costs a worker.
LEMMA OverrunStep ==
  ASSUME IsFiniteSet(Workers), TypeOK, TypeOK', AttemptInv, CurrentInv, UsedInv, OverrunInv,
         OverrunBounded, \A v \in Workloads : Move(v)
  PROVE  OverrunInv' /\ OverrunBounded'
<1> SUFFICES ASSUME NEW v \in Workloads
             PROVE  /\ pc'[v] = "place" => Charged(v)' < MaxAttempts + Cardinality(exhausted'[v])
                    /\ pc'[v] \in InFlight \cup {"launch"} =>
                         Charged(v)' <= MaxAttempts + Cardinality(exhausted'[v])
                    /\ Charged(v)' <= MaxAttempts + Cardinality(Workers) - 1
  BY DEF OverrunInv, OverrunBounded
<1>1. MaxAttempts \in Nat /\ used[v] \in Nat BY ConstantAssumption DEF TypeOK
<1>2. Cardinality(Workers) \in Nat BY FS_CardinalityType
<1>3. IsFiniteSet(exhausted[v]) /\ IsFiniteSet(exhausted'[v])
  BY FS_Subset DEF TypeOK
<1>4. Cardinality(exhausted[v]) \in Nat /\ Cardinality(exhausted'[v]) \in Nat
  BY <1>3, FS_CardinalityType
<1>5. /\ Charged(v) \in Nat /\ Charged(v)' \in Nat /\ Charged(v)' <= Charged(v) + 1
      /\ (~ \E k \in Workers : PlacedOn(v, k)) => Charged(v)' <= Charged(v)
  BY ChargedStep
<1>6. CASE \E k \in Workers : PlacedOn(v, k)
  <2>1. PICK k \in Workers : PlacedOn(v, k) BY <1>6
  <2>2. pc[v] = "place" /\ pc'[v] = "launch" /\ exhausted'[v] = exhausted[v] /\ k \notin exhausted[v]
    BY <2>1 DEF PlacedOn
  <2>3. Charged(v) < MaxAttempts + Cardinality(exhausted[v]) BY <2>2 DEF OverrunInv
  <2>4. Cardinality(exhausted[v] \cup {k}) = Cardinality(exhausted[v]) + 1
    BY <1>3, <2>2, FS_AddElement
  <2>5. exhausted[v] \cup {k} \subseteq Workers BY DEF TypeOK
  <2>6. Cardinality(exhausted[v] \cup {k}) <= Cardinality(Workers) BY <2>5, FS_Subset
  <2> QED BY <1>1, <1>2, <1>4, <1>5, <2>2, <2>3, <2>4, <2>6
<1>7. CASE ~ \E k \in Workers : PlacedOn(v, k)
  <2>1. Charged(v)' <= MaxAttempts + Cardinality(Workers) - 1
    BY <1>1, <1>2, <1>5, <1>7 DEF OverrunBounded
  <2>2. CASE Begins(v)
    <3>1. pc'[v] = "place" /\ Charged(v) < MaxAttempts BY <2>2 DEF Begins
    <3> QED BY <1>1, <1>4, <1>5, <1>7, <2>1, <3>1 DEF InFlight, WirePc
  <2>3. CASE Ended(v) /\ pc'[v] = "place"
    <3>1. pc[v] \in InFlight BY <2>3 DEF Ended
    <3>2. /\ Charged(v) <= used[v] /\ Charged(v) <= MaxAttempts + Cardinality(exhausted[v])
          /\ Latest(v).worker \notin exhausted[v]
      BY <3>1 DEF UsedInv, OverrunInv, CurrentInv
    <3>3. CASE exhausted'[v] = exhausted[v] \cup {Latest(v).worker}
      <4>1. Cardinality(exhausted'[v]) = Cardinality(exhausted[v]) + 1
        BY <1>3, <3>2, <3>3, FS_AddElement
      <4> QED BY <1>1, <1>4, <1>5, <1>7, <2>1, <2>3, <3>2, <4>1 DEF InFlight, WirePc
    <3>4. CASE used[v] < MaxAttempts
      BY <1>1, <1>4, <1>5, <1>7, <2>1, <2>3, <3>2, <3>4 DEF InFlight, WirePc
    <3> QED BY <2>3, <3>3, <3>4 DEF Ended, Out
  <2>4. CASE pc'[v] \in Out BY <2>1, <2>4 DEF Out, InFlight, WirePc
  <2>5. CASE (Stays(v) \/ Launched(v) \/ Lost(v)) /\ pc'[v] \notin Out
    <3>1. /\ exhausted'[v] = exhausted[v]
          /\ pc'[v] = pc[v] \/ {pc[v], pc'[v]} \subseteq InFlight \cup {"launch"}
      BY <2>5 DEF Stays, Launched, Lost, SameLocal, InFlight, WirePc
    <3>2. /\ pc'[v] = "place" => pc[v] = "place"
          /\ pc'[v] \in InFlight \cup {"launch"} => pc[v] \in InFlight \cup {"launch"}
      BY <3>1 DEF InFlight, WirePc
    <3> QED BY <1>1, <1>4, <1>5, <1>7, <2>1, <3>1, <3>2 DEF OverrunInv
  <2>6. Ended(v) => pc'[v] \in Out \cup {"place"} BY DEF Ended
  <2> QED BY <1>7, <2>2, <2>3, <2>4, <2>5, <2>6 DEF Move
<1> QED BY <1>6, <1>7

-----------------------------------------------------------------------------
(* Theorems *)

LimitsInv ==
  /\ OneRunner /\ RoomInv /\ CapacityRespected
  /\ ExcludedInv /\ CurrentInv /\ NoRepeatOnFailedWorker
  /\ UsedInv

\* Nothing is counted before anything was attempted.
LEMMA LimitsInit ==
  Init => LimitsInv /\ (IsFiniteSet(Workers) => OverrunInv /\ OverrunBounded)
<1> SUFFICES ASSUME Init PROVE LimitsInv /\ (IsFiniteSet(Workers) => OverrunInv /\ OverrunBounded)
  OBVIOUS
<1>1. OneRunner /\ RoomInv /\ ExcludedInv /\ CurrentInv
  BY DEF Init, OneRunner, RoomInv, ExcludedInv, CurrentInv, RunPc, InFlight, WirePc
<1>2. Cardinality({}) = 0 BY FS_EmptySet
<1>3. CapacityRespected
  <2>1. Capacity \in Nat BY ConstantAssumption
  <2>2. ASSUME NEW k \in Workers PROVE Cardinality(LoadSet(k)) = 0
    <3>1. LoadSet(k) = {} BY DEF Init, LoadSet, NoAttempt, ActiveStatus
    <3> QED BY <1>2, <3>1
  <2> QED BY <2>1, <2>2 DEF CapacityRespected
<1>4. NoRepeatOnFailedWorker BY DEF Init, NoRepeatOnFailedWorker, NoAttempt
<1>5. \A w \in Workloads : Charged(w) = 0
  <2>1. \A w \in Workloads : ChargedSet(w) = {} BY DEF Init, ChargedSet
  <2> QED BY <1>2, <2>1 DEF Charged
<1>6. UsedInv BY <1>5, ConstantAssumption DEF Init, UsedInv, InFlight, WirePc
<1>7. ASSUME IsFiniteSet(Workers) PROVE OverrunInv /\ OverrunBounded
  <2>1. Cardinality(Workers) \in Nat BY <1>7, FS_CardinalityType
  <2>2. OverrunBounded BY <1>5, <2>1, ConstantAssumption DEF OverrunBounded
  <2> QED BY <2>2 DEF Init, OverrunInv, InFlight, WirePc
<1> QED BY <1>1, <1>3, <1>4, <1>6, <1>7 DEF LimitsInv

\* Every step keeps the limits.
LEMMA LimitsStep ==
  IndInv /\ LimitsInv /\ [Next]_vars => LimitsInv'
<1> SUFFICES ASSUME IndInv, LimitsInv, [Next]_vars PROVE LimitsInv'
  OBVIOUS
<1>1. \A v \in Workloads : Move(v) BY NextMove DEF IndInv
<1>2. OneRunner' BY OneRunnerStep DEF IndInv, LimitsInv
<1>3. CapacityRespected' /\ RoomInv' BY <1>1, CapacityStep DEF IndInv, LimitsInv
<1>4. ExcludedInv' BY <1>1, ExcludedStep DEF IndInv, LimitsInv
<1>5. CurrentInv' BY <1>1, CurrentStep DEF IndInv, LimitsInv
<1>6. NoRepeatOnFailedWorker' BY <1>1, NoRepeatStep DEF IndInv, LimitsInv
<1>7. UsedInv' BY <1>1, UsedStep DEF IndInv, LimitsInv
<1> QED BY <1>2, <1>3, <1>4, <1>5, <1>6, <1>7 DEF LimitsInv

\* The limits' inductive invariant holds in every reachable state: one
\* coroutine at most is between placement and launch, and what it knows of room,
\* exclusions and attempts_used agrees with the attempt records.
THEOREM LimitsInvariant == Spec => []LimitsInv
<1>1. Init => LimitsInv BY LimitsInit
<1>2. QED BY <1>1, LimitsStep, IndInvInvariant, PTL DEF Spec

\* A worker never has more active attempts than max_concurrent_workloads,
\* however many workloads are dispatched at once.
THEOREM CapacityKept == Spec => []CapacityRespected
<1>1. LimitsInv => CapacityRespected BY DEF LimitsInv
<1>2. QED BY <1>1, LimitsInvariant, PTL

\* A worker excluded by a failed attempt gets no later attempt of the same
\* workload, although a restart forgets exhausted_worker_ids.
THEOREM FailedWorkersAvoided == Spec => []NoRepeatOnFailedWorker
<1>1. LimitsInv => NoRepeatOnFailedWorker BY DEF LimitsInv
<1>2. QED BY <1>1, LimitsInvariant, PTL

\* When no worker answers a status request with a server error, the charged
\* attempts stay within max_attempts through evictions, crashes and recoveries.
THEOREM BudgetKept == ASSUME ~ServerErrors PROVE Spec => []BudgetRespected
<1>1. LimitsInv => BudgetRespected BY DEF LimitsInv, UsedInv, BudgetRespected
<1>2. QED BY <1>1, LimitsInvariant, PTL

\* With server errors the budget is overrun by less than one attempt per
\* worker, as each of those errors excludes the worker that caused it.
THEOREM OverrunEnds == ASSUME IsFiniteSet(Workers) PROVE Spec => []OverrunBounded
<1>1. Init => OverrunInv /\ OverrunBounded BY LimitsInit
<1>2. IndInv /\ IndInv' /\ LimitsInv /\ OverrunInv /\ OverrunBounded /\ [Next]_vars
        => OverrunInv' /\ OverrunBounded'
  <2> SUFFICES ASSUME IndInv, IndInv', LimitsInv, OverrunInv, OverrunBounded, [Next]_vars
               PROVE  OverrunInv' /\ OverrunBounded'
    OBVIOUS
  <2>1. \A v \in Workloads : Move(v) BY NextMove DEF IndInv
  <2> QED BY <2>1, OverrunStep DEF IndInv, LimitsInv
<1>3. QED BY <1>1, <1>2, IndInvInvariant, LimitsInvariant, PTL DEF Spec

===============================================================================
