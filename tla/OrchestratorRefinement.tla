------------------------ MODULE OrchestratorRefinement ------------------------
(***************************************************************************)
(* The orchestrator implements WorkloadVerdict, for every number of        *)
(* workloads, workers, attempts and faults.                                *)
(***************************************************************************)
EXTENDS OrchestratorProofs

\* Only an execution that ends with success on a worker adds to ran, and
\* apart from that the step changes nothing a client can see.
LEMMA RanStep ==
  ASSUME TypeOK, [Next]_vars
  PROVE  \/ UNCHANGED ran
         \/ \E w \in Workloads, n \in AttemptNo :
              /\ exec[w][n] # "none"
              /\ ran' = ran \cup {<<w, n>>}
              /\ UNCHANGED <<wstate, pc, canceller>>
<1> USE DEF durable, local, queue, ghosts, workerRest
<1>1. ASSUME NEW w \in Workloads, Dispatch(w) PROVE UNCHANGED ran
  BY <1>1, DispatchFrame
<1>2. ASSUME Registry PROVE UNCHANGED ran
  BY <1>2 DEF Registry, Heartbeat, BecomeIneligible, Unregister, Evict,
     WorkerRestart
<1>3. ASSUME NEW w \in Workloads, NEW n \in AttemptNo, NEW o \in Outcome,
             WorkerFinish(w, n, o), ~ UNCHANGED ran
      PROVE  /\ exec[w][n] # "none"
             /\ ran' = ran \cup {<<w, n>>}
             /\ UNCHANGED <<wstate, pc, canceller>>
  BY <1>3 DEF WorkerFinish
<1>4. ASSUME Ledgers
      PROVE  \/ UNCHANGED ran
             \/ \E w \in Workloads, n \in AttemptNo, o \in Outcome :
                  WorkerFinish(w, n, o)
  BY <1>4 DEF Ledgers, WorkerAccept, RequestDropped, WorkerCancel
<1>5. ASSUME ~ \E w \in Workloads : Dispatch(w), ~ Ledgers, ~ Registry
      PROVE  UNCHANGED ran
  BY <1>5 DEF Next, vars, SubmitWorkload, CancelWorkload, CancelReturned,
     Admission, AdmissionPass, QueueExit, Crash, Restart
<1>6. QED
  BY <1>1, <1>2, <1>3, <1>4, <1>5

\* A record that did not exist is opened by its first submission only.
LEMMA OpenStep ==
  ASSUME TypeOK, NEW w \in Workloads, SubmitWorkload(w), wstate[w] = "absent"
  PROVE  Abstract!Open(w)
<1>1. /\ wstate' = [wstate EXCEPT ![w] = "SUBMITTED"]
      /\ UNCHANGED <<pc, canceller, ran>>
  BY DEF SubmitWorkload, local, ghosts
<1>2. wstate'[w] = "SUBMITTED"
  BY <1>1 DEF TypeOK
<1>3. ASSUME NEW v \in Workloads, v # w
      PROVE  wstate'[v] = wstate[v] /\ (Settled(v)' <=> Settled(v))
  BY <1>1, <1>3 DEF TypeOK, Settled
<1>4. Phase[w] = "absent" /\ Phase'[w] = "open"
  BY <1>2 DEF Phase, Settled, Terminal
<1>5. Phase' = [Phase EXCEPT ![w] = "open"]
  BY <1>2, <1>3 DEF Phase, Settled, Terminal
<1>6. UNCHANGED Succeeded
  BY <1>1 DEF Succeeded
<1>7. QED
  BY <1>4, <1>5, <1>6 DEF Abstract!Open

\* A step that neither opens a workload nor ends an execution with success
\* closes workloads, or shows the client nothing.
LEMMA CloseStep ==
  ASSUME IndInv, IndInv', [Next]_vars, UNCHANGED ran,
         \A v \in Workloads : wstate'[v] = "absent" <=> wstate[v] = "absent"
  PROVE  Abstract!Close
<1>1. UNCHANGED Succeeded
  BY DEF Succeeded
<1>2. ASSUME NEW v \in Workloads
      PROVE  /\ Phase[v] \in {"absent", "open"} \cup Abstract!Verdict
             /\ Phase'[v] \in {"absent", "open"} \cup Abstract!Verdict
             /\ Phase'[v] # Phase[v] =>
                  Phase[v] = "open" /\ Phase'[v] \in Abstract!Verdict
             /\ Phase'[v] = "COMPLETED" => v \in Succeeded
  <2>1. Settled(v) => Settled(v)' /\ wstate'[v] = wstate[v]
    BY SettledStep DEF IndInv
  <2>2. wstate'[v] = "COMPLETED" => v \in Succeeded
    BY DEF IndInv, NoFalseSuccess, Succeeded
  <2>3. Abstract!Verdict = Terminal
    BY DEF Abstract!Verdict, Terminal
  <2>4. Phase[v] = IF wstate[v] = "absent" THEN "absent"
                   ELSE IF Settled(v) THEN wstate[v] ELSE "open"
    BY DEF Phase
  <2>5. Phase'[v] = IF wstate'[v] = "absent" THEN "absent"
                    ELSE IF Settled(v)' THEN wstate'[v] ELSE "open"
    BY DEF Phase
  <2>6. (Settled(v) => wstate[v] \in Terminal) /\ (Settled(v)' => wstate'[v] \in Terminal)
    BY DEF Settled
  <2>7. QED
    BY <2>1, <2>2, <2>3, <2>4, <2>5, <2>6
<1>3. Phase' \in [Workloads -> {"absent", "open"} \cup Abstract!Verdict]
  BY <1>2 DEF Phase
<1>4. QED
  BY <1>1, <1>2, <1>3 DEF Abstract!Close

\* An execution that ends with success belongs to a workload that was opened
\* and whose dependencies succeeded before.
LEMMA RunStep ==
  ASSUME IndInv, NEW w \in Workloads, NEW n \in AttemptNo, exec[w][n] # "none",
         ran' = ran \cup {<<w, n>>}, UNCHANGED <<wstate, pc, canceller>>
  PROVE  Abstract!Run(w)
<1>1. made[w] > 0 /\ wstate[w] # "absent"
  <2>1. made[w] \in Nat /\ n \in Nat /\ n > 0
    BY ConstantAssumption DEF IndInv, TypeOK, AttemptNo
  <2>2. n <= made[w]
    BY <2>1 DEF IndInv, AttemptInv
  <2>3. made[w] > 0
    BY <2>1, <2>2
  <2>4. QED
    BY <2>3 DEF IndInv, AttemptInv
<1>2. UNCHANGED Phase
  BY DEF Phase, Settled
<1>3. Phase[w] # "absent"
  BY <1>1 DEF Phase, Settled, Terminal
<1>4. Succeeded' = Succeeded \cup {w}
  BY DEF Succeeded
<1>5. \A i \in DOMAIN DependsOn[w] : DependsOn[w][i] \in Succeeded
  <2>1. DepsRan(w)
    BY <1>1 DEF IndInv, DependencyInv
  <2>2. \A i \in DOMAIN DependsOn[w] : DependsOn[w][i] \in Workloads
    BY ConstantAssumption
  <2>3. QED
    BY <2>1, <2>2 DEF DepsRan, Succeeded
<1>6. QED
  BY <1>2, <1>3, <1>4, <1>5 DEF Abstract!Run

\* Every step of the orchestrator is a step of WorkloadVerdict or a stutter.
LEMMA RefinementStep ==
  ASSUME IndInv, IndInv', [Next]_vars
  PROVE  Abstract!Next
<1>1. CASE \E w \in Workloads : SubmitWorkload(w) /\ wstate[w] = "absent"
  BY <1>1, OpenStep DEF IndInv, Abstract!Next
<1>2. CASE ~ UNCHANGED ran
  BY <1>2, RanStep, RunStep DEF IndInv, Abstract!Next
<1>3. CASE /\ UNCHANGED ran
           /\ ~ \E w \in Workloads : SubmitWorkload(w) /\ wstate[w] = "absent"
  <2>1. ASSUME NEW v \in Workloads
        PROVE  wstate'[v] = "absent" <=> wstate[v] = "absent"
    <3>1. CASE SubmitWorkload(v)
      BY <1>3, <3>1 DEF SubmitWorkload
    <3>2. CASE ~ SubmitWorkload(v)
      BY <3>2, NeverForgotten DEF IndInv
    <3>3. QED
      BY <3>1, <3>2
  <2>2. QED
    BY <1>3, <2>1, CloseStep DEF Abstract!Next
<1>4. QED
  BY <1>1, <1>2, <1>3

\* Hiding attempts, workers, retries and crashes, the orchestrator gives every
\* workload one verdict that is final and true: it implements WorkloadVerdict.
THEOREM Refinement == Spec => ImplementsVerdict
<1>1. Init => Abstract!Init
  <2>1. SUFFICES ASSUME Init PROVE Phase = [w \in Workloads |-> "absent"] /\ Succeeded = {}
    BY DEF Abstract!Init
  <2>2. /\ wstate = [w \in Workloads |-> "absent"]
        /\ ran = {}
    BY <2>1 DEF Init
  <2>3. \A w \in Workloads : wstate[w] = "absent"
    BY <2>2
  <2>4. Phase = [w \in Workloads |-> "absent"]
    BY <2>3 DEF Phase
  <2>5. Succeeded = {}
    BY <2>2 DEF Succeeded
  <2>6. QED
    BY <2>4, <2>5
<1>2. IndInv /\ IndInv' /\ [Next]_vars => [Abstract!Next]_(Abstract!vars)
  BY RefinementStep
<1>3. QED
  BY <1>1, <1>2, IndInvInvariant, PTL DEF Spec, ImplementsVerdict, Abstract!Spec
===============================================================================
