--------------------------- MODULE WorkerAgentProofs ---------------------------
(***************************************************************************)
(* Proofs about WorkerAgent, for any attempts, workloads, assets and       *)
(* assignment of inputs, and any number of sources of a download.          *)
(***************************************************************************)
EXTENDS WorkerAgent, TLAPS

-----------------------------------------------------------------------------
(* The inductive invariant *)

Working == {"locate", "fetch", "follow", "synced", "unsynced", "severed",
            "abort", "launch", "run", "killing", "killed", "ingest"}

\* A record follows its task: it becomes terminal only when the task ends.
LedgerFollows ==
  \A a \in Attempt :
    /\ task[a] = "none" => led[a] = "none"
    /\ led[a] = "none" => task[a] = "none"
    /\ task[a] = "new" => led[a] = "accepted"
    /\ task[a] \in Working => led[a] = "running"

\* A process runs while its task waits for it, or behind a task that gave up
\* waiting; whoever gives up has sent the signal that is due by then.
ProcessWaitedFor ==
  \A a \in Attempt :
    /\ proc[a] # "none" => task[a] \in {"run", "killing", "killed", "ingest", "done"}
    /\ task[a] = "ingest" => proc[a] = "ok"
    /\ proc[a] = "alive" =>
         /\ task[a] = "killing" => sig[a] \in {"term", "kill"}
         /\ task[a] = "killed" => sig[a] = "kill"
         /\ task[a] = "done" => sig[a] = "kill" \/ (a \in creq /\ sig[a] = "term")

\* The leader of a flight downloads that asset and has a source to try; those
\* who follow wait for the leader of the flight of their asset.
FlightLed ==
  /\ \A x \in Asset : flight[x] # NoAttempt => In(flight[x]) = x
  /\ \A a \in Attempt :
       /\ task[a] = "fetch" => tries[a] > 0 /\ flight[In(a)] = a
       /\ task[a] = "follow" => lead[a] = flight[In(a)] /\ flight[In(a)] # NoAttempt

\* An attempt that shared its sandbox with nobody is alone in it, and finds
\* there what its own process has written.
SandboxOwn ==
  \A a \in Attempt : InSandbox(a) /\ a \notin mixed =>
    /\ W(a) \in dir /\ box[W(a)] \subseteq {a}
    /\ \A b \in Attempt : b # a /\ W(b) = W(a) => ~Occupies(b)
    /\ proc[a] = "ok" => a \in box[W(a)]

\* A follower is cut off only by the cancellation of the leader it waited for.
SeveredExplained ==
  \A a \in Attempt : task[a] = "severed" => lead[a] \in creq

AgentInv ==
  /\ AgentTypeOK /\ LedgerFollows /\ ProcessWaitedFor /\ FlightLed
  /\ SandboxOwn /\ SeveredExplained /\ OutputsOwn /\ CancelExplained

\* The workload and the input of an attempt.
LEMMA Inputs ==
  ASSUME NEW a \in Attempt PROVE W(a) \in Workload /\ In(a) \in Asset
BY AgentAssumption DEF W, In

\* The worker starts with nothing.
LEMMA InitInv == Init => AgentInv
<1> SUFFICES ASSUME Init PROVE AgentInv OBVIOUS
<1>1. AgentTypeOK
  BY AgentAssumption DEF Init, AgentTypeOK, Ledger, Pc
<1>2. LedgerFollows /\ ProcessWaitedFor /\ FlightLed /\ SandboxOwn /\ SeveredExplained
      /\ OutputsOwn /\ CancelExplained
  BY DEF Init, LedgerFollows, ProcessWaitedFor, FlightLed, SandboxOwn, SeveredExplained,
         OutputsOwn, CancelExplained, Occupies, InSandbox, Working
<1> QED BY <1>1, <1>2 DEF AgentInv

-----------------------------------------------------------------------------
(* Every step keeps the invariant *)

\* A submitted attempt has a record and a task that has not begun.
LEMMA SubmitInv ==
  ASSUME AgentInv, NEW a \in Attempt, Submit(a) PROVE AgentInv'
<1> USE DEF Submit, Goto, At, Conclude, runtimes, sandbox, fetching
<1>a. W(a) \in Workload /\ In(a) \in Asset BY Inputs
<1>1. AgentTypeOK'
  BY <1>a, AgentAssumption DEF AgentInv, AgentTypeOK, LedgerFollows, Pc, Ledger, Terminal
<1>2. LedgerFollows'
  BY DEF AgentInv, AgentTypeOK, LedgerFollows, Working
<1>3. ProcessWaitedFor'
  BY DEF AgentInv, AgentTypeOK, LedgerFollows, ProcessWaitedFor
<1>4. FlightLed'
  BY <1>a, AgentAssumption DEF AgentInv, AgentTypeOK, FlightLed
<1>5. SandboxOwn'
  BY <1>a DEF AgentInv, AgentTypeOK, ProcessWaitedFor, SandboxOwn, Occupies, InSandbox
<1>6. SeveredExplained'
  BY DEF AgentInv, AgentTypeOK, SeveredExplained
<1>7. OutputsOwn'
  BY DEF AgentInv, AgentTypeOK, LedgerFollows, Working, OutputsOwn
<1>8. CancelExplained'
  BY DEF AgentInv, AgentTypeOK, SeveredExplained, CancelExplained
<1> QED BY <1>1, <1>2, <1>3, <1>4, <1>5, <1>6, <1>7, <1>8 DEF AgentInv

\* Dropping a terminal record leaves its process as it is, ended or told to end.
LEMMA AckInv ==
  ASSUME AgentInv, NEW a \in Attempt, Ack(a) PROVE AgentInv'
<1> USE DEF Ack, Goto, At, Conclude, runtimes, sandbox, fetching
<1>a. W(a) \in Workload /\ In(a) \in Asset BY Inputs
<1>1. AgentTypeOK'
  BY <1>a, AgentAssumption DEF AgentInv, AgentTypeOK, Pc, Ledger, Terminal
<1>2. LedgerFollows'
  BY DEF AgentInv, AgentTypeOK, LedgerFollows, Working, Terminal
<1>3. ProcessWaitedFor'
  BY DEF AgentInv, AgentTypeOK, ProcessWaitedFor
<1>4. FlightLed'
  BY <1>a, AgentAssumption DEF AgentInv, AgentTypeOK, FlightLed
<1>5. SandboxOwn'
  BY <1>a DEF AgentInv, AgentTypeOK, ProcessWaitedFor, SandboxOwn, Occupies, InSandbox
<1>6. SeveredExplained'
  BY DEF AgentInv, AgentTypeOK, SeveredExplained
<1>7. OutputsOwn'
  BY DEF AgentInv, AgentTypeOK, LedgerFollows, Working, OutputsOwn
<1>8. CancelExplained'
  BY DEF AgentInv, AgentTypeOK, SeveredExplained, CancelExplained
<1> QED BY <1>1, <1>2, <1>3, <1>4, <1>5, <1>6, <1>7, <1>8 DEF AgentInv

\* The task begins, or finds itself cancelled.
LEMMA BeginInv ==
  ASSUME AgentInv, NEW a \in Attempt, Begin(a) PROVE AgentInv'
<1> USE DEF Begin, Goto, At, Conclude, runtimes, sandbox, fetching
<1>a. W(a) \in Workload /\ In(a) \in Asset BY Inputs
<1>1. AgentTypeOK'
  BY <1>a, AgentAssumption DEF AgentInv, AgentTypeOK, Pc, Ledger, Terminal
<1>2. LedgerFollows'
  BY DEF AgentInv, AgentTypeOK, LedgerFollows, Working
<1>3. ProcessWaitedFor'
  BY DEF AgentInv, AgentTypeOK, ProcessWaitedFor
<1>4. FlightLed'
  BY <1>a, AgentAssumption DEF AgentInv, AgentTypeOK, FlightLed
<1>5. SandboxOwn'
  BY <1>a DEF AgentInv, AgentTypeOK, ProcessWaitedFor, SandboxOwn, Occupies, InSandbox
<1>6. SeveredExplained'
  BY DEF AgentInv, AgentTypeOK, SeveredExplained
<1>7. OutputsOwn'
  BY DEF AgentInv, AgentTypeOK, LedgerFollows, Working, OutputsOwn
<1>8. CancelExplained'
  BY DEF AgentInv, AgentTypeOK, SeveredExplained, CancelExplained
<1> QED BY <1>1, <1>2, <1>3, <1>4, <1>5, <1>6, <1>7, <1>8 DEF AgentInv

\* The first to need an asset leads its download.
LEMMA LocatedInv ==
  ASSUME AgentInv, NEW a \in Attempt, NEW n \in 0 .. Sources, Located(a, n) PROVE AgentInv'
<1> USE DEF Located, Goto, At, Conclude, runtimes, sandbox, fetching
<1>a. W(a) \in Workload /\ In(a) \in Asset BY Inputs
<1>b. \A b \in Attempt : In(b) \in Asset BY Inputs
<1>1. AgentTypeOK'
  <2>1. CASE n = 0
    BY <1>a, <2>1, AgentAssumption DEF AgentInv, AgentTypeOK, Pc, Ledger, Terminal
  <2>2. CASE n # 0 /\ flight[In(a)] = NoAttempt
    <3>1. /\ task' = [task EXCEPT ![a] = "fetch"] /\ tries' = [tries EXCEPT ![a] = n]
          /\ flight' = [flight EXCEPT ![In(a)] = a] /\ task[a] = "locate"
          /\ UNCHANGED <<led, creq, runtimes, sandbox, outs, cas, lead, reached>>
      BY <2>2
    <3> HIDE DEF Located
    <3>2. \A x \in Asset : flight'[x] # NoAttempt => task'[flight'[x]] = "fetch"
      BY <1>a, <3>1 DEF AgentInv, AgentTypeOK
    <3>3. task' \in [Attempt -> Pc] /\ tries' \in [Attempt -> 0 .. Sources]
          /\ flight' \in [Asset -> Attempt \cup {NoAttempt}]
      BY <1>a, <3>1 DEF AgentInv, AgentTypeOK, Pc
    <3> QED BY <3>1, <3>2, <3>3 DEF AgentInv, AgentTypeOK
  <2>3. CASE n # 0 /\ flight[In(a)] # NoAttempt
    <3>1. /\ task' = [task EXCEPT ![a] = "follow"] /\ task[a] = "locate"
          /\ lead' = [lead EXCEPT ![a] = flight[In(a)]]
      BY <2>3
    <3>2. UNCHANGED <<led, creq, tries, proc, sig, hand, rcan, ckpt, active, dir, box, mixed,
            outs, cas, flight, reached>>
      BY <2>3
    <3> HIDE DEF Located
    <3>3. \A h \in Asset : flight[h] # NoAttempt => task'[flight[h]] = "fetch"
      BY <3>1 DEF AgentInv, AgentTypeOK
    <3>4. task' \in [Attempt -> Pc] BY <3>1 DEF AgentInv, AgentTypeOK, Pc
    <3>5. lead' \in [Attempt -> Attempt \cup {NoAttempt}]
      BY <1>a, <3>1 DEF AgentInv, AgentTypeOK
    <3> QED BY <3>2, <3>3, <3>4, <3>5 DEF AgentInv, AgentTypeOK
  <2> QED BY <2>1, <2>2, <2>3
<1>2. LedgerFollows'
  BY DEF AgentInv, AgentTypeOK, LedgerFollows, Working
<1>3. ProcessWaitedFor'
  BY DEF AgentInv, AgentTypeOK, ProcessWaitedFor
<1>4. FlightLed'
  <2>1. CASE n = 0
    BY <1>a, <1>b, <2>1, AgentAssumption DEF AgentInv, AgentTypeOK, FlightLed
  <2>2. CASE n # 0 /\ flight[In(a)] = NoAttempt
    BY <1>a, <1>b, <2>2, AgentAssumption DEF AgentInv, AgentTypeOK, FlightLed
  <2>3. CASE n # 0 /\ flight[In(a)] # NoAttempt
    BY <1>a, <1>b, <2>3, AgentAssumption DEF AgentInv, AgentTypeOK, FlightLed
  <2> QED BY <2>1, <2>2, <2>3
<1>5. SandboxOwn'
  BY <1>a DEF AgentInv, AgentTypeOK, ProcessWaitedFor, SandboxOwn, Occupies, InSandbox
<1>6. SeveredExplained'
  BY DEF AgentInv, AgentTypeOK, SeveredExplained
<1>7. OutputsOwn'
  BY DEF AgentInv, AgentTypeOK, LedgerFollows, Working, OutputsOwn
<1>8. CancelExplained'
  BY DEF AgentInv, AgentTypeOK, LedgerFollows, Working, CancelExplained
<1> QED BY <1>1, <1>2, <1>3, <1>4, <1>5, <1>6, <1>7, <1>8 DEF AgentInv

\* A flight lands once, for its leader and its followers.
LEMMA FetchInv ==
  ASSUME AgentInv, NEW a \in Attempt, Fetch(a) PROVE AgentInv'
<1> USE DEF Fetch, Committed, SourceFails, Land, Follows, Goto, At, Conclude, runtimes, sandbox,
      fetching
<1>a. W(a) \in Workload /\ In(a) \in Asset BY Inputs
<1>b. \A b \in Attempt : In(b) \in Asset BY Inputs
<1>1. AgentTypeOK'
  <2>1. tries' \in [Attempt -> 0 .. Sources]
    <3>1. CASE Committed(a) BY <3>1, AgentAssumption DEF AgentInv, AgentTypeOK
    <3>2. CASE SourceFails(a)
      BY <3>2, AgentAssumption DEF AgentInv, AgentTypeOK, FlightLed
    <3> QED BY <3>1, <3>2
  <2>2. task' \in [Attempt -> Pc]
    BY DEF AgentInv, AgentTypeOK, Pc
  <2>3. flight' \in [Asset -> Attempt \cup {NoAttempt}]
    BY <1>a DEF AgentInv, AgentTypeOK
  <2>4. lead' \in [Attempt -> Attempt \cup {NoAttempt}]
    BY DEF AgentInv, AgentTypeOK
  <2>5. cas' \subseteq Asset BY <1>a DEF AgentInv, AgentTypeOK
  <2>6. \A h \in Asset : flight'[h] # NoAttempt => task'[flight'[h]] = "fetch"
    <3>1. CASE Land(a, "synced") \/ Land(a, "unsynced")
      <4>1. ASSUME NEW h \in Asset, flight'[h] # NoAttempt
            PROVE  h # In(a) /\ flight'[h] = flight[h] /\ flight[h] \in Attempt
        BY <1>a, <3>1, <4>1 DEF AgentInv, AgentTypeOK
      <4>2. ASSUME NEW h \in Asset, flight'[h] # NoAttempt
            PROVE  task[flight[h]] = "fetch" /\ flight[h] # a
        BY <1>a, <4>1, <4>2 DEF AgentInv, AgentTypeOK, FlightLed
      <4> QED BY <3>1, <4>1, <4>2
    <3>2. CASE UNCHANGED <<task, flight, lead>> BY <3>2 DEF AgentInv, AgentTypeOK
    <3> QED BY <3>1, <3>2
  <2>7. UNCHANGED <<led, creq, proc, sig, hand, rcan, ckpt, active, dir, box, mixed, outs, reached>>
    OBVIOUS
  <2> HIDE DEF Fetch
  <2> QED BY <2>1, <2>2, <2>3, <2>4, <2>5, <2>6, <2>7 DEF AgentInv, AgentTypeOK
<1>2. LedgerFollows'
  BY DEF AgentInv, AgentTypeOK, LedgerFollows, Working
<1>3. ProcessWaitedFor'
  BY DEF AgentInv, AgentTypeOK, ProcessWaitedFor
<1>4. FlightLed'
  <2>1. CASE Land(a, "synced") \/ Land(a, "unsynced")
    BY <1>a, <1>b, <2>1, AgentAssumption DEF AgentInv, AgentTypeOK, FlightLed
  <2>2. CASE UNCHANGED <<task, flight, lead>>
    <3>1. tries' = [tries EXCEPT ![a] = tries[a] - 1] /\ (tries[a] # 1 \/ task[a] # "fetch")
      BY <2>2 DEF AgentInv, AgentTypeOK, FlightLed
    <3> QED BY <1>a, <1>b, <2>2, <3>1, AgentAssumption DEF AgentInv, AgentTypeOK, FlightLed
  <2> QED BY <2>1, <2>2
<1>5. SandboxOwn'
  BY <1>a DEF AgentInv, AgentTypeOK, ProcessWaitedFor, SandboxOwn, Occupies, InSandbox
<1>6. SeveredExplained'
  BY DEF AgentInv, AgentTypeOK, SeveredExplained
<1>7. OutputsOwn'
  BY DEF AgentInv, AgentTypeOK, LedgerFollows, Working, OutputsOwn
<1>8. CancelExplained'
  BY DEF AgentInv, AgentTypeOK, LedgerFollows, Working, CancelExplained
<1> QED BY <1>1, <1>2, <1>3, <1>4, <1>5, <1>6, <1>7, <1>8 DEF AgentInv

\* Inputs that cannot be had end the attempt before it has a process.
LEMMA SyncFailedInv ==
  ASSUME AgentInv, NEW a \in Attempt, SyncFailed(a) PROVE AgentInv'
<1> USE DEF SyncFailed, Goto, At, Conclude, runtimes, sandbox, fetching
<1>a. W(a) \in Workload /\ In(a) \in Asset BY Inputs
<1>1. AgentTypeOK'
  BY <1>a, AgentAssumption DEF AgentInv, AgentTypeOK, Pc, Ledger, Terminal
<1>2. LedgerFollows'
  BY DEF AgentInv, AgentTypeOK, LedgerFollows, Working
<1>3. ProcessWaitedFor'
  BY DEF AgentInv, AgentTypeOK, ProcessWaitedFor
<1>4. FlightLed'
  BY <1>a, AgentAssumption DEF AgentInv, AgentTypeOK, FlightLed
<1>5. SandboxOwn'
  BY <1>a DEF AgentInv, AgentTypeOK, ProcessWaitedFor, SandboxOwn, Occupies, InSandbox
<1>6. SeveredExplained'
  BY DEF AgentInv, AgentTypeOK, SeveredExplained
<1>7. OutputsOwn'
  BY DEF AgentInv, AgentTypeOK, LedgerFollows, Working, OutputsOwn
<1>8. CancelExplained'
  BY DEF AgentInv, AgentTypeOK, SeveredExplained, CancelExplained
<1> QED BY <1>1, <1>2, <1>3, <1>4, <1>5, <1>6, <1>7, <1>8 DEF AgentInv

\* So does the cancellation of the leader.
LEMMA SeveredInv ==
  ASSUME AgentInv, NEW a \in Attempt, Severed(a) PROVE AgentInv'
<1> USE DEF Severed, Goto, At, Conclude, runtimes, sandbox, fetching
<1>a. W(a) \in Workload /\ In(a) \in Asset BY Inputs
<1>1. AgentTypeOK'
  BY <1>a, AgentAssumption DEF AgentInv, AgentTypeOK, Pc, Ledger, Terminal
<1>2. LedgerFollows'
  BY DEF AgentInv, AgentTypeOK, LedgerFollows, Working
<1>3. ProcessWaitedFor'
  BY DEF AgentInv, AgentTypeOK, ProcessWaitedFor
<1>4. FlightLed'
  BY <1>a, AgentAssumption DEF AgentInv, AgentTypeOK, FlightLed
<1>5. SandboxOwn'
  BY <1>a DEF AgentInv, AgentTypeOK, ProcessWaitedFor, SandboxOwn, Occupies, InSandbox
<1>6. SeveredExplained'
  BY DEF AgentInv, AgentTypeOK, SeveredExplained
<1>7. OutputsOwn'
  BY DEF AgentInv, AgentTypeOK, LedgerFollows, Working, OutputsOwn
<1>8. CancelExplained'
  BY DEF AgentInv, AgentTypeOK, SeveredExplained, CancelExplained
<1> QED BY <1>1, <1>2, <1>3, <1>4, <1>5, <1>6, <1>7, <1>8 DEF AgentInv

\* Entering the sandbox marks whoever is in it.
LEMMA EnterInv ==
  ASSUME AgentInv, NEW a \in Attempt, Enter(a) PROVE AgentInv'
<1> USE DEF Enter, Prepare, Isolate, Verdict, Signalled, Goto, At, Conclude, runtimes,
      sandbox, fetching
<1>a. W(a) \in Workload /\ In(a) \in Asset BY Inputs
<1>1. AgentTypeOK'
  <2>1. CASE active[W(a)] = NoAttempt /\ task'[a] = "launch"
    <3>1. /\ task' = [task EXCEPT ![a] = "launch"] /\ active' = [active EXCEPT ![W(a)] = a]
          /\ dir' = dir \cup {W(a)} /\ box' = [box EXCEPT ![W(a)] = {}]
          /\ mixed' \subseteq Attempt /\ task[a] = "synced"
      BY <2>1 DEF AgentInv, AgentTypeOK
    <3>2. UNCHANGED <<led, creq, tries, proc, sig, rcan, ckpt, hand, flight, lead, cas, outs,
            reached>>
      BY <2>1 DEF AgentInv, AgentTypeOK
    <3> HIDE DEF Enter
    <3>3. \A x \in Asset : flight[x] # NoAttempt => task'[flight[x]] = "fetch"
      BY <3>1 DEF AgentInv, AgentTypeOK
    <3>4. task' \in [Attempt -> Pc] BY <3>1 DEF AgentInv, AgentTypeOK, Pc
    <3>5. /\ active' \in [Workload -> Attempt \cup {NoAttempt}] /\ dir' \subseteq Workload
          /\ box' \in [Workload -> SUBSET Attempt]
      BY <1>a, <3>1 DEF AgentInv, AgentTypeOK
    <3> QED BY <3>1, <3>2, <3>3, <3>4, <3>5 DEF AgentInv, AgentTypeOK
  <2>3. CASE active[W(a)] = NoAttempt /\ task'[a] # "launch"
    <3>1. /\ led' = [led EXCEPT ![a] = Verdict(a, FALSE)] /\ task' = [task EXCEPT ![a] = "done"]
          /\ dir' = dir \cup {W(a)} /\ box' = [box EXCEPT ![W(a)] = {}]
          /\ mixed' = mixed \cup {b \in Attempt \ {a} : W(b) = W(a) /\ Occupies(b)}
          /\ task[a] = "synced"
      BY <2>3 DEF AgentInv, AgentTypeOK
    <3>2. Verdict(a, FALSE) \in Terminal BY DEF Terminal
    <3>3. UNCHANGED <<creq, tries, proc, sig, rcan, ckpt, hand, active, flight, lead, cas,
            outs, reached>>
      BY <2>3, <3>1 DEF AgentInv, AgentTypeOK
    <3> HIDE DEF Enter, Verdict
    <3>4. led' \in [Attempt -> Ledger] /\ task' \in [Attempt -> Pc]
      BY <3>1, <3>2 DEF AgentInv, AgentTypeOK, Pc, Ledger
    <3>5. \A x \in Asset : flight[x] # NoAttempt => task'[flight[x]] = "fetch"
      BY <3>1 DEF AgentInv, AgentTypeOK
    <3>6. box' \in [Workload -> SUBSET Attempt] /\ dir' \subseteq Workload /\ mixed' \subseteq Attempt
      BY <1>a, <3>1 DEF AgentInv, AgentTypeOK
    <3> QED BY <3>3, <3>4, <3>5, <3>6 DEF AgentInv, AgentTypeOK
  <2>2. CASE active[W(a)] # NoAttempt
    <3>1. active[W(a)] \in Attempt BY <1>a, <2>2 DEF AgentInv, AgentTypeOK
    <3>2. /\ task' = [task EXCEPT ![a] = "abort"] /\ task[a] = "synced"
          /\ ckpt' = ckpt \cup {active[W(a)]} /\ sig' = Signalled(active[W(a)], "term")
      BY <2>2
    <3>3. UNCHANGED <<led, creq, tries, proc, hand, rcan, active, dir, box, mixed, flight, lead,
            cas, outs, reached>>
      BY <2>2
    <3>4. sig' \in [Attempt -> {"none", "term", "kill"}]
      BY <3>1, <3>2 DEF AgentInv, AgentTypeOK
    <3> HIDE DEF Enter, Signalled
    <3>5. \A x \in Asset : flight[x] # NoAttempt => task'[flight[x]] = "fetch"
      BY <3>2 DEF AgentInv, AgentTypeOK
    <3>6. task' \in [Attempt -> Pc] BY <3>2 DEF AgentInv, AgentTypeOK, Pc
    <3> QED BY <3>1, <3>2, <3>3, <3>4, <3>5, <3>6 DEF AgentInv, AgentTypeOK
  <2> QED BY <2>1, <2>2, <2>3
<1>2. LedgerFollows'
  BY DEF AgentInv, AgentTypeOK, LedgerFollows, Working
<1>3. ProcessWaitedFor'
  BY DEF AgentInv, AgentTypeOK, ProcessWaitedFor
<1>4. FlightLed'
  BY <1>a, AgentAssumption DEF AgentInv, AgentTypeOK, FlightLed
<1>5. SandboxOwn'
  BY <1>a DEF AgentInv, AgentTypeOK, ProcessWaitedFor, SandboxOwn, Occupies, InSandbox
<1>6. SeveredExplained'
  BY DEF AgentInv, AgentTypeOK, SeveredExplained
<1>7. OutputsOwn'
  BY DEF AgentInv, AgentTypeOK, LedgerFollows, Working, OutputsOwn
<1>8. CancelExplained'
  BY DEF AgentInv, AgentTypeOK, SeveredExplained, CancelExplained
<1> QED BY <1>1, <1>2, <1>3, <1>4, <1>5, <1>6, <1>7, <1>8 DEF AgentInv

\* So does taking it over.
LEMMA TakeOverInv ==
  ASSUME AgentInv, NEW a \in Attempt, TakeOver(a) PROVE AgentInv'
<1> USE DEF TakeOver, Prepare, Isolate, Verdict, Goto, At, Conclude, runtimes, sandbox,
      fetching
<1>a. W(a) \in Workload /\ In(a) \in Asset BY Inputs
<1>1. AgentTypeOK'
  <2>1. /\ dir' = dir \cup {W(a)} /\ box' = [box EXCEPT ![W(a)] = {}] /\ task[a] = "abort"
        /\ active' \in {active, [active EXCEPT ![W(a)] = a]} /\ mixed' \subseteq Attempt
        /\ task' \in {[task EXCEPT ![a] = "launch"], [task EXCEPT ![a] = "done"]}
    BY DEF AgentInv, AgentTypeOK
  <2>2. led' \in [Attempt -> Ledger] BY DEF AgentInv, AgentTypeOK, Ledger, Terminal
  <2>3. UNCHANGED <<creq, tries, proc, sig, hand, rcan, ckpt, flight, lead, cas, outs, reached>>
    OBVIOUS
  <2> HIDE DEF TakeOver
  <2>4. \A x \in Asset : flight[x] # NoAttempt => task'[flight[x]] = "fetch"
    BY <2>1 DEF AgentInv, AgentTypeOK
  <2>5. task' \in [Attempt -> Pc] BY <2>1 DEF AgentInv, AgentTypeOK, Pc
  <2>6. /\ active' \in [Workload -> Attempt \cup {NoAttempt}] /\ dir' \subseteq Workload
        /\ box' \in [Workload -> SUBSET Attempt]
    BY <1>a, <2>1 DEF AgentInv, AgentTypeOK
  <2> QED BY <2>1, <2>2, <2>3, <2>4, <2>5, <2>6 DEF AgentInv, AgentTypeOK
<1>2. LedgerFollows'
  BY DEF AgentInv, AgentTypeOK, LedgerFollows, Working
<1>3. ProcessWaitedFor'
  BY DEF AgentInv, AgentTypeOK, ProcessWaitedFor
<1>4. FlightLed'
  BY <1>a, AgentAssumption DEF AgentInv, AgentTypeOK, FlightLed
<1>5. SandboxOwn'
  BY <1>a DEF AgentInv, AgentTypeOK, ProcessWaitedFor, SandboxOwn, Occupies, InSandbox
<1>6. SeveredExplained'
  BY DEF AgentInv, AgentTypeOK, SeveredExplained
<1>7. OutputsOwn'
  BY DEF AgentInv, AgentTypeOK, LedgerFollows, Working, OutputsOwn
<1>8. CancelExplained'
  BY DEF AgentInv, AgentTypeOK, SeveredExplained, CancelExplained
<1> QED BY <1>1, <1>2, <1>3, <1>4, <1>5, <1>6, <1>7, <1>8 DEF AgentInv

\* The process starts while its task waits for it.
LEMMA LaunchInv ==
  ASSUME AgentInv, NEW a \in Attempt, Launch(a) PROVE AgentInv'
<1> USE DEF Launch, Goto, At, Conclude, runtimes, sandbox, fetching
<1>a. W(a) \in Workload /\ In(a) \in Asset BY Inputs
<1>1. AgentTypeOK'
  BY <1>a, AgentAssumption DEF AgentInv, AgentTypeOK, Pc, Ledger, Terminal
<1>2. LedgerFollows'
  BY DEF AgentInv, AgentTypeOK, LedgerFollows, Working
<1>3. ProcessWaitedFor'
  BY DEF AgentInv, AgentTypeOK, ProcessWaitedFor
<1>4. FlightLed'
  BY <1>a, AgentAssumption DEF AgentInv, AgentTypeOK, FlightLed
<1>5. SandboxOwn'
  BY <1>a DEF AgentInv, AgentTypeOK, ProcessWaitedFor, SandboxOwn, Occupies, InSandbox
<1>6. SeveredExplained'
  BY DEF AgentInv, AgentTypeOK, SeveredExplained
<1>7. OutputsOwn'
  BY DEF AgentInv, AgentTypeOK, LedgerFollows, Working, OutputsOwn
<1>8. CancelExplained'
  BY DEF AgentInv, AgentTypeOK, SeveredExplained, CancelExplained
<1> QED BY <1>1, <1>2, <1>3, <1>4, <1>5, <1>6, <1>7, <1>8 DEF AgentInv

\* The outputs are stored only after a process that ended well.
LEMMA RunEndsInv ==
  ASSUME AgentInv, NEW a \in Attempt, RunEnds(a) PROVE AgentInv'
<1> USE DEF RunEnds, RunSucceeded, Cleaned, Unlisted, Verdict, Goto, At, Conclude,
      runtimes, sandbox, fetching
<1>a. W(a) \in Workload /\ In(a) \in Asset BY Inputs
<1>1. AgentTypeOK'
  <2>1. CASE RunSucceeded(a)
    BY <1>a, <2>1, AgentAssumption DEF AgentInv, AgentTypeOK, Pc, Ledger, Terminal
  <2>2. CASE ~RunSucceeded(a)
    <3>1. /\ led' = [led EXCEPT ![a] = Verdict(a, FALSE)] /\ task' = [task EXCEPT ![a] = "done"]
          /\ dir' = dir \ {W(a)} /\ box' = [box EXCEPT ![W(a)] = {}]
          /\ mixed' = mixed \cup {b \in Attempt \ {a} : W(b) = W(a) /\ InSandbox(b)}
          /\ task[a] = "run" /\ active' = [active EXCEPT ![W(a)] = NoAttempt]
      BY <2>2
    <3>2. Verdict(a, FALSE) \in Terminal BY DEF Terminal
    <3>3. UNCHANGED <<creq, tries, runtimes, flight, lead, cas, outs, reached>> OBVIOUS
    <3> HIDE DEF RunEnds, Verdict
    <3>4. led' \in [Attempt -> Ledger] /\ task' \in [Attempt -> Pc]
      BY <3>1, <3>2 DEF AgentInv, AgentTypeOK, Pc, Ledger
    <3>5. \A x \in Asset : flight[x] # NoAttempt => task'[flight[x]] = "fetch"
      BY <3>1 DEF AgentInv, AgentTypeOK
    <3>6. /\ box' \in [Workload -> SUBSET Attempt] /\ dir' \subseteq Workload
          /\ mixed' \subseteq Attempt /\ active' \in [Workload -> Attempt \cup {NoAttempt}]
      BY <1>a, <3>1 DEF AgentInv, AgentTypeOK
    <3> QED BY <3>3, <3>4, <3>5, <3>6 DEF AgentInv, AgentTypeOK
  <2> QED BY <2>1, <2>2
<1>2. LedgerFollows'
  BY DEF AgentInv, AgentTypeOK, LedgerFollows, Working
<1>3. ProcessWaitedFor'
  BY DEF AgentInv, AgentTypeOK, ProcessWaitedFor
<1>4. FlightLed'
  BY <1>a, AgentAssumption DEF AgentInv, AgentTypeOK, FlightLed
<1>5. SandboxOwn'
  BY <1>a DEF AgentInv, AgentTypeOK, ProcessWaitedFor, SandboxOwn, Occupies, InSandbox
<1>6. SeveredExplained'
  BY DEF AgentInv, AgentTypeOK, SeveredExplained
<1>7. OutputsOwn'
  BY DEF AgentInv, AgentTypeOK, LedgerFollows, Working, OutputsOwn
<1>8. CancelExplained'
  BY DEF AgentInv, AgentTypeOK, SeveredExplained, CancelExplained
<1> QED BY <1>1, <1>2, <1>3, <1>4, <1>5, <1>6, <1>7, <1>8 DEF AgentInv

\* Whoever gives up waiting for the process has killed it.
LEMMA KilledInv ==
  ASSUME AgentInv, NEW a \in Attempt, Killed(a) PROVE AgentInv'
<1> USE DEF Killed, Cleaned, Unlisted, Verdict, Goto, At, Conclude, runtimes,
      sandbox, fetching
<1>a. W(a) \in Workload /\ In(a) \in Asset BY Inputs
<1>1. AgentTypeOK'
  BY <1>a, AgentAssumption DEF AgentInv, AgentTypeOK, Pc, Ledger, Terminal
<1>2. LedgerFollows'
  BY DEF AgentInv, AgentTypeOK, LedgerFollows, Working
<1>3. ProcessWaitedFor'
  BY DEF AgentInv, AgentTypeOK, ProcessWaitedFor
<1>4. FlightLed'
  BY <1>a, AgentAssumption DEF AgentInv, AgentTypeOK, FlightLed
<1>5. SandboxOwn'
  BY <1>a DEF AgentInv, AgentTypeOK, ProcessWaitedFor, SandboxOwn, Occupies, InSandbox
<1>6. SeveredExplained'
  BY DEF AgentInv, AgentTypeOK, SeveredExplained
<1>7. OutputsOwn'
  BY DEF AgentInv, AgentTypeOK, LedgerFollows, Working, OutputsOwn
<1>8. CancelExplained'
  BY DEF AgentInv, AgentTypeOK, SeveredExplained, CancelExplained
<1> QED BY <1>1, <1>2, <1>3, <1>4, <1>5, <1>6, <1>7, <1>8 DEF AgentInv

\* What is stored is what lies in the sandbox.
LEMMA IngestInv ==
  ASSUME AgentInv, NEW a \in Attempt, Ingest(a) PROVE AgentInv'
<1> USE DEF Ingest, Cleaned, Verdict, Goto, At, Conclude, runtimes, sandbox, fetching
<1>a. W(a) \in Workload /\ In(a) \in Asset BY Inputs
<1>1. AgentTypeOK'
  BY <1>a, AgentAssumption DEF AgentInv, AgentTypeOK, Pc, Ledger, Terminal
<1>2. LedgerFollows'
  BY DEF AgentInv, AgentTypeOK, LedgerFollows, Working
<1>3. ProcessWaitedFor'
  BY DEF AgentInv, AgentTypeOK, ProcessWaitedFor
<1>4. FlightLed'
  BY <1>a, AgentAssumption DEF AgentInv, AgentTypeOK, FlightLed
<1>5. SandboxOwn'
  BY <1>a DEF AgentInv, AgentTypeOK, ProcessWaitedFor, SandboxOwn, Occupies, InSandbox
<1>6. SeveredExplained'
  BY DEF AgentInv, AgentTypeOK, SeveredExplained
<1>7. OutputsOwn'
  BY <1>a DEF AgentInv, AgentTypeOK, LedgerFollows, Working, ProcessWaitedFor,
        SandboxOwn, Occupies, InSandbox, OutputsOwn
<1>8. CancelExplained'
  BY DEF AgentInv, AgentTypeOK, SeveredExplained, CancelExplained
<1> QED BY <1>1, <1>2, <1>3, <1>4, <1>5, <1>6, <1>7, <1>8 DEF AgentInv

\* A timeout sends a signal and waits.
LEMMA TimeoutInv ==
  ASSUME AgentInv, NEW a \in Attempt, Timeout(a) PROVE AgentInv'
<1> USE DEF Timeout, Signalled, Goto, At, Conclude, runtimes, sandbox, fetching
<1>a. W(a) \in Workload /\ In(a) \in Asset BY Inputs
<1>1. AgentTypeOK'
  BY <1>a, AgentAssumption DEF AgentInv, AgentTypeOK, Pc, Ledger, Terminal
<1>2. LedgerFollows'
  BY DEF AgentInv, AgentTypeOK, LedgerFollows, Working
<1>3. ProcessWaitedFor'
  BY DEF AgentInv, AgentTypeOK, ProcessWaitedFor
<1>4. FlightLed'
  BY <1>a, AgentAssumption DEF AgentInv, AgentTypeOK, FlightLed
<1>5. SandboxOwn'
  BY <1>a DEF AgentInv, AgentTypeOK, ProcessWaitedFor, SandboxOwn, Occupies, InSandbox
<1>6. SeveredExplained'
  BY DEF AgentInv, AgentTypeOK, SeveredExplained
<1>7. OutputsOwn'
  BY DEF AgentInv, AgentTypeOK, LedgerFollows, Working, OutputsOwn
<1>8. CancelExplained'
  BY DEF AgentInv, AgentTypeOK, SeveredExplained, CancelExplained
<1> QED BY <1>1, <1>2, <1>3, <1>4, <1>5, <1>6, <1>7, <1>8 DEF AgentInv

\* After five seconds the signal is one that cannot be ignored.
LEMMA EscalateInv ==
  ASSUME AgentInv, NEW a \in Attempt, Escalate(a) PROVE AgentInv'
<1> USE DEF Escalate, Escalated, Signalled, Goto, At, Conclude, runtimes, sandbox, fetching
<1>a. W(a) \in Workload /\ In(a) \in Asset BY Inputs
<1>1. AgentTypeOK'
  BY <1>a, AgentAssumption DEF AgentInv, AgentTypeOK, Pc, Ledger, Terminal
<1>2. LedgerFollows'
  BY DEF AgentInv, AgentTypeOK, LedgerFollows, Working
<1>3. ProcessWaitedFor'
  BY DEF AgentInv, AgentTypeOK, ProcessWaitedFor
<1>4. FlightLed'
  BY <1>a, AgentAssumption DEF AgentInv, AgentTypeOK, FlightLed
<1>5. SandboxOwn'
  BY <1>a DEF AgentInv, AgentTypeOK, ProcessWaitedFor, SandboxOwn, Occupies, InSandbox
<1>6. SeveredExplained'
  BY DEF AgentInv, AgentTypeOK, SeveredExplained
<1>7. OutputsOwn'
  BY DEF AgentInv, AgentTypeOK, LedgerFollows, Working, OutputsOwn
<1>8. CancelExplained'
  BY DEF AgentInv, AgentTypeOK, SeveredExplained, CancelExplained
<1> QED BY <1>1, <1>2, <1>3, <1>4, <1>5, <1>6, <1>7, <1>8 DEF AgentInv

\* A request that waited in vain kills.
LEMMA CancelDoneInv ==
  ASSUME AgentInv, NEW a \in Attempt, CancelDone(a) PROVE AgentInv'
<1> USE DEF CancelDone, Signalled, Goto, At, Conclude, runtimes, sandbox, fetching
<1>a. W(a) \in Workload /\ In(a) \in Asset BY Inputs
<1>1. AgentTypeOK'
  BY <1>a, AgentAssumption DEF AgentInv, AgentTypeOK, Pc, Ledger, Terminal
<1>2. LedgerFollows'
  BY DEF AgentInv, AgentTypeOK, LedgerFollows, Working
<1>3. ProcessWaitedFor'
  BY DEF AgentInv, AgentTypeOK, ProcessWaitedFor
<1>4. FlightLed'
  BY <1>a, AgentAssumption DEF AgentInv, AgentTypeOK, FlightLed
<1>5. SandboxOwn'
  BY <1>a DEF AgentInv, AgentTypeOK, ProcessWaitedFor, SandboxOwn, Occupies, InSandbox
<1>6. SeveredExplained'
  BY DEF AgentInv, AgentTypeOK, SeveredExplained
<1>7. OutputsOwn'
  BY DEF AgentInv, AgentTypeOK, LedgerFollows, Working, OutputsOwn
<1>8. CancelExplained'
  BY DEF AgentInv, AgentTypeOK, SeveredExplained, CancelExplained
<1> QED BY <1>1, <1>2, <1>3, <1>4, <1>5, <1>6, <1>7, <1>8 DEF AgentInv

\* A process that dies writes nothing more.
LEMMA ProcessDiesInv ==
  ASSUME AgentInv, NEW a \in Attempt, ProcessDies(a) PROVE AgentInv'
<1> USE DEF ProcessDies, Goto, At, Conclude, runtimes, sandbox, fetching
<1>a. W(a) \in Workload /\ In(a) \in Asset BY Inputs
<1>1. AgentTypeOK'
  BY <1>a, AgentAssumption DEF AgentInv, AgentTypeOK, Pc, Ledger, Terminal
<1>2. LedgerFollows'
  BY DEF AgentInv, AgentTypeOK, LedgerFollows, Working
<1>3. ProcessWaitedFor'
  BY DEF AgentInv, AgentTypeOK, ProcessWaitedFor
<1>4. FlightLed'
  BY <1>a, AgentAssumption DEF AgentInv, AgentTypeOK, FlightLed
<1>5. SandboxOwn'
  BY <1>a DEF AgentInv, AgentTypeOK, ProcessWaitedFor, SandboxOwn, Occupies, InSandbox
<1>6. SeveredExplained'
  BY DEF AgentInv, AgentTypeOK, SeveredExplained
<1>7. OutputsOwn'
  BY DEF AgentInv, AgentTypeOK, LedgerFollows, Working, OutputsOwn
<1>8. CancelExplained'
  BY DEF AgentInv, AgentTypeOK, SeveredExplained, CancelExplained
<1> QED BY <1>1, <1>2, <1>3, <1>4, <1>5, <1>6, <1>7, <1>8 DEF AgentInv

\* A process that exits has written its outputs.
LEMMA ProcessExitInv ==
  ASSUME AgentInv, NEW a \in Attempt, NEW s \in {"ok", "bad"}, ProcessExit(a, s) PROVE AgentInv'
<1> USE DEF ProcessExit, Goto, At, Conclude, runtimes, sandbox, fetching
<1>a. W(a) \in Workload /\ In(a) \in Asset BY Inputs
<1>1. AgentTypeOK'
  BY <1>a, AgentAssumption DEF AgentInv, AgentTypeOK, Pc, Ledger, Terminal
<1>2. LedgerFollows'
  BY DEF AgentInv, AgentTypeOK, LedgerFollows, Working
<1>3. ProcessWaitedFor'
  BY DEF AgentInv, AgentTypeOK, ProcessWaitedFor
<1>4. FlightLed'
  BY <1>a, AgentAssumption DEF AgentInv, AgentTypeOK, FlightLed
<1>5. SandboxOwn'
  BY <1>a DEF AgentInv, AgentTypeOK, ProcessWaitedFor, SandboxOwn, Occupies, InSandbox
<1>6. SeveredExplained'
  BY DEF AgentInv, AgentTypeOK, SeveredExplained
<1>7. OutputsOwn'
  BY DEF AgentInv, AgentTypeOK, LedgerFollows, Working, OutputsOwn
<1>8. CancelExplained'
  BY DEF AgentInv, AgentTypeOK, SeveredExplained, CancelExplained
<1> QED BY <1>1, <1>2, <1>3, <1>4, <1>5, <1>6, <1>7, <1>8 DEF AgentInv

\* A cancellation ends the task at once, or waits for its process.
LEMMA CancelInv ==
  ASSUME AgentInv, NEW a \in Attempt, Cancel(a) PROVE AgentInv'
<1> USE DEF Cancel, CancelUnlisted, CancelRuntime, CancelTask, Signalled, Grounded,
      Follows, Unlisted, Goto, At, Conclude, runtimes, sandbox, fetching
<1>a. W(a) \in Workload /\ In(a) \in Asset BY Inputs
<1>b. \A b \in Attempt : In(b) \in Asset BY Inputs
<1>1. AgentTypeOK'
  <2>1. CASE active[W(a)] # NoAttempt
    <3>1. active[W(a)] \in Attempt BY <1>a, <2>1 DEF AgentInv, AgentTypeOK
    <3> QED BY <1>a, <2>1, <3>1, AgentAssumption DEF AgentInv, AgentTypeOK, Pc, Ledger,
          Terminal
  <2>2. CASE active[W(a)] = NoAttempt /\ task[a] = "fetch"
    BY <1>a, <2>2, AgentAssumption DEF AgentInv, AgentTypeOK, Pc, Ledger, Terminal,
          FlightLed
  <2>3. CASE active[W(a)] = NoAttempt /\ task[a] \in {"new", "launch", "run"}
    BY <1>a, <2>3, AgentAssumption DEF AgentInv, AgentTypeOK, Pc, Ledger, Terminal
  <2>4. CASE active[W(a)] = NoAttempt /\ task[a] \notin {"new", "fetch", "launch", "run"}
    BY <1>a, <2>4, AgentAssumption DEF AgentInv, AgentTypeOK, Pc, Ledger, Terminal
  <2> QED BY <2>1, <2>2, <2>3, <2>4
<1>2. LedgerFollows'
  BY DEF AgentInv, AgentTypeOK, LedgerFollows, Working
<1>3. ProcessWaitedFor'
  BY DEF AgentInv, AgentTypeOK, ProcessWaitedFor
<1>4. FlightLed'
  <2>1. CASE active[W(a)] # NoAttempt
    BY <1>a, <1>b, <2>1, AgentAssumption DEF AgentInv, AgentTypeOK, FlightLed
  <2>2. CASE active[W(a)] = NoAttempt /\ task[a] = "fetch"
    <3>1. /\ flight' = [flight EXCEPT ![In(a)] = NoAttempt] /\ UNCHANGED <<lead, tries>>
          /\ task' = [b \in Attempt |-> IF b = a THEN "done"
                       ELSE IF Follows(b, a) THEN "severed" ELSE task[b]]
      BY <2>2
    <3> QED BY <1>a, <1>b, <2>2, <3>1, AgentAssumption DEF AgentInv, AgentTypeOK, FlightLed
  <2>3. CASE active[W(a)] = NoAttempt /\ task[a] # "fetch"
    <3>1. UNCHANGED <<flight, lead, tries>> BY <2>3 DEF AgentInv, AgentTypeOK, Pc
    <3>2. \A b \in Attempt : task'[b] \in {"fetch", "follow"} => task'[b] = task[b]
      BY <2>3 DEF AgentInv, AgentTypeOK, Pc
    <3> QED BY <1>b, <3>1, <3>2 DEF AgentInv, AgentTypeOK, FlightLed
  <2> QED BY <2>1, <2>2, <2>3
<1>5. SandboxOwn'
  BY <1>a DEF AgentInv, AgentTypeOK, ProcessWaitedFor, SandboxOwn, Occupies, InSandbox
<1>6. SeveredExplained'
  <2>1. CASE active[W(a)] = NoAttempt /\ task[a] = "fetch"
    <3>1. \A b \in Attempt : task'[b] = "severed" => Follows(b, a) \/ task[b] = "severed"
      BY <2>1 DEF AgentInv, AgentTypeOK
    <3>2. flight[In(a)] = a BY <2>1 DEF AgentInv, FlightLed
    <3>3. \A b \in Attempt : Follows(b, a) => lead[b] = a
      BY <3>2 DEF AgentInv, FlightLed
    <3>4. lead' = lead /\ creq' = creq \cup {a} OBVIOUS
    <3> QED BY <3>1, <3>3, <3>4 DEF AgentInv, SeveredExplained
  <2>2. CASE ~(active[W(a)] = NoAttempt /\ task[a] = "fetch")
    <3>1. \A b \in Attempt : task'[b] = "severed" => task[b] = "severed"
      BY <2>2 DEF AgentInv, AgentTypeOK, Pc
    <3>2. lead' = lead /\ creq' = creq \cup {a} OBVIOUS
    <3> QED BY <3>1, <3>2 DEF AgentInv, SeveredExplained
  <2> QED BY <2>1, <2>2
<1>7. OutputsOwn'
  BY DEF AgentInv, AgentTypeOK, LedgerFollows, Working, OutputsOwn
<1>8. CancelExplained'
  BY DEF AgentInv, AgentTypeOK, SeveredExplained, CancelExplained
<1> QED BY <1>1, <1>2, <1>3, <1>4, <1>5, <1>6, <1>7, <1>8 DEF AgentInv

\* A checkpoint is a signal.
LEMMA CheckpointInv ==
  ASSUME AgentInv, NEW w \in Workload, Checkpoint(w) PROVE AgentInv'
<1> USE DEF Checkpoint, Signalled, Goto, At, Conclude, runtimes, sandbox, fetching
<1>1. AgentTypeOK'
  BY AgentAssumption DEF AgentInv, AgentTypeOK, Pc, Ledger, Terminal
<1>2. LedgerFollows'
  BY DEF AgentInv, AgentTypeOK, LedgerFollows, Working
<1>3. ProcessWaitedFor'
  BY DEF AgentInv, AgentTypeOK, ProcessWaitedFor
<1>4. FlightLed'
  BY AgentAssumption DEF AgentInv, AgentTypeOK, FlightLed
<1>5. SandboxOwn'
  BY DEF AgentInv, AgentTypeOK, ProcessWaitedFor, SandboxOwn, Occupies, InSandbox
<1>6. SeveredExplained'
  BY DEF AgentInv, AgentTypeOK, SeveredExplained
<1>7. OutputsOwn'
  BY DEF AgentInv, AgentTypeOK, LedgerFollows, Working, OutputsOwn
<1>8. CancelExplained'
  BY DEF AgentInv, AgentTypeOK, SeveredExplained, CancelExplained
<1> QED BY <1>1, <1>2, <1>3, <1>4, <1>5, <1>6, <1>7, <1>8 DEF AgentInv

\* So is a cancellation by workload.
LEMMA CancelWorkloadInv ==
  ASSUME AgentInv, NEW w \in Workload, CancelWorkload(w) PROVE AgentInv'
<1> USE DEF CancelWorkload, CancelRuntime, Signalled, Goto, At, Conclude, runtimes, sandbox, fetching
<1>1. AgentTypeOK'
  BY AgentAssumption DEF AgentInv, AgentTypeOK, Pc, Ledger, Terminal
<1>2. LedgerFollows'
  BY DEF AgentInv, AgentTypeOK, LedgerFollows, Working
<1>3. ProcessWaitedFor'
  BY DEF AgentInv, AgentTypeOK, ProcessWaitedFor
<1>4. FlightLed'
  BY AgentAssumption DEF AgentInv, AgentTypeOK, FlightLed
<1>5. SandboxOwn'
  BY DEF AgentInv, AgentTypeOK, ProcessWaitedFor, SandboxOwn, Occupies, InSandbox
<1>6. SeveredExplained'
  BY DEF AgentInv, AgentTypeOK, SeveredExplained
<1>7. OutputsOwn'
  BY DEF AgentInv, AgentTypeOK, LedgerFollows, Working, OutputsOwn
<1>8. CancelExplained'
  BY DEF AgentInv, AgentTypeOK, SeveredExplained, CancelExplained
<1> QED BY <1>1, <1>2, <1>3, <1>4, <1>5, <1>6, <1>7, <1>8 DEF AgentInv

-----------------------------------------------------------------------------
(* Theorems *)

\* Every step of the specification keeps the invariant.
LEMMA NextInv == ASSUME AgentInv, [Next]_vars PROVE AgentInv'
<1>1. ASSUME NEW a \in Attempt, Run(a) PROVE AgentInv'
  <2>1. CASE \E n \in 0 .. Sources : Located(a, n) BY <2>1, LocatedInv
  <2>2. CASE Begin(a) \/ Fetch(a) \/ SyncFailed(a) \/ Severed(a)
    BY <2>2, BeginInv, FetchInv, SyncFailedInv, SeveredInv
  <2>3. CASE Enter(a) \/ TakeOver(a) \/ Launch(a) \/ RunEnds(a) \/ Escalate(a)
            \/ Killed(a) \/ Ingest(a)
    BY <2>3, EnterInv, TakeOverInv, LaunchInv, RunEndsInv, EscalateInv, KilledInv, IngestInv
  <2> QED BY <1>1, <2>1, <2>2, <2>3 DEF Run
<1>2. ASSUME NEW a \in Attempt,
             Submit(a) \/ Ack(a) \/ Cancel(a) \/ CancelDone(a) \/ Timeout(a) \/ ProcessDies(a)
      PROVE  AgentInv'
  BY <1>2, SubmitInv, AckInv, CancelInv, CancelDoneInv, TimeoutInv, ProcessDiesInv
<1>3. ASSUME NEW a \in Attempt, NEW s \in {"ok", "bad"}, ProcessExit(a, s) PROVE AgentInv'
  BY <1>3, ProcessExitInv
<1>4. ASSUME NEW w \in Workload, Checkpoint(w) \/ CancelWorkload(w) PROVE AgentInv'
  BY <1>4, CheckpointInv, CancelWorkloadInv
<1>5. CASE UNCHANGED vars
  BY <1>5 DEF vars, AgentInv, AgentTypeOK, LedgerFollows, ProcessWaitedFor, FlightLed,
              SandboxOwn, SeveredExplained, OutputsOwn, CancelExplained,
              Occupies, InSandbox
<1> QED BY <1>1, <1>2, <1>3, <1>4, <1>5 DEF Next

\* The invariant holds in every reachable state of the worker, whichever
\* requests fall between the steps of its tasks.
THEOREM Invariance == Spec => []AgentInv
<1>1. AgentInv /\ [Next]_vars => AgentInv' BY NextInv
<1> QED BY <1>1, InitInv, PTL DEF Spec

\* Ledger, tasks, processes and downloads keep their types, and an entry of
\* _flights always names an attempt that is downloading: no follower waits
\* for a future that nobody resolves (run_shared, cancel_execution).
THEOREM TypesKept == Spec => []AgentTypeOK
<1>1. AgentInv => AgentTypeOK BY DEF AgentInv
<1> QED BY <1>1, Invariance, PTL

\* A subprocess that outlives its attempt's record was killed, or was asked to
\* terminate by a cancellation that then interrupted the wait for it
\* (execute_workload, runtime.cancel, cancel_execution).
THEOREM LeftoversTold == Spec => []LeftoversSignalled
<1>1. AgentInv => LeftoversSignalled
  BY DEF AgentInv, AgentTypeOK, Pc, LeftoversSignalled, Over, LedgerFollows,
        ProcessWaitedFor, Working, Terminal
<1> QED BY <1>1, Invariance, PTL

\* A successful attempt whose sandbox nobody else used, no other task and no
\* process left behind, lists its own output files and no leftovers
\* (execute_workload, cleanup_sandbox).
THEOREM OutputsOfOwnRun == Spec => []OutputsOwn
<1>1. AgentInv => OutputsOwn BY DEF AgentInv
<1> QED BY <1>1, Invariance, PTL

\* A cancelled record has a cancel request behind it, its own or that of the
\* leader of the download it was waiting for (_run_execution_record, run_shared).
THEOREM CancellationsExplained == Spec => []CancelExplained
<1>1. AgentInv => CancelExplained BY DEF AgentInv
<1> QED BY <1>1, Invariance, PTL
================================================================================
