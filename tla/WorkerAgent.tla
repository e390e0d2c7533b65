----------------------------- MODULE WorkerAgent -----------------------------
(***************************************************************************)
(* One worker process executing attempts: the execution ledger             *)
(* (DistributedWorker), input synchronisation with single-flight           *)
(* downloads, the ExecutionManager with its sandboxes and active runtimes, *)
(* and the subprocesses.  Everything runs on one event loop: a step below  *)
(* is the code between two awaits, and requests to cancel, checkpoint or   *)
(* acknowledge fall between any two steps.                                 *)
(***************************************************************************)
EXTENDS Naturals, FiniteSets

CONSTANTS
  Attempt,      \* attempt identifiers
  NoAttempt,    \* no attempt
  Workload,     \* workload identifiers; they name the sandbox directories
  WorkloadOf,   \* [Attempt -> Workload]
  Asset,        \* input assets
  InputOf,      \* [Workload -> Asset]: the input a workload needs
  Expects,      \* workloads with a positive expected_output_count
  Sources       \* bound: candidates located for an asset

ASSUME AgentAssumption ==
  /\ NoAttempt \notin Attempt /\ Expects \subseteq Workload /\ Sources \in Nat
  /\ WorkloadOf \in [Attempt -> Workload] /\ InputOf \in [Workload -> Asset]

VARIABLES
  led,      \* ledger: state of each attempt's record
  creq,     \* attempts with cancel_requested
  task,     \* where each attempt's background task is
  tries,    \* candidates a download has still to try
  proc,     \* subprocess of each attempt
  sig,      \* strongest signal sent to it
  hand,     \* runtimes a cancel request waits for in runtime.cancel()
  rcan,     \* runtimes with _cancel_requested
  ckpt,     \* runtimes with _checkpoint_requested
  active,   \* active_runtimes: attempt whose runtime is listed
  dir,      \* workloads whose sandbox directory exists
  box,      \* attempts whose output files lie in each sandbox
  outs,     \* attempts whose files a result lists as its outputs
  cas,      \* assets in the local store
  flight,   \* _flights: leader of the download of each asset
  lead,     \* leader whose download an attempt waits for, kept by an attempt
            \* that is cut off (observation)
  reached,  \* attempts whose cancellation reached process or task (observation)
  mixed     \* attempts that shared their sandbox with another attempt, or with
            \* a process another one left behind (observation)

vars == <<led, creq, task, tries, proc, sig, hand, rcan, ckpt, active, dir, box,
          outs, cas, flight, lead, reached, mixed>>

Terminal == {"succeeded", "failed", "cancelled"}
Ledger == {"none", "accepted", "running", "acked"} \cup Terminal
Pc == {"none", "new", "locate", "fetch", "follow", "synced", "unsynced",
       "severed", "abort", "launch", "run", "killing", "killed", "ingest", "done"}

W(a) == WorkloadOf[a]
In(a) == InputOf[W(a)]
InSandbox(a) == task[a] \in {"launch", "run", "killing", "killed", "ingest"}
\* The sandbox is used by a task, or by a process that outlived its task.
Occupies(a) == InSandbox(a) \/ proc[a] = "alive"

AgentTypeOK ==
  /\ led \in [Attempt -> Ledger] /\ task \in [Attempt -> Pc]
  /\ tries \in [Attempt -> 0 .. Sources]
  /\ proc \in [Attempt -> {"none", "alive", "ok", "bad"}]
  /\ sig \in [Attempt -> {"none", "term", "kill"}]
  /\ \A S \in {creq, rcan, ckpt, hand, reached, mixed} : S \subseteq Attempt
  /\ active \in [Workload -> Attempt \cup {NoAttempt}]
  /\ flight \in [Asset -> Attempt \cup {NoAttempt}]
  /\ lead \in [Attempt -> Attempt \cup {NoAttempt}]
  /\ \A h \in Asset : flight[h] # NoAttempt => task[flight[h]] = "fetch"
  /\ dir \subseteq Workload /\ cas \subseteq Asset
  /\ box \in [Workload -> SUBSET Attempt] /\ outs \in [Attempt -> SUBSET Attempt]

Init ==
  /\ led = [a \in Attempt |-> "none"] /\ task = [a \in Attempt |-> "none"]
  /\ creq = {} /\ rcan = {} /\ ckpt = {} /\ hand = {} /\ reached = {} /\ mixed = {}
  /\ tries = [a \in Attempt |-> 0] /\ outs = [a \in Attempt |-> {}]
  /\ proc = [a \in Attempt |-> "none"] /\ sig = [a \in Attempt |-> "none"]
  /\ active = [w \in Workload |-> NoAttempt] /\ box = [w \in Workload |-> {}]
  /\ dir = {} /\ cas = {} /\ flight = [h \in Asset |-> NoAttempt]
  /\ lead = [a \in Attempt |-> NoAttempt]

-----------------------------------------------------------------------------
(* The ledger *)

At(a, l) == task[a] = l
Goto(a, l) == task' = [task EXCEPT ![a] = l]

runtimes == <<proc, sig, hand, rcan, ckpt>>
sandbox  == <<active, dir, box, mixed>>
fetching == <<tries, cas, flight, lead>>

\* submit_execution: a known attempt is only reported
Submit(a) ==
  /\ led[a] = "none"
  /\ led' = [led EXCEPT ![a] = "accepted"] /\ Goto(a, "new")
  /\ UNCHANGED <<creq, runtimes, sandbox, outs, fetching, reached>>

\* mutant: any terminated runtime counts as cancelled
VerdictOfRuntime(a, ok) == IF a \in creq \cup rcan THEN "cancelled"
                           ELSE IF ok THEN "succeeded" ELSE "failed"
\* The record's last state; a requested cancellation wins over the result.
Verdict(a, ok) == IF a \in creq THEN "cancelled"
                  ELSE IF ok THEN "succeeded" ELSE "failed"
Conclude(a, v) == led' = [led EXCEPT ![a] = v] /\ Goto(a, "done")

\* ack_execution and _prune_stale_executions drop a terminal record.
Ack(a) ==
  /\ led[a] \in Terminal
  /\ led' = [led EXCEPT ![a] = "acked"]
  /\ UNCHANGED <<creq, task, runtimes, sandbox, outs, fetching, reached>>

-----------------------------------------------------------------------------
(* Input synchronisation *)

\* The wrapper starts: cancelled before it began, inputs present, or locate.
Begin(a) ==
  /\ At(a, "new")
  /\ \/ a \in creq /\ Conclude(a, "cancelled")
     \/ /\ a \notin creq /\ led' = [led EXCEPT ![a] = "running"]
        /\ Goto(a, IF In(a) \in cas THEN "synced" ELSE "locate")
  /\ UNCHANGED <<creq, runtimes, sandbox, outs, fetching, reached>>

\* The coordinator answers: an error, no source, or sources; then lead the
\* download of the asset or join the one under way.
Located(a, n) ==
  /\ At(a, "locate")
  /\ IF n = 0 THEN Goto(a, "unsynced") /\ UNCHANGED <<tries, flight, lead>>
     ELSE IF flight[In(a)] = NoAttempt
          THEN /\ Goto(a, "fetch") /\ tries' = [tries EXCEPT ![a] = n]
               /\ flight' = [flight EXCEPT ![In(a)] = a] /\ UNCHANGED lead
          ELSE /\ Goto(a, "follow") /\ lead' = [lead EXCEPT ![a] = flight[In(a)]]
               /\ UNCHANGED <<tries, flight>>
  /\ UNCHANGED <<led, creq, runtimes, sandbox, outs, cas, reached>>

Follows(b, a) == task[b] = "follow" /\ In(b) = In(a)

\* mutant: the future is resolved for the leader only
LandAlone(a, l) ==
  /\ flight' = [flight EXCEPT ![In(a)] = NoAttempt]
  /\ task' = [task EXCEPT ![a] = l] /\ UNCHANGED lead
\* The flight lands: its leader and its followers get the same outcome.
Land(a, l) ==
  /\ flight' = [flight EXCEPT ![In(a)] = NoAttempt]
  /\ task' = [b \in Attempt |-> IF b = a \/ Follows(b, a) THEN l ELSE task[b]]
  /\ lead' = [b \in Attempt |-> IF Follows(b, a) THEN NoAttempt ELSE lead[b]]

\* The staged file has the right digest and moves into the store.
Committed(a) ==
  /\ cas' = cas \cup {In(a)} /\ Land(a, "synced")
  /\ tries' = [tries EXCEPT ![a] = 0]
\* A source that fails to answer, to finish or to verify leaves no staging file.
SourceFails(a) ==
  /\ In(a) \notin cas /\ tries' = [tries EXCEPT ![a] = @ - 1]
  /\ IF tries[a] = 1 THEN Land(a, "unsynced") ELSE UNCHANGED <<task, flight, lead>>
  /\ UNCHANGED cas
\* Try the sources in turn; the last one that fails ends the download.
Fetch(a) ==
  /\ At(a, "fetch") /\ (Committed(a) \/ SourceFails(a))
  /\ UNCHANGED <<led, creq, runtimes, sandbox, outs, reached>>

SyncFailed(a) ==
  /\ At(a, "unsynced")
  /\ Conclude(a, "failed")
  /\ UNCHANGED <<creq, runtimes, sandbox, outs, fetching, reached>>

\* A follower whose leader was cancelled is cancelled too.
Severed(a) ==
  /\ At(a, "severed")
  /\ Conclude(a, "cancelled")
  /\ UNCHANGED <<creq, runtimes, sandbox, outs, fetching, reached>>

-----------------------------------------------------------------------------
(* ExecutionManager.execute_workload *)

\* terminate a running subprocess; nothing happens when there is none
Signalled(a, s) ==
  [sig EXCEPT ![a] = IF proc[a] = "alive" /\ @ # "kill" THEN s ELSE @]

\* mutant: the files of an earlier execution stay in the sandbox
IsolateDirty(a) ==
  /\ dir' = dir \cup {W(a)} /\ UNCHANGED box
\* The sandbox is wiped and created anew.
Isolate(a) ==
  /\ dir' = dir \cup {W(a)} /\ box' = [box EXCEPT ![W(a)] = {}]

\* Wipe the sandbox, stage the inputs and list the runtime; a workspace or a
\* dependency that cannot be staged ends the attempt.
Prepare(a) ==
  LET others == {b \in Attempt \ {a} : W(b) = W(a) /\ Occupies(b)}
  IN \/ /\ Isolate(a)
        /\ active' = [active EXCEPT ![W(a)] = a] /\ Goto(a, "launch")
        /\ mixed' = IF others = {} THEN mixed ELSE mixed \cup others \cup {a}
        /\ UNCHANGED led
     \/ /\ Isolate(a) /\ Conclude(a, Verdict(a, FALSE))
        /\ mixed' = mixed \cup others
        /\ UNCHANGED active

\* An execution of the same workload that is still listed is told to
\* checkpoint, and half a second later its sandbox is taken over.
Enter(a) ==
  /\ At(a, "synced")
  /\ LET b == active[W(a)]
     IN IF b = NoAttempt THEN Prepare(a) /\ UNCHANGED <<sig, ckpt>>
        ELSE /\ ckpt' = ckpt \cup {b} /\ sig' = Signalled(b, "term")
             /\ Goto(a, "abort") /\ UNCHANGED <<led, sandbox>>
  /\ UNCHANGED <<creq, proc, hand, rcan, outs, fetching, reached>>

TakeOver(a) ==
  /\ At(a, "abort") /\ Prepare(a)
  /\ UNCHANGED <<creq, runtimes, outs, fetching, reached>>

\* create_subprocess_exec: started, or the executable cannot be run
Launch(a) ==
  /\ At(a, "launch") /\ Goto(a, "run")
  /\ \E s \in {"alive", "bad"} : proc' = [proc EXCEPT ![a] = s]
  /\ UNCHANGED <<led, creq, sig, hand, rcan, ckpt, sandbox, outs, fetching, reached>>

\* The process writes its outputs, if its directory is still there, and ends.
ProcessExit(a, s) ==
  /\ proc[a] = "alive"
  /\ proc' = [proc EXCEPT ![a] = s] /\ sig' = [sig EXCEPT ![a] = "none"]
  /\ box' = IF W(a) \in dir THEN [box EXCEPT ![W(a)] = @ \cup {a}] ELSE box
  /\ UNCHANGED <<led, creq, task, hand, rcan, ckpt, active, dir, outs, fetching,
                 reached, mixed>>
\* A signalled process ends without finishing its outputs.
ProcessDies(a) ==
  /\ proc[a] = "alive" /\ sig[a] # "none"
  /\ proc' = [proc EXCEPT ![a] = "bad"] /\ sig' = [sig EXCEPT ![a] = "none"]
  /\ UNCHANGED <<led, creq, task, hand, rcan, ckpt, sandbox, outs, fetching, reached>>

\* active_runtimes.pop(workload_id), whoever is listed there
Unlisted(a) == [active EXCEPT ![W(a)] = NoAttempt]
\* cleanup_sandbox and the return of a result
Cleaned(a, ok) ==
  /\ dir' = dir \ {W(a)} /\ box' = [box EXCEPT ![W(a)] = {}]
  /\ Conclude(a, Verdict(a, ok))
  /\ mixed' = mixed \cup {b \in Attempt \ {a} : W(b) = W(a) /\ InSandbox(b)}

\* What communicate() returns: exit code 0 or a checkpoint, and no
\* cancellation; a checkpoint no runtime supports is a failure.
RunSucceeded(a) == proc[a] = "ok" /\ a \notin ckpt /\ a \notin rcan

RunEnds(a) ==
  /\ At(a, "run") /\ proc[a] \in {"ok", "bad"}
  /\ active' = Unlisted(a)
  /\ IF RunSucceeded(a) THEN Goto(a, "ingest") /\ UNCHANGED <<led, dir, box, mixed>>
                        ELSE Cleaned(a, FALSE)
  /\ UNCHANGED <<creq, runtimes, outs, fetching, reached>>

\* timeout_seconds is over: runtime.cancel() asks the process to terminate.
Timeout(a) ==
  /\ task[a] \in {"launch", "run"}
  /\ rcan' = rcan \cup {a} /\ sig' = Signalled(a, "term") /\ Goto(a, "killing")
  /\ UNCHANGED <<led, creq, proc, hand, ckpt, sandbox, outs, fetching, reached>>

\* mutant: the five seconds are over and nothing stronger is sent
TerminatedAgain(a) == Signalled(a, "term")
\* runtime.cancel() after five seconds: the process tree is killed.
Escalated(a) == Signalled(a, "kill")
Escalate(a) ==
  /\ At(a, "killing") /\ proc[a] = "alive"
  /\ sig' = Escalated(a) /\ Goto(a, "killed")
  /\ UNCHANGED <<led, creq, proc, hand, rcan, ckpt, sandbox, outs, fetching, reached>>

\* runtime.cancel() returns: there was no process, it ended in time, or the
\* second after the kill is over and nobody waits for it any longer.
Killed(a) ==
  /\ (At(a, "killing") /\ proc[a] # "alive") \/ At(a, "killed")
  /\ active' = Unlisted(a) /\ Cleaned(a, FALSE)
  /\ UNCHANGED <<creq, runtimes, outs, fetching, reached>>

\* Store the output files, check their number, clean up.  The store may fail.
Ingest(a) ==
  /\ At(a, "ingest")
  /\ \E stored \in BOOLEAN :
       LET found == IF stored THEN box[W(a)] ELSE {}
           ok == stored /\ (W(a) \in Expects => found # {})
       IN outs' = [outs EXCEPT ![a] = found] /\ Cleaned(a, ok)
  /\ UNCHANGED <<creq, runtimes, active, fetching, reached>>

-----------------------------------------------------------------------------
(* Requests *)

\* checkpoint_workload: whichever runtime is listed is told to stop.
Checkpoint(w) ==
  LET b == active[w]
  IN /\ b # NoAttempt /\ b \notin ckpt
     /\ ckpt' = ckpt \cup {b} /\ sig' = Signalled(b, "term")
     /\ UNCHANGED <<led, creq, task, proc, hand, rcan, sandbox, outs, fetching, reached>>

\* mutant: the entry of a cancelled flight stays
StillFlying(a) == flight
\* A flight that ends removes its entry.
Grounded(a) == [flight EXCEPT ![In(a)] = NoAttempt]
\* task.cancel(): the wrapper turns it into a cancelled record, except that a
\* task that has not run its first step never enters the wrapper.  A process
\* is terminated first; a second cancellation interrupts the wait for it.
CancelTask(a) ==
  CASE task[a] = "new" ->
         Goto(a, "done") /\ UNCHANGED <<led, sig, rcan, flight, active>>
    [] task[a] \in {"launch", "run"} ->
         /\ Goto(a, "killing") /\ rcan' = rcan \cup {a}
         /\ sig' = Signalled(a, "term") /\ UNCHANGED <<led, flight, active>>
    [] task[a] \in {"killing", "killed"} ->
         /\ Conclude(a, "cancelled") /\ active' = Unlisted(a)
         /\ UNCHANGED <<sig, rcan, flight>>
    [] task[a] = "fetch" ->
         /\ flight' = Grounded(a)
         /\ task' = [b \in Attempt |-> IF b = a THEN "done"
              ELSE IF Follows(b, a) THEN "severed" ELSE task[b]]
         /\ led' = [led EXCEPT ![a] = "cancelled"]
         /\ UNCHANGED <<sig, rcan, active>>
    [] task[a] \in {"locate", "follow", "synced", "unsynced", "severed",
                    "abort", "ingest"} ->
         Conclude(a, "cancelled") /\ UNCHANGED <<sig, rcan, flight, active>>
    [] OTHER -> UNCHANGED <<led, task, sig, rcan, flight, active>>

\* mutant: nothing is cancelled while no runtime is listed
CancelTaskNever(a) == UNCHANGED <<led, task, sig, rcan, flight, active>>
CancelUnlisted(a) == CancelTask(a)

\* ExecutionManager.cancel_workload: the listed runtime is asked to terminate
\* its process, and the request waits for the process if there is one.
CancelRuntime(b) ==
  /\ rcan' = rcan \cup {b} /\ sig' = Signalled(b, "term")
  /\ hand' = IF proc[b] = "alive" THEN hand \cup {b} ELSE hand

\* cancel_execution: first the runtime listed under the workload, which may
\* be another attempt's or have no process yet, otherwise the task.
Cancel(a) ==
  LET b == active[W(a)]
  IN /\ led[a] \in {"accepted", "running"} /\ creq' = creq \cup {a}
     /\ IF b = NoAttempt THEN CancelUnlisted(a) /\ UNCHANGED hand
        ELSE CancelRuntime(b) /\ UNCHANGED <<led, task, flight, active>>
     /\ reached' = IF \/ b = NoAttempt /\ task[a] \notin {"new", "done"}
                      \/ b = a /\ proc[a] # "none"
                   THEN reached \cup {a} ELSE reached
     /\ UNCHANGED <<proc, ckpt, dir, box, mixed, outs, tries, cas, lead>>

\* cancel_workload: by workload, without a cancel request for an attempt
CancelWorkload(w) ==
  /\ active[w] # NoAttempt /\ CancelRuntime(active[w])
  /\ UNCHANGED <<led, creq, task, proc, ckpt, sandbox, outs, fetching, reached>>

\* The request's runtime.cancel(): the process ended, or it is killed.
CancelDone(a) ==
  /\ a \in hand /\ hand' = hand \ {a} /\ sig' = Signalled(a, "kill")
  /\ UNCHANGED <<led, creq, task, proc, rcan, ckpt, sandbox, outs, fetching, reached>>

-----------------------------------------------------------------------------
Run(a) == \/ Begin(a) \/ (\E n \in 0 .. Sources : Located(a, n)) \/ Fetch(a)
          \/ SyncFailed(a) \/ Severed(a) \/ Enter(a) \/ TakeOver(a)
          \/ Launch(a) \/ RunEnds(a) \/ Escalate(a) \/ Killed(a) \/ Ingest(a)

Next ==
  \/ \E a \in Attempt :
       \/ Submit(a) \/ Ack(a) \/ Cancel(a) \/ CancelDone(a) \/ Run(a) \/ Timeout(a)
       \/ ProcessDies(a) \/ \E s \in {"ok", "bad"} : ProcessExit(a, s)
  \/ \E w \in Workload : Checkpoint(w) \/ CancelWorkload(w)

\* The event loop runs every task and every request handler, HTTP calls and
\* the waits of runtime.cancel() are bounded, and a killed process dies.  A
\* process may otherwise run for ever or ignore a request to terminate, and
\* nobody is obliged to submit, cancel or acknowledge.
Fairness ==
  \A a \in Attempt : WF_vars(Run(a)) /\ WF_vars(CancelDone(a))
                     /\ WF_vars(sig[a] = "kill" /\ ProcessDies(a))

Spec == Init /\ [][Next]_vars /\ Fairness

-----------------------------------------------------------------------------
(* Properties *)

Over(a) == led[a] \in Terminal \cup {"acked"}

\* A process that outlives its attempt's record has been told to stop: it was
\* killed, unless a cancellation of the attempt interrupted the wait after the
\* request to terminate (execute_workload, runtime.cancel).
LeftoversSignalled ==
  \A a \in Attempt : Over(a) /\ proc[a] = "alive" =>
    sig[a] = "kill" \/ (a \in creq /\ sig[a] = "term")

\* A successful attempt reports its own outputs, and nothing left over by an
\* earlier attempt of the workload, also one that was cancelled while its
\* outputs were stored.  An attempt whose sandbox another attempt of the
\* workload, or a process left behind by one, uses at the same time is exempt:
\* it may list the files of that one.
OutputsOwn ==
  \A a \in Attempt :
    led[a] = "succeeded" /\ a \notin mixed => outs[a] = {a}

\* An attempt ends cancelled only when its own cancellation was requested, or
\* when that of the very attempt was requested whose download it was waiting
\* for when it was cut off (_run_execution_record, run_shared).
CancelExplained ==
  \A a \in Attempt : led[a] = "cancelled" => a \in creq \/ lead[a] \in creq

\* A cancellation that reaches the attempt's own process, or a task that has
\* begun, ends the attempt, whatever else is requested meanwhile and even if
\* the process ignores the request to terminate (cancel_execution, cancel).
CancelTakesEffect == \A a \in Attempt : (a \in reached) ~> Over(a)

\* Every other attempt of the same asset goes on: nobody waits for a download
\* that is over.
FollowersLand ==
  \A a \in Attempt : (task[a] \in {"locate", "fetch", "follow"})
                       ~> (task[a] \notin {"locate", "fetch", "follow"})

-----------------------------------------------------------------------------
(* What the repository says of cancellation and the code does not keep *)

\* An attempt whose cancellation was requested ends, and its process with it
\* (comment in cancel_execution, docstrings of cancel_workload and of
\* runtime.cancel).  It does not when its task has not run its first step, when
\* the listed runtime has no process yet or belongs to another attempt, and
\* when the request interrupts a wait for the process that is not yet killed.
CancelStops ==
  \A a \in Attempt : (a \in creq) ~> (Over(a) /\ proc[a] # "alive")
==============================================================================
