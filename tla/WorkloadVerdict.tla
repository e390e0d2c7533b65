--------------------------- MODULE WorkloadVerdict ---------------------------
(***************************************************************************)
(* What the orchestrator promises a client about its workloads, with no    *)
(* attempts, workers, retries or crashes in sight: a workload is opened,   *)
(* may succeed once everything it depends on has, and is closed once, with *)
(* a verdict that is final and says COMPLETED only if it succeeded.        *)
(***************************************************************************)
EXTENDS Sequences

CONSTANTS
  Workloads,    \* workload ids
  DependsOn     \* [Workloads -> Seq(Workloads)]

VARIABLES
  phase,        \* "absent", "open" or the verdict
  succeeded     \* workloads that have run successfully

vars == <<phase, succeeded>>

Verdict == {"COMPLETED", "FAILED", "UNSCHEDULABLE", "CANCELLED"}

Init ==
  /\ phase = [w \in Workloads |-> "absent"]
  /\ succeeded = {}

Open(w) ==
  /\ phase[w] = "absent"
  /\ phase' = [phase EXCEPT ![w] = "open"]
  /\ UNCHANGED succeeded

\* w runs to success.  Nobody may have waited for it: it can be closed.
Run(w) ==
  /\ phase[w] # "absent"
  /\ \A i \in DOMAIN DependsOn[w] : DependsOn[w][i] \in succeeded
  /\ succeeded' = succeeded \cup {w}
  /\ UNCHANGED phase

\* Some open workloads get their verdicts, several at once when one failure
\* takes its dependents with it or a crash cuts short what was left to do.
Close ==
  /\ phase' \in [Workloads -> {"absent", "open"} \cup Verdict]
  /\ \A w \in Workloads :
       phase'[w] # phase[w] => phase[w] = "open" /\ phase'[w] \in Verdict
  /\ \A w \in Workloads :
       phase[w] = "open" /\ phase'[w] = "COMPLETED" => w \in succeeded
  /\ UNCHANGED succeeded

Next == (\E w \in Workloads : Open(w) \/ Run(w)) \/ Close

Spec == Init /\ [][Next]_vars
===============================================================================
