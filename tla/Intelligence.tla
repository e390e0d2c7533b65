---------------------------- MODULE Intelligence ----------------------------
(***************************************************************************)
(* The advisory layers: what the coordinator remembers of attempts and     *)
(* workers and what it concludes.  m12 projects the ledgers into validated *)
(* observations, replays them into m7's moving averages and answers        *)
(* queries; m7 turns a worker's averages into a behaviour, a prediction    *)
(* and a risk.  Ratios are in ten-thousandths, averages of durations are   *)
(* fractions <<numerator, denominator>>.                                   *)
(***************************************************************************)
EXTENDS Integers, Sequences, FiniteSets, SequencesExt, TLC, Trial

Whole == 10000
Clamp(low, x, high) == IF x < low THEN low ELSE IF x > high THEN high ELSE x
Null == -1

-----------------------------------------------------------------------------
(* Observations.  An attempt is [number, id, task, known, status, times,   *)
(* worker, result, reason]; times are the queued, assigned, started and finished   *)
(* times, Null where there is none, and identifiers are attempt numbers.   *)

Now == 9
ValidTimestamp(t) == 0 < t /\ t <= Now
NoResult == [success |-> FALSE, duration |-> Null, worker |-> TRUE, checkpointed |-> FALSE]
Terminal == {"succeeded", "failed", "lost"}

\* The times in the order they must come, those missing left out.
TimelineErrors(times) ==
  LET step(s, t) == IF t = Null THEN s
                    ELSE IF ~ValidTimestamp(t) THEN [s EXCEPT !.errors = @ \cup {"timestamp"}]
                    ELSE IF t < s.previous THEN [s EXCEPT !.errors = @ \cup {"order"}]
                    ELSE [s EXCEPT !.previous = t]
      start == [previous |-> IF ValidTimestamp(times[1]) THEN times[1] ELSE Null,
                errors |-> IF ValidTimestamp(times[1]) THEN {} ELSE {"queued"}]
  IN FoldLeft(step, start, Tail(times)).errors
IdentityErrors(a, ledger) ==
  {e \in {"no spec", "mismatch", "duplicate"} :
     \/ e = "no spec" /\ ~a.known
     \/ e = "mismatch" /\ a.id # a.number
     \/ e = "duplicate" /\ \E i, j \in DOMAIN ledger : i # j /\ ledger[i].id = a.id /\ ledger[j].id = a.id}
\* mutant: a lost attempt counts as an observed failure
OutcomeOfLost(a) ==
  CASE a.status \in {"lost", "failed"} -> "FAILURE"
    [] a.status = "succeeded" /\ a.result.success ->
         IF a.result.checkpointed THEN "CHECKPOINTED" ELSE "SUCCESS"
    [] OTHER -> "INCOMPLETE"
Outcome(a) ==
  CASE a.status = "lost" -> "LOST"
    [] a.status = "failed" -> "FAILURE"
    [] a.status = "succeeded" /\ a.result.success ->
         IF a.result.checkpointed THEN "CHECKPOINTED" ELSE "SUCCESS"
    [] OTHER -> "INCOMPLETE"
ResultErrors(a) ==
  LET r == a.result
  IN {e \in {"unfinished", "worker", "duration", "missing", "contradicts", "no evidence"} :
        \/ e = "unfinished" /\ a.status \in Terminal /\ a.times[4] = Null
        \/ e = "worker" /\ a.status \in Terminal /\ ~a.worker
        \/ e = "worker" /\ r # NoResult /\ a.worker /\ ~r.worker
        \/ e = "duration" /\ r # NoResult /\ r.duration < 0
        \/ e = "duration" /\ Outcome(a) = "SUCCESS" /\ r.duration <= 0
        \/ e = "missing" /\ a.status = "succeeded" /\ r = NoResult
        \/ e = "contradicts" /\ r # NoResult /\ (\/ a.status = "lost"
                                                 \/ a.status = "succeeded" /\ ~r.success
                                                 \/ a.status = "failed" /\ r.success)
        \/ e = "no evidence" /\ a.status = "failed" /\ ~a.reason /\ r = NoResult}
ProjectOne(a, ledger) ==
  LET errors == TimelineErrors(a.times) \cup IdentityErrors(a, ledger) \cup ResultErrors(a)
  IN [id |-> a.id, task |-> a.task, outcome |-> Outcome(a),
      duration |-> a.result.duration,
      finished |-> IF ValidTimestamp(a.times[4]) THEN a.times[4] ELSE 0,
      quality |-> IF errors # {} THEN "INVALID"
                  ELSE IF Outcome(a) \in {"SUCCESS", "FAILURE"} THEN "VALID" ELSE "CENSORED"]
Project(ledger) == [i \in DOMAIN ledger |-> ProjectOne(ledger[i], ledger)]
Usable(o) == o.quality = "VALID" /\ o.outcome \in {"SUCCESS", "FAILURE"}

-----------------------------------------------------------------------------
(* The moving averages *)

NoAverage == <<0, 0>>
\* alpha in tenths; the first sample is taken as it is.
EmaUpdate(avg, alpha, x) ==
  IF avg = NoAverage THEN <<x, 1>>
  ELSE <<alpha * x * avg[2] + (10 - alpha) * avg[1], 10 * avg[2]>>
NoMemory == [duration |-> NoAverage, failure |-> NoAverage, events |-> {}]
IngestWorkloadResult(memory, o) ==
  IF o.id \in memory.events THEN memory
  ELSE [duration |-> IF o.outcome = "SUCCESS" /\ o.duration > 0
                     THEN EmaUpdate(memory.duration, 2, o.duration) ELSE memory.duration,
        failure |-> EmaUpdate(memory.failure, 1, IF o.outcome = "FAILURE" THEN 1 ELSE 0),
        events |-> memory.events \cup {o.id}]
ReplayOne(memory, o) ==
  IF ~Usable(o) THEN memory
  ELSE [memory EXCEPT ![o.task] = IngestWorkloadResult(@, o)]

Tasks == {"render", "train"}
EmptyMemory == [t \in Tasks |-> NoMemory]
FinishOrder(o, p) == o.finished < p.finished \/ (o.finished = p.finished /\ o.id < p.id)
RebuildHistory(ledger) ==
  LET observations == Project(ledger)
  IN [observations |-> ToSet(observations),
      memory |-> FoldLeft(ReplayOne, EmptyMemory, SortSeq(observations, FinishOrder))]
\* One attempt turned terminal: a repetition is ignored, a contradiction is
\* kept as invalid and not replayed.
ObserveAttempt(service, a, ledger) ==
  LET o == ProjectOne(a, ledger)
      previous == {p \in service.observations : p.id = o.id}
      seen == IF previous = {} THEN o ELSE [o EXCEPT !.quality = "INVALID"]
  IN IF ~a.known \/ a.status \notin Terminal \/ o \in previous THEN service
     ELSE [observations |-> (service.observations \ previous) \cup {seen},
           memory |-> ReplayOne(service.memory, seen)]
Started == [observations |-> {}, memory |-> EmptyMemory]
Live(ledger) == FoldLeft(LAMBDA s, a : ObserveAttempt(s, a, ledger), Started, ledger)

-----------------------------------------------------------------------------
(* Queries over the observations *)

MinSamples == 3
AnomalyBaseline == 5
SortedValues(s) == SortSeq(s, LAMBDA x, y : x <= y)
\* Twice the median, so that it stays an integer.
Median2(s) ==
  LET v == SortedValues(s)
      n == Len(v)
  IN IF n % 2 = 1 THEN 2 * v[(n + 1) \div 2] ELSE v[n \div 2] + v[n \div 2 + 1]
Successes(rows) == SelectSeq(rows, LAMBDA o : o.outcome = "SUCCESS" /\ o.duration > 0)
Durations(rows) == [i \in DOMAIN Successes(rows) |-> Successes(rows)[i].duration]
Failures(rows) == Len(SelectSeq(rows, LAMBDA o : o.outcome = "FAILURE"))
Confidence(n) == IF n >= 10 THEN "HIGH" ELSE IF n >= 5 THEN "MEDIUM"
                 ELSE IF n >= 3 THEN "LOW" ELSE "UNKNOWN"
\* The rows of the same request class when there are enough, else all.
DurationEstimate(rows, class, declared) ==
  LET same == SelectSeq(rows, LAMBDA o : o.class = class)
      used == Durations(IF Len(same) >= MinSamples THEN same ELSE rows)
  IN IF Len(used) >= MinSamples
     THEN [kind |-> "PREDICTED", median2 |-> Median2(used), count |-> Len(used), confidence |-> Confidence(Len(used))]
     ELSE [kind |-> IF declared = Null THEN "INSUFFICIENT_DATA" ELSE "DECLARED_FALLBACK",
           median2 |-> Null, count |-> Len(used), confidence |-> "UNKNOWN"]
FailureEstimate(rows) ==
  [known |-> Len(rows) >= MinSamples, failures |-> Failures(rows), count |-> Len(rows)]
BehaviorLabels(rows) ==
  LET d == Durations(rows)
      median2 == IF Len(d) >= 5 THEN Median2(d) ELSE Null
      deviation == [i \in DOMAIN d |-> IF 2 * d[i] > median2 THEN 2 * d[i] - median2 ELSE median2 - 2 * d[i]]
  IN IF Len(rows) < 5 THEN {}
     ELSE {l \in {"LONG_RUNNING", "SHORT_RUNNING", "FAILURE_PRONE", "STABLE"} :
             \/ l = "LONG_RUNNING" /\ median2 >= 120
             \/ l = "SHORT_RUNNING" /\ median2 # Null /\ median2 <= 10
             \/ l = "FAILURE_PRONE" /\ 10 * Failures(rows) >= 3 * Len(rows)
             \/ /\ l = "STABLE" /\ Len(rows) >= 10 /\ 20 * Failures(rows) <= Len(rows)
                /\ median2 > 0 /\ 5 * Median2(deviation) <= 2 * median2}
\* Each row is compared with the rows of its task met before.
FindAnomalies(rows) ==
  LET step(s, o) ==
        LET before == s.history[o.task]
            d == Durations(before)
            rare == /\ o.outcome = "FAILURE" /\ Len(before) >= 10
                    /\ \A j \in DOMAIN before : before[j].outcome = "SUCCESS"
            deviates == /\ o.outcome = "SUCCESS" /\ Len(d) >= AnomalyBaseline
                        /\ 4 * o.duration >= 3 * Median2(d) \/ 4 * o.duration <= Median2(d)
        IN [history |-> [s.history EXCEPT ![o.task] = Append(@, o)],
            found |-> IF rare \/ deviates THEN Append(s.found, o) ELSE s.found]
  IN FoldLeft(step, [history |-> [t \in Tasks |-> <<>>], found |-> <<>>], SelectSeq(rows, Usable)).found

\* What the queue asks for against what the workers last reported.
CapacityView(c) ==
  LET enough == c.arrivals + c.completions >= MinSamples /\ c.outcomes >= MinSamples
      pressure == IF c.fresh = 0 THEN "UNKNOWN"
                  ELSE IF c.asked > c.fresh * c.offered THEN "HIGH" ELSE "NORMAL"
  IN [pressure |-> pressure,
      quality |-> IF c.workers > 0 /\ c.fresh = 0 THEN "STALE"
                  ELSE IF enough THEN "VALID" ELSE "INSUFFICIENT_HISTORY",
      recommendation |-> IF pressure = "HIGH" \/ (enough /\ c.arrivals > c.completions) THEN "ADD_CAPACITY"
                         ELSE IF ~enough \/ pressure = "UNKNOWN" THEN "MONITOR" ELSE "STABLE"]

-----------------------------------------------------------------------------
(* What a worker's averages make of it *)

NoTelemetry == [cpu |-> Null, ram |-> Null, latency |-> Null, failure |-> Null]
\* alpha in hundredths
RatioEma(avg, alpha, x) == IF avg = Null THEN x ELSE (alpha * x + (100 - alpha) * avg) \div 100
IngestWorkerMetrics(m, cpu, ram, latency, failed) ==
  [cpu |-> RatioEma(m.cpu, 15, cpu), ram |-> RatioEma(m.ram, 15, ram),
   latency |-> RatioEma(m.latency, 30, latency), failure |-> RatioEma(m.failure, 10, IF failed THEN Whole ELSE 0)]
\* A heartbeat records what is free as what is used.
OnWorkerHeartbeat(m, p, failed, latency) ==
  IngestWorkerMetrics(m, Clamp(0, Whole - p.load, Whole),
                      IF p.ramTotal > 0 THEN (p.ramFree * Whole) \div p.ramTotal ELSE p.ramFree * Whole,
                      latency, failed)

ExtractWorkerFeatures(p, m) ==
  [cpu |-> IF m = NoTelemetry THEN Clamp(0, Whole - p.load, Whole) ELSE Clamp(0, Whole - m.cpu, Whole),
   ram |-> IF m = NoTelemetry THEN (p.ramFree * Whole) \div (IF p.ramTotal > 0 THEN p.ramTotal ELSE 1)
           ELSE Clamp(0, Whole - m.ram, Whole),
   failure |-> IF m = NoTelemetry THEN 0 ELSE Clamp(0, m.failure, Whole),
   latency |-> IF m = NoTelemetry THEN 0 ELSE Clamp(0, 10 * m.latency, Whole),
   gpu |-> p.gpu, cached |-> p.cached]
Behavior(state, confidence) == [state |-> state, confidence |-> confidence]
InferWorkerBehavior(f) ==
  IF f.cpu < 1500 /\ f.ram < 1500
  THEN LET most == IF f.cpu > f.ram THEN f.cpu ELSE f.ram
       IN Behavior("overloaded", Clamp(5000, Whole - (most * Whole) \div 1500, Whole))
  ELSE IF f.failure > 3000 THEN Behavior("erratic", Clamp(0, 2 * f.failure, Whole))
  ELSE IF f.latency > 7000 THEN Behavior("degraded", f.latency)
  ELSE Behavior("stable", Clamp(1000, Whole - f.failure, Whole))
ExtractWorkloadFeatures(w) ==
  [cpu |-> Clamp(0, w.cpu, Whole), ram |-> Clamp(0, w.ram, Whole), gpu |-> w.gpu,
   deps |-> Clamp(0, w.inputs * 100, Whole)]
InferWorkloadBehavior(f) ==
  LET dominance(x, y) == Clamp(5000, (x * 2000) \div (IF y = 0 THEN 100 ELSE y), Whole)
  IN IF f.gpu THEN Behavior("gpu_bound", 9000)
     ELSE IF f.deps > 5000 THEN Behavior("io_bound", f.deps)
     ELSE IF 2 * f.cpu > 3 * f.ram /\ f.cpu > 1000 THEN Behavior("cpu_bound", dominance(f.cpu, f.ram))
     ELSE IF 2 * f.ram > 3 * f.cpu /\ f.ram > 1000 THEN Behavior("memory_bound", dominance(f.ram, f.cpu))
     ELSE Behavior("mixed", 6000)
\* history is the workload type's [duration, ram, failure], or Null parts
Predict(f, wb, lb, history) ==
  LET base == IF history.failure > f.failure THEN history.failure ELSE f.failure
      short == Clamp(0, base + (IF lb.state = "memory_bound" /\ f.ram < 2000 THEN 3000 ELSE 0), Whole)
      unfit == Clamp(0, short + (IF lb.state = "gpu_bound" /\ ~f.gpu THEN 9000 ELSE 0), Whole)
      state == CASE wb.state = "erratic" -> 4000 [] wb.state = "overloaded" -> 5000 [] OTHER -> 0
      duration == IF history.duration = Null THEN 10 ELSE history.duration
  IN [failure |-> Clamp(0, unfit + state, Whole),
      duration |-> CASE lb.state = "cpu_bound" -> (duration * Whole) \div (IF f.cpu > 1000 THEN f.cpu ELSE 1000)
                     [] lb.state = "io_bound" -> (duration * (2 * Whole - f.cached)) \div (2 * Whole)
                     [] OTHER -> duration,
      ram |-> LET r == IF history.duration = Null THEN 100 ELSE history.ram
              IN IF lb.state = "memory_bound" THEN (12 * r) \div 10 ELSE r,
      confidence |-> IF history.duration = Null THEN 3000
                     ELSE (wb.confidence * lb.confidence) \div Whole]
\* mutant: the parts of the risk are added up, not weighed
RiskUnweighted(failure, doubt, exhaustion, late) == failure + doubt + exhaustion + late
CalculateRisk(failure, doubt, exhaustion, late) ==
  Clamp(0, (4 * failure + 2 * doubt + 3 * exhaustion + late) \div 10, Whole)
EvaluateRisk(prediction, ramFree, deadline) ==
  LET exhaustion == IF ramFree = 0 THEN 0
                    ELSE IF 10 * prediction.ram > 9 * ramFree THEN 8000
                    ELSE IF 10 * prediction.ram > 7 * ramFree THEN 4000 ELSE 0
      late == IF deadline = 0 THEN 0
              ELSE IF prediction.duration > deadline THEN Whole
              ELSE IF 10 * prediction.duration > 8 * deadline THEN 5000 ELSE 0
  IN CalculateRisk(prediction.failure, Whole - prediction.confidence, exhaustion, late)
\* The soft deadline is half again the declared duration.
EvaluateCandidateRisk(w, p, m, history) ==
  LET f == ExtractWorkerFeatures(p, m)
      prediction == Predict(f, InferWorkerBehavior(f), InferWorkloadBehavior(ExtractWorkloadFeatures(w)), history)
  IN [risk |-> EvaluateRisk(prediction, p.ramFree, (3 * w.estimate) \div 2), prediction |-> prediction]

\* Placement weights in hundredths, and what they are divided by.
EvaluateEnvironment(latency, failure) ==
  LET far == latency > 200
      unstable == failure > 1000
      compute == IF far THEN 20 ELSE 35
      w == [compute |-> IF unstable THEN Clamp(5, compute - 15, 100) ELSE compute,
            locality |-> IF far THEN 40 ELSE 20, network |-> IF far THEN 10 ELSE 15,
            risk |-> IF unstable THEN 40 ELSE 15, queue |-> IF unstable THEN 5 ELSE 15]
  IN [weights |-> w, total |-> w.compute + w.locality + w.network + w.risk + w.queue]

\* How far an execution strays from its prediction; ratios in hundredths.
DetectAnomaly(expected, duration, ram, persistence) ==
  LET slow == IF expected.duration > 0 THEN (100 * duration) \div expected.duration ELSE 100
      large == IF expected.ram > 0 THEN (100 * ram) \div expected.ram ELSE 100
      deviation == LET d == IF slow > 150 THEN Clamp(0, (slow - 150) * 50, Whole) ELSE 0
                       r == IF large > 120 THEN Clamp(0, (large - 120) * 100, Whole) ELSE 0
                   IN IF d > r THEN d ELSE r
      persisting == (3 * deviation + 7 * persistence) \div 10
  IN [deviation |-> deviation, persistence |-> persisting,
      severity |-> (((4 * deviation + 6 * persisting) \div 10) * expected.confidence) \div Whole]

-----------------------------------------------------------------------------
(* The inputs *)

Executed(success, duration, worker, checkpointed) ==
  [success |-> success, duration |-> duration, worker |-> worker, checkpointed |-> checkpointed]
Shape(status, result, reason, known, started) ==
  [status |-> status, result |-> result, reason |-> reason, known |-> known, started |-> started]
Shapes ==
  {Shape("succeeded", Executed(TRUE, d, TRUE, FALSE), FALSE, TRUE, 3) : d \in 0 .. 2}
  \cup {Shape("succeeded", r, FALSE, TRUE, 3) :
          r \in {NoResult, Executed(TRUE, 1, FALSE, FALSE), Executed(TRUE, 1, TRUE, TRUE), Executed(FALSE, 1, TRUE, FALSE)}}
  \cup {Shape("failed", r, e, TRUE, 3) : r \in {NoResult, Executed(TRUE, 1, TRUE, FALSE)}, e \in BOOLEAN}
  \cup {Shape("lost", r, FALSE, TRUE, 3) : r \in {NoResult, Executed(TRUE, 1, TRUE, FALSE)}}
  \cup {Shape("running", NoResult, FALSE, TRUE, 3),
        Shape("succeeded", Executed(TRUE, 1, TRUE, FALSE), FALSE, FALSE, 3),
        Shape("succeeded", Executed(TRUE, 1, TRUE, FALSE), FALSE, TRUE, Now)}
\* The attempts of a ledger finish in its order.
AttemptOf(shape, n, task) ==
  [number |-> n, id |-> n, task |-> task, known |-> shape.known, status |-> shape.status, worker |-> TRUE,
   times |-> <<1, 2, shape.started, IF shape.status = "running" THEN Null ELSE 3 + n>>,
   result |-> shape.result, reason |-> shape.reason]
HistoryTrials ==
  [kind : {"history"}, shapes : UNION {[1 .. n -> Shapes] : n \in 1 .. 2}, task : Tasks]
  \cup [kind : {"history"}, task : {"render"},
        shapes : [1 .. 3 -> {s \in Shapes : s.known /\ s.started = 3 /\ s.result.worker /\ s.result.duration # 0}]]
LedgerOf(i) ==
  [n \in DOMAIN i.shapes |-> AttemptOf(i.shapes[n], n, IF n = 2 THEN i.task ELSE "render")]
\* An attempt that eviction declared lost and a late answer then settled, as
\* the running coordinator observes it.
LostFirst(ledger, n) ==
  [ledger EXCEPT ![n] = AttemptOf(Shape("lost", NoResult, FALSE, ledger[n].known, 3), n, ledger[n].task)]
ObservedTwice(ledger, n) == ObserveAttempt(Live(LostFirst(ledger, n)), ledger[n], ledger)
HistorySound(i) ==
  LET ledger == LedgerOf(i)
      live == Live(ledger)
      rebuilt == RebuildHistory(ledger)
      usable(service) == {o \in service.observations : Usable(o)}
  IN \* of attempts that turned terminal once, a restart concludes what the
     \* running coordinator had concluded
     /\ live.memory = rebuilt.memory /\ usable(live) = usable(rebuilt)
     \* in whatever order the ledger is read
     /\ \A p \in Permutations(DOMAIN ledger) :
          RebuildHistory([n \in DOMAIN ledger |-> ledger[p[n]]]).memory = rebuilt.memory
     \* every observed outcome is averaged exactly once, no other is
     /\ \A t \in Tasks :
          LET m == live.memory[t]
              events == {o.id : o \in {x \in usable(live) : x.task = t}}
          IN /\ m.events = events
             /\ events # {} => m.failure[2] = 10 ^ (Cardinality(events) - 1)
     /\ \A o \in usable(live) :
          /\ ledger[o.id].status \in {"succeeded", "failed"}
          /\ o.outcome = "FAILURE" <=> ~ledger[o.id].result.success
          /\ ~ledger[o.id].result.checkpointed
     \* a second report changes nothing, a contradicting one no average
     /\ \A n \in DOMAIN ledger : \A shape \in Shapes :
          LET second == AttemptOf(shape, n, ledger[n].task)
              after == ObserveAttempt(live, second, [ledger EXCEPT ![n] = second])
          IN ledger[n].known /\ ledger[n].status \in Terminal =>
               /\ after.memory = live.memory
               /\ second = ledger[n] => after = live
     \* an attempt that was declared lost before it was settled counts for nothing
     \* until a restart, and for what the ledger says after it
     /\ \A n \in DOMAIN ledger : ledger[n].status \in {"succeeded", "failed"} =>
          \A t \in Tasks : ObservedTwice(ledger, n).memory[t].events = rebuilt.memory[t].events \ {n}

Row(task, outcome, duration, class) ==
  [id |-> 1, task |-> task, outcome |-> outcome, duration |-> duration, quality |-> "VALID", class |-> class]
Rows == {Row("render", "SUCCESS", 4, "big"), Row("render", "SUCCESS", 7, "small"), Row("train", "SUCCESS", 2, "small"),
         Row("render", "FAILURE", Null, "big")}
Steady(n) == [k \in 1 .. n |-> Row("render", "SUCCESS", 4, "small")]
ViewTrials ==
  [kind : {"views"}, rows : [1 .. 6 -> Rows]]
  \cup [kind : {"views"}, rows : {Steady(n) \o <<r, q>> : n \in 8 .. 11, r \in Rows, q \in Rows}]
ViewsSound(i) ==
  LET found == FindAnomalies(i.rows)
      render == SelectSeq(i.rows, LAMBDA o : o.task = "render")
      d == Durations(render)
      labels == BehaviorLabels(render)
      estimate == DurationEstimate(render, "big", 5)
      big == SelectSeq(render, LAMBDA o : o.class = "big")
  IN \* what comes later never changes an anomaly found before
     /\ \A n \in DOMAIN i.rows : IsPrefix(FindAnomalies(SubSeq(i.rows, 1, n)), found)
     \* nor do the other task's attempts
     /\ FindAnomalies(render) = SelectSeq(found, LAMBDA o : o.task = "render")
     \* an estimate lies among the durations seen and is made when the class
     \* or, for a class seldom seen, the task has been seen often enough
     /\ estimate.kind = "PREDICTED" =>
          \E x, y \in ToSet(d) : 2 * x <= estimate.median2 /\ estimate.median2 <= 2 * y
     /\ estimate.kind = "PREDICTED" <=>
          \/ Len(Durations(big)) >= MinSamples
          \/ Len(d) >= MinSamples /\ Len(big) < MinSamples
     /\ estimate.confidence = Confidence(estimate.count) \/ estimate.kind # "PREDICTED"
     \* a task prone to failure is never called stable
     /\ ~({"STABLE", "FAILURE_PRONE"} \subseteq labels)
     /\ "STABLE" \in labels => FailureEstimate(render).known /\ 2 * FailureEstimate(render).failures <= Len(render)

CapacityTrials ==
  {c \in [kind : {"capacity"}, arrivals : 0 .. 3, completions : 0 .. 3, outcomes : {0, 3}, workers : 0 .. 2,
          fresh : 0 .. 2, asked : 0 .. 3, offered : 0 .. 1] : c.fresh <= c.workers}
CapacitySound(c) ==
  LET v == CapacityView(c)
  IN \* all is well only when it is known to be
     /\ v.recommendation = "STABLE" =>
          c.fresh > 0 /\ c.asked <= c.fresh * c.offered /\ c.arrivals <= c.completions
     /\ v.quality = "VALID" => v.pressure # "UNKNOWN" \/ c.workers = 0
     /\ v.quality = "STALE" => v.recommendation # "STABLE"

Demand(cpu, ram, gpu, inputs) == [cpu |-> cpu, ram |-> ram, gpu |-> gpu, inputs |-> inputs, estimate |-> 10]
RiskTrials ==
  [kind : {"risk"},
   memory : {NoTelemetry} \cup {[cpu |-> c, ram |-> c, latency |-> l, failure |-> f] :
                                 c \in {0, 1000, Whole}, l \in {0, 1000}, f \in {0, 1000, 3487, 6561, Whole}},
   profile : {[load |-> l, ramTotal |-> 100, ramFree |-> r, gpu |-> g, cached |-> c] :
                l \in {0, Whole}, r \in {0, 10, 100}, g \in BOOLEAN, c \in {0, Whole}},
   workload : {Demand(0, 0, TRUE, 0), Demand(0, 0, FALSE, 80), Demand(5000, 0, FALSE, 0), Demand(0, 5000, FALSE, 0),
               Demand(500, 500, FALSE, 0)},
   history : {[duration |-> Null, ram |-> Null, failure |-> Null]}
             \cup {[duration |-> 10, ram |-> 90, failure |-> f] : f \in {0, 5000, Whole}}]
Ratio(x) == 0 <= x /\ x <= Whole
RiskSound(i) ==
  LET after(failed) == OnWorkerHeartbeat(i.memory, i.profile, failed, 0)
      fine == EvaluateCandidateRisk(i.workload, i.profile, after(FALSE), i.history)
      failing == EvaluateCandidateRisk(i.workload, i.profile, after(TRUE), i.history)
      environment == EvaluateEnvironment(after(TRUE).latency, after(TRUE).failure)
      once == DetectAnomaly([fine.prediction EXCEPT !.confidence = Whole], 100, 900, 0)
      twice == DetectAnomaly([fine.prediction EXCEPT !.confidence = Whole], 100, 900, once.persistence)
      thrice == DetectAnomaly([fine.prediction EXCEPT !.confidence = Whole], 100, 900, twice.persistence)
  IN \* risk, probabilities, confidence and averages stay ratios
     /\ \A r \in {fine, failing} : Ratio(r.risk) /\ Ratio(r.prediction.failure) /\ Ratio(r.prediction.confidence)
     /\ Ratio(after(TRUE).failure) /\ Ratio(after(TRUE).cpu) /\ Ratio(after(TRUE).ram)
     \* a failure never makes failing less likely, and lowers the risk only
     \* where it makes the prediction surer: a worker called erratic is the
     \* more surely so the more it fails
     /\ failing.prediction.failure >= fine.prediction.failure
     /\ failing.risk < fine.risk => failing.prediction.confidence > fine.prediction.confidence
     \* weights are shares of one
     /\ environment.total = 100
     \* one deviation is no anomaly however large, three in a row are
     /\ once.severity <= 7500
     /\ once.deviation = Whole => thrice.severity > 7500

\* IntelligenceSound: what the coordinator learns from attempts that end once
\* does not depend on restarts, repetition or reading order; an attempt that
\* was declared lost and settled later changes no average while the
\* coordinator runs, and a restart averages it (observe_attempt,
\* rebuild_history).  Estimates and anomalies rest on enough history of the
\* right kind (_duration, _behavior, _find_anomalies, capacity_view), risks
\* stay in range and a failure never makes failing look less likely (predict,
\* evaluate).
IntelligenceSound ==
  trial.area = "intelligence" =>
    LET i == trial.input
    IN CASE i.kind = "history" -> HistorySound(i)
         [] i.kind = "views" -> ViewsSound(i)
         [] i.kind = "capacity" -> CapacitySound(i)
         [] OTHER -> RiskSound(i)

TryIntelligence ==
  \/ Try("intelligence", HistoryTrials)
  \/ Try("intelligence", ViewTrials)
  \/ Try("intelligence", CapacityTrials)
  \/ Try("intelligence", RiskTrials)
=============================================================================
