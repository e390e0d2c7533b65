------------------------------- MODULE Shards -------------------------------
(***************************************************************************)
(* How the adapters divide a job and put its results together: frame       *)
(* ranges of a render and their coverage (frame_scheduler.py,              *)
(* frame_coverage.py), shares of a data set for training (lifecycle.py,    *)
(* ml_training/adapter.py, pytorch_ddp/adapter.py) and the merge of what   *)
(* the workers trained or sampled (merger.py, aggregate_valid_updates,     *)
(* fuse_sample_buffers).  Averages are kept as fractions [num, den].       *)
(***************************************************************************)
EXTENDS Integers, Sequences, FiniteSets, SequencesExt, FiniteSetsExt, TLC, Trial, Sorting

CONSTANTS
  Missing,   \* no value under a key
  Absent,    \* no file
  Opaque,    \* a checkpoint that is not a dictionary
  NaN        \* an update that is not finite

SumOf(s) == FoldSeq(LAMBDA x, y : x + y, 0, s)
\* round() of a/b: ties to even
Round(a, b) ==
  LET q == a \div b
      r == a % b
  IN IF 2 * r < b THEN q ELSE IF 2 * r > b THEN q + 1 ELSE q + (q % 2)

-----------------------------------------------------------------------------
(* Frames *)

MinFramesPerChunk == 5
ChunksPerWorker == 3
Overhead == 25          \* tenths of a second per chunk
Fits(total, m, duration) ==
  /\ total \div m >= MinFramesPerChunk
  /\ 10 * Overhead <= (total \div m) * duration + Overhead
\* The largest number of chunks whose overhead is a tenth of the work.
PlanAdaptiveChunks(total, workers, duration) ==
  IF total <= MinFramesPerChunk THEN 1
  ELSE Max({1} \cup {m \in 2 .. Min({total, ChunksPerWorker * Max({1, workers})}) : Fits(total, m, duration)})

NoCount == 0
NumChunks(total, r) ==
  IF r.chunks # NoCount THEN Min({r.chunks, total})
  ELSE IF r.adaptive THEN PlanAdaptiveChunks(total, r.workers, r.duration)
  ELSE Min({r.workers, total})
Chunk(from, to) == [from |-> from, to |-> to]
\* mutant: a chunk ends where the next one begins
ChunkTouching(r, total, n, i) ==
  Chunk(r.from + ((i - 1) * total) \div n, r.from + (i * total) \div n)
ChunkOf(r, total, n, i) ==
  Chunk(r.from + ((i - 1) * total) \div n, r.from + (i * total) \div n - 1)
Schedule(r) ==
  LET total == r.to - r.from + 1
      n == NumChunks(total, r)
  IN [i \in 1 .. n |-> ChunkOf(r, total, n, i)]

\* On request, or when the request counts more workers than frames, every
\* worker samples all frames and the images are fused.  r.counted: the request
\* names a number of workers, or "auto"; without one there are two.
Fusion(r) ==
  \/ r.fusion = "cooperative" \/ (r.fusion = "sample" /\ r.workers > 1)
  \/ r.to - r.from + 1 < r.workers /\ r.workers > 1 /\ r.counted /\ ~r.adaptive
EvaluateRender(r) ==
  IF Fusion(r) THEN [i \in 1 .. r.workers |-> Chunk(r.from, r.to)] ELSE Schedule(r)

\* Completed ranges, sorted and joined where they touch or overlap.
JoinRange(joined, c) ==
  LET last == joined[Len(joined)]
  IN IF joined # <<>> /\ c.from <= last.to + 1
     THEN [joined EXCEPT ![Len(joined)] = Chunk(last.from, Max({last.to, c.to}))]
     ELSE Append(joined, c)
RangeBefore(c, d) == c.from < d.from \/ (c.from = d.from /\ c.to < d.to)
MergeRanges(chunks) ==
  FoldLeft(JoinRange, <<>>,
           Pick(chunks, Order(Len(chunks), LAMBDA i, j : RangeBefore(chunks[i], chunks[j]))))
\* Gaps before, between and behind the joined ranges, within the job's.
Gaps(from, to, merged) ==
  LET Cursor(i) == Max({from} \cup {merged[k].to + 1 : k \in 1 .. i - 1})
  IN {g \in {Chunk(Cursor(i), Min({merged[i].from - 1, to})) : i \in DOMAIN merged}
            \cup {Chunk(Cursor(Len(merged) + 1), to)} : g.from <= g.to}
\* chunks: the members' ranges, with their state
ComputeFrameCoverage(from, to, chunks) ==
  LET finished == Keep(chunks, LAMBDA c : c.state = "completed")
      plain == [i \in DOMAIN finished |-> Chunk(finished[i].from, finished[i].to)]
      missing == Gaps(from, to, MergeRanges(plain))
      incomplete == {i \in DOMAIN chunks : chunks[i].state # "completed"}
  IN [missing |-> missing, complete |-> missing = {} /\ incomplete = {}]
\* The first member that is known tells the range of the job; unknown members
\* are passed over.
ComputeJobFrameCoverage(members, jobRange) ==
  LET known == Keep(members, LAMBDA m : m.state # "unknown")
      range == IF jobRange # <<>> THEN jobRange ELSE Chunk(known[1].from, known[1].to)
  IN IF known = <<>> THEN <<>> ELSE ComputeFrameCoverage(range.from, range.to, known)

-----------------------------------------------------------------------------
(* Shares of a data set *)

Unit == 10000           \* ratios are rounded to four places
DefaultScore == 4       \* of a worker without a profile
NoProfile == 0
Score(w) == IF w.score = NoProfile THEN DefaultScore ELSE w.score
Capable(w) == w.status \notin {"offline", "draining"} /\ w.canExecute /\ w.python
\* mutant: the last share ends where rounding puts it
EndRounded(curr, score, total, last) == curr + Round(Unit * score, total)
EndRatio(curr, score, total, last) == IF last THEN Unit ELSE curr + Round(Unit * score, total)
RatiosOf(scores) ==
  LET total == SumOf(scores)
      end[i \in 0 .. Len(scores)] ==
        IF i = 0 THEN 0 ELSE EndRatio(end[i - 1], scores[i], total, i = Len(scores))
  IN [i \in DOMAIN scores |-> [from |-> end[i - 1], to |-> end[i]]]

\* How many samples are dealt when none are counted: a hundred on the local
\* machine; among workers the length of the data, a thousand if it has none.
NoLength == -1
Dealt(workers, samples, length) ==
  IF samples # 0 THEN samples
  ELSE IF workers = <<>> THEN 100 ELSE IF length = NoLength THEN 1000 ELSE length
\* A shard: its ratios, how many samples, and the worker it is pinned to; 0
\* is the local machine.
PartitionWorkload(workers, samples, length) ==
  LET ratios == RatiosOf([i \in DOMAIN workers |-> Score(workers[i])])
      dealt == Dealt(workers, samples, length)
  IN IF workers = <<>> THEN <<[from |-> 0, to |-> Unit, samples |-> dealt, worker |-> 0]>>
     ELSE [i \in DOMAIN workers |->
             [from |-> ratios[i].from, to |-> ratios[i].to, worker |-> workers[i].id,
              samples |-> Round((ratios[i].to - ratios[i].from) * dealt, Unit)]]
Unpinned == 0
DispatchToWorkers(partitions) == [i \in DOMAIN partitions |-> [pinned |-> partitions[i].worker, shard |-> i]]
RecoverFailedWorkerShard(partition, healthy) == [partition EXCEPT !.worker = healthy]

Anybody == [id |-> Unpinned, score |-> NoProfile, status |-> "active", canExecute |-> TRUE, python |-> TRUE]
\* Training shards go to the workers that can run Python, or to anybody.
PlanShards(workers) ==
  LET capable == Keep(workers, Capable)
      chosen == IF capable = <<>> THEN <<Anybody>> ELSE capable
      ratios == RatiosOf([i \in DOMAIN chosen |-> Score(chosen[i])])
  IN [i \in DOMAIN chosen |-> ratios[i] @@ [worker |-> chosen[i].id]]
\* One rank for each worker, whatever its state; it is told everybody's number.
EvaluateDdp(workers, count) ==
  LET chosen == IF workers # <<>> THEN workers ELSE [i \in 1 .. Max({1, count}) |-> Anybody]
      ratios == RatiosOf([i \in DOMAIN chosen |-> Score(chosen[i])])
  IN [i \in DOMAIN chosen |-> ratios[i] @@ [rank |-> i - 1, world |-> Len(chosen)]]
OptimalThreads(cpus) == IF cpus >= 8 THEN Max({1, cpus - 2}) ELSE Max({1, cpus - 1})

\* PowerWeightedDistributedSampler: the slice of n samples of a rank, at least
\* one of them, and the length it reports.
Cut(n, scores, rank) == Round(n * SumOf(SubSeq(scores, 1, rank)), SumOf(scores))
SamplerSlice(n, scores, rank) ==
  LET from == Cut(n, scores, rank)
      to == Max({from, Min({n, Cut(n, scores, rank + 1)})})
  IN (from + 1) .. IF to = from /\ n > 0 THEN Min({n, from + 1}) ELSE to
SamplerLen(n, scores, rank) ==
  Max({IF n > 0 THEN 1 ELSE 0, Cut(n, scores, rank + 1) - Cut(n, scores, rank)})

\* Memory of the model against the smallest memory that is reported, in MB;
\* 8192 if nobody reports.  Zero switches the comparison off.
MinFree(workers) == IF workers = {} THEN 8192 ELSE Min({w.free : w \in workers})
SelectDistributionStrategy(job, workers) ==
  IF job.preprocessing THEN "task_parallel"
  ELSE IF MinFree(workers) > 0 /\ 100 * job.ram > 65 * MinFree(workers) THEN "model_parallel"
  ELSE IF job.ddp THEN "data_parallel" ELSE "federated"

-----------------------------------------------------------------------------
(* Merging *)

\* Weights by worker; all equal if they add up to nothing.
NormalizeWeights(weights) ==
  IF SumOf(weights) > 0 THEN weights ELSE [i \in DOMAIN weights |-> 1]
Weighted(values, weights) ==
  SumOf([i \in 1 .. Min({Len(values), Len(weights)}) |-> values[i] * weights[i]])
Present(values) == SelectSeq(values, LAMBDA v : v # Missing)
Fraction(num, den) == [num |-> num, den |-> den]
\* Weights that add up to nothing are left as they are: the average is zero.
Divisor(weights) == IF SumOf(weights) = 0 THEN 1 ELSE SumOf(weights)

\* A parameter that a later state dictionary lacks counts as zero.
FedavgPytorch(values, weights) ==
  IF Len(values) = 1 THEN Fraction(values[1], 1)
  ELSE Fraction(Weighted([i \in DOMAIN values |-> IF values[i] = Missing THEN 0 ELSE values[i]], weights),
                Divisor(weights))
\* Counters of steps or batches are added.
FedavgCounter(values) == Fraction(SumOf(Present(values)), 1)
\* A missing array is an error, and the files are copied instead.
Error == [error |-> "KeyError"]
FedavgNumpy(values, weights) ==
  IF Len(values) > 1 /\ Missing \in ToSet(values) THEN Error
  ELSE IF Len(values) = 1 THEN Fraction(values[1], 1)
  ELSE Fraction(Weighted(values, weights), Divisor(weights))
\* A missing number is taken from the first file.
FedavgJson(values, weights) ==
  IF Len(values) = 1 THEN Fraction(values[1], 1)
  ELSE Fraction(Weighted([i \in DOMAIN values |-> IF values[i] = Missing THEN values[1] ELSE values[i]], weights),
                Divisor(weights))

Average(kind, values, weights) ==
  CASE kind = "pt" -> FedavgPytorch(values, weights)
    [] kind = "npz" -> FedavgNumpy(values, weights)
    [] kind = "json" -> FedavgJson(values, weights)
\* mutant: the weights of absent workers are kept
WeightsOfAll(weights, files) == weights
\* Weights of the workers that have the file, an opaque checkpoint included.
ActiveWeights(weights, files) ==
  [i \in 1 .. Len(SelectSeq(files, LAMBDA f : f # Absent)) |->
     weights[CHOOSE k \in DOMAIN files :
               files[k] # Absent /\ Cardinality({j \in 1 .. k : files[j] # Absent}) = i]]
\* One file of the workers' outputs: files[i] is one parameter in worker i's.
\* The result is merged, concatenated, or one copy for each worker; it lacks
\* the parameter when the first dictionary does, or when there is none.
MergeFile(kind, files, weights) ==
  LET present == SelectSeq(files, LAMBDA f : f # Absent)
      copies == [as |-> "copies", of |-> {i \in DOMAIN files : files[i] # Absent}]
      active == ActiveWeights(NormalizeWeights(weights), files)
      dicts == IF kind = "pt" THEN SelectSeq(present, LAMBDA f : f # Opaque) ELSE present
      average == Average(kind, dicts, active)
  IN CASE kind = "features" -> [as |-> "joined", of |-> present]
       [] kind = "other" -> copies
       [] OTHER -> IF dicts = <<>> \/ dicts[1] = Missing THEN [as |-> "empty"]
                   ELSE IF average = Error THEN copies
                   ELSE [as |-> "merged", value |-> average]

\* Deltas to the base, weighted by samples, of the updates that are finite.
AggregateValidUpdates(base, updates, counts) ==
  LET valid == {i \in DOMAIN updates : updates[i] # NaN}
      total == MapThenSumSet(LAMBDA i : counts[i], valid)
      delta == MapThenSumSet(LAMBDA i : counts[i] * (updates[i] * base.den - base.num), valid)
  IN IF total = 0 THEN base ELSE Fraction(base.num * total + delta, base.den * total)
CoordinateSynchronizationRounds(base, rounds, counts) ==
  FoldLeft(LAMBDA checkpoint, updates : AggregateValidUpdates(checkpoint, updates, counts), base, rounds)
\* The best worker is kept if the merged model loses to it.
ValidateAgainstBaseline(merged, losses) ==
  IF losses # {} /\ merged > Min(losses) THEN "best_worker_fallback" ELSE "merged"

\* Images of several samplers; without usable weights the first one.
FuseSampleBuffers(buffers, weights) ==
  LET used == IF Len(weights) = Len(buffers) THEN weights ELSE [i \in DOMAIN buffers |-> 1]
  IN IF SumOf(used) = 0 THEN Fraction(buffers[1], 1)
     ELSE Fraction(Weighted(buffers, used), SumOf(used))

-----------------------------------------------------------------------------
(* Trials *)

RenderTrial ==
  {r \in [kind : {"render"}, from : {1}, to : {1, 2, 3, 7}, workers : {1, 2, 4}, counted : BOOLEAN,
          chunks : {NoCount, 3}, adaptive : {FALSE}, duration : {20}, fusion : {"no", "sample"},
          states : [1 .. 4 -> {"completed", "failed", "unknown"}]] : r.counted \/ r.workers = 2}
  \cup
  [kind : {"render"}, from : {1, 5}, to : {20, 50}, workers : {1, 2}, counted : {TRUE}, chunks : {NoCount}, adaptive : {TRUE},
   duration : {5, 20, 45}, fusion : {"no"}, states : {[i \in 1 .. 6 |-> IF i = j THEN "failed" ELSE "completed"] : j \in 1 .. 7}]
Covered(chunks) == UNION {chunks[i].from .. chunks[i].to : i \in DOMAIN chunks}
RenderSound(t) ==
  LET chunks == EvaluateRender(t)
      members == [i \in DOMAIN chunks |-> chunks[i] @@ [state |-> t.states[i]]]
      report == ComputeJobFrameCoverage(members, Chunk(t.from, t.to))
      finished == {i \in DOMAIN members : members[i].state = "completed"}
      rendered == UNION {chunks[i].from .. chunks[i].to : i \in finished}
  IN \* every frame once, or all frames by everybody
     /\ Covered(chunks) = t.from .. t.to /\ \A i \in DOMAIN chunks : chunks[i].from <= chunks[i].to
     /\ ~Fusion(t) => \A i, j \in DOMAIN chunks : i < j => chunks[i].to < chunks[j].from
     \* what is reported missing are exactly the frames nobody has finished
     /\ report # <<>> =>
          /\ UNION {g.from .. g.to : g \in report.missing} = (t.from .. t.to) \ rendered
          /\ \A g, h \in report.missing : g # h => g.to + 1 < h.from \/ h.to + 1 < g.from
          /\ report.complete => rendered = t.from .. t.to

\* Arbitrary ranges, as other producers of frame jobs may choose them.
RangeSet == {c \in [from : 0 .. 5, to : 0 .. 5] : c.from <= c.to}
CoverTrial == [kind : {"cover"}, ranges : RangeSet \X RangeSet \X RangeSet, job : {Chunk(1, 4), Chunk(2, 2)}]
CoverSound(t) ==
  LET members == [i \in 1 .. 3 |-> t.ranges[i] @@ [state |-> "completed"]]
      report == ComputeFrameCoverage(t.job.from, t.job.to, members)
  IN UNION {g.from .. g.to : g \in report.missing} = (t.job.from .. t.job.to) \ Covered(t.ranges)

WorkerSet == [score : {NoProfile, 1, 7, 50}, status : {"active", "draining"}, canExecute : {TRUE}, python : BOOLEAN]
ShareTrial ==
  [kind : {"share"}, workers : UNION {[1 .. n -> WorkerSet] : n \in 0 .. 2}
                               \cup {[i \in 1 .. 3 |-> w] : w \in WorkerSet},
   samples : {0, 1, 7, 100}, length : {NoLength, 0, 5}, count : {1, 3}]
Contiguous(shards) ==
  /\ shards[1].from = 0 /\ shards[Len(shards)].to = Unit
  /\ \A i \in 1 .. Len(shards) - 1 : shards[i].to = shards[i + 1].from
  /\ \A i \in DOMAIN shards : shards[i].from < shards[i].to
ShareSound(t) ==
  LET workers == [i \in DOMAIN t.workers |-> t.workers[i] @@ [id |-> i]]
      parts == PartitionWorkload(workers, t.samples, t.length)
      plan == PlanShards(workers)
      scores == [i \in DOMAIN workers |-> Score(workers[i])]
      ranks == DOMAIN scores
      Slice(i) == SamplerSlice(t.samples, scores, i - 1)
  IN \* no sample is left out or trained twice
     /\ Contiguous(parts) /\ Contiguous(plan) /\ Contiguous(EvaluateDdp(workers, t.count))
     /\ SumOf([i \in DOMAIN parts |-> parts[i].samples]) - Dealt(workers, t.samples, t.length) \in -1 .. 1
     /\ \A i \in DOMAIN plan : plan[i].worker = Unpinned \/ Capable(workers[plan[i].worker])
     /\ DispatchToWorkers(<<RecoverFailedWorkerShard(parts[1], 9)>> \o Tail(parts))[1].pinned = 9
     \* more power, more work
     /\ \A i, j \in ranks : i < Len(scores) /\ j < Len(scores) /\ scores[i] <= scores[j]
          => parts[i].to - parts[i].from <= parts[j].to - parts[j].from
     \* slices cover the data; only a rank with too small a share repeats one
     \* sample, and one behind the last sample reports a length it lacks
     /\ t.samples > 0 /\ ranks # {} => UNION {Slice(i) : i \in ranks} = 1 .. t.samples
     /\ \A i, j \in ranks : i < j /\ Cut(t.samples, scores, i) > Cut(t.samples, scores, i - 1)
          /\ Cut(t.samples, scores, j) > Cut(t.samples, scores, j - 1) => Slice(i) \cap Slice(j) = {}
     /\ \A i \in ranks : Cardinality(Slice(i)) = SamplerLen(t.samples, scores, i - 1)
          \/ (Cut(t.samples, scores, i - 1) = t.samples /\ Slice(i) = {})

StrategyTrial == [kind : {"strategy"}, ram : {64, 66, 6000}, preprocessing : BOOLEAN, ddp : BOOLEAN,
                  free : SUBSET {0, 100, 200}]
StrategySound(t) ==
  LET chosen == SelectDistributionStrategy(t, {[free |-> f] : f \in t.free})
  IN chosen \in {"federated", "data_parallel"} /\ 0 \notin t.free => \A f \in t.free : 100 * t.ram <= 65 * f

File == {Absent, Missing, Opaque, 0, 3, 6}
MergeTrial ==
  {t \in [kind : {"merge"}, as : {"pt", "npz", "json", "features", "other"},
          files : {f \in [1 .. 3 -> File] : \E i \in 1 .. 3 : f[i] # Absent}, weights : [1 .. 3 -> {0, 1, 4}]] :
     Opaque \in ToSet(t.files) => t.as = "pt"}
Within(fraction, values) ==
  /\ fraction.num >= fraction.den * Min(values) /\ fraction.num <= fraction.den * Max(values)
MergeSound(t) ==
  LET out == MergeFile(t.as, t.files, t.weights)
      values == ToSet(t.files) \ {Absent}
      shared == {i \in 1 .. 3 : t.files[i] # Absent /\ t.weights[i] > 0}
      alone == {t.files[i] : i \in shared}
      weighed == shared # {} \/ \A i \in 1 .. 3 : t.weights[i] = 0
  IN \* where one of the files present has a weight, or no worker has any, an
     \* average stays between what was averaged; it follows the only one with
     \* a weight; what is copied or joined is so from every worker
     /\ out.as = "merged" /\ weighed /\ values \cap {Missing, Opaque} = {} => Within(out.value, values)
     \* weights of zero stay zero when the worker that has one lacks the file: of
     \* several dictionaries nothing is left, a single one is kept
     /\ out.as = "merged" /\ ~weighed =>
          IF Cardinality({i \in 1 .. 3 : t.files[i] \notin {Absent, Opaque}}) = 1
          THEN Within(out.value, values \ {Opaque}) ELSE out.value.num = 0
     /\ out.as = "merged" /\ weighed /\ t.as # "pt" => Within(out.value, values \ {Missing})
     /\ out.as = "merged" /\ values \cap {Missing, Opaque} = {} /\ Cardinality(shared) = 1 =>
          \A v \in alone : out.value.num = v * out.value.den
     /\ out.as = "copies" => out.of = {i \in 1 .. 3 : t.files[i] # Absent}
     /\ out.as = "joined" => Len(out.of) = Cardinality({i \in 1 .. 3 : t.files[i] # Absent})

Update == {NaN, 0, 6}
AverageTrial == [kind : {"average"}, base : {0, 3}, rounds : UNION {[1 .. n -> Update \X Update] : n \in 1 .. 2},
                 counts : {0, 1, 5} \X {0, 2}]
AverageSound(t) ==
  LET out == CoordinateSynchronizationRounds(Fraction(t.base, 1), t.rounds, t.counts)
      finite == {t.rounds[r][i] : r \in DOMAIN t.rounds, i \in 1 .. 2} \ {NaN}
      Without(i) == [r \in DOMAIN t.rounds |-> [t.rounds[r] EXCEPT ![i] = 0]]
      Loss(choice) == IF choice = "merged" THEN t.base ELSE Min(finite)
  IN \* a corrupt update has no influence, and no round leaves what was seen
     /\ Within(out, finite \cup {t.base})
     /\ finite = {} => out = Fraction(t.base, 1)
     /\ \A i \in 1 .. 2 : (\A r \in DOMAIN t.rounds : t.rounds[r][i] = NaN) =>
          out = CoordinateSynchronizationRounds(Fraction(t.base, 1), Without(i), [t.counts EXCEPT ![i] = 0])
     /\ \A v \in finite : Loss(ValidateAgainstBaseline(t.base, finite)) <= v
     /\ finite # {} => Within(FuseSampleBuffers(SetToSeq(finite), t.counts), finite)

ShardsSound(t) ==
  CASE t.kind = "render" -> RenderSound(t)
    [] t.kind = "cover" -> CoverSound(t)
    [] t.kind = "share" -> ShareSound(t)
    [] t.kind = "strategy" -> StrategySound(t)
    [] t.kind = "merge" -> MergeSound(t)
    [] t.kind = "average" -> AverageSound(t)
TryShards ==
  \/ Try("adapter", RenderTrial) \/ Try("adapter", CoverTrial) \/ Try("adapter", ShareTrial)
  \/ Try("adapter", StrategyTrial) \/ Try("adapter", MergeTrial) \/ Try("adapter", AverageTrial)
==============================================================================
