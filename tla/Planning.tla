------------------------------ MODULE Planning ------------------------------
(***************************************************************************)
(* The coordinator's decisions as functions of what it knows: which worker *)
(* or group gets a workload (PlacementEngine, with the ranking of the m7   *)
(* bridge), how many workers a job is spread over (ClusterSizer), which    *)
(* peers serve an asset (CandidatePrioritizer, locate_assets_sync) and in  *)
(* which order waiting workloads are admitted (queue_snapshot).  Fractions *)
(* are kept exact by counting in units that the divisors of the trials     *)
(* divide: scores in eighths, times in sixths of a second.                 *)
(***************************************************************************)
EXTENDS Integers, Sequences, FiniteSets, SequencesExt, FiniteSetsExt, TLC, Trial, Sorting

None == -1        \* no deadline, limit or budget
NoTag == "untagged"

Prefix(s, n) == SubSeq(s, 1, Min({n, Len(s)}))
Worth == 8        \* one point of a score

-----------------------------------------------------------------------------
(* PlacementEngine.evaluate: hard gates *)

StaleProfileSeconds == 10
NeedsGpu(spec) ==
  spec.gpu \/ spec.vram > 0 \/ spec.capability # <<>> \/ spec.device # NoTag \/ spec.runtime
\* Versions compare by major, then minor number; unknown ones never suffice.
CapabilityAtLeast(actual, required) ==
  /\ actual # <<>>
  /\ actual[1] > required[1] \/ (actual[1] = required[1] /\ actual[2] >= required[2])
TagResult(actual, required) == required = NoTag \/ actual = required

\* mutant: one matching predecessor is enough
AffinityWithSome(spec, p, prior, tagOf) ==
  \/ prior = {} \/ spec.affinity = "none"
  \/ spec.affinity = "same_worker" /\ p.id \in prior
  \/ spec.affinity = "different_worker" /\ prior # {p.id}
  \/ spec.affinity = "same_tag" /\ \E w \in prior : p.tag # NoTag /\ tagOf[w] = p.tag
  \/ spec.affinity = "different_tag" /\ \E w \in prior : p.tag # NoTag /\ tagOf[w] # p.tag
\* prior: workers of the affinity group; untagged ones, and two with the same
\* tag, make the number of tags differ from the number of workers.
AffinityMatch(spec, p, prior, tagOf) ==
  LET seen == {tagOf[w] : w \in prior} \ {NoTag}
      tagged == p.tag # NoTag /\ Cardinality(seen) = Cardinality(prior)
  IN \/ prior = {} \/ spec.affinity = "none"
     \/ spec.affinity = "same_worker" /\ p.id \in prior
     \/ spec.affinity = "different_worker" /\ p.id \notin prior
     \/ spec.affinity = "same_tag" /\ tagged /\ seen = {p.tag}
     \/ spec.affinity = "different_tag" /\ tagged /\ p.tag \notin seen

Checks(spec, p, prior, tagOf) ==
  [status |-> p.status = "active",
   health |-> p.status \in {"active", "degraded"},
   can_execute |-> p.canExecute,
   telemetry |-> p.age \in 0 .. StaleProfileSeconds,
   cpu |-> p.cpu >= spec.cpu,
   ram |-> p.ram > p.ramTotal \/ p.ram >= spec.ram,
   ram_consistent |-> p.ram <= p.ramTotal,
   gpu |-> NeedsGpu(spec) => p.gpu,
   vram |-> p.vram > p.vramTotal \/ p.vram >= spec.vram,
   vram_consistent |-> p.vram <= p.vramTotal,
   concurrency |-> p.active < p.limit,
   cost |-> spec.budget = None \/ p.cost <= spec.budget,
   capability |-> spec.capability = <<>> \/ CapabilityAtLeast(p.capability, spec.capability),
   device |-> TagResult(p.device, spec.device), \* vendor, model or driver
   runtime |-> ~spec.runtime,                   \* no profile reports one
   tags |-> TagResult(p.tag, spec.tag),
   affinity |-> spec.hard => AffinityMatch(spec, p, prior, tagOf),
   software |-> spec.software \notin p.lacks]
Rejections(spec, p, prior, tagOf) ==
  LET checks == Checks(spec, p, prior, tagOf)
  IN {c \in DOMAIN checks : ~checks[c]}
Eligible(spec, p, prior, tagOf) == Rejections(spec, p, prior, tagOf) = {}

-----------------------------------------------------------------------------
(* PlacementEngine.evaluate: scores *)

Share(part, whole) == IF whole = 0 THEN Worth ELSE (Worth * part) \div whole
CountFraction(spec, p) == Share(Cardinality(spec.assets \cap p.cached), Cardinality(spec.assets))
\* By bytes if every size is known and some is positive, else by number.
RankFraction(spec, p, sizes) ==
  LET Bytes(S) == MapThenSumSet(LAMBDA h : sizes[h], S)
      known == spec.assets \cap DOMAIN sizes
  IN IF spec.assets # {} /\ known = spec.assets /\ Bytes(known) > 0
     THEN Share(Bytes(known \cap p.cached), Bytes(known))
     ELSE CountFraction(spec, p)

M6Score(spec, p) ==
  LET cpu == (Worth * p.cpu) \div spec.cpu
      ram == Min({2 * Worth, IF spec.ram > 0 THEN (Worth * p.ram) \div spec.ram
                             ELSE (2 * Worth * p.ram) \div Max({1, p.ramTotal})})
      gpu == IF ~spec.gpu THEN Worth
             ELSE IF p.gpu THEN Worth + (Worth * p.vram) \div Max({1, spec.vram}) ELSE 0
  IN cpu + ram + 2 * gpu + 2 * CountFraction(spec, p) - (Worth * p.active) \div 2
Bonus(match, gain, loss) == IF match THEN gain ELSE loss
RankScore(spec, p, prior, tagOf, sizes) ==
  M6Score(spec, p)
  + (IF sizes = <<>> THEN 0 ELSE 2 * (RankFraction(spec, p, sizes) - CountFraction(spec, p)))
  + (IF spec.prefers = NoTag THEN 0 ELSE Bonus(TagResult(p.tag, spec.prefers), 2, 0))
  + (IF spec.affinity = "none" \/ spec.hard THEN 0
     ELSE Bonus(AffinityMatch(spec, p, prior, tagOf), 2, -2))
  - Worth * p.cost

\* M7OrchestratorBridge.adjust_ranking: risk as a soft penalty; equals keep
\* the order in which the workers were listed.
AdjustRanking(ids, score, penalty) ==
  Pick(ids, Order(Len(ids), LAMBDA i, j :
    score[ids[i]] - penalty[ids[i]] > score[ids[j]] - penalty[ids[j]]))
\* Without the bridge equals are ranked by worker id.
ScoreBefore(v, w, score) == score[v] > score[w] \/ (score[v] = score[w] /\ v < w)
RankByScore(ids, score) ==
  Pick(ids, Order(Len(ids), LAMBDA i, j : ScoreBefore(ids[i], ids[j], score)))

\* The eligible workers, best first.  penalty is <<>> without the bridge.
RankFit(spec, fit, prior, tagOf, sizes, penalty) ==
  LET ids == [i \in DOMAIN fit |-> fit[i].id]
      score == [w \in ToSet(ids) |->
                  RankScore(spec, CHOOSE p \in ToSet(fit) : p.id = w, prior, tagOf, sizes)]
  IN IF penalty = <<>> THEN RankByScore(ids, score) ELSE AdjustRanking(ids, score, penalty)
Evaluate(spec, profiles, prior, tagOf, sizes, penalty) ==
  RankFit(spec, Keep(profiles, LAMBDA p : Eligible(spec, p, prior, tagOf)),
          prior, tagOf, sizes, penalty)

\* Repeated evaluation without the workers already chosen; all or nothing.
Unchosen(profiles, chosen) == Keep(profiles, LAMBDA p : p.id \notin ToSet(chosen))
AddBest(chosen, ranked) ==
  Append(chosen, IF None \in ToSet(chosen) \/ ranked = <<>> THEN None ELSE Head(ranked))
EvaluateGroup(spec, profiles, n, prior, tagOf, sizes, penalty) ==
  LET Rest(chosen) == Evaluate(spec, Unchosen(profiles, chosen), prior, tagOf, sizes, penalty)
      group[k \in 0 .. n] == IF k = 0 THEN <<>> ELSE AddBest(group[k - 1], Rest(group[k - 1]))
  IN group[n]
GroupOf(chosen) == IF None \in ToSet(chosen) THEN <<>> ELSE chosen

-----------------------------------------------------------------------------
(* ClusterSizer.size_cluster.  A request r has units of one second each, a *)
(* deadline and limits; workers, those PlacementEngine finds eligible,     *)
(* have an id, a speed and the time their missing assets take.             *)

Tick == 6
ComputeTime(units, worker) == (Tick * units) \div worker.speed
AloneTime(r, worker) == worker.transfer + ComputeTime(r.units, worker)
SortedBySpeed(r, workers) ==
  Pick(workers, Order(Len(workers), LAMBDA i, j :
    \/ AloneTime(r, workers[i]) < AloneTime(r, workers[j])
    \/ AloneTime(r, workers[i]) = AloneTime(r, workers[j]) /\ workers[i].id < workers[j].id))
Total(f) == MapThenSumSet(LAMBDA i : f[i], DOMAIN f)

\* mutant: whole quotas only
AllocateFloors(units, group) ==
  LET speed == Total([i \in DOMAIN group |-> group[i].speed])
  IN [i \in DOMAIN group |-> (units * group[i].speed) \div speed]
\* Largest remainder: whole quotas first, then one unit each to the workers
\* with the largest fractions.
Allocate(units, group) ==
  LET speed == Total([i \in DOMAIN group |-> group[i].speed])
      floored == [i \in DOMAIN group |-> (units * group[i].speed) \div speed]
      fraction == [i \in DOMAIN group |-> (units * group[i].speed) % speed]
      order == Order(Len(group), LAMBDA i, j : fraction[i] > fraction[j])
      extra == {order[k] : k \in 1 .. units - Total(floored)}
  IN [i \in DOMAIN group |-> floored[i] + IF i \in extra THEN 1 ELSE 0]
WallClock(r, group) ==
  LET units == Allocate(r.units, group)
  IN Max({group[i].transfer + ComputeTime(units[i], group[i]) : i \in DOMAIN group})
     + Tick * (Len(group) - 1) * r.overhead

MaxGroup(r, workers) ==
  Max({1, Min({Len(workers), Max({1, r.units \div r.minUnits})}
              \cup IF r.limit = None THEN {} ELSE {r.limit})})
FirstWithin(walls, limit) == {k \in DOMAIN walls : walls[k] <= limit /\ \A i \in 1 .. k - 1 : walls[i] > limit}
Fastest(walls) == CHOOSE k \in DOMAIN walls :
  /\ \A i \in DOMAIN walls : walls[k] <= walls[i]
  /\ \A i \in 1 .. k - 1 : walls[k] < walls[i]
\* Ten per cent of the deadline are kept in reserve, if possible.
MeetDeadline(walls, deadline) ==
  LET safe == FirstWithin([k \in DOMAIN walls |-> 10 * walls[k]], 9 * deadline)
      strict == FirstWithin(walls, deadline)
  IN IF safe # {} THEN CHOOSE k \in safe : TRUE
     ELSE IF strict # {} THEN CHOOSE k \in strict : TRUE ELSE Fastest(walls)
\* A further worker has to save fifteen per cent.
Saves(walls, k) == walls[k] < walls[k - 1] /\ 100 * (walls[k - 1] - walls[k]) >= 15 * walls[k - 1]
Expand(walls) == Max({k \in DOMAIN walls : \A i \in 2 .. k : Saves(walls, i)})

Unschedulable == [walls |-> <<>>, count |-> 0, selected |-> <<>>, spare |-> <<>>, achievable |-> FALSE]
\* walls[k]: the time the k fastest workers take.
ChooseSize(r, sorted, walls) ==
  LET chosen == IF r.deadline = None THEN Expand(walls) ELSE MeetDeadline(walls, r.deadline)
  IN [walls |-> walls, count |-> chosen,
      selected |-> Prefix(sorted, chosen), spare |-> SubSeq(sorted, chosen + 1, Len(sorted)),
      achievable |-> r.deadline = None \/ walls[chosen] <= r.deadline]
SizeSorted(r, sorted) ==
  LET groups == IF ~r.partitionable \/ r.units <= 1 THEN 1 ELSE MaxGroup(r, sorted)
  IN ChooseSize(r, sorted, [k \in 1 .. groups |-> WallClock(r, Prefix(sorted, k))])
SizeCluster(r, workers) ==
  IF workers = <<>> THEN Unschedulable ELSE SizeSorted(r, SortedBySpeed(r, workers))

-----------------------------------------------------------------------------
(* Peers for an asset (classify_locality, evaluate_candidate, rank)        *)

\* An address: its family, whether it is private, its network and host;
\* network 0 is the loopback network, family 0 does not parse.
ClassifyLocality(a, b) ==
  IF a.family = 0 \/ a.family # b.family THEN "wan"
  ELSE IF a = b \/ (a.net = 0 /\ b.net = 0) THEN "loopback"
  ELSE IF a.net = b.net THEN "subnet"
  ELSE IF a.private /\ b.private THEN "lan" ELSE "wan"
TierBase(tier) ==
  CASE tier = "loopback" -> 10000 [] tier = "subnet" -> 5000
    [] tier = "lan" -> 2000 [] tier = "wan" -> 500
\* In microseconds, ten at least.
UpdateRtt(current, sample) ==
  LET clamped == Max({10, sample})
  IN IF current <= 0 THEN clamped ELSE (3 * clamped + 7 * current + 5) \div 10
\* Measured, else as the worker estimates it, else five milliseconds.
GetRtt(w) == IF w.measured # None THEN w.measured ELSE IF w.estimated > 0 THEN w.estimated ELSE 5
EvaluateCandidate(from, w) ==
  TierBase(ClassifyLocality(from, w.address)) - GetRtt(w)
  - (500 * w.active) \div Max({w.streams, 1}) - 1000 * w.errors - 100 * w.penalty
MayServe(w, requester, includeDegraded) ==
  /\ w.id # requester /\ w.status # "offline"
  /\ includeDegraded \/ w.status \notin {"degraded", "unhealthy"}
RankPeers(from, fit) ==
  Pick(fit, Order(Len(fit), LAMBDA i, j :
    EvaluateCandidate(from, fit[i]) > EvaluateCandidate(from, fit[j])))
\* Best first, at most so many of them; 0 or less is no limit.
RankCandidates(from, workers, requester, includeDegraded, most) ==
  LET ranked == RankPeers(from, Keep(workers, LAMBDA w : MayServe(w, requester, includeDegraded)))
  IN IF most > 0 THEN Prefix(ranked, most) ELSE ranked
HoldersAmong(workers, ids) == Keep(workers, LAMBDA w : w.id \in ids)
\* The candidates of each digest among its holders, and the digests with none.
LocateAssets(from, workers, holders, requester, includeDegraded, most) ==
  LET found == [h \in DOMAIN holders |->
                  RankCandidates(from, HoldersAmong(workers, holders[h]), requester, includeDegraded, most)]
  IN [locations |-> found, unresolved |-> {h \in DOMAIN found : found[h] = <<>>}]

-----------------------------------------------------------------------------
(* Order of admission.  Times in minutes; points in tenths.                *)

StarvationMinutes == 10
Starved(w, now) == now - w.submitted >= StarvationMinutes
\* With less than ten durations of slack urgency grows to 100 points.
DeadlineBonus(w, now) ==
  LET slack == w.deadline - now - w.duration
  IN IF w.deadline = None THEN 0
     ELSE IF w.deadline < now \/ slack <= 0 THEN 1000
     ELSE IF slack <= 10 * w.duration THEN Max({0, 1000 - (100 * slack) \div Max({w.duration, 1})}) ELSE 0
EffectivePriority(w, now) ==
  10 * Min({100, w.priority}) + Min({1000, 100 * Max({0, now - w.submitted})}) + DeadlineBonus(w, now)
\* mutant: the oldest go first only within their class of priority
UnagedBefore(v, w, now) ==
  \/ EffectivePriority(v, now) > EffectivePriority(w, now)
  \/ EffectivePriority(v, now) = EffectivePriority(w, now) /\ v.submitted < w.submitted
\* Equals are ordered by id.
QueuedBefore(v, w, now) ==
  \/ Starved(v, now) /\ ~Starved(w, now)
  \/ Starved(v, now) /\ Starved(w, now) /\ v.submitted < w.submitted
  \/ /\ ~Starved(v, now) /\ ~Starved(w, now)
     /\ \/ EffectivePriority(v, now) > EffectivePriority(w, now)
        \/ EffectivePriority(v, now) = EffectivePriority(w, now) /\ v.submitted < w.submitted
QueueSnapshot(waiting, now) ==
  Pick(waiting, Order(Len(waiting), LAMBDA i, j : QueuedBefore(waiting[i], waiting[j], now)))

-----------------------------------------------------------------------------
(* Trials: placement *)

With(r, changes) == [f \in DOMAIN r |-> IF f \in DOMAIN changes THEN changes[f] ELSE r[f]]
Named(r, id) == [f \in DOMAIN r \cup {"id"} |-> IF f = "id" THEN id ELSE r[f]]
Fit == [status |-> "active", canExecute |-> TRUE, age |-> 0, cpu |-> 4, ram |-> 4, ramTotal |-> 8,
        gpu |-> TRUE, vram |-> 2, vramTotal |-> 4, active |-> 0, limit |-> 2, cost |-> 0,
        capability |-> <<7, 5>>, device |-> "nvidia", tag |-> "red", lacks |-> {}, cached |-> {}]
Profile ==
  {Fit} \cup {With(Fit, c) : c \in
    {[status |-> "degraded"], [canExecute |-> FALSE], [age |-> 10], [age |-> 11], [cpu |-> 2],
     [ram |-> 2], [ram |-> 9], [gpu |-> FALSE, vram |-> 0, capability |-> <<>>, device |-> NoTag],
     [vram |-> 5], [active |-> 1], [active |-> 2], [cost |-> 1], [tag |-> "blue"],
     [tag |-> NoTag], [lacks |-> {"blender"}], [cached |-> {1}], [cached |-> {1, 2}]}}
Plain == [gpu |-> FALSE, vram |-> 0, capability |-> <<>>, device |-> NoTag, runtime |-> FALSE,
          cpu |-> 2, ram |-> 2, budget |-> None, tag |-> NoTag, prefers |-> NoTag,
          affinity |-> "none", hard |-> FALSE, software |-> "none", assets |-> {}]
AffineSpec == {With(Plain, c) : c \in
  [affinity : {"same_worker", "different_worker", "same_tag", "different_tag"}, hard : BOOLEAN]}
GatedSpec == {With(Plain, c) : c \in
  {[gpu |-> TRUE, vram |-> 1], [capability |-> <<7, 6>>], [device |-> "nvidia"], [runtime |-> TRUE],
   [cpu |-> 4], [ram |-> 0], [budget |-> 0], [tag |-> "red"], [prefers |-> "red"],
   [software |-> "blender"], [assets |-> {1, 2}]}}
PlacementTrial ==
  [kind : {"place"}, spec : GatedSpec, profiles : Profile \X Profile \X {Fit},
   prior : {{}}, sizes : {<<>>, <<1, 3>>, <<4>>}, penalty : {<<>>, <<4, 0, 2>>}]
  \cup
  [kind : {"place"}, spec : AffineSpec, profiles : Profile \X {Fit, With(Fit, [tag |-> "blue"])} \X {Fit},
   prior : SUBSET {1, 2, 3}, sizes : {<<>>}, penalty : {<<>>}]

\* Nothing that enters the score is worse for p than for q.
NoWorse(p, q) ==
  /\ p.cpu >= q.cpu /\ p.ram >= q.ram /\ p.ramTotal = q.ramTotal /\ p.vram >= q.vram
  /\ p.gpu = q.gpu /\ p.active <= q.active /\ p.cost <= q.cost /\ p.tag = q.tag
  /\ q.cached \subseteq p.cached

RankOf(w, ranked) == CHOOSE i \in DOMAIN ranked : ranked[i] = w
Indifferent(spec) == With(spec, [prefers |-> NoTag, affinity |-> IF spec.hard THEN spec.affinity ELSE "none"])
RankingSound(t, listed, tagOf, ranked) ==
  \* preferences, caches and risk order the candidates and exclude none
  /\ ToSet(ranked) = ToSet(Evaluate(Indifferent(t.spec), listed, t.prior, tagOf, t.sizes, <<>>))
  /\ IsInjective(ranked)
  \* a group is complete or absent, and its members are the best ones
  /\ \A n \in 2 .. 3 :
       GroupOf(EvaluateGroup(t.spec, listed, n, t.prior, tagOf, t.sizes, t.penalty))
         = IF Len(ranked) >= n THEN Prefix(ranked, n) ELSE <<>>
  \* who is at least as good in everything comes first
  /\ t.penalty = <<>> /\ t.prior = {} => \A p, q \in ToSet(listed) :
       {p.id, q.id} \subseteq ToSet(ranked) /\ NoWorse(p, q) /\ p.id < q.id
         => RankOf(p.id, ranked) < RankOf(q.id, ranked)
  \* hard affinity holds towards every predecessor
  /\ t.spec.hard /\ t.prior # {} => \A w \in ToSet(ranked) :
       CASE t.spec.affinity = "same_worker" -> w \in t.prior
         [] t.spec.affinity = "different_worker" -> w \notin t.prior
         [] t.spec.affinity = "same_tag" -> \A v \in t.prior : tagOf[v] = tagOf[w]
         [] t.spec.affinity = "different_tag" -> \A v \in t.prior : tagOf[v] # tagOf[w]
TagsOf(listed) == [w \in 1 .. 3 |-> (CHOOSE p \in ToSet(listed) : p.id = w).tag]
PlacementKept(t, listed, tagOf) ==
  RankingSound(t, listed, tagOf, Evaluate(t.spec, listed, t.prior, tagOf, t.sizes, t.penalty))
PlacementSound(t) ==
  LET listed == [i \in 1 .. 3 |-> Named(t.profiles[i], 4 - i)]
  IN PlacementKept(t, listed, TagsOf(listed))

-----------------------------------------------------------------------------
(* Trials: sizing *)

SizingTrial ==
  [kind : {"size"}, units : {1, 2, 3, 5}, overhead : {0, 1}, deadline : {None, 6, 10, 13, 20, 30},
   minUnits : {1, 2}, limit : {None, 2}, partitionable : BOOLEAN,
   speeds : UNION {[1 .. n -> {1, 2, 3}] : n \in 0 .. 3}, transfers : {<<0, 0, 0>>, <<0, Tick, 2 * Tick>>}]

SizeSound(t, workers, speed, shares, out, later) ==
  \* every unit is given away, each worker within one of its quota
  /\ Total(shares) = t.units
  /\ \A i \in DOMAIN workers :
       speed * shares[i] - t.units * workers[i].speed \in 1 - speed .. speed - 1
  \* selected workers and spares are the eligible ones, within the limits
  /\ out.selected \o out.spare = SortedBySpeed(t, workers) /\ Len(out.selected) = out.count
  /\ out.count \in 1 .. Len(workers) /\ (t.limit # None => out.count <= t.limit)
  /\ t.partitionable => out.count * t.minUnits <= Max({t.units, t.minUnits})
  \* a deadline is promised exactly if some group meets it, never by fewer
  \* workers than that takes, and a later one can be met as well
  /\ t.deadline # None =>
       /\ out.achievable <=> \E k \in DOMAIN out.walls : out.walls[k] <= t.deadline
       /\ out.achievable => out.walls[out.count] <= t.deadline /\ later.achievable
       /\ ~out.achievable => \A k \in DOMAIN out.walls : out.walls[out.count] <= out.walls[k]
  \* without one, every worker but the first saves fifteen per cent
  /\ t.deadline = None => \A k \in 2 .. out.count :
       out.walls[k] < out.walls[k - 1] /\ 20 * out.walls[k] <= 17 * out.walls[k - 1]
SizingSound(t) ==
  LET workers == [i \in DOMAIN t.speeds |-> [id |-> i, speed |-> t.speeds[i], transfer |-> t.transfers[i]]]
      out == SizeCluster(t, workers)
  IN IF workers = <<>> THEN ~out.achievable /\ out.count = 0
     ELSE SizeSound(t, workers, Total(t.speeds), Allocate(t.units, workers), out,
                    SizeCluster(With(t, [deadline |-> t.deadline + 1]), workers))

-----------------------------------------------------------------------------
(* Trials: candidates and queue *)

Address == [family : {4}, private : {TRUE}, net : {0, 1, 2}, host : {1, 2}]
           \cup [family : {0, 4, 6}, private : {FALSE}, net : {3}, host : {1}]
Server == [address : {a \in Address : a.host = 1}, status : {"active", "degraded", "offline"},
           measured : {None, 20}, estimated : {0}, active : {0, 2}, streams : {0, 2},
           errors : {0, 4}, penalty : {0}]
LocateTrial ==
  [kind : {"locate"}, from : {a \in Address : a.net = 1}, first : Server,
   second : {s \in Server : s.streams = 2 /\ s.active = 0 /\ s.measured = None}, requester : {1, 3},
   degraded : BOOLEAN, most : {0, 1}]

CandidatesSound(listed, serving, from, most) ==
  LET Score(w) == EvaluateCandidate(from, w)
  IN \* the best of those who may serve, and no others
     /\ ToSet(listed) \subseteq serving /\ IsInjective(listed)
     /\ \A w \in serving \ ToSet(listed) :
          Len(listed) = most /\ \A v \in ToSet(listed) : Score(v) >= Score(w)
     /\ \A i, j \in DOMAIN listed : i < j => Score(listed[i]) >= Score(listed[j])
     \* without errors and penalties the nearer tier wins
     /\ \A v, w \in ToSet(listed) :
          /\ v.errors = 0 /\ v.active <= v.streams
          /\ TierBase(ClassifyLocality(from, v.address)) > TierBase(ClassifyLocality(from, w.address))
          => Score(v) > Score(w)
LocationsKept(t, workers, holders) ==
  LET out == LocateAssets(t.from, workers, holders, t.requester, t.degraded, t.most)
      Serving(h) == {w \in ToSet(workers) : w.id \in holders[h] /\ MayServe(w, t.requester, t.degraded)}
  IN \A h \in DOMAIN holders :
       /\ CandidatesSound(out.locations[h], Serving(h), t.from, t.most)
       /\ h \in out.unresolved <=> Serving(h) = {}
LocateSound(t) ==
  LocationsKept(t, <<Named(t.first, 1), Named(t.second, 2)>>,
    [h \in {"a", "b", "c"} |-> CASE h = "a" -> {1, 2} [] h = "b" -> {1} [] h = "c" -> {}])

RttTrial == [kind : {"rtt"}, current : {0, 10, 11, 19, 400}, sample : {0, 9, 10, 25, 1000}]
RttSound(t) ==
  LET out == UpdateRtt(t.current, t.sample)
      clamped == Max({10, t.sample})
  IN IF t.current = 0 THEN out = clamped
     ELSE out \in Min({t.current, clamped}) .. Max({t.current, clamped})

Waiting == [priority : {0, 50, 150}, submitted : {0, 2, 4}, deadline : {None, 8, 30}, duration : {1}]
QueueTrial == [kind : {"queue"}, rows : Waiting \X Waiting \X {w \in Waiting : w.priority = 50},
               now : {4, 9, 11, 13}]
QueuePlace(rows, now) ==
  [i \in DOMAIN rows |-> CHOOSE k \in DOMAIN rows : QueueSnapshot(rows, now)[k].id = i]
QueueKept(rows, at) ==
  LET now == QueuePlace(rows, at)
      next == QueuePlace(rows, at + 1)
  IN \A v, w \in ToSet(rows) : v.submitted < w.submitted =>
       \* ten minutes of waiting pass everybody who came later
       /\ Starved(v, at) => now[v.id] < now[w.id]
       \* of two equal ones the older goes first
       /\ v.priority = w.priority /\ v.deadline = w.deadline => now[v.id] < now[w.id]
       \* nobody falls back behind a later one that has no deadline
       /\ now[v.id] < now[w.id] /\ v.deadline = None /\ w.deadline = None => next[v.id] < next[w.id]
QueueSound(t) == QueueKept([i \in 1 .. 3 |-> Named(t.rows[i], i)], t.now)

\* Hard requirements decide who is a candidate and preferences only their
\* order; a group is complete and the best; a cluster's units are all given
\* away and a deadline is promised exactly if some group meets it; candidates
\* for an asset are the best who may serve it; a workload that has waited for
\* ten minutes precedes all later ones (PlacementEngine, ClusterSizer,
\* CandidatePrioritizer, locate_assets_sync, queue_snapshot).
PlansSound ==
  trial.area = "plan" =>
    CASE trial.input.kind = "place" -> PlacementSound(trial.input)
      [] trial.input.kind = "size" -> SizingSound(trial.input)
      [] trial.input.kind = "locate" -> LocateSound(trial.input)
      [] trial.input.kind = "rtt" -> RttSound(trial.input)
      [] trial.input.kind = "queue" -> QueueSound(trial.input)

TryPlan ==
  \/ Try("plan", PlacementTrial) \/ Try("plan", SizingTrial) \/ Try("plan", LocateTrial)
  \/ Try("plan", RttTrial) \/ Try("plan", QueueTrial)
==============================================================================
