--------------------------- MODULE WorkerRegistry ---------------------------
(***************************************************************************)
(* Membership: the coordinator's WorkerRegistry and CredentialStore, the   *)
(* heartbeat loops of the workers, and the HTTP requests between them.     *)
(* Handlers of the coordinator run on its event loop without awaiting, so  *)
(* each is one step and its write to the state store belongs to it.        *)
(* Requests and answers may be lost; a request whose sender gave up may    *)
(* still be served later.  The coordinator and the workers may crash.      *)
(***************************************************************************)
EXTENDS Naturals

CONSTANTS
  Worker,        \* worker identifiers
  Hash,          \* assets
  DegradedAt,    \* degraded_threshold
  SuspectAt,     \* suspect_threshold
  Penalty,       \* points a failed attempt costs
  FaultBound,    \* bound: messages lost or late, crashes, drained workers
  FailureBound   \* bound: failed attempts charged to workers

ASSUME RegistryAssumption ==
  /\ DegradedAt \in Nat \ {0} /\ SuspectAt \in Nat /\ DegradedAt < SuspectAt
  /\ Penalty \in Nat /\ FaultBound \in Nat /\ FailureBound \in Nat

\* WorkerStatus of a registered worker; "none" when it is not registered.
Status == {"active", "degraded", "unhealthy", "draining", "offline", "none"}
\* WorkerHealthStatus; the record outlives the registration.
Health == {"none", "healthy", "degraded", "suspect", "dead"}

\* A worker credential as seen from the coordinator: tokens are random and
\* never minted twice, so all that matters is whether it is the current one.
Token == {"none", "stale", "current"}

VARIABLES
  secure,      \* is AIDAR_INSECURE_MODE off?
  status,      \* _workers: status of each registered worker
  hashes,      \* _worker_hashes
  index,       \* _hash_index
  health,      \* _health_records: health_status
  penalty,     \* _health_records: penalty_score
  quiet,       \* workers whose last heartbeat is older than the timeout
  cred,        \* workers with an entry in _worker_credential_hashes
  dispatched,  \* workers given an attempt since the coordinator started
  saved,       \* workers with a row in the state store
  savedInv,    \* inventory in that row
  pc,          \* what each worker's control loop is doing
  cas,         \* objects in each worker's store
  reported,    \* _last_reported_inventory
  snap,        \* inventory the pending request was built from
  held,        \* credential the worker's client holds
  req,         \* requests under way to the coordinator
  rsp,         \* answer on its way to a worker
  seen,        \* workers heard from since the coordinator started (observation)
  overtaken,   \* workers with a registration served late (observation)
  faults,      \* faults so far (observation)
  failures     \* failures so far (observation)

registry == <<status, hashes, index, health, penalty>>
volatile == <<quiet, cred, dispatched, seen>>
durable  == <<saved, savedInv, cas>>
client   == <<pc, reported, snap, held>>
network  == <<req, rsp>>
vars == <<secure, registry, volatile, durable, client, network, overtaken,
          faults, failures>>

Pc == {"off", "joining", "idle", "beating", "rejoining", "leaving"}
Waiting(w) == pc[w] \in {"joining", "beating", "rejoining", "leaving"}

\* A request: what it asks, the inventory or the inventory delta it carries,
\* the credential, and whether its sender still waits for the answer.
Request == [op : {"register", "beat", "leave"}, inv : SUBSET Hash,
            gone : SUBSET Hash, tok : Token, live : BOOLEAN]
Answer == [kind : {"none", "registered", "healthy", "rejoin", "done", "error"},
           tok : Token]
NoAnswer == [kind |-> "none", tok |-> "none"]

CoordinatorTypeOK ==
  /\ secure \in BOOLEAN
  /\ status \in [Worker -> Status] /\ health \in [Worker -> Health]
  /\ \A w \in Worker : status[w] # "none" => health[w] \notin {"none", "dead"}
  /\ hashes \in [Worker -> SUBSET Hash] /\ index \in [Hash -> SUBSET Worker]
  /\ penalty \in [Worker -> Nat]
  /\ \A S \in {quiet, cred, dispatched, saved, seen, overtaken} : S \subseteq Worker
  /\ savedInv \in [Worker -> SUBSET Hash]
WorkerTypeOK ==
  /\ pc \in [Worker -> Pc] /\ held \in [Worker -> Token]
  /\ cas \in [Worker -> SUBSET Hash]
  /\ reported \in [Worker -> SUBSET Hash] /\ snap \in [Worker -> SUBSET Hash]
NetworkTypeOK ==
  req \in [Worker -> SUBSET Request] /\ rsp \in [Worker -> Answer]
RegTypeOK ==
  /\ CoordinatorTypeOK /\ WorkerTypeOK /\ NetworkTypeOK
  /\ faults \in 0 .. FaultBound /\ failures \in 0 .. FailureBound

Init ==
  /\ secure \in BOOLEAN
  /\ status = [w \in Worker |-> "none"] /\ health = [w \in Worker |-> "none"]
  /\ hashes = [w \in Worker |-> {}] /\ index = [h \in Hash |-> {}]
  /\ penalty = [w \in Worker |-> 0]
  /\ quiet = {} /\ dispatched = {} /\ seen = {} /\ overtaken = {}
  /\ cred = {} /\ saved = {} /\ savedInv = [w \in Worker |-> {}]
  /\ pc = [w \in Worker |-> "off"] /\ cas = [w \in Worker |-> {}]
  /\ reported = [w \in Worker |-> {}] /\ snap = [w \in Worker |-> {}]
  /\ held = [w \in Worker |-> "none"]
  /\ req = [w \in Worker |-> {}] /\ rsp = [w \in Worker |-> NoAnswer]
  /\ faults = 0 /\ failures = 0

-----------------------------------------------------------------------------
(* Registry updates *)

Registered(w) == status[w] # "none"

\* _remove_worker_from_index, then the new entries
Reindexed(w, inv) ==
  [h \in Hash |-> IF h \in inv THEN index[h] \cup {w} ELSE index[h] \ {w}]
Inventory(w, inv) ==
  /\ hashes' = [hashes EXCEPT ![w] = inv]
  /\ index' = Reindexed(w, inv)

Persist(w, inv) ==
  /\ saved' = saved \cup {w}
  /\ savedInv' = [savedInv EXCEPT ![w] = inv]

\* mutant: the health record of a worker that comes back stays dead
HealthKept(w) == IF health[w] = "none" THEN "healthy" ELSE health[w]
\* A known worker keeps its health record, a dead one is healthy again.
HealthOnRegister(w) ==
  IF health[w] \in {"none", "dead"} THEN "healthy" ELSE health[w]

\* register_worker of the registry
RegisterWorker(w, inv, st) ==
  /\ status' = [status EXCEPT ![w] = st]
  /\ Inventory(w, inv) /\ Persist(w, inv)
  /\ health' = [health EXCEPT ![w] = HealthOnRegister(w)]
  /\ quiet' = quiet \ {w}
  /\ UNCHANGED penalty

\* mutant: the assets of a removed worker stay in the inverted index
RemovedKeepingIndex(W) ==
  /\ status' = [w \in Worker |-> IF w \in W THEN "none" ELSE status[w]]
  /\ hashes' = [w \in Worker |-> IF w \in W THEN {} ELSE hashes[w]]
  /\ index' = index
  /\ health' = [w \in Worker |-> IF w \in W THEN "dead" ELSE health[w]]
  /\ saved' = saved \ W /\ UNCHANGED <<penalty, savedInv>>
\* _unregister_worker_locked and the deletion of the rows; the credentials stay
Removed(W) ==
  /\ status' = [w \in Worker |-> IF w \in W THEN "none" ELSE status[w]]
  /\ hashes' = [w \in Worker |-> IF w \in W THEN {} ELSE hashes[w]]
  /\ index' = [h \in Hash |-> index[h] \ W]
  /\ health' = [w \in Worker |-> IF w \in W THEN "dead" ELSE health[w]]
  /\ saved' = saved \ W /\ UNCHANGED <<penalty, savedInv>>

\* The coordinator's entries for W change: what those workers hold, or have
\* under way, is out of date.
Aged(t) == IF t = "current" THEN "stale" ELSE t
AgedHeld(W) == [w \in Worker |-> IF w \in W THEN Aged(held[w]) ELSE held[w]]
AgedAnswer(w) == [rsp[w] EXCEPT !.tok = Aged(@)]
AgedRequests(w) == {[r EXCEPT !.tok = Aged(@)] : r \in req[w]}
Authorised(r) == ~secure \/ r.tok = "current"

-----------------------------------------------------------------------------
(* The coordinator's handlers *)

Answered(kind) == [kind |-> kind, tok |-> "none"]
\* Serve one request; its answer reaches only a sender that still waits.
Serve(w, r, kind) ==
  /\ r \in req[w]
  /\ req' = [req EXCEPT ![w] = @ \ {r}]
  /\ rsp' = IF r.live THEN [rsp EXCEPT ![w] = Answered(kind)] ELSE rsp
  /\ UNCHANGED <<secure, client, cas, faults, failures>>

\* register_worker_sync: a fresh credential replaces the previous one
HandleRegister(w, r) ==
  /\ r \in req[w] /\ r.op = "register"
  /\ RegisterWorker(w, r.inv, "active")
  /\ cred' = cred \cup {w} /\ held' = AgedHeld({w})
  /\ req' = [req EXCEPT ![w] = AgedRequests(w) \ {r}]
  /\ rsp' = [rsp EXCEPT ![w] = IF r.live
               THEN [kind |-> "registered", tok |-> "current"]
               ELSE AgedAnswer(w)]
  /\ seen' = seen \cup {w}
  /\ overtaken' = IF r.live THEN overtaken \ {w} ELSE overtaken \cup {w}
  /\ UNCHANGED <<secure, dispatched, cas, pc, reported, snap, faults, failures>>

\* mutant: an unknown worker is told nothing
Unnoticed == "healthy"
\* re_register_required
UnknownWorker == "rejoin"
HandleBeat(w, r) ==
  /\ r.op = "beat" /\ Authorised(r)
  /\ IF Registered(w)
     THEN LET inv == (hashes[w] \cup r.inv) \ r.gone
          IN /\ Serve(w, r, "healthy")
             /\ status' = [status EXCEPT ![w] =
                             IF @ = "offline" THEN "active" ELSE @]
             /\ Inventory(w, inv) /\ Persist(w, inv)
             /\ quiet' = quiet \ {w} /\ seen' = seen \cup {w}
             /\ UNCHANGED <<health, penalty>>
     ELSE Serve(w, r, UnknownWorker)
          /\ UNCHANGED <<registry, quiet, seen, saved, savedInv>>
  /\ UNCHANGED <<cred, dispatched, overtaken>>

HandleLeave(w, r) ==
  /\ r.op = "leave" /\ Authorised(r)
  /\ Serve(w, r, IF Registered(w) THEN "done" ELSE "error")
  /\ IF Registered(w) THEN Removed({w})
                      ELSE UNCHANGED <<registry, saved, savedInv>>
  /\ UNCHANGED <<volatile, overtaken>>

\* require_worker: 401, whoever is registered
Deny(w, r) ==
  /\ r.op \in {"beat", "leave"} /\ ~Authorised(r)
  /\ Serve(w, r, "error")
  /\ UNCHANGED <<registry, volatile, saved, savedInv, overtaken>>

\* evict_expired_workers, from the eviction loop
EvictExpired ==
  /\ \E w \in quiet : Registered(w)
  /\ Removed({w \in quiet : Registered(w)})
  /\ UNCHANGED <<secure, volatile, cas, client, network, overtaken, faults,
                 failures>>

\* The status a worker's health record gives it, if its standing changed.
Standing(w, p) == IF p >= SuspectAt THEN "suspect"
                  ELSE IF p >= DegradedAt THEN "degraded" ELSE health[w]
StatusOf(w, hl) == IF hl = "suspect" THEN "unhealthy"
                   ELSE IF hl = "degraded" THEN "degraded" ELSE "active"

\* An attempt was given to a worker the placement engine accepts.
Dispatch(w) ==
  /\ status[w] = "active" /\ w \notin dispatched
  /\ dispatched' = dispatched \cup {w}
  /\ UNCHANGED <<secure, registry, quiet, cred, seen, durable, client,
                 network, overtaken, faults, failures>>

\* record_failure: the worker may have been unregistered meanwhile, its
\* record is charged all the same.  The row in the store is not rewritten.
RecordFailure(w) ==
  LET p == penalty[w] + Penalty
  IN /\ w \in dispatched /\ failures < FailureBound
     /\ penalty' = [penalty EXCEPT ![w] = p]
     /\ health' = [health EXCEPT ![w] = Standing(w, p)]
     /\ status' = [status EXCEPT ![w] =
          IF Registered(w) /\ p >= DegradedAt THEN StatusOf(w, Standing(w, p))
                                              ELSE @]
     /\ failures' = failures + 1
     /\ UNCHANGED <<secure, hashes, index, volatile, durable, client,
                    network, overtaken, faults>>

\* decay_penalties, over one half-life: the health record moves at most one
\* grade, and only then is the status rewritten.
Decayed(w) == penalty[w] \div 2
\* mutant: only a degraded worker recovers
RecoveredFromDegraded(w) ==
  IF Decayed(w) < DegradedAt /\ health[w] = "degraded" THEN "healthy"
                                                       ELSE health[w]
Recovered(w) ==
  CASE Decayed(w) < DegradedAt /\ health[w] = "degraded" -> "healthy"
    [] Decayed(w) < SuspectAt /\ health[w] = "suspect"   -> "degraded"
    [] OTHER                                             -> health[w]
DecayPenalties ==
  /\ \E w \in Worker : penalty[w] > 0 \/ Recovered(w) # health[w]
  /\ penalty' = [w \in Worker |-> Decayed(w)]
  /\ health' = [w \in Worker |-> Recovered(w)]
  /\ status' = [w \in Worker |->
       IF Registered(w) /\ Recovered(w) # health[w]
       THEN StatusOf(w, Recovered(w)) ELSE status[w]]
  /\ UNCHANGED <<secure, hashes, index, volatile, durable, client, network,
                 overtaken, faults, failures>>

\* The health loop drains a risky worker without attempts and revives it.
SetStatus(w, from, to) ==
  /\ status[w] = from
  /\ status' = [status EXCEPT ![w] = to]
  /\ Persist(w, hashes[w])
  /\ UNCHANGED <<secure, hashes, index, health, penalty, volatile, cas,
                 client, network, overtaken, failures>>
Drain(w)  == /\ faults < FaultBound /\ faults' = faults + 1
             /\ SetStatus(w, "active", "draining")
Revive(w) == SetStatus(w, "draining", "active") /\ UNCHANGED faults

\* An execution result: its outputs are indexed for the worker that ran it,
\* before that worker reports them (add_worker_hashes).
AddOutputs(w, h) ==
  /\ w \in dispatched /\ pc[w] # "off" /\ h \notin cas[w]
  /\ cas' = [cas EXCEPT ![w] = @ \cup {h}]
  /\ IF Registered(w)
     THEN Inventory(w, hashes[w] \cup {h}) /\ Persist(w, hashes[w] \cup {h})
     ELSE UNCHANGED <<hashes, index, saved, savedInv>>
  /\ UNCHANGED <<secure, status, health, penalty, volatile, client, network,
                 overtaken, faults, failures>>

\* mutant: restored workers keep being trusted
RestoredActive == "active"
RestoredStatus == "offline"
\* A crash and the restart: only the state store survives.  Restored workers
\* are unverified, their heartbeat clock starts anew, no credential is known.
Restart ==
  /\ faults < FaultBound /\ faults' = faults + 1
  /\ status' = [w \in Worker |-> IF w \in saved THEN RestoredStatus ELSE "none"]
  /\ hashes' = [w \in Worker |-> IF w \in saved THEN savedInv[w] ELSE {}]
  /\ index' = [h \in Hash |-> {w \in saved : h \in savedInv[w]}]
  /\ health' = [w \in Worker |-> IF w \in saved THEN "healthy" ELSE "none"]
  /\ penalty' = [w \in Worker |-> 0]
  /\ quiet' = {} /\ dispatched' = {} /\ seen' = {}
  /\ cred' = {} /\ held' = AgedHeld(Worker)
  /\ req' = [w \in Worker |-> {}]
  /\ rsp' = [w \in Worker |-> AgedAnswer(w)]
  /\ UNCHANGED <<secure, durable, pc, reported, snap, overtaken, failures>>

\* Heartbeats stay away for longer than heartbeat_timeout_seconds.
Silence(w) ==
  /\ Registered(w) /\ w \notin quiet
  /\ quiet' = quiet \cup {w}
  /\ UNCHANGED <<secure, registry, cred, dispatched, seen, durable, client,
                 network, overtaken, faults, failures>>

-----------------------------------------------------------------------------
(* The worker's control loop *)

Send(w, op, inv, gone, tok, l) ==
  /\ req' = [req EXCEPT ![w] = @ \cup {[op |-> op, inv |-> inv,
               gone |-> gone, tok |-> tok, live |-> TRUE]}]
  /\ pc' = [pc EXCEPT ![w] = l]
  /\ snap' = [snap EXCEPT ![w] = cas[w]]

Elsewhere == <<secure, registry, volatile, durable, overtaken, failures>>

\* start(): register with the full inventory
Start(w) ==
  /\ pc[w] = "off"
  /\ Send(w, "register", cas[w], {}, "none", "joining")
  /\ UNCHANGED <<Elsewhere, reported, held, rsp, faults>>

\* send_heartbeat: the delta against the last acknowledged report
Beat(w) ==
  /\ pc[w] = "idle"
  /\ Send(w, "beat", cas[w] \ reported[w], reported[w] \ cas[w], held[w],
          "beating")
  /\ UNCHANGED <<Elsewhere, reported, held, rsp, faults>>

\* The process is gone: its client's credential and report with it.
Forget(w) ==
  /\ reported' = [reported EXCEPT ![w] = {}]
  /\ held' = [held EXCEPT ![w] = "none"]

\* mutant: what is reported is read again when the answer comes
AcknowledgedNow(w) == cas[w]
Acknowledged(w) == snap[w]
\* The answer arrives: store the credential, or join again, or go on.
Deliver(w) ==
  LET a == rsp[w]
  IN /\ Waiting(w) /\ a # NoAnswer
     /\ rsp' = [rsp EXCEPT ![w] = NoAnswer]
     /\ \/ /\ pc[w] = "leaving"
           /\ pc' = [pc EXCEPT ![w] = "off"] /\ Forget(w)
           /\ UNCHANGED <<snap, req>>
        \/ /\ pc[w] # "leaving" /\ a.kind = "rejoin"
           /\ Send(w, "register", cas[w], {}, "none", "rejoining")
           /\ UNCHANGED <<reported, held>>
        \/ /\ pc[w] # "leaving" /\ a.kind = "error"
           /\ pc' = [pc EXCEPT ![w] = "idle"]
           /\ UNCHANGED <<reported, held, snap, req>>
        \/ /\ pc[w] # "leaving" /\ a.kind \notin {"rejoin", "error"}
           /\ pc' = [pc EXCEPT ![w] = "idle"]
           /\ reported' = [reported EXCEPT ![w] = Acknowledged(w)]
           /\ held' = [held EXCEPT ![w] =
                IF a.kind = "registered" THEN a.tok ELSE @]
           /\ UNCHANGED <<snap, req>>
     /\ UNCHANGED <<Elsewhere, faults>>

\* What is left of the pending request when its sender stops waiting: it is
\* lost, or it may still be served.  At most one late request per worker.
Abandoned(w) ==
  LET R == {r \in req[w] : r.live}
      late == {[r EXCEPT !.live = FALSE] : r \in R}
  IN {req[w] \ R} \cup (IF \E r \in req[w] : ~r.live THEN {}
                        ELSE {(req[w] \ R) \cup late})

\* Connection error, timeout or lost answer.  A first registration that fails
\* ends start(); the heartbeat loop logs and goes on.
Fail(w) ==
  /\ Waiting(w)
  /\ IF rsp[w] = NoAnswer /\ {r \in req[w] : r.live} = {}
     THEN UNCHANGED faults
     ELSE faults < FaultBound /\ faults' = faults + 1
  /\ \E R \in Abandoned(w) : req' = [req EXCEPT ![w] = R]
  /\ rsp' = [rsp EXCEPT ![w] = NoAnswer]
  /\ IF pc[w] \in {"joining", "leaving"}
     THEN pc' = [pc EXCEPT ![w] = "off"] /\ Forget(w)
     ELSE pc' = [pc EXCEPT ![w] = "idle"] /\ UNCHANGED <<reported, held>>
  /\ UNCHANGED <<Elsewhere, snap>>

\* stop(): the loop is cancelled wherever it is, then unregister_worker
Stop(w) ==
  /\ pc[w] \in {"idle", "beating", "rejoining"}
  /\ faults < FaultBound /\ faults' = faults + 1
  /\ \E R \in Abandoned(w) : req' = [req EXCEPT ![w] = R \cup
       {[op |-> "leave", inv |-> {}, gone |-> {}, tok |-> held[w],
         live |-> TRUE]}]
  /\ rsp' = [rsp EXCEPT ![w] = NoAnswer]
  /\ pc' = [pc EXCEPT ![w] = "leaving"]
  /\ UNCHANGED <<Elsewhere, reported, held, snap>>

Crash(w) ==
  /\ pc[w] # "off" /\ faults < FaultBound /\ faults' = faults + 1
  /\ \E R \in Abandoned(w) : req' = [req EXCEPT ![w] = R]
  /\ rsp' = [rsp EXCEPT ![w] = NoAnswer]
  /\ pc' = [pc EXCEPT ![w] = "off"] /\ Forget(w)
  /\ UNCHANGED <<Elsewhere, snap>>

\* A transfer or an ingestion stores an object.
Ingest(w, h) ==
  /\ pc[w] # "off" /\ h \notin cas[w]
  /\ cas' = [cas EXCEPT ![w] = @ \cup {h}]
  /\ UNCHANGED <<secure, registry, volatile, saved, savedInv, client,
                 network, overtaken, faults, failures>>

-----------------------------------------------------------------------------
Handle(w) == \E r \in req[w] : \/ HandleRegister(w, r) \/ HandleBeat(w, r)
                               \/ HandleLeave(w, r) \/ Deny(w, r)

Next ==
  \/ EvictExpired \/ DecayPenalties \/ Restart
  \/ \E w \in Worker :
       \/ Handle(w) \/ Dispatch(w) \/ RecordFailure(w)
       \/ Drain(w) \/ Revive(w) \/ Silence(w)
       \/ Start(w) \/ Beat(w) \/ Deliver(w) \/ Fail(w) \/ Stop(w) \/ Crash(w)
       \/ \E h \in Hash : AddOutputs(w, h) \/ Ingest(w, h)

\* The coordinator serves requests and runs its eviction loop, which also
\* decays penalties; a worker that runs beats periodically, and its HTTP
\* calls end in an answer or an error.  Nothing obliges a worker to start or
\* to stop, and nothing is promised about faults.
Fairness ==
  /\ WF_vars(EvictExpired) /\ WF_vars(DecayPenalties)
  /\ \A w \in Worker :
       /\ WF_vars(Handle(w)) /\ WF_vars(Beat(w)) /\ WF_vars(Deliver(w))
       /\ WF_vars(Fail(w) /\ UNCHANGED faults)

Spec == Init /\ [][Next]_vars /\ Fairness

-----------------------------------------------------------------------------
(* Properties *)

\* The two indexes of the registry agree at all times, whichever of
\* registration, heartbeat, execution result, removal, eviction and restart
\* came last, name registered workers only, and never list an object its
\* worker does not hold: asset location sends nobody to an empty store.  The
\* last part rests on stores that only grow: nothing calls delete_asset
\* (cas_adapter.py:342), so no worker ever reports an object as removed and
\* the branch of a heartbeat that takes entries out (registry.py:483) has
\* nothing to do.
IndexDual ==
  /\ \A w \in Worker, h \in Hash : w \in index[h] <=> h \in hashes[w]
  /\ \A w \in Worker : hashes[w] \subseteq cas[w]
  /\ \A w \in Worker : hashes[w] # {} => Registered(w)

\* Heartbeats send deltas, so an object the worker believes acknowledged is
\* never sent again: it has to be in the index, or it stays invisible until
\* the next registration.  Only a registration served after its sender gave
\* up and joined again (HandleRegister of a request that is not live) can
\* break this.
AckedIsIndexed ==
  \A w \in Worker :
    Registered(w) /\ pc[w] = "idle" /\ w \notin overtaken
      => reported[w] \subseteq hashes[w]

\* Which workers locate_assets names for an object (include_degraded), and
\* which the placement engine may choose.
Located(h) == {w \in index[h] : status[w] # "offline"}
Selectable == {w \in Worker : status[w] = "active"}
\* "restored workers are NOT trusted as live compute candidates merely because
\* a row exists": whoever is located or selected has been heard from since the
\* coordinator started, also after failures, decay, drain and revival.
TrustedSeen == (UNION {Located(h) : h \in Hash}) \cup Selectable \subseteq seen

\* Penalties wear off: a registered worker whose record is degraded or suspect
\* is healthy again some day, or is removed.
Recovers ==
  \A w \in Worker :
    (Registered(w) /\ health[w] # "healthy")
      ~> (health[w] = "healthy" \/ ~Registered(w))

\* Its credential is not the coordinator's: every heartbeat is answered 401.
LockedOut(w) == secure /\ held[w] # "current"
\* An object on a running worker becomes locatable: evictions, lost messages
\* and restarts are repaired by later heartbeats and re-registration, unless
\* the worker is locked out or was overtaken by its own late registration.
AssetsPublished ==
  \A w \in Worker, h \in Hash :
    (h \in cas[w]) ~> (h \in hashes[w] \/ pc[w] = "off" \/ LockedOut(w)
                       \/ w \in overtaken)

\* auth.py: "a coordinator restart clears them, forcing every worker to
\* re-register".  A worker the coordinator has no credential for registers
\* again, or stops.
ForcedToReRegister ==
  \A w \in Worker :
    (secure /\ pc[w] = "idle" /\ w \notin cred)
      ~> (w \in cred \/ pc[w] = "off")
==============================================================================
