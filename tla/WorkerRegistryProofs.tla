------------------------- MODULE WorkerRegistryProofs -------------------------
(***************************************************************************)
(* Proofs about WorkerRegistry, for any sets of workers and assets, any    *)
(* thresholds and any number of faults and failures.                       *)
(***************************************************************************)
EXTENDS WorkerRegistry, TLAPS

-----------------------------------------------------------------------------
(* The inductive invariant *)

\* Whatever a request under way or a row of the store says about a worker's
\* inventory was true when it was said, and stores only grow.
ClaimsBacked ==
  \A w \in Worker :
    /\ savedInv[w] \subseteq cas[w]
    /\ \A r \in req[w] : r.inv \subseteq cas[w]

\* A worker that was not heard from has no attempt since the restart, so that
\* neither a failure nor the decay of a penalty can touch its status.
UnheardUntouched ==
  /\ dispatched \subseteq seen
  /\ \A w \in Worker : w \notin seen =>
       /\ status[w] \in {"offline", "none"}
       /\ health[w] \in {"none", "healthy", "dead"}

\* The store has a row for each registered worker, with its inventory.
RowsCurrent ==
  \A w \in Worker : /\ Registered(w) <=> w \in saved
                    /\ Registered(w) => savedInv[w] = hashes[w]

\* A worker has what it reported or is about to report, so no heartbeat takes
\* anything back.
ReportsBacked ==
  \A w \in Worker : /\ reported[w] \cup snap[w] \subseteq cas[w]
                    /\ \A r \in req[w] : r.gone = {}

\* A worker waits for one request at a time.
OnePending ==
  \A w \in Worker :
    /\ rsp[w] # NoAnswer => Waiting(w)
    /\ rsp[w].kind = "none" => rsp[w] = NoAnswer
    /\ \A r \in req[w] :
         /\ r.op = "register" => r.tok = "none"
         /\ r.live => Waiting(w) /\ rsp[w] = NoAnswer
    /\ \A r, q \in req[w] : r.live /\ q.live => r = q

\* What is pending together with what is indexed makes up the inventory the
\* worker will take as acknowledged.
PendingComplete ==
  \A w \in Worker :
    /\ \A r \in req[w] : r.live =>
         /\ r.op = "register" => r.inv = snap[w] /\ reported[w] \subseteq snap[w]
         /\ r.op = "beat" => snap[w] \subseteq reported[w] \cup r.inv
         /\ r.op = "leave" => pc[w] = "leaving"
    /\ rsp[w].kind = "done" => pc[w] = "leaving"

\* Between the moment the coordinator has served a request and the moment the
\* worker learns of it, the index holds both the old and the new report.
AnswersIndexed ==
  \A w \in Worker : Registered(w) /\ w \notin overtaken =>
    /\ reported[w] \subseteq hashes[w]
    /\ rsp[w].kind \in {"healthy", "registered"} => snap[w] \subseteq hashes[w]

AckInv == RowsCurrent /\ ReportsBacked /\ OnePending /\ PendingComplete /\ AnswersIndexed
RegInv == RegTypeOK /\ IndexDual /\ ClaimsBacked /\ UnheardUntouched

-----------------------------------------------------------------------------
(* Requests and answers *)

\* The fields of a request have their types.
LEMMA RequestFields ==
  ASSUME NEW r \in Request
  PROVE  r.inv \in SUBSET Hash /\ r.gone \in SUBSET Hash /\ r.tok \in Token
BY DEF Request

\* An aged credential is a credential.
LEMMA AgedToken == ASSUME NEW t \in Token PROVE Aged(t) \in Token
BY DEF Aged, Token

\* Ageing the credential of a request under way changes nothing else.
LEMMA AgedRequest ==
  ASSUME NEW w \in Worker, NetworkTypeOK, NEW q \in AgedRequests(w)
  PROVE  /\ q \in Request
         /\ \E r \in req[w] : /\ q = [r EXCEPT !.tok = Aged(@)]
                              /\ q.inv = r.inv /\ q.gone = r.gone
                              /\ q.op = r.op /\ q.live = r.live
                              /\ r.tok = "none" => q = r
<1>1. PICK r \in req[w] : q = [r EXCEPT !.tok = Aged(@)] BY DEF AgedRequests
<1>2. r \in Request BY DEF NetworkTypeOK
<1>3. Aged(r.tok) \in Token BY <1>2, RequestFields, AgedToken
<1>4. q \in Request BY <1>1, <1>2, <1>3 DEF Request
<1>5. q.inv = r.inv /\ q.gone = r.gone /\ q.op = r.op /\ q.live = r.live
  BY <1>1, <1>2 DEF Request
<1>6. r.tok = "none" => q = r BY <1>1, <1>2 DEF Request, Aged
<1> QED BY <1>1, <1>4, <1>5, <1>6

\* An answer keeps its kind.
LEMMA AgedAnswerType ==
  ASSUME NEW w \in Worker, NetworkTypeOK
  PROVE  /\ AgedAnswer(w) \in Answer /\ AgedAnswer(w).kind = rsp[w].kind
         /\ rsp[w] = NoAnswer => AgedAnswer(w) = NoAnswer
<1>1. rsp[w] \in Answer BY DEF NetworkTypeOK
<1>2. rsp[w].tok \in Token BY <1>1 DEF Answer
<1>3. Aged(rsp[w].tok) \in Token BY <1>2, AgedToken
<1>4. AgedAnswer(w) \in Answer /\ AgedAnswer(w).kind = rsp[w].kind
  BY <1>1, <1>3 DEF AgedAnswer, Answer
<1>5. rsp[w] = NoAnswer => AgedAnswer(w) = NoAnswer
  BY <1>1 DEF AgedAnswer, Aged, NoAnswer, Answer
<1> QED BY <1>4, <1>5

\* What is left of a request whose sender stops waiting is one that was sent.
LEMMA AbandonedRequest ==
  ASSUME NEW w \in Worker, NetworkTypeOK, NEW R \in Abandoned(w), NEW q \in R
  PROVE  /\ q \in Request /\ ~q.live
         /\ \E r \in req[w] : /\ q.inv = r.inv /\ q.gone = r.gone
                              /\ q.op = r.op /\ q.tok = r.tok
<1>1. req[w] \subseteq Request BY DEF NetworkTypeOK
<1>2. CASE q \in req[w] /\ ~q.live BY <1>1, <1>2
<1>3. CASE ~(q \in req[w] /\ ~q.live)
  <2>1. PICK r \in req[w] : q = [r EXCEPT !.live = FALSE] BY <1>3 DEF Abandoned
  <2>2. r \in Request BY <1>1
  <2>3. /\ q \in Request /\ ~q.live
        /\ q.inv = r.inv /\ q.gone = r.gone /\ q.op = r.op /\ q.tok = r.tok
    BY <2>1, <2>2 DEF Request
  <2> QED BY <2>3
<1> QED BY <1>2, <1>3

\* A request that is sent has its type and carries the sender's inventory.
LEMMA SentRequest ==
  ASSUME NEW w \in Worker, NEW op \in {"register", "beat", "leave"}, WorkerTypeOK,
         NetworkTypeOK, NEW inv \in SUBSET cas[w], NEW gone \in SUBSET Hash,
         NEW tok \in Token, NEW l, Send(w, op, inv, gone, tok, l)
  PROVE  /\ req' \in [Worker -> SUBSET Request]
         /\ \A v \in Worker : \A q \in req'[v] :
              q \in req[v] \/ (v = w /\ q.inv = inv)
<1> DEFINE new == [op |-> op, inv |-> inv, gone |-> gone, tok |-> tok, live |-> TRUE]
<1>1. new \in Request BY DEF Request, WorkerTypeOK
<1>2. req' = [req EXCEPT ![w] = @ \cup {new}] BY DEF Send
<1>3. req' \in [Worker -> SUBSET Request]
  <2> HIDE DEF new
  <2> QED BY <1>1, <1>2 DEF NetworkTypeOK
<1>4. \A v \in Worker : \A q \in req'[v] : q \in req[v] \/ (v = w /\ q = new)
  <2> HIDE DEF new
  <2> QED BY <1>2 DEF NetworkTypeOK
<1>5. new.inv = inv OBVIOUS
<1> HIDE DEF new
<1> QED BY <1>3, <1>4, <1>5

-----------------------------------------------------------------------------
(* Initial states *)

\* Nobody is known, nothing is under way.
LEMMA InitInv == Init => RegInv
<1> SUFFICES ASSUME Init PROVE RegInv OBVIOUS
<1>1. RegTypeOK
  BY RegistryAssumption DEF Init, RegTypeOK, CoordinatorTypeOK, WorkerTypeOK,
         NetworkTypeOK, Status, Health, Token, Pc, Answer, NoAnswer
<1>2. IndexDual BY DEF Init, IndexDual, Registered
<1>3. ClaimsBacked BY DEF Init, ClaimsBacked
<1>4. UnheardUntouched BY DEF Init, UnheardUntouched
<1> QED BY <1>1, <1>2, <1>3, <1>4 DEF RegInv

-----------------------------------------------------------------------------
(* One lemma per action *)

\* Evicting removes the workers from both indexes.
LEMMA EvictExpiredInv ==
  ASSUME RegInv, EvictExpired PROVE RegInv'
<1> USE DEF EvictExpired, Removed, Registered, registry, volatile, durable, client,
      network, Elsewhere
<1>1. CoordinatorTypeOK'
  BY RegistryAssumption DEF RegInv, RegTypeOK, CoordinatorTypeOK, Status, Health
<1>2. WorkerTypeOK'
  BY DEF RegInv, RegTypeOK, WorkerTypeOK, Token, Pc
<1>3. NetworkTypeOK'
  BY DEF RegInv, RegTypeOK, NetworkTypeOK, Answer, Token
<1>4. faults' \in 0 .. FaultBound /\ failures' \in 0 .. FailureBound
  BY RegistryAssumption DEF RegInv, RegTypeOK
<1>5. IndexDual'
  BY DEF RegInv, RegTypeOK, CoordinatorTypeOK, WorkerTypeOK, IndexDual, ClaimsBacked
<1>6. ClaimsBacked'
  BY DEF RegInv, RegTypeOK, CoordinatorTypeOK, WorkerTypeOK, NetworkTypeOK,
        ClaimsBacked, IndexDual
<1>7. UnheardUntouched'
  BY DEF RegInv, RegTypeOK, CoordinatorTypeOK, UnheardUntouched, Status, Health
<1> QED BY <1>1, <1>2, <1>3, <1>4, <1>5, <1>6, <1>7 DEF RegInv, RegTypeOK

\* Decay halves penalties and moves records of workers that were heard from.
LEMMA DecayPenaltiesInv ==
  ASSUME RegInv, DecayPenalties PROVE RegInv'
<1> USE DEF DecayPenalties, Recovered, Registered, StatusOf, registry, volatile,
      durable, client, network, Elsewhere
<1>1. CoordinatorTypeOK'
    <2>1. penalty' \in [Worker -> Nat]
    <3> SUFFICES ASSUME NEW w \in Worker PROVE Decayed(w) \in Nat BY DEF CoordinatorTypeOK
    <3>1. penalty[w] \in Nat BY DEF RegInv, RegTypeOK, CoordinatorTypeOK
    <3> QED BY <3>1 DEF Decayed
  <2> QED BY <2>1 DEF RegInv, RegTypeOK, CoordinatorTypeOK, Status, Health
<1>2. WorkerTypeOK'
  BY DEF RegInv, RegTypeOK, WorkerTypeOK, Token, Pc
<1>3. NetworkTypeOK'
  BY DEF RegInv, RegTypeOK, NetworkTypeOK, Answer, Token
<1>4. faults' \in 0 .. FaultBound /\ failures' \in 0 .. FailureBound
  BY RegistryAssumption DEF RegInv, RegTypeOK
<1>5. IndexDual'
  BY DEF RegInv, RegTypeOK, CoordinatorTypeOK, WorkerTypeOK, IndexDual, ClaimsBacked
<1>6. ClaimsBacked'
  BY DEF RegInv, RegTypeOK, CoordinatorTypeOK, WorkerTypeOK, NetworkTypeOK,
        ClaimsBacked, IndexDual
<1>7. UnheardUntouched'
  BY DEF RegInv, RegTypeOK, CoordinatorTypeOK, UnheardUntouched, Status, Health
<1> QED BY <1>1, <1>2, <1>3, <1>4, <1>5, <1>6, <1>7 DEF RegInv, RegTypeOK

\* A restart rebuilds the indexes from the rows; nobody has been heard from.
LEMMA RestartInv ==
  ASSUME RegInv, Restart PROVE RegInv'
<1> USE DEF Restart, RestoredStatus, AgedHeld, AgedAnswer, Aged, registry, volatile,
      durable, client, network, Elsewhere
<1>1. CoordinatorTypeOK'
  BY RegistryAssumption DEF RegInv, RegTypeOK, CoordinatorTypeOK, Status, Health
<1>2. WorkerTypeOK'
  BY DEF RegInv, RegTypeOK, WorkerTypeOK, Token, Pc
<1>3. NetworkTypeOK'
  BY DEF RegInv, RegTypeOK, NetworkTypeOK, Answer, Token
<1>4. faults' \in 0 .. FaultBound /\ failures' \in 0 .. FailureBound
  BY RegistryAssumption DEF RegInv, RegTypeOK
<1>5. IndexDual'
  BY DEF RegInv, RegTypeOK, CoordinatorTypeOK, WorkerTypeOK, IndexDual, ClaimsBacked,
        Registered
<1>6. ClaimsBacked'
  BY DEF RegInv, RegTypeOK, CoordinatorTypeOK, WorkerTypeOK, NetworkTypeOK,
        ClaimsBacked, IndexDual
<1>7. UnheardUntouched'
  BY DEF RegInv, RegTypeOK, CoordinatorTypeOK, UnheardUntouched, Status, Health
<1> QED BY <1>1, <1>2, <1>3, <1>4, <1>5, <1>6, <1>7 DEF RegInv, RegTypeOK

\* Leaving removes the worker from both indexes.
LEMMA HandleLeaveInv ==
  ASSUME RegInv, NEW w \in Worker, NEW r \in req[w], HandleLeave(w, r) PROVE RegInv'
<1> USE DEF HandleLeave, Serve, Answered, Removed, Registered, registry, volatile,
      durable, client, network, Elsewhere
<1>1. CoordinatorTypeOK'
  BY RegistryAssumption DEF RegInv, RegTypeOK, CoordinatorTypeOK, Status, Health
<1>2. WorkerTypeOK'
  BY DEF RegInv, RegTypeOK, WorkerTypeOK, Token, Pc
<1>3. NetworkTypeOK'
  BY DEF RegInv, RegTypeOK, NetworkTypeOK, Answer, Token
<1>4. faults' \in 0 .. FaultBound /\ failures' \in 0 .. FailureBound
  BY RegistryAssumption DEF RegInv, RegTypeOK
<1>5. IndexDual'
    <2>1. CASE Registered(w)
    BY <2>1 DEF RegInv, RegTypeOK, CoordinatorTypeOK, WorkerTypeOK, IndexDual
  <2>2. CASE ~Registered(w) BY <2>2 DEF RegInv, IndexDual
  <2> QED BY <2>1, <2>2
<1>6. ClaimsBacked'
  BY DEF RegInv, RegTypeOK, CoordinatorTypeOK, WorkerTypeOK, NetworkTypeOK,
        ClaimsBacked, IndexDual
<1>7. UnheardUntouched'
  BY DEF RegInv, RegTypeOK, CoordinatorTypeOK, UnheardUntouched, Status, Health
<1> QED BY <1>1, <1>2, <1>3, <1>4, <1>5, <1>6, <1>7 DEF RegInv, RegTypeOK

\* A refused request changes nothing but its answer.
LEMMA DenyInv ==
  ASSUME RegInv, NEW w \in Worker, NEW r \in req[w], Deny(w, r) PROVE RegInv'
<1> USE DEF Deny, Serve, Answered, registry, volatile, durable, client, network, Elsewhere
<1>1. CoordinatorTypeOK'
  BY RegistryAssumption DEF RegInv, RegTypeOK, CoordinatorTypeOK, Status, Health
<1>2. WorkerTypeOK'
  BY DEF RegInv, RegTypeOK, WorkerTypeOK, Token, Pc
<1>3. NetworkTypeOK'
  BY DEF RegInv, RegTypeOK, NetworkTypeOK, Answer, Token
<1>4. faults' \in 0 .. FaultBound /\ failures' \in 0 .. FailureBound
  BY RegistryAssumption DEF RegInv, RegTypeOK
<1>5. IndexDual'
  BY DEF RegInv, RegTypeOK, CoordinatorTypeOK, WorkerTypeOK, IndexDual, ClaimsBacked,
        Registered
<1>6. ClaimsBacked'
  BY DEF RegInv, RegTypeOK, CoordinatorTypeOK, WorkerTypeOK, NetworkTypeOK,
        ClaimsBacked, IndexDual
<1>7. UnheardUntouched'
  BY DEF RegInv, RegTypeOK, CoordinatorTypeOK, UnheardUntouched, Status, Health
<1> QED BY <1>1, <1>2, <1>3, <1>4, <1>5, <1>6, <1>7 DEF RegInv, RegTypeOK

\* Only a worker that was heard from is given an attempt.
LEMMA DispatchInv ==
  ASSUME RegInv, NEW w \in Worker, Dispatch(w) PROVE RegInv'
<1> USE DEF Dispatch, registry, volatile, durable, client, network, Elsewhere
<1>1. CoordinatorTypeOK'
  BY RegistryAssumption DEF RegInv, RegTypeOK, CoordinatorTypeOK, Status, Health
<1>2. WorkerTypeOK'
  BY DEF RegInv, RegTypeOK, WorkerTypeOK, Token, Pc
<1>3. NetworkTypeOK'
  BY DEF RegInv, RegTypeOK, NetworkTypeOK, Answer, Token
<1>4. faults' \in 0 .. FaultBound /\ failures' \in 0 .. FailureBound
  BY RegistryAssumption DEF RegInv, RegTypeOK
<1>5. IndexDual'
  BY DEF RegInv, RegTypeOK, CoordinatorTypeOK, WorkerTypeOK, IndexDual, ClaimsBacked,
        Registered
<1>6. ClaimsBacked'
  BY DEF RegInv, RegTypeOK, CoordinatorTypeOK, WorkerTypeOK, NetworkTypeOK,
        ClaimsBacked, IndexDual
<1>7. UnheardUntouched'
  BY DEF RegInv, RegTypeOK, CoordinatorTypeOK, UnheardUntouched, Status, Health
<1> QED BY <1>1, <1>2, <1>3, <1>4, <1>5, <1>6, <1>7 DEF RegInv, RegTypeOK

\* A failure is charged to a worker that was heard from.
LEMMA RecordFailureInv ==
  ASSUME RegInv, NEW w \in Worker, RecordFailure(w) PROVE RegInv'
<1> USE DEF RecordFailure, Standing, StatusOf, Registered, registry, volatile, durable,
      client, network, Elsewhere
<1>1. CoordinatorTypeOK'
  BY RegistryAssumption DEF RegInv, RegTypeOK, CoordinatorTypeOK, Status, Health
<1>2. WorkerTypeOK'
  BY DEF RegInv, RegTypeOK, WorkerTypeOK, Token, Pc
<1>3. NetworkTypeOK'
  BY DEF RegInv, RegTypeOK, NetworkTypeOK, Answer, Token
<1>4. faults' \in 0 .. FaultBound /\ failures' \in 0 .. FailureBound
  BY RegistryAssumption DEF RegInv, RegTypeOK
<1>5. IndexDual'
  BY DEF RegInv, RegTypeOK, CoordinatorTypeOK, WorkerTypeOK, IndexDual, ClaimsBacked
<1>6. ClaimsBacked'
  BY DEF RegInv, RegTypeOK, CoordinatorTypeOK, WorkerTypeOK, NetworkTypeOK,
        ClaimsBacked, IndexDual
<1>7. UnheardUntouched'
  BY DEF RegInv, RegTypeOK, CoordinatorTypeOK, UnheardUntouched, Status, Health
<1> QED BY <1>1, <1>2, <1>3, <1>4, <1>5, <1>6, <1>7 DEF RegInv, RegTypeOK

\* Draining writes the row again.
LEMMA DrainInv ==
  ASSUME RegInv, NEW w \in Worker, Drain(w) PROVE RegInv'
<1> USE DEF Drain, SetStatus, Persist, registry, volatile, durable, client, network,
      Elsewhere
<1>1. CoordinatorTypeOK'
  BY RegistryAssumption DEF RegInv, RegTypeOK, CoordinatorTypeOK, Status, Health
<1>2. WorkerTypeOK'
  BY DEF RegInv, RegTypeOK, WorkerTypeOK, Token, Pc
<1>3. NetworkTypeOK'
  BY DEF RegInv, RegTypeOK, NetworkTypeOK, Answer, Token
<1>4. faults' \in 0 .. FaultBound /\ failures' \in 0 .. FailureBound
  BY RegistryAssumption DEF RegInv, RegTypeOK
<1>5. IndexDual'
  BY DEF RegInv, RegTypeOK, CoordinatorTypeOK, WorkerTypeOK, IndexDual, ClaimsBacked,
        Registered
<1>6. ClaimsBacked'
  BY DEF RegInv, RegTypeOK, CoordinatorTypeOK, WorkerTypeOK, NetworkTypeOK,
        ClaimsBacked, IndexDual
<1>7. UnheardUntouched'
  BY DEF RegInv, RegTypeOK, CoordinatorTypeOK, UnheardUntouched, Status, Health
<1> QED BY <1>1, <1>2, <1>3, <1>4, <1>5, <1>6, <1>7 DEF RegInv, RegTypeOK

\* So does reviving.
LEMMA ReviveInv ==
  ASSUME RegInv, NEW w \in Worker, Revive(w) PROVE RegInv'
<1> USE DEF Revive, SetStatus, Persist, registry, volatile, durable, client, network,
      Elsewhere
<1>1. CoordinatorTypeOK'
  BY RegistryAssumption DEF RegInv, RegTypeOK, CoordinatorTypeOK, Status, Health
<1>2. WorkerTypeOK'
  BY DEF RegInv, RegTypeOK, WorkerTypeOK, Token, Pc
<1>3. NetworkTypeOK'
  BY DEF RegInv, RegTypeOK, NetworkTypeOK, Answer, Token
<1>4. faults' \in 0 .. FaultBound /\ failures' \in 0 .. FailureBound
  BY RegistryAssumption DEF RegInv, RegTypeOK
<1>5. IndexDual'
  BY DEF RegInv, RegTypeOK, CoordinatorTypeOK, WorkerTypeOK, IndexDual, ClaimsBacked,
        Registered
<1>6. ClaimsBacked'
  BY DEF RegInv, RegTypeOK, CoordinatorTypeOK, WorkerTypeOK, NetworkTypeOK,
        ClaimsBacked, IndexDual
<1>7. UnheardUntouched'
  BY DEF RegInv, RegTypeOK, CoordinatorTypeOK, UnheardUntouched, Status, Health
<1> QED BY <1>1, <1>2, <1>3, <1>4, <1>5, <1>6, <1>7 DEF RegInv, RegTypeOK

\* Time passes.
LEMMA SilenceInv ==
  ASSUME RegInv, NEW w \in Worker, Silence(w) PROVE RegInv'
<1> USE DEF Silence, registry, volatile, durable, client, network, Elsewhere
<1>1. CoordinatorTypeOK'
  BY RegistryAssumption DEF RegInv, RegTypeOK, CoordinatorTypeOK, Status, Health
<1>2. WorkerTypeOK'
  BY DEF RegInv, RegTypeOK, WorkerTypeOK, Token, Pc
<1>3. NetworkTypeOK'
  BY DEF RegInv, RegTypeOK, NetworkTypeOK, Answer, Token
<1>4. faults' \in 0 .. FaultBound /\ failures' \in 0 .. FailureBound
  BY RegistryAssumption DEF RegInv, RegTypeOK
<1>5. IndexDual'
  BY DEF RegInv, RegTypeOK, CoordinatorTypeOK, WorkerTypeOK, IndexDual, ClaimsBacked,
        Registered
<1>6. ClaimsBacked'
  BY DEF RegInv, RegTypeOK, CoordinatorTypeOK, WorkerTypeOK, NetworkTypeOK,
        ClaimsBacked, IndexDual
<1>7. UnheardUntouched'
  BY DEF RegInv, RegTypeOK, CoordinatorTypeOK, UnheardUntouched, Status, Health
<1> QED BY <1>1, <1>2, <1>3, <1>4, <1>5, <1>6, <1>7 DEF RegInv, RegTypeOK

\* Outputs are indexed for a worker that has them.
LEMMA AddOutputsInv ==
  ASSUME RegInv, NEW w \in Worker, NEW h \in Hash, AddOutputs(w, h) PROVE RegInv'
<1> USE DEF AddOutputs, Inventory, Reindexed, Persist, Registered, registry, volatile,
      durable, client, network, Elsewhere
<1>1. CoordinatorTypeOK'
  BY RegistryAssumption DEF RegInv, RegTypeOK, CoordinatorTypeOK, Status, Health
<1>2. WorkerTypeOK'
  BY DEF RegInv, RegTypeOK, WorkerTypeOK, Token, Pc
<1>3. NetworkTypeOK'
  BY DEF RegInv, RegTypeOK, NetworkTypeOK, Answer, Token
<1>4. faults' \in 0 .. FaultBound /\ failures' \in 0 .. FailureBound
  BY RegistryAssumption DEF RegInv, RegTypeOK
<1>5. IndexDual'
  BY DEF RegInv, RegTypeOK, CoordinatorTypeOK, WorkerTypeOK, IndexDual, ClaimsBacked
<1>6. ClaimsBacked'
  BY DEF RegInv, RegTypeOK, CoordinatorTypeOK, WorkerTypeOK, NetworkTypeOK,
        ClaimsBacked, IndexDual
<1>7. UnheardUntouched'
  BY DEF RegInv, RegTypeOK, CoordinatorTypeOK, UnheardUntouched, Status, Health
<1> QED BY <1>1, <1>2, <1>3, <1>4, <1>5, <1>6, <1>7 DEF RegInv, RegTypeOK

\* Stores only grow.
LEMMA IngestInv ==
  ASSUME RegInv, NEW w \in Worker, NEW h \in Hash, Ingest(w, h) PROVE RegInv'
<1> USE DEF Ingest, registry, volatile, durable, client, network, Elsewhere
<1>1. CoordinatorTypeOK'
  BY RegistryAssumption DEF RegInv, RegTypeOK, CoordinatorTypeOK, Status, Health
<1>2. WorkerTypeOK'
  BY DEF RegInv, RegTypeOK, WorkerTypeOK, Token, Pc
<1>3. NetworkTypeOK'
  BY DEF RegInv, RegTypeOK, NetworkTypeOK, Answer, Token
<1>4. faults' \in 0 .. FaultBound /\ failures' \in 0 .. FailureBound
  BY RegistryAssumption DEF RegInv, RegTypeOK
<1>5. IndexDual'
  BY DEF RegInv, RegTypeOK, CoordinatorTypeOK, WorkerTypeOK, IndexDual, ClaimsBacked,
        Registered
<1>6. ClaimsBacked'
  BY DEF RegInv, RegTypeOK, CoordinatorTypeOK, WorkerTypeOK, NetworkTypeOK,
        ClaimsBacked, IndexDual
<1>7. UnheardUntouched'
  BY DEF RegInv, RegTypeOK, CoordinatorTypeOK, UnheardUntouched, Status, Health
<1> QED BY <1>1, <1>2, <1>3, <1>4, <1>5, <1>6, <1>7 DEF RegInv, RegTypeOK

\* A registration replaces the worker's inventory by one it has.
LEMMA HandleRegisterInv ==
  ASSUME RegInv, NEW w \in Worker, NEW r \in req[w], HandleRegister(w, r) PROVE RegInv'
<1> USE DEF HandleRegister, RegisterWorker, Inventory, Reindexed, Persist,
      HealthOnRegister, AgedHeld, registry, volatile, durable, client, network,
      Elsewhere
<1> DEFINE left == AgedRequests(w) \ {r}
<1>a. r \in Request /\ r.inv \in SUBSET Hash /\ r.inv \subseteq cas[w]
  BY RequestFields DEF RegInv, RegTypeOK, NetworkTypeOK, ClaimsBacked
<1>b. left \subseteq Request /\ \A q \in left : q.inv \subseteq cas[w]
  BY AgedRequest DEF RegInv, RegTypeOK, ClaimsBacked
<1>c. req' = [req EXCEPT ![w] = left] OBVIOUS
<1> HIDE DEF left
<1>1. CoordinatorTypeOK'
  BY <1>a DEF RegInv, RegTypeOK, CoordinatorTypeOK, Status, Health
<1>2. WorkerTypeOK'
  BY DEF RegInv, RegTypeOK, WorkerTypeOK, Token, Pc, Aged
<1>3. NetworkTypeOK'
  BY <1>b, <1>c, AgedAnswerType DEF RegInv, RegTypeOK, NetworkTypeOK, Answer, Token
<1>4. faults' \in 0 .. FaultBound /\ failures' \in 0 .. FailureBound
  BY RegistryAssumption DEF RegInv, RegTypeOK
<1>5. IndexDual'
  BY <1>a DEF RegInv, RegTypeOK, CoordinatorTypeOK, WorkerTypeOK, IndexDual, Registered
<1>6. ClaimsBacked'
  BY <1>a, <1>b, <1>c DEF RegInv, RegTypeOK, CoordinatorTypeOK, WorkerTypeOK,
        NetworkTypeOK, ClaimsBacked
<1>7. UnheardUntouched'
  BY DEF RegInv, RegTypeOK, CoordinatorTypeOK, UnheardUntouched, Status, Health
<1> QED BY <1>1, <1>2, <1>3, <1>4, <1>5, <1>6, <1>7 DEF RegInv, RegTypeOK

\* A heartbeat adds to a registered worker's inventory what it has.
LEMMA HandleBeatInv ==
  ASSUME RegInv, NEW w \in Worker, NEW r \in req[w], HandleBeat(w, r) PROVE RegInv'
<1> USE DEF HandleBeat, Serve, Answered, Inventory, Reindexed, Persist, UnknownWorker,
      Registered, registry, volatile, durable, client, network, Elsewhere
<1>a. r \in Request /\ r.inv \in SUBSET Hash /\ r.inv \subseteq cas[w]
  BY RequestFields DEF RegInv, RegTypeOK, NetworkTypeOK, ClaimsBacked
<1>1. CoordinatorTypeOK'
  BY <1>a DEF RegInv, RegTypeOK, CoordinatorTypeOK, Status, Health
<1>2. WorkerTypeOK'
  BY DEF RegInv, RegTypeOK, WorkerTypeOK, Token, Pc
<1>3. NetworkTypeOK'
  BY DEF RegInv, RegTypeOK, NetworkTypeOK, Answer, Token
<1>4. faults' \in 0 .. FaultBound /\ failures' \in 0 .. FailureBound
  BY RegistryAssumption DEF RegInv, RegTypeOK
<1>5. IndexDual'
<2>1. CASE Registered(w)
    <3> DEFINE inv == (hashes[w] \cup r.inv) \ r.gone
    <3>1. hashes' = [hashes EXCEPT ![w] = inv] /\ index' = Reindexed(w, inv)
      BY <2>1
    <3>2. inv \subseteq cas[w] BY <1>a DEF RegInv, IndexDual
    <3>3. cas' = cas BY <2>1
    <3>4. \A v \in Worker : status'[v] # "none" <=> status[v] # "none"
      BY <2>1 DEF RegInv, RegTypeOK, CoordinatorTypeOK
    <3> HIDE DEF inv
    <3> QED BY <2>1, <3>1, <3>2, <3>3, <3>4
      DEF RegInv, RegTypeOK, CoordinatorTypeOK, WorkerTypeOK, IndexDual
  <2>2. CASE ~Registered(w) BY <2>2 DEF RegInv, IndexDual
  <2> QED BY <2>1, <2>2
<1>6. ClaimsBacked'
  BY <1>a DEF RegInv, RegTypeOK, CoordinatorTypeOK, WorkerTypeOK, NetworkTypeOK,
        ClaimsBacked, IndexDual
<1>7. UnheardUntouched'
  BY DEF RegInv, RegTypeOK, CoordinatorTypeOK, UnheardUntouched, Status, Health
<1> QED BY <1>1, <1>2, <1>3, <1>4, <1>5, <1>6, <1>7 DEF RegInv, RegTypeOK

\* A worker that starts sends what it has.
LEMMA StartInv ==
  ASSUME RegInv, NEW w \in Worker, Start(w) PROVE RegInv'
<1> USE DEF Start, registry, volatile, durable, client, network, Elsewhere
<1>a. /\ req' \in [Worker -> SUBSET Request]
      /\ \A v \in Worker : \A q \in req'[v] :
           q \in req[v] \/ (v = w /\ q.inv = cas[w])
  <2>1. Send(w, "register", cas[w], {}, "none", "joining") OBVIOUS
  <2>2. cas[w] \in SUBSET cas[w] OBVIOUS
  <2>3. {} \in SUBSET Hash /\ "none" \in Token
    BY DEF RegInv, RegTypeOK, WorkerTypeOK, Token
  <2>4. RegTypeOK BY DEF RegInv
  <2> QED BY <2>1, <2>2, <2>3, <2>4, SentRequest DEF RegTypeOK
<1>1. CoordinatorTypeOK'
  BY RegistryAssumption DEF RegInv, RegTypeOK, CoordinatorTypeOK, Status, Health
<1>2. WorkerTypeOK'
  BY DEF RegInv, RegTypeOK, WorkerTypeOK, Token, Pc, Send
<1>3. NetworkTypeOK'
  BY <1>a DEF RegInv, RegTypeOK, NetworkTypeOK
<1>4. faults' \in 0 .. FaultBound /\ failures' \in 0 .. FailureBound
  BY RegistryAssumption DEF RegInv, RegTypeOK
<1>5. IndexDual'
  BY DEF RegInv, RegTypeOK, CoordinatorTypeOK, WorkerTypeOK, IndexDual, ClaimsBacked,
        Registered
<1>6. ClaimsBacked'
  BY <1>a DEF RegInv, ClaimsBacked
<1>7. UnheardUntouched'
  BY DEF RegInv, RegTypeOK, CoordinatorTypeOK, UnheardUntouched, Status, Health
<1> QED BY <1>1, <1>2, <1>3, <1>4, <1>5, <1>6, <1>7 DEF RegInv, RegTypeOK

\* A heartbeat sends part of what the worker has.
LEMMA BeatInv ==
  ASSUME RegInv, NEW w \in Worker, Beat(w) PROVE RegInv'
<1> USE DEF Beat, registry, volatile, durable, client, network, Elsewhere
<1>a. /\ req' \in [Worker -> SUBSET Request]
      /\ \A v \in Worker : \A q \in req'[v] :
           q \in req[v] \/ (v = w /\ q.inv = cas[w] \ reported[w])
  <2>1. Send(w, "beat", cas[w] \ reported[w], reported[w] \ cas[w], held[w], "beating") OBVIOUS
  <2>2. cas[w] \ reported[w] \in SUBSET cas[w] OBVIOUS
  <2>3. reported[w] \ cas[w] \in SUBSET Hash /\ held[w] \in Token
    BY DEF RegInv, RegTypeOK, WorkerTypeOK, Token
  <2>4. RegTypeOK BY DEF RegInv
  <2> QED BY <2>1, <2>2, <2>3, <2>4, SentRequest DEF RegTypeOK
<1>1. CoordinatorTypeOK'
  BY RegistryAssumption DEF RegInv, RegTypeOK, CoordinatorTypeOK, Status, Health
<1>2. WorkerTypeOK'
  BY DEF RegInv, RegTypeOK, WorkerTypeOK, Token, Pc, Send
<1>3. NetworkTypeOK'
  BY <1>a DEF RegInv, RegTypeOK, NetworkTypeOK
<1>4. faults' \in 0 .. FaultBound /\ failures' \in 0 .. FailureBound
  BY RegistryAssumption DEF RegInv, RegTypeOK
<1>5. IndexDual'
  BY DEF RegInv, RegTypeOK, CoordinatorTypeOK, WorkerTypeOK, IndexDual, ClaimsBacked,
        Registered
<1>6. ClaimsBacked'
  BY <1>a DEF RegInv, ClaimsBacked
<1>7. UnheardUntouched'
  BY DEF RegInv, RegTypeOK, CoordinatorTypeOK, UnheardUntouched, Status, Health
<1> QED BY <1>1, <1>2, <1>3, <1>4, <1>5, <1>6, <1>7 DEF RegInv, RegTypeOK

\* An answer changes what the worker believes; joining again sends what it has.
LEMMA DeliverInv ==
  ASSUME RegInv, NEW w \in Worker, Deliver(w) PROVE RegInv'
<1> USE DEF Deliver, registry, volatile, durable, client, network, Elsewhere
<1>a. /\ req' \in [Worker -> SUBSET Request]
      /\ \A v \in Worker : \A q \in req'[v] :
           q \in req[v] \/ (v = w /\ q.inv = cas[w])
  <2>1. CASE req' = req BY <2>1 DEF RegInv, RegTypeOK, NetworkTypeOK
  <2>2. CASE Send(w, "register", cas[w], {}, "none", "rejoining")
    BY <2>2, SentRequest DEF RegInv, RegTypeOK, WorkerTypeOK, Token
  <2> QED BY <2>1, <2>2
<1>b. rsp[w] \in Answer /\ rsp[w].tok \in Token
  BY DEF RegInv, RegTypeOK, NetworkTypeOK, Answer
<1>1. CoordinatorTypeOK'
  BY RegistryAssumption DEF RegInv, RegTypeOK, CoordinatorTypeOK, Status, Health
<1>2. WorkerTypeOK'
  BY <1>b DEF RegInv, RegTypeOK, WorkerTypeOK, Token, Pc, Send, Forget, Acknowledged
<1>3. NetworkTypeOK'
  BY <1>a DEF RegInv, RegTypeOK, NetworkTypeOK, NoAnswer, Answer, Token
<1>4. faults' \in 0 .. FaultBound /\ failures' \in 0 .. FailureBound
  BY RegistryAssumption DEF RegInv, RegTypeOK
<1>5. IndexDual'
  BY DEF RegInv, RegTypeOK, CoordinatorTypeOK, WorkerTypeOK, IndexDual, ClaimsBacked,
        Registered
<1>6. ClaimsBacked'
  BY <1>a DEF RegInv, ClaimsBacked
<1>7. UnheardUntouched'
  BY DEF RegInv, RegTypeOK, CoordinatorTypeOK, UnheardUntouched, Status, Health
<1> QED BY <1>1, <1>2, <1>3, <1>4, <1>5, <1>6, <1>7 DEF RegInv, RegTypeOK

\* A call that fails leaves at most the request that was sent.
LEMMA FailInv ==
  ASSUME RegInv, NEW w \in Worker, Fail(w) PROVE RegInv'
<1> USE DEF Fail, Forget, registry, volatile, durable, client, network, Elsewhere
<1>a. PICK R \in Abandoned(w) : req' = [req EXCEPT ![w] = R] OBVIOUS
<1>b. R \subseteq Request /\ \A q \in R : q.inv \subseteq cas[w]
  BY AbandonedRequest DEF RegInv, RegTypeOK, ClaimsBacked
<1>1. CoordinatorTypeOK'
  BY RegistryAssumption DEF RegInv, RegTypeOK, CoordinatorTypeOK, Status, Health
<1>2. WorkerTypeOK'
  BY DEF RegInv, RegTypeOK, WorkerTypeOK, Token, Pc
<1>3. NetworkTypeOK'
  BY <1>a, <1>b DEF RegInv, RegTypeOK, NetworkTypeOK, NoAnswer, Answer, Token
<1>4. faults' \in 0 .. FaultBound /\ failures' \in 0 .. FailureBound
  BY RegistryAssumption DEF RegInv, RegTypeOK
<1>5. IndexDual'
  BY DEF RegInv, RegTypeOK, CoordinatorTypeOK, WorkerTypeOK, IndexDual, ClaimsBacked,
        Registered
<1>6. ClaimsBacked'
  BY <1>a, <1>b DEF RegInv, RegTypeOK, NetworkTypeOK, ClaimsBacked
<1>7. UnheardUntouched'
  BY DEF RegInv, RegTypeOK, CoordinatorTypeOK, UnheardUntouched, Status, Health
<1> QED BY <1>1, <1>2, <1>3, <1>4, <1>5, <1>6, <1>7 DEF RegInv, RegTypeOK

\* So does a crash.
LEMMA CrashInv ==
  ASSUME RegInv, NEW w \in Worker, Crash(w) PROVE RegInv'
<1> USE DEF Crash, Forget, registry, volatile, durable, client, network, Elsewhere
<1>a. PICK R \in Abandoned(w) : req' = [req EXCEPT ![w] = R] OBVIOUS
<1>b. R \subseteq Request /\ \A q \in R : q.inv \subseteq cas[w]
  BY AbandonedRequest DEF RegInv, RegTypeOK, ClaimsBacked
<1>1. CoordinatorTypeOK'
  BY RegistryAssumption DEF RegInv, RegTypeOK, CoordinatorTypeOK, Status, Health
<1>2. WorkerTypeOK'
  BY DEF RegInv, RegTypeOK, WorkerTypeOK, Token, Pc
<1>3. NetworkTypeOK'
  BY <1>a, <1>b DEF RegInv, RegTypeOK, NetworkTypeOK, NoAnswer, Answer, Token
<1>4. faults' \in 0 .. FaultBound /\ failures' \in 0 .. FailureBound
  BY RegistryAssumption DEF RegInv, RegTypeOK
<1>5. IndexDual'
  BY DEF RegInv, RegTypeOK, CoordinatorTypeOK, WorkerTypeOK, IndexDual, ClaimsBacked,
        Registered
<1>6. ClaimsBacked'
  BY <1>a, <1>b DEF RegInv, RegTypeOK, NetworkTypeOK, ClaimsBacked
<1>7. UnheardUntouched'
  BY DEF RegInv, RegTypeOK, CoordinatorTypeOK, UnheardUntouched, Status, Health
<1> QED BY <1>1, <1>2, <1>3, <1>4, <1>5, <1>6, <1>7 DEF RegInv, RegTypeOK

\* Stopping sends a request that claims nothing.
LEMMA StopInv ==
  ASSUME RegInv, NEW w \in Worker, Stop(w) PROVE RegInv'
<1> USE DEF Stop, registry, volatile, durable, client, network, Elsewhere
<1> DEFINE leave == [op |-> "leave", inv |-> {}, gone |-> {}, tok |-> held[w], live |-> TRUE]
<1>a. PICK R \in Abandoned(w) : req' = [req EXCEPT ![w] = R \cup {leave}] OBVIOUS
<1>b. R \subseteq Request /\ \A q \in R : q.inv \subseteq cas[w]
  BY AbandonedRequest DEF RegInv, RegTypeOK, ClaimsBacked
<1>c. leave \in Request /\ leave.inv = {}
  BY DEF RegInv, RegTypeOK, WorkerTypeOK, Request
<1> HIDE DEF leave
<1>1. CoordinatorTypeOK'
  BY RegistryAssumption DEF RegInv, RegTypeOK, CoordinatorTypeOK, Status, Health
<1>2. WorkerTypeOK'
  BY DEF RegInv, RegTypeOK, WorkerTypeOK, Token, Pc
<1>3. NetworkTypeOK'
  BY <1>a, <1>b, <1>c DEF RegInv, RegTypeOK, NetworkTypeOK, NoAnswer, Answer, Token
<1>4. faults' \in 0 .. FaultBound /\ failures' \in 0 .. FailureBound
  BY RegistryAssumption DEF RegInv, RegTypeOK
<1>5. IndexDual'
  BY DEF RegInv, RegTypeOK, CoordinatorTypeOK, WorkerTypeOK, IndexDual, ClaimsBacked,
        Registered
<1>6. ClaimsBacked'
  BY <1>a, <1>b, <1>c DEF RegInv, RegTypeOK, NetworkTypeOK, ClaimsBacked
<1>7. UnheardUntouched'
  BY DEF RegInv, RegTypeOK, CoordinatorTypeOK, UnheardUntouched, Status, Health
<1> QED BY <1>1, <1>2, <1>3, <1>4, <1>5, <1>6, <1>7 DEF RegInv, RegTypeOK

-----------------------------------------------------------------------------
(* The same for what was acknowledged *)

\* At the start nobody is registered and nothing is under way.
LEMMA InitAck == Init => AckInv
BY DEF Init, AckInv, RowsCurrent, ReportsBacked, OnePending, PendingComplete,
       AnswersIndexed, Registered, NoAnswer

\* A new inventory is written to the registry and to the worker's row.
LEMMA RowWritten ==
  ASSUME NEW w \in Worker, NEW inv, RegInv, AckInv, Registered(w),
         Inventory(w, inv), Persist(w, inv),
         \A v \in Worker : (status'[v] # "none") <=> (status[v] # "none")
  PROVE  RowsCurrent'
<1>1. hashes'[w] = inv /\ \A v \in Worker \ {w} : hashes'[v] = hashes[v]
  BY DEF Inventory, RegInv, RegTypeOK, CoordinatorTypeOK
<1>2. savedInv'[w] = inv /\ \A v \in Worker \ {w} : savedInv'[v] = savedInv[v]
  BY DEF Persist, RegInv, RegTypeOK, CoordinatorTypeOK
<1>3. saved' = saved \cup {w} BY DEF Persist
<1> QED BY <1>1, <1>2, <1>3 DEF AckInv, RowsCurrent, Registered

\* Eviction drops the rows with the entries; what the workers were told stays.
LEMMA EvictExpiredAck ==
  ASSUME RegInv, AckInv, EvictExpired PROVE AckInv'
<1> USE DEF EvictExpired, Removed, Registered, registry, volatile, durable, client,
      network, Elsewhere
<1>1. RowsCurrent'
  BY DEF RegInv, RegTypeOK, CoordinatorTypeOK, WorkerTypeOK, NetworkTypeOK, AckInv,
        RowsCurrent
<1>2. ReportsBacked'
  BY DEF RegInv, RegTypeOK, CoordinatorTypeOK, WorkerTypeOK, NetworkTypeOK, AckInv,
        ReportsBacked
<1>3. OnePending'
  BY DEF RegInv, RegTypeOK, CoordinatorTypeOK, WorkerTypeOK, NetworkTypeOK, AckInv,
        OnePending, Waiting, NoAnswer
<1>4. PendingComplete'
  BY DEF RegInv, RegTypeOK, CoordinatorTypeOK, WorkerTypeOK, NetworkTypeOK, AckInv,
        OnePending, PendingComplete
<1>5. AnswersIndexed'
  BY DEF RegInv, RegTypeOK, CoordinatorTypeOK, WorkerTypeOK, NetworkTypeOK, AckInv,
        RowsCurrent, AnswersIndexed
<1> QED BY <1>1, <1>2, <1>3, <1>4, <1>5 DEF AckInv

\* The decay of penalties registers and unregisters nobody.
LEMMA DecayPenaltiesAck ==
  ASSUME RegInv, AckInv, DecayPenalties PROVE AckInv'
<1> USE DEF DecayPenalties, Recovered, Registered, StatusOf, registry, volatile,
      durable, client, network, Elsewhere
<1>1. RowsCurrent'
  BY DEF RegInv, RegTypeOK, CoordinatorTypeOK, WorkerTypeOK, NetworkTypeOK, AckInv,
        RowsCurrent
<1>2. ReportsBacked'
  BY DEF RegInv, RegTypeOK, CoordinatorTypeOK, WorkerTypeOK, NetworkTypeOK, AckInv,
        ReportsBacked
<1>3. OnePending'
  BY DEF RegInv, RegTypeOK, CoordinatorTypeOK, WorkerTypeOK, NetworkTypeOK, AckInv,
        OnePending, Waiting, NoAnswer
<1>4. PendingComplete'
  BY DEF RegInv, RegTypeOK, CoordinatorTypeOK, WorkerTypeOK, NetworkTypeOK, AckInv,
        OnePending, PendingComplete
<1>5. AnswersIndexed'
  BY DEF RegInv, RegTypeOK, CoordinatorTypeOK, WorkerTypeOK, NetworkTypeOK, AckInv,
        RowsCurrent, AnswersIndexed
<1> QED BY <1>1, <1>2, <1>3, <1>4, <1>5 DEF AckInv

\* The restart rebuilds the index from the rows, which are current.
LEMMA RestartAck ==
  ASSUME RegInv, AckInv, Restart PROVE AckInv'
<1> USE DEF Restart, RestoredStatus, registry, volatile, durable, client, network, Elsewhere
<1>a. \A w \in Worker :
        /\ req'[w] = {} /\ rsp'[w].kind = rsp[w].kind
        /\ rsp[w] = NoAnswer => rsp'[w] = NoAnswer
  BY AgedAnswerType DEF RegInv, RegTypeOK
<1>1. RowsCurrent'
  BY DEF RegInv, RegTypeOK, CoordinatorTypeOK, WorkerTypeOK, NetworkTypeOK, AckInv,
        RowsCurrent, Registered
<1>2. ReportsBacked'
  BY DEF RegInv, RegTypeOK, CoordinatorTypeOK, WorkerTypeOK, NetworkTypeOK, AckInv,
        ReportsBacked
<1>3. OnePending'
  BY <1>a DEF AckInv, OnePending, Waiting, NoAnswer
<1>4. PendingComplete'
  BY <1>a DEF AckInv, PendingComplete
<1>5. AnswersIndexed'
  BY <1>a DEF RegInv, RegTypeOK, CoordinatorTypeOK, AckInv, RowsCurrent,
        AnswersIndexed, Registered
<1> QED BY <1>1, <1>2, <1>3, <1>4, <1>5 DEF AckInv

\* A worker that left is unregistered, its answer ends the process.
LEMMA HandleLeaveAck ==
  ASSUME RegInv, AckInv, NEW w \in Worker, NEW r \in req[w], HandleLeave(w, r) PROVE AckInv'
<1> USE DEF HandleLeave, Serve, Answered, Removed, Registered, registry, volatile,
      durable, client, network, Elsewhere
<1>1. RowsCurrent'
  BY DEF RegInv, RegTypeOK, CoordinatorTypeOK, WorkerTypeOK, NetworkTypeOK, AckInv,
        RowsCurrent
<1>2. ReportsBacked'
  BY DEF RegInv, RegTypeOK, CoordinatorTypeOK, WorkerTypeOK, NetworkTypeOK, AckInv,
        ReportsBacked
<1>3. OnePending'
  BY DEF RegInv, RegTypeOK, CoordinatorTypeOK, WorkerTypeOK, NetworkTypeOK, AckInv,
        OnePending, Waiting, NoAnswer
<1>4. PendingComplete'
  BY DEF RegInv, RegTypeOK, CoordinatorTypeOK, WorkerTypeOK, NetworkTypeOK, AckInv,
        OnePending, PendingComplete
<1>5. AnswersIndexed'
  BY DEF RegInv, RegTypeOK, CoordinatorTypeOK, WorkerTypeOK, NetworkTypeOK, AckInv,
        RowsCurrent, AnswersIndexed
<1> QED BY <1>1, <1>2, <1>3, <1>4, <1>5 DEF AckInv

\* A refusal acknowledges nothing.
LEMMA DenyAck ==
  ASSUME RegInv, AckInv, NEW w \in Worker, NEW r \in req[w], Deny(w, r) PROVE AckInv'
<1> USE DEF Deny, Serve, Answered, registry, volatile, durable, client, network, Elsewhere
<1>1. RowsCurrent'
  BY DEF RegInv, RegTypeOK, CoordinatorTypeOK, WorkerTypeOK, NetworkTypeOK, AckInv,
        RowsCurrent, Registered
<1>2. ReportsBacked'
  BY DEF RegInv, RegTypeOK, CoordinatorTypeOK, WorkerTypeOK, NetworkTypeOK, AckInv,
        ReportsBacked
<1>3. OnePending'
  BY DEF RegInv, RegTypeOK, CoordinatorTypeOK, WorkerTypeOK, NetworkTypeOK, AckInv,
        OnePending, Waiting, NoAnswer
<1>4. PendingComplete'
  BY DEF RegInv, RegTypeOK, CoordinatorTypeOK, WorkerTypeOK, NetworkTypeOK, AckInv,
        OnePending, PendingComplete
<1>5. AnswersIndexed'
  BY DEF RegInv, RegTypeOK, CoordinatorTypeOK, WorkerTypeOK, NetworkTypeOK, AckInv,
        RowsCurrent, AnswersIndexed, Registered
<1> QED BY <1>1, <1>2, <1>3, <1>4, <1>5 DEF AckInv

\* An attempt changes nothing a worker reported.
LEMMA DispatchAck ==
  ASSUME RegInv, AckInv, NEW w \in Worker, Dispatch(w) PROVE AckInv'
<1> USE DEF Dispatch, registry, volatile, durable, client, network, Elsewhere
<1>1. RowsCurrent'
  BY DEF RegInv, RegTypeOK, CoordinatorTypeOK, WorkerTypeOK, NetworkTypeOK, AckInv,
        RowsCurrent, Registered
<1>2. ReportsBacked'
  BY DEF RegInv, RegTypeOK, CoordinatorTypeOK, WorkerTypeOK, NetworkTypeOK, AckInv,
        ReportsBacked
<1>3. OnePending'
  BY DEF RegInv, RegTypeOK, CoordinatorTypeOK, WorkerTypeOK, NetworkTypeOK, AckInv,
        OnePending, Waiting, NoAnswer
<1>4. PendingComplete'
  BY DEF RegInv, RegTypeOK, CoordinatorTypeOK, WorkerTypeOK, NetworkTypeOK, AckInv,
        OnePending, PendingComplete
<1>5. AnswersIndexed'
  BY DEF RegInv, RegTypeOK, CoordinatorTypeOK, WorkerTypeOK, NetworkTypeOK, AckInv,
        RowsCurrent, AnswersIndexed, Registered
<1> QED BY <1>1, <1>2, <1>3, <1>4, <1>5 DEF AckInv

\* A failure registers and unregisters nobody.
LEMMA RecordFailureAck ==
  ASSUME RegInv, AckInv, NEW w \in Worker, RecordFailure(w) PROVE AckInv'
<1> USE DEF RecordFailure, Standing, StatusOf, Registered, registry, volatile, durable,
      client, network, Elsewhere
<1>1. RowsCurrent'
  BY DEF RegInv, RegTypeOK, CoordinatorTypeOK, WorkerTypeOK, NetworkTypeOK, AckInv,
        RowsCurrent
<1>2. ReportsBacked'
  BY DEF RegInv, RegTypeOK, CoordinatorTypeOK, WorkerTypeOK, NetworkTypeOK, AckInv,
        ReportsBacked
<1>3. OnePending'
  BY DEF RegInv, RegTypeOK, CoordinatorTypeOK, WorkerTypeOK, NetworkTypeOK, AckInv,
        OnePending, Waiting, NoAnswer
<1>4. PendingComplete'
  BY DEF RegInv, RegTypeOK, CoordinatorTypeOK, WorkerTypeOK, NetworkTypeOK, AckInv,
        OnePending, PendingComplete
<1>5. AnswersIndexed'
  BY DEF RegInv, RegTypeOK, CoordinatorTypeOK, WorkerTypeOK, NetworkTypeOK, AckInv,
        RowsCurrent, AnswersIndexed
<1> QED BY <1>1, <1>2, <1>3, <1>4, <1>5 DEF AckInv

\* Draining rewrites the row with the inventory it has.
LEMMA DrainAck ==
  ASSUME RegInv, AckInv, NEW w \in Worker, Drain(w) PROVE AckInv'
<1> USE DEF Drain, SetStatus, Persist, registry, volatile, durable, client, network,
      Elsewhere
<1>1. RowsCurrent'
  BY DEF RegInv, RegTypeOK, CoordinatorTypeOK, WorkerTypeOK, NetworkTypeOK, AckInv,
        RowsCurrent, Registered
<1>2. ReportsBacked'
  BY DEF RegInv, RegTypeOK, CoordinatorTypeOK, WorkerTypeOK, NetworkTypeOK, AckInv,
        ReportsBacked
<1>3. OnePending'
  BY DEF RegInv, RegTypeOK, CoordinatorTypeOK, WorkerTypeOK, NetworkTypeOK, AckInv,
        OnePending, Waiting, NoAnswer
<1>4. PendingComplete'
  BY DEF RegInv, RegTypeOK, CoordinatorTypeOK, WorkerTypeOK, NetworkTypeOK, AckInv,
        OnePending, PendingComplete
<1>5. AnswersIndexed'
  BY DEF RegInv, RegTypeOK, CoordinatorTypeOK, WorkerTypeOK, NetworkTypeOK, AckInv,
        RowsCurrent, AnswersIndexed, Registered
<1> QED BY <1>1, <1>2, <1>3, <1>4, <1>5 DEF AckInv

\* So does the revival.
LEMMA ReviveAck ==
  ASSUME RegInv, AckInv, NEW w \in Worker, Revive(w) PROVE AckInv'
<1> USE DEF Revive, SetStatus, Persist, registry, volatile, durable, client, network,
      Elsewhere
<1>1. RowsCurrent'
  BY DEF RegInv, RegTypeOK, CoordinatorTypeOK, WorkerTypeOK, NetworkTypeOK, AckInv,
        RowsCurrent, Registered
<1>2. ReportsBacked'
  BY DEF RegInv, RegTypeOK, CoordinatorTypeOK, WorkerTypeOK, NetworkTypeOK, AckInv,
        ReportsBacked
<1>3. OnePending'
  BY DEF RegInv, RegTypeOK, CoordinatorTypeOK, WorkerTypeOK, NetworkTypeOK, AckInv,
        OnePending, Waiting, NoAnswer
<1>4. PendingComplete'
  BY DEF RegInv, RegTypeOK, CoordinatorTypeOK, WorkerTypeOK, NetworkTypeOK, AckInv,
        OnePending, PendingComplete
<1>5. AnswersIndexed'
  BY DEF RegInv, RegTypeOK, CoordinatorTypeOK, WorkerTypeOK, NetworkTypeOK, AckInv,
        RowsCurrent, AnswersIndexed, Registered
<1> QED BY <1>1, <1>2, <1>3, <1>4, <1>5 DEF AckInv

\* Silence alone changes no entry.
LEMMA SilenceAck ==
  ASSUME RegInv, AckInv, NEW w \in Worker, Silence(w) PROVE AckInv'
<1> USE DEF Silence, registry, volatile, durable, client, network, Elsewhere
<1>1. RowsCurrent'
  BY DEF RegInv, RegTypeOK, CoordinatorTypeOK, WorkerTypeOK, NetworkTypeOK, AckInv,
        RowsCurrent, Registered
<1>2. ReportsBacked'
  BY DEF RegInv, RegTypeOK, CoordinatorTypeOK, WorkerTypeOK, NetworkTypeOK, AckInv,
        ReportsBacked
<1>3. OnePending'
  BY DEF RegInv, RegTypeOK, CoordinatorTypeOK, WorkerTypeOK, NetworkTypeOK, AckInv,
        OnePending, Waiting, NoAnswer
<1>4. PendingComplete'
  BY DEF RegInv, RegTypeOK, CoordinatorTypeOK, WorkerTypeOK, NetworkTypeOK, AckInv,
        OnePending, PendingComplete
<1>5. AnswersIndexed'
  BY DEF RegInv, RegTypeOK, CoordinatorTypeOK, WorkerTypeOK, NetworkTypeOK, AckInv,
        RowsCurrent, AnswersIndexed, Registered
<1> QED BY <1>1, <1>2, <1>3, <1>4, <1>5 DEF AckInv

\* Outputs are indexed, and written to the row, in addition to what was there.
LEMMA AddOutputsAck ==
  ASSUME RegInv, AckInv, NEW w \in Worker, NEW h \in Hash, AddOutputs(w, h) PROVE AckInv'
<1> USE DEF AddOutputs, Inventory, Reindexed, Persist, Registered, registry, volatile,
      durable, client, network, Elsewhere
<1>1. RowsCurrent'
  <2>1. CASE Registered(w)
    <3>1. /\ Inventory(w, hashes[w] \cup {h}) /\ Persist(w, hashes[w] \cup {h})
          /\ status' = status
      BY <2>1
    <3> HIDE DEF AddOutputs, Inventory, Persist
    <3> QED BY <2>1, <3>1, RowWritten
  <2>2. CASE ~Registered(w) BY <2>2 DEF AckInv, RowsCurrent
  <2> QED BY <2>1, <2>2
<1>2. ReportsBacked'
  BY DEF RegInv, RegTypeOK, CoordinatorTypeOK, WorkerTypeOK, NetworkTypeOK, AckInv,
        ReportsBacked
<1>3. OnePending'
  BY DEF RegInv, RegTypeOK, CoordinatorTypeOK, WorkerTypeOK, NetworkTypeOK, AckInv,
        OnePending, Waiting, NoAnswer
<1>4. PendingComplete'
  BY DEF RegInv, RegTypeOK, CoordinatorTypeOK, WorkerTypeOK, NetworkTypeOK, AckInv,
        OnePending, PendingComplete
<1>5. AnswersIndexed'
  BY DEF RegInv, RegTypeOK, CoordinatorTypeOK, WorkerTypeOK, NetworkTypeOK, AckInv,
        RowsCurrent, AnswersIndexed
<1> QED BY <1>1, <1>2, <1>3, <1>4, <1>5 DEF AckInv

\* A new object is not reported yet.
LEMMA IngestAck ==
  ASSUME RegInv, AckInv, NEW w \in Worker, NEW h \in Hash, Ingest(w, h) PROVE AckInv'
<1> USE DEF Ingest, registry, volatile, durable, client, network, Elsewhere
<1>1. RowsCurrent'
  BY DEF RegInv, RegTypeOK, CoordinatorTypeOK, WorkerTypeOK, NetworkTypeOK, AckInv,
        RowsCurrent, Registered
<1>2. ReportsBacked'
  BY DEF RegInv, RegTypeOK, CoordinatorTypeOK, WorkerTypeOK, NetworkTypeOK, AckInv,
        ReportsBacked
<1>3. OnePending'
  BY DEF RegInv, RegTypeOK, CoordinatorTypeOK, WorkerTypeOK, NetworkTypeOK, AckInv,
        OnePending, Waiting, NoAnswer
<1>4. PendingComplete'
  BY DEF RegInv, RegTypeOK, CoordinatorTypeOK, WorkerTypeOK, NetworkTypeOK, AckInv,
        OnePending, PendingComplete
<1>5. AnswersIndexed'
  BY DEF RegInv, RegTypeOK, CoordinatorTypeOK, WorkerTypeOK, NetworkTypeOK, AckInv,
        RowsCurrent, AnswersIndexed, Registered
<1> QED BY <1>1, <1>2, <1>3, <1>4, <1>5 DEF AckInv

\* A registration replaces the inventory: by the worker's own when it waits for
\* the answer, and the worker is noted as overtaken when it does not.
LEMMA HandleRegisterAck ==
  ASSUME RegInv, AckInv, NEW w \in Worker, NEW r \in req[w], HandleRegister(w, r) PROVE AckInv'
<1> USE DEF HandleRegister, RegisterWorker, Inventory, Reindexed, Persist, registry,
      volatile, durable, client, network, Elsewhere
<1> DEFINE left == AgedRequests(w) \ {r}
<1>a. r.op = "register" /\ r.tok = "none" /\ r.gone = {}
  BY DEF AckInv, OnePending, ReportsBacked
<1>b. \A q \in left : \E s \in req[w] :
        /\ q = [s EXCEPT !.tok = Aged(@)] /\ (s.tok = "none" => q = s)
        /\ q.inv = s.inv /\ q.gone = s.gone /\ q.op = s.op /\ q.live = s.live
  BY AgedRequest DEF RegInv, RegTypeOK
<1>c. ASSUME NEW q \in left, r.live PROVE ~q.live
  <2>1. PICK s \in req[w] : q.live = s.live /\ (s.tok = "none" => q = s) BY <1>b
  <2>2. s.live => s = r BY <1>c DEF AckInv, OnePending
  <2> QED BY <1>a, <2>1, <2>2
<1>d. req' = [req EXCEPT ![w] = left] OBVIOUS
<1>e. r.live => rsp' = [rsp EXCEPT ![w] = [kind |-> "registered", tok |-> "current"]]
  OBVIOUS
<1>f. ~r.live => rsp' = [rsp EXCEPT ![w] = AgedAnswer(w)] OBVIOUS
<1>g. /\ AgedAnswer(w).kind = rsp[w].kind
      /\ rsp[w] = NoAnswer => AgedAnswer(w) = NoAnswer
  BY AgedAnswerType DEF RegInv, RegTypeOK
<1>h. left \subseteq Request BY AgedRequest DEF RegInv, RegTypeOK
<1> HIDE DEF left
<1>1. RowsCurrent'
  BY DEF RegInv, RegTypeOK, CoordinatorTypeOK, WorkerTypeOK, NetworkTypeOK, AckInv,
        RowsCurrent, Registered
<1>2. ReportsBacked'
  BY <1>b, <1>d DEF RegInv, RegTypeOK, CoordinatorTypeOK, WorkerTypeOK, NetworkTypeOK,
        AckInv, ReportsBacked
<1>3. OnePending'
  <2>1. ASSUME NEW q \in left, NEW p \in left, q.live, p.live PROVE q = p
    BY <1>b, <2>1 DEF AckInv, OnePending
  <2>2. \A q \in left : /\ q.op = "register" => q.tok = "none"
                        /\ q.live => Waiting(w) /\ rsp[w] = NoAnswer
    BY <1>b DEF AckInv, OnePending
  <2>3. rsp'[w] # NoAnswer => Waiting(w)
    BY <1>e, <1>f, <1>g DEF RegInv, RegTypeOK, NetworkTypeOK, AckInv, OnePending
  <2>4. rsp'[w].kind = "none" => rsp'[w] = NoAnswer
    BY <1>e, <1>f, <1>g DEF RegInv, RegTypeOK, NetworkTypeOK, AckInv, OnePending
  <2>5. ASSUME NEW q \in left, q.live PROVE rsp'[w] = NoAnswer
    <3>1. ~r.live BY <1>c, <2>5
    <3>2. rsp[w] = NoAnswer BY <2>2, <2>5
    <3>3. rsp' = [rsp EXCEPT ![w] = AgedAnswer(w)] BY <1>f, <3>1
    <3>4. rsp'[w] = AgedAnswer(w) BY <3>3 DEF RegInv, RegTypeOK, NetworkTypeOK
    <3> QED BY <1>g, <3>2, <3>4
  <2>6. req'[w] = left /\ \A v \in Worker \ {w} : req'[v] = req[v] /\ rsp'[v] = rsp[v]
    BY <1>d DEF RegInv, RegTypeOK, NetworkTypeOK
  <2>7. pc' = pc OBVIOUS
  <2> HIDE DEF HandleRegister
  <2> QED BY <2>1, <2>2, <2>3, <2>4, <2>5, <2>6, <2>7 DEF AckInv, OnePending, Waiting
<1>4. PendingComplete'
  <2>1. \A q \in left : q.live =>
          /\ q.op = "register" => q.inv = snap[w] /\ reported[w] \subseteq snap[w]
          /\ q.op = "beat" => snap[w] \subseteq reported[w] \cup q.inv
          /\ q.op = "leave" => pc[w] = "leaving"
    BY <1>b DEF AckInv, PendingComplete
  <2>2. rsp'[w].kind = "done" => pc[w] = "leaving"
    BY <1>e, <1>f, <1>g DEF RegInv, RegTypeOK, NetworkTypeOK, AckInv, PendingComplete
  <2>3. req'[w] = left /\ \A v \in Worker \ {w} : req'[v] = req[v] /\ rsp'[v] = rsp[v]
    BY <1>d DEF RegInv, RegTypeOK, NetworkTypeOK
  <2> QED BY <2>1, <2>2, <2>3 DEF AckInv, PendingComplete
<1>5. AnswersIndexed'
  <2>1. hashes'[w] = r.inv /\ \A v \in Worker \ {w} : hashes'[v] = hashes[v] /\ rsp'[v] = rsp[v]
    BY DEF RegInv, RegTypeOK, CoordinatorTypeOK, NetworkTypeOK
  <2>2. w \notin overtaken' => reported[w] \subseteq hashes'[w] /\ snap[w] \subseteq hashes'[w]
    BY <1>a, <2>1 DEF AckInv, PendingComplete
  <2>3. \A v \in Worker \ {w} : /\ status'[v] = status[v]
                                /\ v \in overtaken' <=> v \in overtaken
    BY DEF RegInv, RegTypeOK, CoordinatorTypeOK
  <2> QED BY <2>1, <2>2, <2>3 DEF AckInv, AnswersIndexed, Registered
<1> QED BY <1>1, <1>2, <1>3, <1>4, <1>5 DEF AckInv

\* A heartbeat adds what it carries to the inventory, as nothing is ever gone.
LEMMA HandleBeatAck ==
  ASSUME RegInv, AckInv, NEW w \in Worker, NEW r \in req[w], HandleBeat(w, r) PROVE AckInv'
<1> USE DEF HandleBeat, Serve, Answered, Inventory, Reindexed, Persist, UnknownWorker,
      Registered, registry, volatile, durable, client, network, Elsewhere
<1>a. r.gone = {} /\ (r.live => snap[w] \subseteq reported[w] \cup r.inv)
  BY DEF AckInv, ReportsBacked, PendingComplete
<1>b. Registered(w) => /\ hashes' = [hashes EXCEPT ![w] = hashes[w] \cup r.inv]
                       /\ savedInv' = [savedInv EXCEPT ![w] = hashes[w] \cup r.inv]
                       /\ saved' = saved \cup {w}
  <2> SUFFICES ASSUME Registered(w) PROVE (hashes[w] \cup r.inv) \ r.gone = hashes[w] \cup r.inv
    OBVIOUS
  <2> QED BY <1>a
<1>c. /\ \A v \in Worker : status'[v] # "none" <=> status[v] # "none"
      /\ ~Registered(w) => UNCHANGED <<hashes, saved, savedInv>>
      /\ UNCHANGED <<overtaken, reported, snap>>
  BY DEF RegInv, RegTypeOK, CoordinatorTypeOK
<1>d. /\ ~r.live \/ ~Registered(w) => \A v \in Worker : rsp'[v].kind = "healthy" => rsp'[v] = rsp[v]
      /\ \A v \in Worker \ {w} : rsp'[v] = rsp[v]
      /\ rsp'[w].kind \in {"healthy", "registered"} => (r.live /\ Registered(w)) \/ rsp'[w] = rsp[w]
  BY DEF RegInv, RegTypeOK, NetworkTypeOK
<1>1. RowsCurrent'
  <2>1. CASE Registered(w)
    <3>1. Inventory(w, (hashes[w] \cup r.inv) \ r.gone) /\ Persist(w, (hashes[w] \cup r.inv) \ r.gone)
      BY <2>1
    <3> HIDE DEF HandleBeat, Inventory, Persist
    <3> QED BY <1>c, <2>1, <3>1, RowWritten
  <2>2. CASE ~Registered(w)
    <3> HIDE DEF HandleBeat
    <3> QED BY <1>c, <2>2 DEF AckInv, RowsCurrent
  <2> QED BY <2>1, <2>2
<1>2. ReportsBacked'
  BY DEF RegInv, RegTypeOK, CoordinatorTypeOK, WorkerTypeOK, NetworkTypeOK, AckInv,
        ReportsBacked
<1>3. OnePending'
  BY DEF RegInv, RegTypeOK, CoordinatorTypeOK, WorkerTypeOK, NetworkTypeOK, AckInv,
        OnePending, Waiting, NoAnswer
<1>4. PendingComplete'
  BY DEF RegInv, RegTypeOK, CoordinatorTypeOK, WorkerTypeOK, NetworkTypeOK, AckInv,
        OnePending, PendingComplete
<1>5. AnswersIndexed'
  <2>1. CASE Registered(w)
    <3>1. hashes'[w] = hashes[w] \cup r.inv /\ \A v \in Worker \ {w} : hashes'[v] = hashes[v]
      BY <1>b, <2>1 DEF RegInv, RegTypeOK, CoordinatorTypeOK
    <3>2. w \notin overtaken => reported[w] \subseteq hashes[w]
      BY <2>1 DEF AckInv, AnswersIndexed
    <3>3. w \notin overtaken /\ rsp'[w].kind \in {"healthy", "registered"} => snap[w] \subseteq hashes'[w]
      BY <1>a, <1>d, <2>1, <3>1, <3>2 DEF AckInv, AnswersIndexed
    <3> HIDE DEF HandleBeat
    <3> QED BY <1>c, <1>d, <3>1, <3>2, <3>3 DEF AckInv, AnswersIndexed
  <2>2. CASE ~Registered(w)
    <3> HIDE DEF HandleBeat
    <3> QED BY <1>c, <1>d, <2>2 DEF AckInv, AnswersIndexed
  <2> QED BY <2>1, <2>2
<1> QED BY <1>1, <1>2, <1>3, <1>4, <1>5 DEF AckInv

\* A worker without a pending request sends one.
LEMMA SentAck ==
  ASSUME NEW w \in Worker, NEW op \in {"register", "beat"}, RegInv, AckInv,
         NEW inv \in SUBSET cas[w], NEW tok \in Token, NEW l \in {"joining", "rejoining", "beating"},
         op = "register" => inv = cas[w] /\ tok = "none",
         op = "beat" => cas[w] \subseteq reported[w] \cup inv,
         Send(w, op, inv, {}, tok, l), UNCHANGED <<reported, cas>>,
         \A q \in req[w] : ~q.live,
         rsp'[w] = NoAnswer, \A v \in Worker \ {w} : rsp'[v] = rsp[v]
  PROVE  ReportsBacked' /\ OnePending' /\ PendingComplete'
<1> DEFINE new == [op |-> op, inv |-> inv, gone |-> {}, tok |-> tok, live |-> TRUE]
<1>1. /\ req'[w] = req[w] \cup {new} /\ \A v \in Worker \ {w} : req'[v] = req[v]
      /\ pc'[w] = l /\ \A v \in Worker \ {w} : pc'[v] = pc[v]
      /\ snap'[w] = cas[w] /\ \A v \in Worker \ {w} : snap'[v] = snap[v]
  BY DEF Send, RegInv, RegTypeOK, WorkerTypeOK, NetworkTypeOK
<1>2. new.op = op /\ new.inv = inv /\ new.gone = {} /\ new.tok = tok /\ new.live
  OBVIOUS
<1> HIDE DEF new
<1>3. ReportsBacked' BY <1>1, <1>2 DEF AckInv, ReportsBacked
<1>4. OnePending' BY <1>1, <1>2 DEF AckInv, OnePending, Waiting, NoAnswer
<1>5. PendingComplete'
  BY <1>1, <1>2 DEF AckInv, ReportsBacked, PendingComplete, NoAnswer
<1> QED BY <1>3, <1>4, <1>5

\* The first registration carries everything the worker has.
LEMMA StartAck ==
  ASSUME RegInv, AckInv, NEW w \in Worker, Start(w) PROVE AckInv'
<1> USE DEF Start, registry, volatile, durable, client, network, Elsewhere
<1>a. Send(w, "register", cas[w], {}, "none", "joining")
  BY DEF AckInv, ReportsBacked
<1>b. /\ rsp[w] = NoAnswer /\ rsp' = rsp /\ \A q \in req[w] : ~q.live
  BY DEF AckInv, OnePending, Waiting
<1>c. "none" \in Token BY DEF RegInv, RegTypeOK, WorkerTypeOK, Token
<1>d. ReportsBacked' /\ OnePending' /\ PendingComplete'
  BY <1>a, <1>b, <1>c, SentAck
<1>1. RowsCurrent'
  BY DEF AckInv, RowsCurrent, Registered
<1>2. ReportsBacked'
  BY <1>d
<1>3. OnePending'
  BY <1>d
<1>4. PendingComplete'
  BY <1>d
<1>5. AnswersIndexed'
  BY <1>b DEF Send, RegInv, RegTypeOK, CoordinatorTypeOK, WorkerTypeOK, NetworkTypeOK,
        AckInv, AnswersIndexed, Registered, NoAnswer
<1> QED BY <1>1, <1>2, <1>3, <1>4, <1>5 DEF AckInv

\* A heartbeat carries everything that was not acknowledged.
LEMMA BeatAck ==
  ASSUME RegInv, AckInv, NEW w \in Worker, Beat(w) PROVE AckInv'
<1> USE DEF Beat, registry, volatile, durable, client, network, Elsewhere
<1>a. Send(w, "beat", cas[w] \ reported[w], {}, held[w], "beating")
  BY DEF AckInv, ReportsBacked
<1>b. /\ rsp[w] = NoAnswer /\ rsp' = rsp /\ \A q \in req[w] : ~q.live
  BY DEF AckInv, OnePending, Waiting
<1>c. held[w] \in Token BY DEF RegInv, RegTypeOK, WorkerTypeOK, Token
<1>d. ReportsBacked' /\ OnePending' /\ PendingComplete'
  BY <1>a, <1>b, <1>c, SentAck
<1>1. RowsCurrent'
  BY DEF AckInv, RowsCurrent, Registered
<1>2. ReportsBacked'
  BY <1>d
<1>3. OnePending'
  BY <1>d
<1>4. PendingComplete'
  BY <1>d
<1>5. AnswersIndexed'
  BY <1>b DEF Send, RegInv, RegTypeOK, CoordinatorTypeOK, WorkerTypeOK, NetworkTypeOK,
        AckInv, AnswersIndexed, Registered, NoAnswer
<1> QED BY <1>1, <1>2, <1>3, <1>4, <1>5 DEF AckInv

\* The inventory taken as acknowledged is the one the request was built from.
LEMMA DeliverAck ==
  ASSUME RegInv, AckInv, NEW w \in Worker, Deliver(w) PROVE AckInv'
<1> USE DEF Deliver, registry, volatile, durable, client, network, Elsewhere
<1>a. /\ Waiting(w) /\ rsp[w] # NoAnswer /\ rsp[w].kind # "none" /\ \A q \in req[w] : ~q.live
  BY DEF AckInv, OnePending
<1>b. rsp'[w] = NoAnswer /\ \A v \in Worker \ {w} : rsp'[v] = rsp[v]
  BY DEF RegInv, RegTypeOK, NetworkTypeOK
<1>c. CASE pc[w] # "leaving" /\ rsp[w].kind = "rejoin"
  <2>1. Send(w, "register", cas[w], {}, "none", "rejoining") /\ UNCHANGED <<reported, cas>>
    BY <1>c
  <2>2. "none" \in Token BY DEF Token
  <2>3. ReportsBacked' /\ OnePending' /\ PendingComplete' BY <1>a, <1>b, <2>1, <2>2, SentAck
  <2>4. RowsCurrent' BY DEF AckInv, RowsCurrent, Registered
  <2>5. AnswersIndexed'
    BY <1>b, <2>1 DEF Send, RegInv, RegTypeOK, WorkerTypeOK, AckInv, AnswersIndexed,
          Registered, NoAnswer
  <2> QED BY <2>3, <2>4, <2>5 DEF AckInv
<1>d. CASE pc[w] = "leaving" \/ rsp[w].kind # "rejoin"
  <2>1. /\ req' = req /\ snap' = snap /\ pc'[w] \in {"off", "idle"}
        /\ \A v \in Worker \ {w} : pc'[v] = pc[v] /\ reported'[v] = reported[v]
        /\ reported'[w] \in {reported[w], {}, snap[w]}
    <3> USE DEF Forget, Acknowledged, RegInv, RegTypeOK, WorkerTypeOK
    <3>1. CASE pc[w] = "leaving"
      <4>1. /\ pc' = [pc EXCEPT ![w] = "off"] /\ reported' = [reported EXCEPT ![w] = {}]
            /\ req' = req /\ snap' = snap
        BY <3>1
      <4> HIDE DEF Deliver, Forget
      <4> QED BY <4>1
    <3>2. CASE pc[w] # "leaving" /\ rsp[w].kind = "error" BY <3>2
    <3>3. CASE pc[w] # "leaving" /\ rsp[w].kind # "error" /\ rsp[w].kind # "rejoin"
      BY <3>3
    <3> QED BY <1>d, <3>1, <3>2, <3>3
  <2>2. reported'[w] \in {reported[w], {}} \/ rsp[w].kind \in {"healthy", "registered"}
    <3>1. rsp[w].kind \in {"none", "registered", "healthy", "rejoin", "done", "error"}
      BY DEF RegInv, RegTypeOK, NetworkTypeOK, Answer
    <3>2. rsp[w].kind = "done" => pc[w] = "leaving" BY DEF AckInv, PendingComplete
    <3> QED BY <1>a, <1>d, <3>1, <3>2 DEF Forget, Acknowledged, RegInv, RegTypeOK,
          WorkerTypeOK
  <2>3. cas' = cas /\ UNCHANGED <<status, hashes, saved, savedInv, overtaken>> OBVIOUS
  <2> HIDE DEF Deliver
  <2>4. RowsCurrent' BY <2>3 DEF AckInv, RowsCurrent, Registered
  <2>5. ReportsBacked' BY <2>1, <2>3 DEF AckInv, ReportsBacked
  <2>6. OnePending' BY <1>a, <1>b, <2>1 DEF AckInv, OnePending, Waiting, NoAnswer
  <2>7. PendingComplete' BY <1>a, <1>b, <2>1 DEF AckInv, PendingComplete, NoAnswer
  <2>8. AnswersIndexed'
    BY <1>b, <2>1, <2>2, <2>3 DEF AckInv, AnswersIndexed, Registered, NoAnswer
  <2> QED BY <2>4, <2>5, <2>6, <2>7, <2>8 DEF AckInv
<1> QED BY <1>c, <1>d

\* A call that fails leaves the acknowledged inventory as it was.
LEMMA FailAck ==
  ASSUME RegInv, AckInv, NEW w \in Worker, Fail(w) PROVE AckInv'
<1> USE DEF Fail, Forget, registry, volatile, durable, client, network, Elsewhere
<1>a. PICK R \in Abandoned(w) : req' = [req EXCEPT ![w] = R] OBVIOUS
<1>b. \A q \in R : /\ ~q.live
                   /\ \E r \in req[w] : q.inv = r.inv /\ q.gone = r.gone /\ q.op = r.op /\ q.tok = r.tok
  BY AbandonedRequest DEF RegInv, RegTypeOK
<1>1. RowsCurrent'
  BY DEF RegInv, RegTypeOK, CoordinatorTypeOK, WorkerTypeOK, NetworkTypeOK, AckInv,
        RowsCurrent, Registered
<1>2. ReportsBacked'
  BY <1>a, <1>b DEF RegInv, RegTypeOK, CoordinatorTypeOK, WorkerTypeOK, NetworkTypeOK,
        AckInv, ReportsBacked
<1>3. OnePending'
  BY <1>a, <1>b DEF RegInv, RegTypeOK, CoordinatorTypeOK, WorkerTypeOK, NetworkTypeOK,
        AckInv, OnePending, Waiting, NoAnswer
<1>4. PendingComplete'
  BY <1>a, <1>b DEF RegInv, RegTypeOK, CoordinatorTypeOK, WorkerTypeOK, NetworkTypeOK,
        AckInv, PendingComplete, NoAnswer
<1>5. AnswersIndexed'
  BY DEF RegInv, RegTypeOK, CoordinatorTypeOK, WorkerTypeOK, NetworkTypeOK, AckInv,
        AnswersIndexed, NoAnswer, Registered
<1> QED BY <1>1, <1>2, <1>3, <1>4, <1>5 DEF AckInv

\* A crash forgets it.
LEMMA CrashAck ==
  ASSUME RegInv, AckInv, NEW w \in Worker, Crash(w) PROVE AckInv'
<1> USE DEF Crash, Forget, registry, volatile, durable, client, network, Elsewhere
<1>a. PICK R \in Abandoned(w) : req' = [req EXCEPT ![w] = R] OBVIOUS
<1>b. \A q \in R : /\ ~q.live
                   /\ \E r \in req[w] : q.inv = r.inv /\ q.gone = r.gone /\ q.op = r.op /\ q.tok = r.tok
  BY AbandonedRequest DEF RegInv, RegTypeOK
<1>1. RowsCurrent'
  BY DEF RegInv, RegTypeOK, CoordinatorTypeOK, WorkerTypeOK, NetworkTypeOK, AckInv,
        RowsCurrent, Registered
<1>2. ReportsBacked'
  BY <1>a, <1>b DEF RegInv, RegTypeOK, CoordinatorTypeOK, WorkerTypeOK, NetworkTypeOK,
        AckInv, ReportsBacked
<1>3. OnePending'
  BY <1>a, <1>b DEF RegInv, RegTypeOK, CoordinatorTypeOK, WorkerTypeOK, NetworkTypeOK,
        AckInv, OnePending, Waiting, NoAnswer
<1>4. PendingComplete'
  BY <1>a, <1>b DEF RegInv, RegTypeOK, CoordinatorTypeOK, WorkerTypeOK, NetworkTypeOK,
        AckInv, PendingComplete, NoAnswer
<1>5. AnswersIndexed'
  BY DEF RegInv, RegTypeOK, CoordinatorTypeOK, WorkerTypeOK, NetworkTypeOK, AckInv,
        AnswersIndexed, NoAnswer, Registered
<1> QED BY <1>1, <1>2, <1>3, <1>4, <1>5 DEF AckInv

\* Stopping waits for the answer to one request, which claims nothing.
LEMMA StopAck ==
  ASSUME RegInv, AckInv, NEW w \in Worker, Stop(w) PROVE AckInv'
<1> USE DEF Stop, registry, volatile, durable, client, network, Elsewhere
<1> DEFINE leave == [op |-> "leave", inv |-> {}, gone |-> {}, tok |-> held[w], live |-> TRUE]
<1>a. PICK R \in Abandoned(w) : req' = [req EXCEPT ![w] = R \cup {leave}] OBVIOUS
<1>b. \A q \in R : /\ ~q.live
                   /\ \E r \in req[w] : q.inv = r.inv /\ q.gone = r.gone /\ q.op = r.op /\ q.tok = r.tok
  BY AbandonedRequest DEF RegInv, RegTypeOK
<1>c. leave.op = "leave" /\ leave.gone = {} /\ leave.live OBVIOUS
<1> HIDE DEF leave
<1>1. RowsCurrent'
  BY DEF RegInv, RegTypeOK, CoordinatorTypeOK, WorkerTypeOK, NetworkTypeOK, AckInv,
        RowsCurrent, Registered
<1>2. ReportsBacked'
  BY <1>a, <1>b, <1>c DEF RegInv, RegTypeOK, CoordinatorTypeOK, WorkerTypeOK,
        NetworkTypeOK, AckInv, ReportsBacked
<1>3. OnePending'
  BY <1>a, <1>b, <1>c DEF RegInv, RegTypeOK, CoordinatorTypeOK, WorkerTypeOK,
        NetworkTypeOK, AckInv, OnePending, Waiting, NoAnswer
<1>4. PendingComplete'
  BY <1>a, <1>b, <1>c DEF RegInv, RegTypeOK, CoordinatorTypeOK, WorkerTypeOK,
        NetworkTypeOK, AckInv, PendingComplete, NoAnswer
<1>5. AnswersIndexed'
  BY DEF RegInv, RegTypeOK, CoordinatorTypeOK, WorkerTypeOK, NetworkTypeOK, AckInv,
        AnswersIndexed, NoAnswer, Registered
<1> QED BY <1>1, <1>2, <1>3, <1>4, <1>5 DEF AckInv

-----------------------------------------------------------------------------
(* Theorems *)

\* Every step of the specification keeps the invariant.
LEMMA NextInv == ASSUME RegInv, [Next]_vars PROVE RegInv'
<1>1. CASE EvictExpired BY <1>1, EvictExpiredInv
<1>2. CASE DecayPenalties BY <1>2, DecayPenaltiesInv
<1>3. CASE Restart BY <1>3, RestartInv
<1>4. ASSUME NEW w \in Worker, Handle(w) PROVE RegInv'
  BY <1>4, HandleRegisterInv, HandleBeatInv, HandleLeaveInv, DenyInv DEF Handle
<1>5. ASSUME NEW w \in Worker,
             Dispatch(w) \/ RecordFailure(w) \/ Drain(w) \/ Revive(w) \/ Silence(w)
      PROVE  RegInv'
  BY <1>5, DispatchInv, RecordFailureInv, DrainInv, ReviveInv, SilenceInv
<1>6. ASSUME NEW w \in Worker,
             Start(w) \/ Beat(w) \/ Deliver(w) \/ Fail(w) \/ Stop(w) \/ Crash(w)
      PROVE  RegInv'
  BY <1>6, StartInv, BeatInv, DeliverInv, FailInv, StopInv, CrashInv
<1>7. ASSUME NEW w \in Worker, NEW h \in Hash, AddOutputs(w, h) \/ Ingest(w, h)
      PROVE  RegInv'
  BY <1>7, AddOutputsInv, IngestInv
<1>8. CASE UNCHANGED vars
  BY <1>8 DEF RegInv, RegTypeOK, CoordinatorTypeOK, WorkerTypeOK, NetworkTypeOK, IndexDual,
              ClaimsBacked, UnheardUntouched, Registered, vars, registry, volatile, durable, client, network
<1> QED BY <1>1, <1>2, <1>3, <1>4, <1>5, <1>6, <1>7, <1>8 DEF Next

\* So is what the argument about acknowledgements needs.
LEMMA NextAck == ASSUME RegInv, AckInv, [Next]_vars PROVE AckInv'
<1>1. CASE EvictExpired BY <1>1, EvictExpiredAck
<1>2. CASE DecayPenalties BY <1>2, DecayPenaltiesAck
<1>3. CASE Restart BY <1>3, RestartAck
<1>4. ASSUME NEW w \in Worker, Handle(w) PROVE AckInv'
  BY <1>4, HandleRegisterAck, HandleBeatAck, HandleLeaveAck, DenyAck DEF Handle
<1>5. ASSUME NEW w \in Worker,
             Dispatch(w) \/ RecordFailure(w) \/ Drain(w) \/ Revive(w) \/ Silence(w)
      PROVE  AckInv'
  BY <1>5, DispatchAck, RecordFailureAck, DrainAck, ReviveAck, SilenceAck
<1>6. ASSUME NEW w \in Worker,
             Start(w) \/ Beat(w) \/ Deliver(w) \/ Fail(w) \/ Stop(w) \/ Crash(w)
      PROVE  AckInv'
  BY <1>6, StartAck, BeatAck, DeliverAck, FailAck, StopAck, CrashAck
<1>7. ASSUME NEW w \in Worker, NEW h \in Hash, AddOutputs(w, h) \/ Ingest(w, h)
      PROVE  AckInv'
  BY <1>7, AddOutputsAck, IngestAck
<1>8. CASE UNCHANGED vars
  BY <1>8 DEF AckInv, RowsCurrent, ReportsBacked, OnePending, PendingComplete,
        AnswersIndexed,
              Registered, Waiting, vars, registry, volatile, durable, client, network
<1> QED BY <1>1, <1>2, <1>3, <1>4, <1>5, <1>6, <1>7, <1>8 DEF Next

\* The invariant holds in every reachable state: nothing a coordinator crash,
\* a late request or a health transition does invalidates it.
THEOREM Invariance == Spec => []RegInv
<1>1. Init => RegInv BY InitInv
<1>2. RegInv /\ [Next]_vars => RegInv' BY NextInv
<1> QED BY <1>1, <1>2, PTL DEF Spec

\* The state of coordinator, workers and network keeps its types, and a
\* registered worker never has the health record of a removed one
\* (register_worker, _unregister_worker_locked, record_failure).
THEOREM TypesKept == Spec => []RegTypeOK
<1>1. RegInv => RegTypeOK BY DEF RegInv
<1> QED BY <1>1, Invariance, PTL

\* Forward and inverted index agree, name registered workers only and list
\* only what their workers hold, after any sequence of registrations,
\* heartbeats, results, removals, evictions and restarts.
THEOREM IndexExact == Spec => []IndexDual
<1>1. RegInv => IndexDual BY DEF RegInv
<1> QED BY <1>1, Invariance, PTL

\* Whoever is located for an asset or selected for a workload has been heard
\* from since the coordinator started (_restore_persisted_state, heartbeat,
\* record_failure, decay_penalties).
THEOREM RestoredUntrusted == Spec => []TrustedSeen
<1>1. RegInv => TrustedSeen
  <2> SUFFICES ASSUME RegInv, NEW w \in (UNION {Located(h) : h \in Hash}) \cup Selectable
               PROVE  w \in seen
    BY DEF TrustedSeen
  <2>1. CASE w \in Selectable
    BY <2>1 DEF Selectable, RegInv, UnheardUntouched
  <2>2. CASE \E h \in Hash : w \in Located(h)
    <3>1. PICK h \in Hash : w \in index[h] /\ status[w] # "offline" BY <2>2 DEF Located
    <3>2. w \in Worker BY <3>1 DEF RegInv, RegTypeOK, CoordinatorTypeOK
    <3>3. status[w] # "none" BY <3>1, <3>2 DEF RegInv, IndexDual, Registered
    <3> QED BY <3>1, <3>2, <3>3 DEF RegInv, UnheardUntouched
  <2> QED BY <2>1, <2>2
<1> QED BY <1>1, Invariance, PTL

\* The state store, the requests under way and the answers keep the relation
\* to the index that the delta protocol of send_heartbeat relies on.
THEOREM AckInvariance == Spec => [](RegInv /\ AckInv)
<1>1. Init => RegInv /\ AckInv BY InitInv, InitAck
<1>2. RegInv /\ AckInv /\ [Next]_vars => (RegInv /\ AckInv)' BY NextInv, NextAck
<1> QED BY <1>1, <1>2, PTL DEF Spec

\* A worker that is between two heartbeats and registered has everything it
\* believes acknowledged in the index, unless a registration it had given up
\* was served late (send_heartbeat, register_worker_sync, heartbeat).
THEOREM AcksIndexed == Spec => []AckedIsIndexed
<1>1. AckInv => AckedIsIndexed BY DEF AckInv, AnswersIndexed, AckedIsIndexed
<1> QED BY <1>1, AckInvariance, PTL
==============================================================================
