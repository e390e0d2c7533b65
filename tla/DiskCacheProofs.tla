--------------------------- MODULE DiskCacheProofs ---------------------------
(***************************************************************************)
(* Proofs about DiskCache, for every set of objects and processes, every   *)
(* size, quota and number of faults.                                       *)
(***************************************************************************)
EXTENDS DiskCache, FiniteSetTheorems, TLAPS

-----------------------------------------------------------------------------
(* The inductive invariant *)

\* Steps of an operation that holds cache.lock.
LockedPc == Pc \ {"idle", "exists", "size", "open"}
PutOp == {"bytes", "file", "stream"}
EvictOp == PutOp \cup {"evict"}

\* cache.lock belongs to the process inside such an operation, and to no other.
LockInv == \A p \in Proc : pc[p] \in LockedPc <=> lock = p

\* The program point p is at belongs to its operation.
AtHome(p) ==
  /\ pc[p] \in {"stage", "quota", "commit", "record"} => arg[p].op \in PutOp
  /\ pc[p] \in {"batch", "mark", "unlink", "settle"} => arg[p].op \in EvictOp
  /\ pc[p] = "drop" => arg[p].op \in EvictOp \cup {"remove"}
  /\ pc[p] = "judge" => arg[p].op \in {"verify", "reconcile"}
  /\ pc[p] = "scrub" => arg[p].op = "scrub"
  /\ pc[p] = "repair" => arg[p].op = "reconcile"

\* The object p has marked and not dealt with yet.
Evicting(p) == pc[p] \in {"unlink", "drop"} /\ arg[p].op # "remove"
Auditing(p) == pc[p] = "judge" /\ arg[p].op = "reconcile"
Current(p) ==
  IF Evicting(p) THEN Head(arg[p].todo)
  ELSE IF Auditing(p) THEN Head(arg[p].todo)[2] ELSE arg[p].h

\* What eviction and verify_all still have to visit: objects with a row, once each.
Listing(p) ==
  pc[p] \in {"mark", "scrub"} \/ Evicting(p) =>
    LET todo == arg[p].todo IN
    /\ todo \in Seq(Hash)
    /\ \A i \in 1 .. Len(todo) : row[todo[i]] # "none"
    /\ \A i, j \in 1 .. Len(todo) : todo[i] = todo[j] => i = j

\* What reconcile still has to visit.
Repairing(p) ==
  pc[p] = "repair" \/ Auditing(p) =>
    LET todo == arg[p].todo IN
    /\ todo \in Seq({"dangling", "orphan", "audit"} \X Hash)
    /\ \A i \in 1 .. Len(todo) : todo[i][1] = "audit" => row[todo[i][2]] # "none"
    /\ \A i, j \in 1 .. Len(todo) : todo[i][2] = todo[j][2] => i = j

\* The row of the object in hand is in the state the operation gave it.
Marked(p) ==
  /\ Evicting(p) => arg[p].todo # <<>> /\ row[Current(p)] = "evicting"
  /\ pc[p] = "unlink" => arg[p].kept \in {"valid", "evicting"}
  /\ Auditing(p) => arg[p].todo # <<>>
  /\ pc[p] = "judge" => row[Current(p)] = "verifying"

\* From the quota check to the insertion of the row there is room for it.
RoomKept(p) ==
  pc[p] \in {"commit", "record"} \/ (pc[p] = "stage" /\ arg[p].op = "bytes") => Fits(arg[p].h)

Working(p) == AtHome(p) /\ Listing(p) /\ Repairing(p) /\ Marked(p) /\ RoomKept(p)

InHand(S, h) == \E p \in Proc : pc[p] \in S /\ Current(p) = h

\* Without a crash, rows are unsettled only in the hands of a process.
SettledInv ==
  crashes = 0 =>
    /\ \A h \in Hash :
         /\ row[h] # "transferring"
         /\ row[h] = "evicting" => InHand({"unlink", "drop"}, h)
         /\ row[h] = "verifying" => InHand({"judge"}, h)
    /\ \A p \in Proc : pc[p] = "unlink" => arg[p].kept = "valid"

\* Without a crash, a row that reports a bad object tells the truth, until a
\* new file is renamed over it and before its row is written.
VerdictInv ==
  crashes = 0 =>
    \A h \in Hash : \/ InHand({"record"}, h)
                    \/ /\ row[h] = "absent" => disk[h] = "missing"
                       /\ row[h] = "corrupted" => disk[h] # "good"

\* Without crashes and damage, files and rows differ only in the hands of a process.
AccountInv ==
  /\ crashes <= faults
  /\ faults = 0 =>
       /\ \A h \in Hash :
            /\ disk[h] \in {"missing", "good"}
            /\ InHand({"record"}, h) => disk[h] = "good"
            /\ InHand({"drop"}, h) => disk[h] = "missing"
            /\ \/ InHand({"record", "drop"}, h)
               \/ row[h] # "none" <=> disk[h] # "missing"
       /\ \A p \in Proc : pc[p] = "repair" \/ Auditing(p) =>
            \A i \in 1 .. Len(arg[p].todo) : arg[p].todo[i][1] = "audit"

CacheInv ==
  /\ CacheTypeOK /\ LockInv /\ \A p \in Proc : Working(p)
  /\ QuotaRespected /\ SettledInv /\ VerdictInv /\ ScrubSound /\ AccountInv

-----------------------------------------------------------------------------
(* Lemmas about the operators *)

\* What update_status allows, by the state it starts from.
LEMMA Transitions ==
  ASSUME CacheTypeOK, NEW h \in Hash, row[h] # "none"
  PROVE  /\ MayBecome(h, "evicting") <=> row[h] \in {"valid", "evicting"}
         /\ row[h] \in {"valid", "verifying", "evicting"} => MayBecome(h, "valid")
         /\ MayBecome(h, "absent")
         /\ row[h] \in {"valid", "verifying", "corrupted"} => MayBecome(h, "corrupted")
         /\ row[h] # "evicting" => MayBecome(h, "verifying")
<1>1. row[h] \in RowState \ {"none"} BY DEF CacheTypeOK
<1>2. /\ Allowed["absent"] = {"transferring", "verifying"}
      /\ Allowed["transferring"] = {"verifying", "absent"}
      /\ Allowed["verifying"] = {"valid", "corrupted", "absent"}
      /\ Allowed["valid"] = {"evicting", "corrupted", "absent", "verifying"}
      /\ Allowed["corrupted"] = {"absent", "verifying"}
      /\ Allowed["evicting"] = {"absent", "valid"}
  BY DEF Allowed
<1> QED BY <1>1, <1>2 DEF MayBecome, RowState

\* The bytes of finitely many objects can be counted.
LEMMA BytesFinite ==
  ASSUME NEW S \in SUBSET Hash PROVE IsFiniteSet(Bytes(S)) /\ Cardinality(Bytes(S)) \in Nat
<1>1. IsFiniteSet(S) BY CacheAssumption, FS_Subset
<1>2. ASSUME NEW h \in S PROVE IsFiniteSet({h} \X (1 .. SizeOf[h]))
  <2>1. IsFiniteSet({h}) BY FS_Singleton
  <2>2. SizeOf[h] \in Nat BY CacheAssumption
  <2>3. IsFiniteSet(1 .. SizeOf[h]) BY <2>2, FS_Interval
  <2> QED BY <2>1, <2>3, FS_Product
<1> DEFINE T == {{h} \X (1 .. SizeOf[h]) : h \in S}
           f == [h \in S |-> {h} \X (1 .. SizeOf[h])]
<1>3. IsFiniteSet(T)
  <2>1. f \in Surjection(S, T) BY DEF Surjection
  <2> HIDE DEF T, f
  <2> QED BY <1>1, <2>1, FS_Surjection
<1>4. IsFiniteSet(Bytes(S)) BY <1>2, <1>3, FS_UNION DEF Bytes
<1> QED BY <1>4, FS_CardinalityType

\* Fewer objects have no more bytes.
LEMMA BytesShrink ==
  ASSUME NEW S \in SUBSET Hash, NEW T \in SUBSET S
  PROVE  Cardinality(Bytes(T)) <= Cardinality(Bytes(S))
<1>1. Bytes(T) \subseteq Bytes(S) BY DEF Bytes
<1> QED BY <1>1, BytesFinite, FS_Subset

\* One more object adds at most its size.
LEMMA BytesAdd ==
  ASSUME NEW S \in SUBSET Hash, NEW h \in Hash, NEW T \in SUBSET (S \cup {h})
  PROVE  Cardinality(Bytes(T)) <= Cardinality(Bytes(S)) + SizeOf[h]
<1>1. SizeOf[h] \in Nat BY CacheAssumption
<1>2. Bytes(S \cup {h}) = Bytes(S) \cup ({h} \X (1 .. SizeOf[h])) BY DEF Bytes
<1>3. IsFiniteSet({h}) /\ Cardinality({h}) = 1 BY FS_Singleton
<1>4. IsFiniteSet(1 .. SizeOf[h]) /\ Cardinality(1 .. SizeOf[h]) = SizeOf[h]
  BY <1>1, FS_Interval
<1>5. IsFiniteSet({h} \X (1 .. SizeOf[h])) /\ Cardinality({h} \X (1 .. SizeOf[h])) = SizeOf[h]
  <2>1. /\ IsFiniteSet({h} \X (1 .. SizeOf[h]))
        /\ Cardinality({h} \X (1 .. SizeOf[h])) = Cardinality({h}) * Cardinality(1 .. SizeOf[h])
    BY <1>3, <1>4, FS_Product
  <2>2. 1 * SizeOf[h] = SizeOf[h] BY <1>1
  <2> QED BY <1>3, <1>4, <2>1, <2>2
<1>6. IsFiniteSet(Bytes(S)) /\ Cardinality(Bytes(S)) \in Nat BY BytesFinite
<1> DEFINE I == Bytes(S) \cap ({h} \X (1 .. SizeOf[h]))
<1>7. Cardinality(I) \in Nat BY <1>6, FS_Intersection, FS_CardinalityType
<1>8. Cardinality(Bytes(S \cup {h})) = Cardinality(Bytes(S)) + SizeOf[h] - Cardinality(I)
  BY <1>2, <1>5, <1>6, FS_Union
<1>9. Cardinality(Bytes(T)) <= Cardinality(Bytes(S \cup {h})) BY BytesShrink
<1>10. Cardinality(Bytes(T)) \in Nat /\ Cardinality(Bytes(S \cup {h})) \in Nat
  BY BytesFinite
<1> HIDE DEF I
<1> QED BY <1>1, <1>6, <1>7, <1>8, <1>9, <1>10

\* The total is a number, and what fits is decided by it.
LEMMA TotalType == TotalSize \in Nat
<1>1. Rows \in SUBSET Hash BY DEF Rows
<1> QED BY <1>1, BytesFinite DEF TotalSize

\* Losing the row of h keeps the access order an order.
LEMMA OrderForgets ==
  ASSUME CacheTypeOK, NEW h \in Hash, row' = [row EXCEPT ![h] = "none"], older' = Without(h)
  PROVE  AccessOrder'
<1>1. AccessOrder /\ row \in [Hash -> RowState] BY DEF CacheTypeOK
<1>2. \A g \in Hash : row'[g] # "none" <=> g # h /\ row[g] # "none" BY <1>1
<1>3. \A g, i \in Hash : <<g, i>> \in older' <=> <<g, i>> \in older /\ g # h /\ i # h
  BY DEF Without
<1>4. \A e \in older' : e \in older /\ e[1] # h /\ e[2] # h BY DEF Without
<1> QED BY <1>1, <1>2, <1>3, <1>4 DEF AccessOrder

\* Making the row of h the youngest does, too.
LEMMA OrderYoungest ==
  ASSUME CacheTypeOK, NEW h \in Hash, older' = Youngest(h), row'[h] # "none",
         \A g \in Hash \ {h} : row'[g] # "none" <=> row[g] # "none"
  PROVE  AccessOrder'
<1>1. AccessOrder BY DEF CacheTypeOK
<1>2. \A g, i \in Hash : <<g, i>> \in older' <=>
        \/ <<g, i>> \in older /\ g # h /\ i # h
        \/ g # h /\ row[g] # "none" /\ i = h
  BY DEF Youngest, Without, Rows
<1>3. \A e \in older' : e \in Hash \X Hash /\ row'[e[1]] # "none" /\ row'[e[2]] # "none"
  BY <1>1 DEF Youngest, Without, Rows, AccessOrder
<1> QED BY <1>1, <1>2, <1>3 DEF AccessOrder

\* So does a step that neither adds nor drops a row.
LEMMA OrderKept ==
  ASSUME CacheTypeOK, older' = older, \A g \in Hash : row'[g] # "none" <=> row[g] # "none"
  PROVE  AccessOrder'
<1>1. AccessOrder BY DEF CacheTypeOK
<1> QED BY <1>1 DEF AccessOrder

LEMMA OrderTouched ==
  ASSUME CacheTypeOK, NEW h \in Hash, older' = Touched(h), row' = row
  PROVE  AccessOrder'
BY OrderYoungest, OrderKept DEF Touched

-----------------------------------------------------------------------------
(* Lemmas about lists of work *)

\* The rest of a list, and what it has in common with the list.
LEMMA Rest ==
  ASSUME NEW S, NEW s \in Seq(S), s # <<>>
  PROVE  /\ Head(s) \in S /\ Head(s) = s[1] /\ Len(s) \in Nat /\ Len(s) >= 1
         /\ Tail(s) \in Seq(S) /\ Len(Tail(s)) = Len(s) - 1
         /\ \A i \in 1 .. Len(Tail(s)) : i + 1 \in 1 .. Len(s) /\ Tail(s)[i] = s[i + 1]
OBVIOUS

\* An enumeration of a finite set lists its members once.
LEMMA Enumerated ==
  ASSUME NEW S, IsFiniteSet(S), NEW s \in SetToSeqs(S)
  PROVE  s \in Seq(S) /\ \A i, j \in 1 .. Len(s) : s[i] = s[j] => i = j
<1>1. Cardinality(S) \in Nat BY FS_CardinalityType
<1>2. s \in [1 .. Cardinality(S) -> S] BY DEF SetToSeqs
<1>3. s \in Seq(S) /\ Len(s) = Cardinality(S) BY <1>1, <1>2
<1> QED BY <1>3 DEF SetToSeqs

\* Two lists of objects without a common one make a list without repetition.
LEMMA Joined ==
  ASSUME NEW K, NEW s \in Seq(K \X Hash), NEW t \in Seq(K \X Hash),
         \A i, j \in 1 .. Len(s) : s[i][2] = s[j][2] => i = j,
         \A i, j \in 1 .. Len(t) : t[i][2] = t[j][2] => i = j,
         \A i \in 1 .. Len(s), j \in 1 .. Len(t) : s[i][2] # t[j][2]
  PROVE  /\ s \o t \in Seq(K \X Hash)
         /\ \A i \in 1 .. Len(s \o t) : \/ \E k \in 1 .. Len(s) : (s \o t)[i] = s[k]
                                        \/ \E k \in 1 .. Len(t) : (s \o t)[i] = t[k]
         /\ \A i, j \in 1 .. Len(s \o t) : (s \o t)[i][2] = (s \o t)[j][2] => i = j
<1>1. s \o t \in Seq(K \X Hash) /\ Len(s) \in Nat /\ Len(t) \in Nat /\ Len(s \o t) = Len(s) + Len(t)
  OBVIOUS
<1>2. ASSUME NEW i \in 1 .. Len(s \o t)
      PROVE  \/ i \in 1 .. Len(s) /\ (s \o t)[i] = s[i]
             \/ i - Len(s) \in 1 .. Len(t) /\ (s \o t)[i] = t[i - Len(s)]
  BY <1>1
<1>3. ASSUME NEW i \in 1 .. Len(s \o t), NEW j \in 1 .. Len(s \o t), (s \o t)[i][2] = (s \o t)[j][2]
      PROVE  i = j
  <2>1. CASE i \in 1 .. Len(s) /\ (s \o t)[i] = s[i] /\ j \in 1 .. Len(s) /\ (s \o t)[j] = s[j]
    BY <1>3, <2>1
  <2>2. CASE i - Len(s) \in 1 .. Len(t) /\ (s \o t)[i] = t[i - Len(s)]
             /\ j - Len(s) \in 1 .. Len(t) /\ (s \o t)[j] = t[j - Len(s)]
    <3>1. i - Len(s) = j - Len(s) BY <1>3, <2>2
    <3> QED BY <1>1, <3>1
  <2> QED BY <1>2, <1>3, <2>1, <2>2
<1> QED BY <1>1, <1>2, <1>3

\* The pairs of a kind and the objects of S, enumerated.
LEMMA Kinds ==
  ASSUME NEW k \in {"dangling", "orphan", "audit"}, NEW S \in SUBSET Hash, NEW s \in SetToSeqs({k} \X S)
  PROVE  /\ s \in Seq({"dangling", "orphan", "audit"} \X Hash)
         /\ \A i \in 1 .. Len(s) : s[i][1] = k /\ s[i][2] \in S
         /\ \A i, j \in 1 .. Len(s) : s[i][2] = s[j][2] => i = j
<1>1. IsFiniteSet({k} \X S)
  <2>1. IsFiniteSet({k}) /\ IsFiniteSet(S) BY CacheAssumption, FS_Singleton, FS_Subset
  <2> QED BY <2>1, FS_Product
<1>2. s \in Seq({k} \X S) /\ \A i, j \in 1 .. Len(s) : s[i] = s[j] => i = j
  BY <1>1, Enumerated
<1>3. \A i \in 1 .. Len(s) : s[i] \in {k} \X S BY <1>2
<1>4. \A i \in 1 .. Len(s) : s[i] = <<k, s[i][2]>> /\ s[i][2] \in S BY <1>3
<1>5. s \in Seq({"dangling", "orphan", "audit"} \X Hash) BY <1>2, <1>3
<1> QED BY <1>2, <1>4, <1>5

-----------------------------------------------------------------------------
(* The invariant seen from the one process that may hold the lock *)

SettledBy(p) ==
  crashes = 0 =>
    /\ \A h \in Hash :
         /\ row[h] # "transferring"
         /\ row[h] = "evicting" => pc[p] \in {"unlink", "drop"} /\ Current(p) = h
         /\ row[h] = "verifying" => pc[p] = "judge" /\ Current(p) = h
    /\ pc[p] = "unlink" => arg[p].kept = "valid"

VerdictBy(p) ==
  crashes = 0 =>
    \A h \in Hash : \/ pc[p] = "record" /\ Current(p) = h
                    \/ /\ row[h] = "absent" => disk[h] = "missing"
                       /\ row[h] = "corrupted" => disk[h] # "good"

AccountBy(p) ==
  /\ crashes <= faults
  /\ faults = 0 =>
       /\ \A h \in Hash :
            /\ disk[h] \in {"missing", "good"}
            /\ pc[p] = "record" /\ Current(p) = h => disk[h] = "good"
            /\ pc[p] = "drop" /\ Current(p) = h => disk[h] = "missing"
            /\ \/ pc[p] \in {"record", "drop"} /\ Current(p) = h
               \/ row[h] # "none" <=> disk[h] # "missing"
       /\ pc[p] = "repair" \/ Auditing(p) =>
            \A i \in 1 .. Len(arg[p].todo) : arg[p].todo[i][1] = "audit"

View(p) ==
  /\ CacheTypeOK /\ Working(p)
  /\ QuotaRespected /\ SettledBy(p) /\ VerdictBy(p) /\ ScrubSound /\ AccountBy(p)

\* A process sees all of the invariant while nobody else is at work.
LEMMA ViewFrom ==
  ASSUME CacheInv, NEW p \in Proc, \A q \in Proc \ {p} : pc[q] \notin LockedPc
  PROVE  View(p)
<1>1. \A S \in SUBSET LockedPc : \A h : InHand(S, h) <=> pc[p] \in S /\ Current(p) = h
  BY DEF InHand
<1>2. {{"unlink", "drop"}, {"judge"}, {"record"}, {"drop"}, {"record", "drop"}} \subseteq SUBSET LockedPc
  BY DEF LockedPc, Pc
<1>3. SettledBy(p) BY <1>1, <1>2 DEF CacheInv, SettledInv, SettledBy
<1>4. VerdictBy(p) BY <1>1, <1>2 DEF CacheInv, VerdictInv, VerdictBy
<1>5. AccountBy(p) BY <1>1, <1>2 DEF CacheInv, AccountInv, AccountBy
<1> QED BY <1>3, <1>4, <1>5 DEF CacheInv, View

\* What it leaves is the invariant again.
LEMMA ViewBack ==
  ASSUME NEW p \in Proc, View(p)', LockInv', \A q \in Proc \ {p} : pc'[q] \notin LockedPc
  PROVE  CacheInv'
<1>1. \A q \in Proc \ {p} : pc'[q] \notin {"stage", "quota", "batch", "mark", "unlink", "drop",
         "settle", "commit", "record", "judge", "scrub", "repair"}
  BY DEF LockedPc, Pc
<1>2. \A q \in Proc : Working(q)'
  <2>1. ASSUME NEW q \in Proc \ {p} PROVE Working(q)'
    BY <1>1 DEF Working, AtHome, Listing, Repairing, Marked, RoomKept, Evicting, Auditing
  <2> QED BY <2>1 DEF View
<1>3. SettledInv' BY <1>1 DEF View, SettledBy, SettledInv, InHand
<1>4. VerdictInv' BY <1>1 DEF View, VerdictBy, VerdictInv, InHand
<1>5. AccountInv' BY <1>1 DEF View, AccountBy, AccountInv, InHand, Auditing
<1> QED BY <1>2, <1>3, <1>4, <1>5 DEF View, CacheInv

\* The room that is left does not shrink with the rows.
LEMMA QuotaKept ==
  ASSUME QuotaRespected, Rows' \subseteq Rows
  PROVE  QuotaRespected' /\ \A h \in Hash : Fits(h) => Fits(h)'
<1>1. Rows \in SUBSET Hash /\ Rows' \in SUBSET Hash BY DEF Rows
<1>2. TotalSize' <= TotalSize BY <1>1, BytesShrink DEF TotalSize, Bytes
<1>3. TotalSize \in Nat /\ TotalSize' \in Nat BY <1>1, BytesFinite DEF TotalSize, Bytes
<1>4. Quota \in Nat /\ SizeOf \in [Hash -> Nat \ {0}] BY CacheAssumption
<1> QED BY <1>2, <1>3, <1>4 DEF QuotaRespected, Fits

-----------------------------------------------------------------------------
(* Steps of a process that has, takes or returns the lock *)

\* What such steps do to the variables that are not the store.
Frame ==
  /\ pc' \in [Proc -> Pc] /\ arg' \in [Proc -> Arg]
  /\ staged' \subseteq Proc /\ lock' \in Proc \cup {NoProc}
  /\ UNCHANGED Observed

LEMMA NoArgType ==
  /\ NoArg \in Arg /\ NoArg.op = "none" /\ NoArg.todo = <<>> /\ NoArg.h \in Hash
<1>1. (CHOOSE h \in Hash : TRUE) \in Hash BY CacheAssumption
<1>2. <<>> \in Seq(Item) OBVIOUS
<1> QED BY <1>1, <1>2 DEF NoArg, Arg, Op, RowState

\* An operation that ends leaves nothing to do.
LEMMA LeaveFrame ==
  ASSUME CacheTypeOK, NEW p \in Proc, Leave(p)
  PROVE  Frame /\ pc'[p] = "idle" /\ Working(p)'
<1>1. Frame /\ pc'[p] = "idle"
  BY NoArgType DEF Leave, Frame, Observed, CacheTypeOK, Pc
<1> QED
  BY <1>1 DEF Working, AtHome, Listing, Repairing, Marked, RoomKept, Evicting, Auditing

\* One that starts has only its arguments.
LEMMA BeginFrame ==
  ASSUME CacheTypeOK, NEW p \in Proc, NEW l \in Pc, NEW a \in Arg, lock' \in Proc \cup {NoProc},
         staged' = staged, pc' = [pc EXCEPT ![p] = l], arg' = [arg EXCEPT ![p] = a],
         UNCHANGED Observed
  PROVE  Frame /\ pc'[p] = l /\ arg'[p] = a
BY DEF Frame, Observed, CacheTypeOK

\* One that goes on keeps the lock.
LEMMA GotoFrame ==
  ASSUME CacheTypeOK, NEW p \in Proc, NEW l \in Pc, Goto(p, l), staged' \subseteq Proc,
         NEW a \in Arg, arg' = [arg EXCEPT ![p] = a]
  PROVE  Frame /\ pc'[p] = l /\ arg'[p] = a
BY DEF Goto, Frame, Observed, CacheTypeOK

LEMMA GotoSame ==
  ASSUME CacheTypeOK, NEW p \in Proc, NEW l \in Pc, Goto(p, l), staged' \subseteq Proc, arg' = arg
  PROVE  Frame /\ pc'[p] = l /\ arg'[p] = arg[p]
BY DEF Goto, Frame, Observed, CacheTypeOK

LEMMA TypeBack ==
  ASSUME CacheTypeOK, Frame, AccessOrder', row' \in [Hash -> RowState], disk' \in [Hash -> FileState],
         scrubErr' \in BOOLEAN
  PROVE  CacheTypeOK'
BY DEF CacheTypeOK, Frame, Observed

\* A step without an object in hand that leaves rows and files alone.
LEMMA Quiet ==
  ASSUME NEW p \in Proc, View(p), Frame, UNCHANGED <<row, disk, scrubErr>>, AccessOrder',
         pc[p] \notin {"unlink", "drop", "judge", "record"},
         pc'[p] \notin {"unlink", "drop", "judge", "record"},
         AtHome(p)', Listing(p)', Repairing(p)', RoomKept(p)',
         faults = 0 /\ pc'[p] = "repair" =>
           \A i \in 1 .. Len(arg'[p].todo) : arg'[p].todo[i][1] = "audit"
  PROVE  View(p)'
<1>1. CacheTypeOK' BY TypeBack DEF View, CacheTypeOK
<1>2. Working(p)' BY DEF Working, Marked, Evicting, Auditing
<1>3. QuotaRespected' BY QuotaKept DEF View, Rows
<1>4. SettledBy(p)' BY DEF View, SettledBy, Frame, Observed
<1>5. VerdictBy(p)' BY DEF View, VerdictBy, Frame, Observed
<1>6. AccountBy(p)' BY DEF View, AccountBy, Frame, Observed, Auditing
<1>7. ScrubSound' BY DEF View, ScrubSound, Frame, Observed
<1> QED BY <1>1, <1>2, <1>3, <1>4, <1>5, <1>6, <1>7 DEF View

\* In particular one that ends the operation.
LEMMA QuietEnd ==
  ASSUME NEW p \in Proc, View(p), Finish(p), UNCHANGED <<row, disk>>, AccessOrder',
         pc[p] \notin {"unlink", "drop", "judge", "record"}
  PROVE  View(p)'
<1>1. Frame /\ pc'[p] = "idle" /\ Working(p)' BY LeaveFrame DEF View, Finish
<1> QED BY <1>1, Quiet DEF Working, Finish

\* The beginnings that only take the lock.
LEMMA QuietBegin ==
  ASSUME NEW p \in Proc, View(p), pc[p] = "idle", Frame, UNCHANGED <<store, scrubErr>>,
         \/ pc'[p] = "stage" /\ arg'[p].op \in {"file", "stream"}
         \/ pc'[p] = "quota" /\ arg'[p].op \in PutOp
         \/ pc'[p] = "batch" /\ arg'[p].op = "evict"
  PROVE  View(p)'
<1>1. AccessOrder' BY OrderKept DEF View, store
<1>2. /\ pc'[p] \notin {"unlink", "drop", "judge", "record", "repair", "scrub", "mark", "commit", "settle"}
      /\ pc'[p] = "stage" => arg'[p].op # "bytes"
  OBVIOUS
<1>3. AtHome(p)' BY DEF AtHome, PutOp, EvictOp
<1>4. Listing(p)' /\ Repairing(p)' /\ RoomKept(p)'
  BY <1>2 DEF Listing, Repairing, RoomKept, Evicting, Auditing
<1> QED BY <1>1, <1>2, <1>3, <1>4, Quiet DEF store

LEMMA StartPutView ==
  ASSUME NEW p \in Proc, NEW h \in Hash, View(p), NEW op \in PutOp,
         NEW l \in {"quota", "stage"}, op = "bytes" => l = "quota",
         Begin(p, op, h, l), UNCHANGED <<store, staged>>
  PROVE  View(p)'
<1> DEFINE a == [NoArg EXCEPT !.op = op, !.h = h]
<1>1. a \in Arg /\ a.op = op BY NoArgType DEF Arg, Op, PutOp
<1>2. Frame /\ pc'[p] = l /\ arg'[p] = a
  BY <1>1, BeginFrame DEF View, Begin, Pc
<1> HIDE DEF a
<1> QED BY <1>1, <1>2, QuietBegin DEF Begin, At, PutOp

LEMMA StartEvictView ==
  ASSUME NEW p \in Proc, NEW n \in {SizeOf[h] : h \in Hash}, View(p), StartEvict(p, n)
  PROVE  View(p)'
<1> DEFINE a == [NoArg EXCEPT !.op = "evict", !.target = n]
<1>1. n \in Nat BY CacheAssumption
<1>2. a \in Arg /\ a.op = "evict" BY <1>1, NoArgType DEF Arg, Op
<1>3. Frame /\ pc'[p] = "batch" /\ arg'[p] = a
  BY <1>2, BeginFrame DEF View, StartEvict, Pc
<1> HIDE DEF a
<1> QED BY <1>2, <1>3, QuietBegin DEF StartEvict, At

\* A list of all rows is one of work for eviction and verify_all.
LEMMA RowsListed ==
  ASSUME NEW s \in SetToSeqs(Rows)
  PROVE  /\ s \in Seq(Hash) /\ s \in Seq(Item)
         /\ \A i \in 1 .. Len(s) : s[i] \in Hash /\ row[s[i]] # "none"
         /\ \A i, j \in 1 .. Len(s) : s[i] = s[j] => i = j
<1>1. IsFiniteSet(Rows) BY CacheAssumption, FS_Subset DEF Rows
<1>2. s \in Seq(Rows) /\ \A i, j \in 1 .. Len(s) : s[i] = s[j] => i = j BY <1>1, Enumerated
<1>3. \A i \in 1 .. Len(s) : s[i] \in Rows BY <1>2
<1>4. \A i \in 1 .. Len(s) : s[i] \in Hash /\ row[s[i]] # "none" BY <1>3 DEF Rows
<1>5. s \in Seq(Hash) BY <1>2, <1>4
<1>6. s \in Seq(Item) BY <1>5 DEF Item
<1> QED BY <1>2, <1>4, <1>5, <1>6

LEMMA StartScrubView ==
  ASSUME NEW p \in Proc, NEW auto \in BOOLEAN, View(p), StartScrub(p, auto)
  PROVE  View(p)'
<1>1. PICK todo \in SetToSeqs(Rows) :
        /\ At(p, "idle") /\ pc' = [pc EXCEPT ![p] = "scrub"] /\ lock' = p
        /\ arg' = [arg EXCEPT ![p] =
                     [NoArg EXCEPT !.op = "scrub", !.todo = todo, !.fix = auto]]
        /\ UNCHANGED <<store, staged, Observed, scrubErr>>
  BY DEF StartScrub
<1> DEFINE a == [NoArg EXCEPT !.op = "scrub", !.todo = todo, !.fix = auto]
<1>2. /\ todo \in Seq(Hash) /\ todo \in Seq(Item)
      /\ \A i \in 1 .. Len(todo) : row[todo[i]] # "none"
      /\ \A i, j \in 1 .. Len(todo) : todo[i] = todo[j] => i = j
  BY RowsListed
<1>3. a \in Arg /\ a.op = "scrub" /\ a.todo = todo BY <1>2, NoArgType DEF Arg, Op
<1>4. Frame /\ pc'[p] = "scrub" /\ arg'[p] = a
  BY <1>1, <1>3, BeginFrame DEF View, Pc
<1> HIDE DEF a
<1>5. AccessOrder' BY <1>1, OrderKept DEF View, store
<1>6. Listing(p)' BY <1>1, <1>2, <1>3, <1>4 DEF Listing, store
<1>7. AtHome(p)' /\ Repairing(p)' /\ RoomKept(p)'
  BY <1>3, <1>4 DEF AtHome, Repairing, RoomKept, Auditing
<1> QED BY <1>1, <1>4, <1>5, <1>6, <1>7, Quiet DEF At, store

LEMMA StartReconcileView ==
  ASSUME NEW p \in Proc, NEW deep \in BOOLEAN, View(p), StartReconcile(p, deep)
  PROVE  View(p)'
<1>1. PICK dangling \in SetToSeqs({"dangling"} \X (Rows \ Files)),
           orphans \in SetToSeqs({"orphan"} \X (Files \ Rows)),
           audits \in SetToSeqs({"audit"} \X (IF deep THEN Rows \cap Files ELSE {})) :
        /\ At(p, "idle") /\ lock = NoProc /\ lock' = p
        /\ pc' = [pc EXCEPT ![p] = "repair"]
        /\ arg' = [arg EXCEPT ![p] = [NoArg EXCEPT !.op = "reconcile",
                                      !.todo = dangling \o orphans \o audits]]
        /\ UNCHANGED <<store, staged, Observed, scrubErr>>
  BY Zenon DEF StartReconcile
<1> DEFINE A == IF deep THEN Rows \cap Files ELSE {}
<1> DEFINE K == {"dangling", "orphan", "audit"}
           some == dangling \o orphans
           todo == some \o audits
           a == [NoArg EXCEPT !.op = "reconcile", !.todo = todo]
<1>2. Rows \in SUBSET Hash /\ Files \in SUBSET Hash /\ A \in SUBSET Hash BY DEF Rows, Files
<1>3. /\ dangling \in Seq(K \X Hash)
      /\ \A i \in 1 .. Len(dangling) : dangling[i][1] = "dangling" /\ dangling[i][2] \in Rows \ Files
      /\ \A i, j \in 1 .. Len(dangling) : dangling[i][2] = dangling[j][2] => i = j
  BY <1>2, Kinds
<1>4. /\ orphans \in Seq(K \X Hash)
      /\ \A i \in 1 .. Len(orphans) : orphans[i][1] = "orphan" /\ orphans[i][2] \in Files \ Rows
      /\ \A i, j \in 1 .. Len(orphans) : orphans[i][2] = orphans[j][2] => i = j
  BY <1>2, Kinds
<1>5. /\ audits \in Seq(K \X Hash)
      /\ \A i \in 1 .. Len(audits) : audits[i][1] = "audit" /\ audits[i][2] \in A
      /\ \A i, j \in 1 .. Len(audits) : audits[i][2] = audits[j][2] => i = j
  BY <1>2, Kinds
<1>6. A \subseteq Rows \cap Files OBVIOUS
<1> HIDE DEF A, K
<1>7. /\ some \in Seq(K \X Hash)
      /\ \A i \in 1 .. Len(some) : \/ \E k \in 1 .. Len(dangling) : some[i] = dangling[k]
                                   \/ \E k \in 1 .. Len(orphans) : some[i] = orphans[k]
      /\ \A i, j \in 1 .. Len(some) : some[i][2] = some[j][2] => i = j
  <2>1. \A i \in 1 .. Len(dangling), j \in 1 .. Len(orphans) : dangling[i][2] # orphans[j][2]
    BY <1>3, <1>4
  <2> QED BY <1>3, <1>4, <2>1, Joined
<1> HIDE DEF some
<1>8. \A i \in 1 .. Len(some) :
        \/ some[i][1] = "dangling" /\ some[i][2] \in Rows \ Files
        \/ some[i][1] = "orphan" /\ some[i][2] \in Files \ Rows
  BY <1>3, <1>4, <1>7
<1>9. /\ todo \in Seq(K \X Hash)
      /\ \A i \in 1 .. Len(todo) : \/ \E k \in 1 .. Len(some) : todo[i] = some[k]
                                   \/ \E k \in 1 .. Len(audits) : todo[i] = audits[k]
      /\ \A i, j \in 1 .. Len(todo) : todo[i][2] = todo[j][2] => i = j
  <2>1. \A i \in 1 .. Len(some), j \in 1 .. Len(audits) : some[i][2] # audits[j][2]
    BY <1>5, <1>6, <1>8
  <2> QED BY <1>5, <1>7, <2>1, Joined
<1>10. todo = dangling \o orphans \o audits BY DEF some
<1> HIDE DEF todo
<1>11. \A i \in 1 .. Len(todo) :
         \/ todo[i][1] = "dangling" /\ todo[i][2] \in Rows \ Files
         \/ todo[i][1] = "orphan" /\ todo[i][2] \in Files \ Rows
         \/ todo[i][1] = "audit" /\ todo[i][2] \in Rows \cap Files
  BY <1>5, <1>6, <1>8, <1>9
<1>12. todo \in Seq(Item) BY <1>9 DEF Item, K
<1>13. a \in Arg /\ a.op = "reconcile" /\ a.todo = todo BY <1>12, NoArgType DEF Arg, Op
<1>14. Frame /\ pc'[p] = "repair" /\ arg'[p] = a
  BY <1>1, <1>10, <1>13, BeginFrame DEF View, Pc
<1> HIDE DEF a
<1>15. AccessOrder' BY <1>1, OrderKept DEF View, store
<1>16. Repairing(p)'
  <2>1. \A i \in 1 .. Len(todo) : todo[i][1] = "audit" => row[todo[i][2]] # "none"
    BY <1>11 DEF Rows
  <2>2. arg'[p].todo = todo /\ row' = row BY <1>1, <1>13, <1>14 DEF store
  <2> QED BY <1>9, <2>1, <2>2 DEF Repairing, K
<1>17. AtHome(p)' /\ Listing(p)' /\ RoomKept(p)'
  BY <1>13, <1>14 DEF AtHome, Listing, RoomKept, Evicting
<1>18. ASSUME faults = 0 PROVE \A i \in 1 .. Len(todo) : todo[i][1] = "audit"
  <2>1. Rows = Files BY <1>1, <1>18 DEF View, AccountBy, Rows, Files, At
  <2> QED BY <1>11, <2>1
<1> QED BY <1>1, <1>13, <1>14, <1>15, <1>16, <1>17, <1>18, Quiet DEF At, store

LEMMA StageView ==
  ASSUME NEW p \in Proc, View(p), Stage(p) PROVE View(p)'
<1>1. AccessOrder' BY OrderKept DEF View, Stage, store
<1>2. CASE Finish(p) BY <1>1, <1>2, QuietEnd DEF Stage, At, store
<1>3. CASE ~Finish(p)
  <2> DEFINE l == IF arg[p].op = "bytes" THEN "commit" ELSE "quota"
  <2>1. Frame /\ pc'[p] = l /\ arg'[p] = arg[p]
    BY <1>3, GotoSame DEF Stage, View, Pc, CacheTypeOK
  <2>2. AtHome(p)' BY <2>1 DEF AtHome, View, Working, Stage, At
  <2>3. RoomKept(p)'
    <3>1. \A h \in Hash : Fits(h) => Fits(h)' BY <1>3, QuotaKept DEF View, Stage,
          store, Rows
    <3>2. arg[p].h \in Hash BY DEF View, CacheTypeOK, Arg
    <3> QED BY <2>1, <3>1, <3>2 DEF RoomKept, View, Working, Stage, At
  <2>4. Listing(p)' /\ Repairing(p)' BY <2>1 DEF Listing, Repairing, Evicting, Auditing
  <2> QED BY <1>1, <1>3, <2>1, <2>2, <2>3, <2>4, Quiet DEF Stage, At, Goto, store
<1> QED BY <1>2, <1>3

\* From the quota check on there is room.
LEMMA AdmitView ==
  ASSUME NEW p \in Proc, View(p), pc[p] \in {"quota", "settle"}, arg[p].op \in PutOp,
         Fits(arg[p].h), Admit(p), UNCHANGED <<store, arg, staged>>
  PROVE  View(p)'
<1> DEFINE l == IF arg[p].op = "bytes" THEN "stage" ELSE "commit"
<1>1. AccessOrder' BY OrderKept DEF View, store
<1>2. Frame /\ pc'[p] = l /\ arg'[p] = arg[p]
  BY GotoSame DEF Admit, View, Pc, CacheTypeOK
<1>3. RoomKept(p)'
  <2>1. \A h \in Hash : Fits(h) => Fits(h)' BY QuotaKept DEF View, store, Rows
  <2>2. arg[p].h \in Hash BY DEF View, CacheTypeOK, Arg
  <2> QED BY <1>2, <2>1, <2>2 DEF RoomKept
<1>4. AtHome(p)' /\ Listing(p)' /\ Repairing(p)'
  BY <1>2 DEF AtHome, Listing, Repairing, Evicting, Auditing
<1> QED BY <1>1, <1>2, <1>3, <1>4, Quiet DEF Admit, Goto, store

LEMMA EnforceQuotaView ==
  ASSUME NEW p \in Proc, View(p), EnforceQuota(p) PROVE View(p)'
<1>1. arg[p] \in Arg /\ arg[p].h \in Hash /\ pc[p] = "quota" BY DEF View, CacheTypeOK,
      Arg, EnforceQuota, At
<1>2. arg[p].op \in PutOp BY <1>1 DEF View, Working, AtHome
<1>3. CASE Touch(arg[p].h) /\ Finish(p)
  <2>1. AccessOrder' BY <1>1, <1>3, OrderTouched DEF View, Touch
  <2> QED BY <1>1, <1>3, <2>1, QuietEnd DEF Touch
<1>4. CASE UNCHANGED store /\ Finish(p)
  <2>1. AccessOrder' BY <1>4, OrderKept DEF View, store
  <2> QED BY <1>1, <1>4, <2>1, QuietEnd DEF store
<1>5. CASE UNCHANGED store /\ Fits(arg[p].h) /\ Admit(p) /\ UNCHANGED <<arg, staged>>
  BY <1>1, <1>2, <1>5, AdmitView
<1>6. CASE /\ UNCHANGED store /\ ~Fits(arg[p].h) /\ Goto(p, "batch") /\ UNCHANGED staged
           /\ arg' = [arg EXCEPT ![p].target = TotalSize + SizeOf[arg[p].h] - Quota]
  <2> DEFINE t == TotalSize + SizeOf[arg[p].h] - Quota
             a == [arg[p] EXCEPT !.target = t]
  <2>1. TotalSize \in Nat /\ SizeOf[arg[p].h] \in Nat /\ Quota \in Nat
    BY <1>1, TotalType, CacheAssumption
  <2>2. t \in Nat BY <1>6, <2>1 DEF Fits
  <2> HIDE DEF t
  <2>3. a \in Arg /\ a.op = arg[p].op BY <1>1, <2>2 DEF Arg
  <2>4. arg' = [arg EXCEPT ![p] = a] BY <1>6 DEF t, View, CacheTypeOK
  <2> HIDE DEF a
  <2>5. Frame /\ pc'[p] = "batch" /\ arg'[p] = a
    BY <1>6, <2>3, <2>4, GotoFrame DEF View, Pc, CacheTypeOK
  <2>6. AccessOrder' BY <1>6, OrderKept DEF View, store
  <2>7. AtHome(p)' /\ Listing(p)' /\ Repairing(p)' /\ RoomKept(p)'
    BY <1>2, <2>3, <2>5 DEF AtHome, Listing, Repairing, RoomKept, Evicting, Auditing,
          EvictOp
  <2> QED BY <1>1, <1>6, <2>5, <2>6, <2>7, Quiet DEF Goto, store
<1> QED BY <1>3, <1>4, <1>5, <1>6 DEF EnforceQuota

LEMMA EvictBatchView ==
  ASSUME NEW p \in Proc, View(p), EvictBatch(p) PROVE View(p)'
<1> DEFINE enough == arg[p].freed >= arg[p].target \/ Rows = {}
           l == IF enough THEN "settle" ELSE "mark"
<1>1. PICK todo \in IF enough THEN {<<>>} ELSE Candidates :
        /\ At(p, "batch") /\ Goto(p, l) /\ UNCHANGED <<store, staged>>
        /\ arg' = [arg EXCEPT ![p].todo = todo, ![p].gained = FALSE]
  BY Zenon DEF EvictBatch
<1> DEFINE a == [arg[p] EXCEPT !.todo = todo, !.gained = FALSE]
<1>2. /\ todo \in Seq(Hash) /\ todo \in Seq(Item)
      /\ \A i \in 1 .. Len(todo) : row[todo[i]] # "none"
      /\ \A i, j \in 1 .. Len(todo) : todo[i] = todo[j] => i = j
  <2>1. CASE enough
    <3>1. todo = <<>> BY <2>1
    <3> QED BY <3>1
  <2>2. CASE ~enough
    <3>1. todo \in SetToSeqs(Rows) BY <2>2 DEF Candidates
    <3> QED BY <3>1, RowsListed
  <2> QED BY <2>1, <2>2
<1>3. l \in {"settle", "mark"} OBVIOUS
<1> HIDE DEF enough, l
<1>4. arg[p] \in Arg /\ pc[p] = "batch" BY <1>1 DEF View, CacheTypeOK, At
<1>5. a \in Arg /\ a.op = arg[p].op /\ a.todo = todo BY <1>2, <1>4 DEF Arg
<1>6. arg' = [arg EXCEPT ![p] = a] BY <1>1 DEF View, CacheTypeOK
<1> HIDE DEF a
<1>7. Frame /\ pc'[p] = l /\ arg'[p] = a
  <2>1. l \in Pc /\ staged' \subseteq Proc /\ CacheTypeOK /\ Goto(p, l)
    BY <1>1, <1>3 DEF View, Pc, CacheTypeOK
  <2> QED BY <1>5, <1>6, <2>1, GotoFrame
<1>8. AccessOrder' BY <1>1, OrderKept DEF View, store
<1>9. arg[p].op \in EvictOp BY <1>4 DEF View, Working, AtHome
<1>10. Listing(p)'
  <2>1. arg'[p].todo = todo /\ row' = row BY <1>1, <1>5, <1>7 DEF store
  <2> QED BY <1>2, <2>1 DEF Listing
<1>11. AtHome(p)' /\ Repairing(p)' /\ RoomKept(p)'
  BY <1>3, <1>5, <1>7, <1>9 DEF AtHome, Repairing, RoomKept, Auditing
<1> QED BY <1>1, <1>3, <1>4, <1>7, <1>8, <1>10, <1>11, Quiet DEF Goto, store

LEMMA EvictSettleView ==
  ASSUME NEW p \in Proc, View(p), EvictSettle(p) PROVE View(p)'
<1>1. pc[p] = "settle" /\ UNCHANGED store BY DEF EvictSettle, At
<1>2. AccessOrder' BY <1>1, OrderKept DEF View, store
<1>3. CASE Finish(p) BY <1>1, <1>2, <1>3, QuietEnd DEF store
<1>4. CASE ~Finish(p)
  <2>1. arg[p].op \in PutOp BY <1>1, <1>4 DEF EvictSettle, View, Working, AtHome, EvictOp
  <2> QED BY <1>1, <1>4, <2>1, AdmitView DEF EvictSettle
<1> QED BY <1>3, <1>4

\* The rename: a good file, whose row comes next.
LEMMA CommitView ==
  ASSUME NEW p \in Proc, View(p), Commit(p) PROVE View(p)'
<1>1. pc[p] = "commit" /\ arg[p] \in Arg /\ arg[p].h \in Hash /\ CacheTypeOK
  BY DEF Commit, At, View, CacheTypeOK, Arg
<1>2. CASE Finish(p) /\ UNCHANGED store
  <2>1. AccessOrder' BY <1>2, OrderKept DEF View, store
  <2> QED BY <1>1, <1>2, <2>1, QuietEnd DEF store
<1>3. CASE /\ staged' = staged \ {p} /\ disk' = [disk EXCEPT ![arg[p].h] = "good"]
           /\ Goto(p, "record") /\ UNCHANGED <<row, older, arg>>
  <2>1. Frame /\ pc'[p] = "record" /\ arg'[p] = arg[p]
    BY <1>1, <1>3, GotoSame DEF Pc, CacheTypeOK
  <2>2. AccessOrder' BY <1>1, <1>3, OrderKept
  <2>3. CacheTypeOK'
    <3>1. disk' \in [Hash -> FileState] BY <1>1, <1>3 DEF CacheTypeOK, FileState
    <3> QED BY <1>1, <1>3, <2>1, <2>2, <3>1, TypeBack DEF CacheTypeOK, Goto
  <2>4. QuotaRespected' /\ \A h \in Hash : Fits(h) => Fits(h)'
    BY <1>3, QuotaKept DEF View, Rows
  <2>5. Working(p)'
    <3>1. RoomKept(p)' BY <1>1, <2>1, <2>4 DEF RoomKept, View, Working
    <3>2. arg[p].op \in PutOp BY <1>1 DEF View, Working, AtHome
    <3> QED BY <2>1, <3>1, <3>2 DEF Working, AtHome, Listing, Repairing, Marked,
          Evicting, Auditing
  <2>6. Current(p)' = arg[p].h BY <2>1 DEF Current, Evicting, Auditing
  <2>7. SettledBy(p)' BY <1>1, <1>3, <2>1 DEF View, SettledBy, Frame, Observed
  <2>8. VerdictBy(p)' BY <1>1, <1>3, <2>1, <2>6 DEF View, VerdictBy, Frame, Observed,
        CacheTypeOK
  <2>9. AccountBy(p)'
    BY <1>1, <1>3, <2>1, <2>6 DEF View, AccountBy, Frame, Observed, CacheTypeOK, Auditing
  <2>10. ScrubSound' BY <1>3, <2>1 DEF View, ScrubSound, Frame, Observed, Goto
  <2> QED BY <2>3, <2>4, <2>5, <2>7, <2>8, <2>9, <2>10 DEF View
<1> QED BY <1>2, <1>3 DEF Commit

\* The row: what was fitted in is counted now.
LEMMA RecordView ==
  ASSUME NEW p \in Proc, View(p), Record(p) PROVE View(p)'
<1> DEFINE h == arg[p].h
<1>1. /\ pc[p] = "record" /\ h \in Hash /\ CacheTypeOK /\ Current(p) = h
      /\ row' = [row EXCEPT ![h] = "valid"] /\ older' = Youngest(h)
      /\ Leave(p) /\ UNCHANGED <<disk, scrubErr>>
  BY DEF Record, Finish, At, View, CacheTypeOK, Arg, Current, Evicting, Auditing
<1> HIDE DEF h
<1>2. Frame /\ pc'[p] = "idle" /\ Working(p)' BY <1>1, LeaveFrame
<1>3. \A g \in Hash : row'[g] = IF g = h THEN "valid" ELSE row[g] BY <1>1 DEF CacheTypeOK
<1>4. CacheTypeOK'
  <2>1. AccessOrder' BY <1>1, <1>3, OrderYoungest
  <2>2. row' \in [Hash -> RowState] BY <1>1 DEF CacheTypeOK, RowState
  <2> QED BY <1>1, <1>2, <2>1, <2>2, TypeBack DEF CacheTypeOK
<1>5. QuotaRespected'
  <2>1. Fits(h) BY <1>1 DEF View, Working, RoomKept, h
  <2>2. Rows \in SUBSET Hash /\ Rows' \in SUBSET (Rows \cup {h}) BY <1>1, <1>3 DEF Rows
  <2>3. TotalSize' <= TotalSize + SizeOf[h]
    <3>1. PICK T : T = Rows' OBVIOUS
    <3>2. Cardinality(Bytes(T)) <= Cardinality(Bytes(Rows)) + SizeOf[h]
      BY <1>1, <2>2, <3>1, BytesAdd
    <3>3. TotalSize' = Cardinality(Bytes(T)) BY <3>1 DEF TotalSize, Bytes
    <3> QED BY <3>2, <3>3 DEF TotalSize
  <2>4. TotalSize' \in Nat
    <3>1. PICK T : T = Rows' OBVIOUS
    <3>2. T \in SUBSET Hash BY <1>1, <2>2, <3>1
    <3> QED BY <3>1, <3>2, BytesFinite DEF TotalSize, Bytes
  <2>5. TotalSize \in Nat /\ SizeOf[h] \in Nat /\ Quota \in Nat
    BY <1>1, TotalType, CacheAssumption
  <2> QED BY <2>1, <2>3, <2>4, <2>5 DEF Fits, QuotaRespected
<1>6. SettledBy(p)' BY <1>1, <1>2, <1>3 DEF View, SettledBy, Frame, Observed
<1>7. VerdictBy(p)' BY <1>1, <1>2, <1>3 DEF View, VerdictBy, Frame, Observed
<1>8. AccountBy(p)' BY <1>1, <1>2, <1>3 DEF View, AccountBy, Frame, Observed, Auditing
<1>9. ScrubSound' BY <1>1, <1>2 DEF View, ScrubSound, Frame, Observed
<1> QED BY <1>2, <1>4, <1>5, <1>6, <1>7, <1>8, <1>9 DEF View

\* A row gets another state.
LEMMA RowSet ==
  ASSUME CacheTypeOK, QuotaRespected, NEW h \in Hash, NEW s \in RowState \ {"none"},
         row[h] # "none", row' = [row EXCEPT ![h] = s]
  PROVE  /\ row' \in [Hash -> RowState]
         /\ \A g \in Hash : row'[g] = IF g = h THEN s ELSE row[g]
         /\ \A g \in Hash : row'[g] # "none" <=> row[g] # "none"
         /\ older' = older => AccessOrder'
         /\ QuotaRespected'
<1>1. row' \in [Hash -> RowState] /\ \A g \in Hash : row'[g] = IF g = h THEN s ELSE row[g]
  BY DEF CacheTypeOK
<1>2. \A g \in Hash : row'[g] # "none" <=> row[g] # "none" BY <1>1
<1>3. older' = older => AccessOrder' BY <1>2, OrderKept
<1>4. QuotaRespected' BY <1>2, QuotaKept DEF Rows
<1> QED BY <1>1, <1>2, <1>3, <1>4

\* A row is deleted.
LEMMA RowDropped ==
  ASSUME CacheTypeOK, QuotaRespected, NEW h \in Hash, DropRow(h)
  PROVE  /\ row' \in [Hash -> RowState]
         /\ \A g \in Hash : row'[g] = IF g = h THEN "none" ELSE row[g]
         /\ AccessOrder' /\ QuotaRespected'
<1>1. row' \in [Hash -> RowState] /\ \A g \in Hash : row'[g] = IF g = h THEN "none" ELSE row[g]
  BY DEF CacheTypeOK, DropRow, RowState
<1>2. AccessOrder' BY OrderForgets DEF DropRow
<1>3. QuotaRespected' BY <1>1, QuotaKept DEF Rows
<1> QED BY <1>1, <1>2, <1>3

\* A file is deleted.
LEMMA FileGone ==
  ASSUME CacheTypeOK, NEW h \in Hash, disk' = Unlinked(h)
  PROVE  /\ disk' \in [Hash -> FileState]
         /\ \A g \in Hash : disk'[g] = IF g = h THEN "missing" ELSE disk[g]
BY DEF CacheTypeOK, Unlinked, FileState

\* What eviction and verify_all have left after the first object.
LEMMA ListingRest ==
  ASSUME NEW p \in Proc, Listing(p), pc[p] \in {"mark", "scrub"} \/ Evicting(p), arg[p].todo # <<>>
  PROVE  LET todo == arg[p].todo  rest == Tail(arg[p].todo) IN
         /\ Head(todo) \in Hash /\ row[Head(todo)] # "none"
         /\ rest \in Seq(Hash) /\ rest \in Seq(Item)
         /\ \A i \in 1 .. Len(rest) : rest[i] # Head(todo) /\ rest[i] \in Hash /\ row[rest[i]] # "none"
         /\ \A i, j \in 1 .. Len(rest) : rest[i] = rest[j] => i = j
<1> DEFINE todo == arg[p].todo
           rest == Tail(arg[p].todo)
<1>1. /\ todo \in Seq(Hash) /\ todo # <<>>
      /\ \A i \in 1 .. Len(todo) : row[todo[i]] # "none"
      /\ \A i, j \in 1 .. Len(todo) : todo[i] = todo[j] => i = j
  BY DEF Listing
<1>2. /\ Head(todo) \in Hash /\ Head(todo) = todo[1] /\ Len(todo) \in Nat /\ Len(todo) >= 1
      /\ rest \in Seq(Hash) /\ Len(rest) = Len(todo) - 1
      /\ \A i \in 1 .. Len(rest) : i + 1 \in 1 .. Len(todo) /\ rest[i] = todo[i + 1]
  BY <1>1, Rest
<1> HIDE DEF todo, rest
<1>3. 1 \in 1 .. Len(todo) BY <1>2
<1>4. rest \in Seq(Item) BY <1>2 DEF Item
<1>5. \A i \in 1 .. Len(rest) : rest[i] # Head(todo) /\ rest[i] \in Hash /\ row[rest[i]] # "none"
  <2> SUFFICES ASSUME NEW i \in 1 .. Len(rest)
               PROVE  rest[i] # Head(todo) /\ rest[i] \in Hash /\ row[rest[i]] # "none"
    OBVIOUS
  <2>1. i + 1 \in 1 .. Len(todo) /\ rest[i] = todo[i + 1] /\ i + 1 # 1 BY <1>2
  <2>2. todo[i + 1] # todo[1] BY <1>1, <1>3, <2>1
  <2> QED BY <1>1, <1>2, <2>1, <2>2
<1>6. \A i, j \in 1 .. Len(rest) : rest[i] = rest[j] => i = j
  <2> SUFFICES ASSUME NEW i \in 1 .. Len(rest), NEW j \in 1 .. Len(rest), rest[i] = rest[j]
               PROVE  i = j
    OBVIOUS
  <2>1. i + 1 = j + 1 BY <1>1, <1>2
  <2> QED BY <1>2, <2>1
<1>7. row[Head(todo)] # "none" BY <1>1, <1>2, <1>3
<1> QED BY <1>2, <1>4, <1>5, <1>6, <1>7 DEF todo, rest

\* The batch is over, or a candidate is skipped or marked.
LEMMA EvictMarkView ==
  ASSUME NEW p \in Proc, View(p), EvictMark(p) PROVE View(p)'
<1>1. pc[p] = "mark" /\ arg[p] \in Arg /\ CacheTypeOK /\ UNCHANGED <<disk, staged>>
  BY DEF EvictMark, At, View, CacheTypeOK
<1>2. arg[p].op \in EvictOp BY <1>1 DEF View, Working, AtHome
<1>3. UNCHANGED <<row, older>> => AccessOrder' BY <1>1, OrderKept
<1>4. CASE UNCHANGED <<row, older, arg>> /\ Goto(p, IF GiveUp(p) THEN "settle" ELSE "batch")
  <2>1. PICK l \in {"settle", "batch"} : Goto(p, l) BY <1>4
  <2>2. Frame /\ pc'[p] = l /\ arg'[p] = arg[p] BY <1>1, <1>4, <2>1, GotoSame DEF Pc,
        CacheTypeOK
  <2>3. AtHome(p)' /\ Listing(p)' /\ Repairing(p)' /\ RoomKept(p)'
    BY <1>2, <2>2 DEF AtHome, Listing, Repairing, RoomKept, Evicting, Auditing
  <2> QED BY <1>1, <1>3, <1>4, <2>1, <2>2, <2>3, Quiet DEF Goto
<1>5. CASE /\ ~BatchOver(p) /\ arg' = [arg EXCEPT ![p].todo = Tail(@)] /\ Goto(p, "mark")
           /\ UNCHANGED <<row, older>>
  <2> DEFINE rest == Tail(arg[p].todo)
             a == [arg[p] EXCEPT !.todo = rest]
  <2>1. /\ rest \in Seq(Hash) /\ rest \in Seq(Item)
        /\ \A i \in 1 .. Len(rest) : row[rest[i]] # "none"
        /\ \A i, j \in 1 .. Len(rest) : rest[i] = rest[j] => i = j
    BY <1>1, <1>5, ListingRest DEF BatchOver, View, Working
  <2> HIDE DEF rest
  <2>2. a \in Arg /\ a.op = arg[p].op /\ a.todo = rest BY <1>1, <2>1 DEF Arg
  <2>3. arg' = [arg EXCEPT ![p] = a] BY <1>1, <1>5 DEF CacheTypeOK, rest
  <2> HIDE DEF a
  <2>4. Frame /\ pc'[p] = "mark" /\ arg'[p] = a
    BY <1>1, <1>5, <2>2, <2>3, GotoFrame DEF Pc, CacheTypeOK
  <2>5. Listing(p)'
    <3>1. arg'[p].todo = rest /\ row' = row BY <1>5, <2>2, <2>4
    <3> QED BY <2>1, <3>1 DEF Listing
  <2>6. AtHome(p)' /\ Repairing(p)' /\ RoomKept(p)'
    BY <1>2, <2>2, <2>4 DEF AtHome, Repairing, RoomKept, Auditing
  <2> QED BY <1>1, <1>3, <1>5, <2>4, <2>5, <2>6, Quiet DEF Goto
<1>6. CASE LET h == Head(arg[p].todo) IN
           /\ ~BatchOver(p) /\ MayBecome(h, "evicting") /\ SetRow(h, "evicting")
           /\ arg' = [arg EXCEPT ![p].kept = row[h]] /\ Goto(p, "unlink")
  <2> DEFINE h == Head(arg[p].todo)
             a == [arg[p] EXCEPT !.kept = row[h]]
  <2>1. h \in Hash /\ row[h] # "none" /\ arg[p].todo # <<>>
    BY <1>1, <1>6, ListingRest DEF BatchOver, View, Working
  <2>2. row[h] \in {"valid", "evicting"} BY <1>1, <1>6, <2>1, Transitions
  <2>3. a \in Arg /\ a.op = arg[p].op /\ a.todo = arg[p].todo /\ a.kept = row[h]
    BY <1>1, <2>2 DEF Arg, RowState
  <2>4. arg' = [arg EXCEPT ![p] = a] BY <1>1, <1>6 DEF CacheTypeOK
  <2> HIDE DEF a
  <2>5. Frame /\ pc'[p] = "unlink" /\ arg'[p] = a
    BY <1>1, <1>6, <2>3, <2>4, GotoFrame DEF Pc, CacheTypeOK
  <2>6. /\ row' \in [Hash -> RowState] /\ AccessOrder' /\ QuotaRespected'
        /\ \A g \in Hash : row'[g] = IF g = h THEN "evicting" ELSE row[g]
        /\ \A g \in Hash : row'[g] # "none" <=> row[g] # "none"
    BY <1>1, <1>6, <2>1, RowSet DEF SetRow, RowState, View
  <2>7. CacheTypeOK' BY <1>1, <1>6, <2>5, <2>6, TypeBack DEF CacheTypeOK, Goto
  <2>8. Evicting(p)' /\ Current(p)' = h /\ ~Auditing(p)'
    BY <1>2, <2>3, <2>5 DEF Evicting, Current, Auditing, EvictOp, PutOp
  <2>9. Working(p)'
    <3>1. Listing(p)'
      <4>1. Listing(p) /\ arg'[p].todo = arg[p].todo BY <2>3, <2>5 DEF View, Working
      <4>2. arg[p].todo \in Seq(Hash) /\ \A i \in 1 .. Len(arg[p].todo) : row[arg[p].todo[i]] # "none"
        BY <1>1, <4>1 DEF Listing
      <4>3. \A i \in 1 .. Len(arg[p].todo) : row'[arg[p].todo[i]] # "none" BY <2>6, <4>2
      <4> QED BY <1>1, <4>1, <4>2, <4>3 DEF Listing
    <3>2. Marked(p)' BY <2>1, <2>2, <2>3, <2>5, <2>6, <2>8 DEF Marked
    <3> QED BY <1>2, <2>3, <2>5, <2>8, <3>1, <3>2 DEF Working, AtHome, Repairing, RoomKept
  <2>10. SettledBy(p)' BY <1>1, <2>1, <2>2, <2>3, <2>5, <2>6, <2>8 DEF View, SettledBy,
        Frame, Observed
  <2>11. VerdictBy(p)' BY <1>1, <2>5, <2>6 DEF View, VerdictBy, Frame, Observed
  <2>12. AccountBy(p)' BY <1>1, <2>5, <2>6, <2>8 DEF View, AccountBy, Frame, Observed
  <2>13. ScrubSound' BY <1>6, <2>5 DEF View, ScrubSound, Frame, Observed, Goto
  <2> QED BY <2>6, <2>7, <2>9, <2>10, <2>11, <2>12, <2>13 DEF View
<1> QED BY <1>4, <1>5, <1>6 DEF EvictMark

\* Refused: the row is what it was.  Done: only the row is left.
LEMMA EvictUnlinkView ==
  ASSUME NEW p \in Proc, View(p), EvictUnlink(p) PROVE View(p)'
<1> DEFINE h == Head(arg[p].todo)
           rest == Tail(arg[p].todo)
<1>1. /\ pc[p] = "unlink" /\ arg[p] \in Arg /\ CacheTypeOK /\ staged' = staged
      /\ arg[p].op \in EvictOp
  BY DEF EvictUnlink, At, View, CacheTypeOK, Working, AtHome
<1>2. Evicting(p) /\ Current(p) = h /\ ~Auditing(p)
  BY <1>1 DEF Evicting, Current, Auditing, EvictOp, PutOp
<1>3. arg[p].todo # <<>> /\ row[h] = "evicting" /\ arg[p].kept \in {"valid", "evicting"}
  BY <1>1, <1>2 DEF View, Working, Marked
<1>4. /\ h \in Hash /\ rest \in Seq(Hash) /\ rest \in Seq(Item)
      /\ \A i \in 1 .. Len(rest) : rest[i] # h /\ rest[i] \in Hash /\ row[rest[i]] # "none"
      /\ \A i, j \in 1 .. Len(rest) : rest[i] = rest[j] => i = j
  BY <1>2, <1>3, ListingRest DEF View, Working
<1>5. CASE /\ h \in busy /\ row' = [row EXCEPT ![h] = Restored(p)]
           /\ older' = Touched(h) /\ disk' = disk /\ Goto(p, "mark")
           /\ arg' = [arg EXCEPT ![p].todo = Tail(@), ![p].kept = "none"]
  <2> DEFINE a == [arg[p] EXCEPT !.todo = rest, !.kept = "none"]
  <2>1. a \in Arg /\ a.op = arg[p].op /\ a.todo = rest BY <1>1, <1>4 DEF Arg, RowState
  <2>2. arg' = [arg EXCEPT ![p] = a] BY <1>1, <1>5 DEF CacheTypeOK
  <2> HIDE DEF a, h, rest
  <2>3. Frame /\ pc'[p] = "mark" /\ arg'[p] = a
    BY <1>1, <1>5, <2>1, <2>2, GotoFrame DEF Pc, CacheTypeOK
  <2>4. /\ row' \in [Hash -> RowState] /\ QuotaRespected'
        /\ \A g \in Hash : row'[g] = IF g = h THEN arg[p].kept ELSE row[g]
        /\ \A g \in Hash : row'[g] # "none" <=> row[g] # "none"
    BY <1>1, <1>3, <1>4, <1>5, RowSet DEF Restored, RowState, View
  <2>5. AccessOrder'
    <3>1. older' = Youngest(h) BY <1>3, <1>5 DEF Touched
    <3> QED BY <1>1, <1>3, <1>4, <2>4, <3>1, OrderYoungest
  <2>6. CacheTypeOK' BY <1>1, <1>5, <2>3, <2>4, <2>5, TypeBack DEF CacheTypeOK, Goto
  <2>7. Working(p)'
    <3>1. Listing(p)' BY <1>4, <2>1, <2>3, <2>4 DEF Listing
    <3> QED BY <1>1, <2>1, <2>3, <3>1 DEF Working, AtHome, Repairing, Marked, RoomKept,
          Evicting, Auditing
  <2>8. SettledBy(p)'
    <3>1. crashes = 0 => arg[p].kept = "valid" BY <1>1 DEF View, SettledBy
    <3> QED BY <1>1, <1>2, <2>3, <2>4, <3>1 DEF View, SettledBy, Frame, Observed
  <2>9. VerdictBy(p)' BY <1>1, <1>3, <1>5, <2>3, <2>4 DEF View, VerdictBy, Frame, Observed
  <2>10. AccountBy(p)' BY <1>1, <1>5, <2>3, <2>4 DEF View, AccountBy, Frame, Observed,
        Auditing
  <2>11. ScrubSound' BY <1>5, <2>3 DEF View, ScrubSound, Frame, Observed, Goto
  <2> QED BY <2>4, <2>6, <2>7, <2>8, <2>9, <2>10, <2>11 DEF View
<1>6. CASE disk' = Unlinked(h) /\ UNCHANGED <<row, older, arg>> /\ Goto(p, "drop")
  <2> HIDE DEF h, rest
  <2>1. Frame /\ pc'[p] = "drop" /\ arg'[p] = arg[p]
    BY <1>1, <1>6, GotoSame DEF Pc, CacheTypeOK
  <2>2. /\ disk' \in [Hash -> FileState]
        /\ \A g \in Hash : disk'[g] = IF g = h THEN "missing" ELSE disk[g]
    BY <1>1, <1>4, <1>6, FileGone
  <2>3. AccessOrder' /\ QuotaRespected' BY <1>1, <1>6, OrderKept, QuotaKept DEF View, Rows
  <2>4. CacheTypeOK' BY <1>1, <1>6, <2>1, <2>2, <2>3, TypeBack DEF CacheTypeOK, Goto
  <2>5. Evicting(p)' /\ Current(p)' = h /\ ~Auditing(p)'
    BY <1>1, <1>2, <2>1 DEF Evicting, Current, Auditing
  <2>6. Working(p)'
    <3>1. Listing(p)' BY <1>2, <1>6, <2>1 DEF View, Working, Listing
    <3> QED BY <1>1, <1>3, <1>6, <2>1, <2>5, <3>1 DEF Working, AtHome, Repairing,
          Marked, RoomKept
  <2>7. SettledBy(p)' BY <1>1, <1>2, <1>6, <2>1, <2>5 DEF View, SettledBy, Frame, Observed
  <2>8. VerdictBy(p)' BY <1>1, <1>3, <1>6, <2>1, <2>2 DEF View, VerdictBy, Frame, Observed
  <2>9. AccountBy(p)' BY <1>1, <1>6, <2>1, <2>2, <2>5 DEF View, AccountBy, Frame, Observed
  <2>10. ScrubSound' BY <1>6, <2>1 DEF View, ScrubSound, Frame, Observed, Goto
  <2> QED BY <2>3, <2>4, <2>6, <2>7, <2>8, <2>9, <2>10 DEF View
<1> QED BY <1>5, <1>6 DEF EvictUnlink

\* An operation ends with the row of h, settled before, deleted.
LEMMA DropEnd ==
  ASSUME NEW p \in Proc, View(p), NEW h \in Hash, DropRow(h), Finish(p),
         disk' \in [Hash -> FileState], \A g \in Hash \ {h} : disk'[g] = disk[g],
         pc[p] # "record", pc[p] \in {"unlink", "drop", "judge"} => Current(p) = h,
         faults = 0 => disk'[h] = "missing"
  PROVE  View(p)'
<1>1. Frame /\ pc'[p] = "idle" /\ Working(p)' BY LeaveFrame DEF View, Finish
<1>2. /\ row' \in [Hash -> RowState] /\ AccessOrder' /\ QuotaRespected'
      /\ \A g \in Hash : row'[g] = IF g = h THEN "none" ELSE row[g]
  BY RowDropped DEF View
<1>3. CacheTypeOK' BY <1>1, <1>2, TypeBack DEF View, CacheTypeOK, Finish
<1>4. SettledBy(p)' BY <1>1, <1>2 DEF View, SettledBy, Frame, Observed
<1>5. VerdictBy(p)' BY <1>1, <1>2 DEF View, VerdictBy, Frame, Observed
<1>6. AccountBy(p)' BY <1>1, <1>2 DEF View, AccountBy, Frame, Observed, Auditing
<1>7. ScrubSound' BY <1>1 DEF View, ScrubSound, Frame, Observed, Finish
<1> QED BY <1>1, <1>2, <1>3, <1>4, <1>5, <1>6, <1>7 DEF View

\* The row goes last.
LEMMA DropView ==
  ASSUME NEW p \in Proc, View(p), Drop(p) PROVE View(p)'
<1>1. /\ pc[p] = "drop" /\ arg[p] \in Arg /\ arg[p].h \in Hash /\ CacheTypeOK /\ disk' = disk
      /\ arg[p].op \in EvictOp \cup {"remove"}
  BY DEF Drop, At, View, CacheTypeOK, Working, AtHome, Arg
<1>2. CASE arg[p].op = "remove" /\ DropRow(arg[p].h) /\ Finish(p)
  <2>1. Current(p) = arg[p].h BY <1>1, <1>2 DEF Current, Evicting, Auditing
  <2>2. faults = 0 => disk'[arg[p].h] = "missing" BY <1>1, <2>1 DEF View, AccountBy
  <2> QED BY <1>1, <1>2, <2>1, <2>2, DropEnd DEF CacheTypeOK
<1>3. CASE LET h == Head(arg[p].todo) IN
           /\ arg[p].op # "remove" /\ DropRow(h) /\ Goto(p, "mark") /\ UNCHANGED staged
           /\ arg' = [arg EXCEPT ![p].todo = Tail(@), ![p].kept = "none",
                                 ![p].gained = TRUE, ![p].freed = @ + SizeOf[h]]
  <2> DEFINE h == Head(arg[p].todo)
             rest == Tail(arg[p].todo)
             n == arg[p].freed + SizeOf[h]
             a == [arg[p] EXCEPT !.todo = rest, !.kept = "none", !.gained = TRUE, !.freed = n]
  <2>1. Evicting(p) /\ Current(p) = h /\ ~Auditing(p)
    BY <1>1, <1>3 DEF Evicting, Current, Auditing
  <2>2. arg[p].todo # <<>> BY <2>1 DEF View, Working, Marked
  <2>3. /\ h \in Hash /\ rest \in Seq(Hash) /\ rest \in Seq(Item)
        /\ \A i \in 1 .. Len(rest) : rest[i] # h /\ rest[i] \in Hash /\ row[rest[i]] # "none"
        /\ \A i, j \in 1 .. Len(rest) : rest[i] = rest[j] => i = j
    BY <2>1, <2>2, ListingRest DEF View, Working
  <2>4. arg' = [arg EXCEPT ![p] = a] BY <1>1, <1>3 DEF CacheTypeOK
  <2>5. DropRow(h) /\ Goto(p, "mark") BY <1>3
  <2> HIDE DEF h, rest
  <2>6. n \in Nat BY <1>1, <2>3, CacheAssumption DEF Arg
  <2> HIDE DEF n
  <2>7. a \in Arg /\ a.op = arg[p].op /\ a.todo = rest BY <1>1, <2>3, <2>6 DEF Arg, RowState
  <2> HIDE DEF a
  <2>8. Frame /\ pc'[p] = "mark" /\ arg'[p] = a
    BY <1>1, <1>3, <2>4, <2>5, <2>7, GotoFrame DEF Pc, CacheTypeOK
  <2>9. /\ row' \in [Hash -> RowState] /\ AccessOrder' /\ QuotaRespected'
        /\ \A g \in Hash : row'[g] = IF g = h THEN "none" ELSE row[g]
    BY <2>3, <2>5, RowDropped DEF View
  <2>10. CacheTypeOK' BY <1>1, <2>5, <2>8, <2>9, TypeBack DEF CacheTypeOK, Goto
  <2>11. Working(p)'
    <3>1. Listing(p)' BY <2>3, <2>7, <2>8, <2>9 DEF Listing
    <3>2. arg[p].op \in EvictOp BY <1>1, <1>3
    <3> QED BY <2>7, <2>8, <3>1, <3>2 DEF Working, AtHome, Repairing, Marked, RoomKept,
          Evicting, Auditing
  <2>12. SettledBy(p)' BY <1>1, <2>1, <2>8, <2>9 DEF View, SettledBy, Frame, Observed
  <2>13. VerdictBy(p)' BY <1>1, <2>8, <2>9 DEF View, VerdictBy, Frame, Observed
  <2>14. AccountBy(p)' BY <1>1, <2>1, <2>3, <2>8, <2>9 DEF View, AccountBy, Frame,
        Observed, Auditing
  <2>15. ScrubSound' BY <2>5, <2>8 DEF View, ScrubSound, Frame, Observed, Goto
  <2> QED BY <2>9, <2>10, <2>11, <2>12, <2>13, <2>14, <2>15 DEF View
<1> QED BY <1>2, <1>3 DEF Drop

LEMMA StartRemoveView ==
  ASSUME NEW p \in Proc, NEW h \in Hash, View(p), StartRemove(p, h) PROVE View(p)'
<1> DEFINE a == [NoArg EXCEPT !.op = "remove", !.h = h]
<1>1. /\ pc[p] = "idle" /\ CacheTypeOK /\ disk' = Unlinked(h) /\ UNCHANGED <<row, older, scrubErr>>
  BY DEF StartRemove, Begin, At, View
<1>2. a \in Arg /\ a.op = "remove" /\ a.h = h BY NoArgType DEF Arg, Op
<1>3. Frame /\ pc'[p] = "drop" /\ arg'[p] = a
  BY <1>1, <1>2, BeginFrame DEF StartRemove, Begin, Pc
<1> HIDE DEF a
<1>4. /\ disk' \in [Hash -> FileState]
      /\ \A g \in Hash : disk'[g] = IF g = h THEN "missing" ELSE disk[g]
  BY <1>1, FileGone
<1>5. AccessOrder' /\ QuotaRespected' BY <1>1, OrderKept, QuotaKept DEF View, Rows
<1>6. CacheTypeOK' BY <1>1, <1>3, <1>4, <1>5, TypeBack DEF CacheTypeOK
<1>7. ~Evicting(p)' /\ ~Auditing(p)' /\ Current(p)' = h
  BY <1>2, <1>3 DEF Evicting, Auditing, Current
<1>8. Working(p)' BY <1>2, <1>3, <1>7 DEF Working, AtHome, Listing, Repairing, Marked,
      RoomKept
<1>9. SettledBy(p)' BY <1>1, <1>3 DEF View, SettledBy, Frame, Observed
<1>10. VerdictBy(p)' BY <1>1, <1>3, <1>4 DEF View, VerdictBy, Frame, Observed
<1>11. AccountBy(p)' BY <1>1, <1>3, <1>4, <1>7 DEF View, AccountBy, Frame, Observed
<1>12. ScrubSound' BY <1>1, <1>3 DEF View, ScrubSound, Frame, Observed
<1> QED BY <1>5, <1>6, <1>8, <1>9, <1>10, <1>11, <1>12 DEF View

\* A row becomes "verifying", and its object is in hand.
LEMMA Verifying ==
  ASSUME NEW p \in Proc, View(p), NEW h \in Hash, row[h] # "none", SetRow(h, "verifying"), Frame,
         UNCHANGED <<disk, scrubErr>>, pc[p] \in {"idle", "repair"}, pc'[p] = "judge",
         Current(p)' = h, arg'[p].op \in {"verify", "reconcile"},
         Auditing(p)' => pc[p] = "repair" /\ arg'[p] = arg[p] /\ arg[p].todo # <<>>
  PROVE  View(p)'
<1>1. /\ row' \in [Hash -> RowState] /\ AccessOrder' /\ QuotaRespected'
      /\ \A g \in Hash : row'[g] = IF g = h THEN "verifying" ELSE row[g]
      /\ \A g \in Hash : row'[g] # "none" <=> row[g] # "none"
  BY RowSet DEF SetRow, RowState, View
<1>2. CacheTypeOK' BY <1>1, TypeBack DEF View, CacheTypeOK
<1>3. ~Evicting(p)' BY DEF Evicting
<1>4. Working(p)'
  <2>1. Repairing(p)'
    <3> SUFFICES ASSUME Auditing(p)' PROVE Repairing(p)' BY DEF Repairing
    <3>1. /\ arg'[p].todo = arg[p].todo
          /\ arg[p].todo \in Seq({"dangling", "orphan", "audit"} \X Hash)
          /\ \A i \in 1 .. Len(arg[p].todo) : arg[p].todo[i][1] = "audit" => row[arg[p].todo[i][2]] # "none"
          /\ \A i, j \in 1 .. Len(arg[p].todo) : arg[p].todo[i][2] = arg[p].todo[j][2] => i = j
      BY DEF View, Working, Repairing
    <3>2. \A i \in 1 .. Len(arg[p].todo) : arg[p].todo[i][2] \in Hash BY <3>1
    <3> QED BY <1>1, <3>1, <3>2 DEF Repairing
  <2>2. Marked(p)' BY <1>1, <1>3 DEF Marked
  <2> QED BY <1>3, <2>1, <2>2 DEF Working, AtHome, Listing, RoomKept
<1>5. SettledBy(p)' BY <1>1 DEF View, SettledBy, Frame, Observed
<1>6. VerdictBy(p)' BY <1>1 DEF View, VerdictBy, Frame, Observed
<1>7. AccountBy(p)' BY <1>1 DEF View, AccountBy, Frame, Observed, Auditing
<1>8. ScrubSound' BY DEF View, ScrubSound, Frame, Observed
<1> QED BY <1>1, <1>2, <1>4, <1>5, <1>6, <1>7, <1>8 DEF View

LEMMA StartVerifyView ==
  ASSUME NEW p \in Proc, NEW h \in Hash, NEW auto \in BOOLEAN, View(p), StartVerify(p, h, auto)
  PROVE  View(p)'
<1> DEFINE a == [NoArg EXCEPT !.op = "verify", !.h = h, !.fix = auto]
<1>1. a \in Arg /\ a.op = "verify" /\ a.h = h BY NoArgType DEF Arg, Op
<1>2. Frame /\ pc'[p] = "judge" /\ arg'[p] = a
  BY <1>1, BeginFrame DEF StartVerify, View, Pc
<1> HIDE DEF a
<1>3. Current(p)' = h /\ ~Auditing(p)' BY <1>1, <1>2 DEF Current, Evicting, Auditing
<1> QED BY <1>1, <1>2, <1>3, Verifying DEF StartVerify, At

\* What a check finds is the truth about the file.
LEMMA Found ==
  ASSUME CacheTypeOK, NEW h \in Hash, NEW deep \in BOOLEAN
  PROVE  /\ Check(h, deep) \in {"absent", "corrupted", "valid"}
         /\ Check(h, deep) = "absent" <=> disk[h] = "missing"
         /\ Check(h, deep) = "corrupted" => disk[h] \in {"resized", "altered"}
         /\ deep /\ Check(h, deep) = "valid" => disk[h] = "good"
<1>1. disk[h] \in FileState BY DEF CacheTypeOK
<1> QED BY <1>1 DEF Check, FileState

\* The verdict is written and the operation ends.
LEMMA JudgeView ==
  ASSUME NEW p \in Proc, NEW deep \in BOOLEAN, View(p), Judge(p, deep) PROVE View(p)'
<1> DEFINE h == arg[p].h
           found == Check(h, deep)
<1>1. /\ pc[p] = "judge" /\ arg[p].op = "verify" /\ h \in Hash /\ CacheTypeOK /\ Finish(p)
  BY DEF Judge, At, View, CacheTypeOK, Arg
<1>2. Current(p) = h /\ ~Auditing(p) BY <1>1 DEF Current, Evicting, Auditing
<1>3. row[h] = "verifying" BY <1>1, <1>2 DEF View, Working, Marked
<1>4. CASE Purge(h) /\ found # "valid"
  <2>1. /\ disk' \in [Hash -> FileState] /\ \A g \in Hash \ {h} : disk'[g] = disk[g]
        /\ disk'[h] \in {disk[h], "missing"}
    BY <1>1, <1>4, FileGone DEF Purge, CacheTypeOK
  <2>2. disk[h] \in {"missing", "resized", "altered"} BY <1>1, <1>4, Found
  <2>3. faults = 0 => disk[h] \in {"missing", "good"} BY <1>1 DEF View, AccountBy
  <2> QED BY <1>1, <1>2, <1>4, <2>1, <2>2, <2>3, DropEnd DEF Purge
<1>5. CASE SetRow(h, found) /\ UNCHANGED disk
  <2>1. /\ found \in RowState \ {"none", "evicting", "verifying", "transferring"}
        /\ found = "absent" => disk[h] = "missing"
        /\ found = "corrupted" => disk[h] # "good"
    BY <1>1, Found DEF RowState
  <2> HIDE DEF found, h
  <2>2. Frame /\ pc'[p] = "idle" /\ Working(p)' BY <1>1, LeaveFrame DEF Finish
  <2>3. /\ row' \in [Hash -> RowState] /\ AccessOrder' /\ QuotaRespected'
        /\ \A g \in Hash : row'[g] = IF g = h THEN found ELSE row[g]
        /\ \A g \in Hash : row'[g] # "none" <=> row[g] # "none"
    BY <1>1, <1>3, <1>5, <2>1, RowSet DEF SetRow, View
  <2>4. CacheTypeOK' BY <1>1, <1>5, <2>2, <2>3, TypeBack DEF CacheTypeOK, Finish
  <2>5. SettledBy(p)' BY <1>1, <1>2, <2>1, <2>2, <2>3 DEF View, SettledBy, Frame, Observed
  <2>6. VerdictBy(p)' BY <1>1, <1>5, <2>1, <2>2, <2>3 DEF View, VerdictBy, Frame, Observed
  <2>7. AccountBy(p)' BY <1>1, <1>5, <2>2, <2>3 DEF View, AccountBy, Frame, Observed,
        Auditing
  <2>8. ScrubSound' BY <1>1, <2>2 DEF View, ScrubSound, Frame, Observed, Finish
  <2> QED BY <2>2, <2>3, <2>4, <2>5, <2>6, <2>7, <2>8 DEF View
<1> QED BY <1>4, <1>5 DEF Judge

\* Both lists seen from a shorter one.
LEMMA ListingFrom ==
  ASSUME NEW p, NEW rest \in Seq(Hash), arg'[p].todo = rest,
         \A i \in 1 .. Len(rest) : row'[rest[i]] # "none",
         \A i, j \in 1 .. Len(rest) : rest[i] = rest[j] => i = j
  PROVE  Listing(p)'
BY DEF Listing

LEMMA RepairingFrom ==
  ASSUME NEW p, NEW rest \in Seq({"dangling", "orphan", "audit"} \X Hash), arg'[p].todo = rest,
         \A i \in 1 .. Len(rest) : rest[i][1] = "audit" => row'[rest[i][2]] # "none",
         \A i, j \in 1 .. Len(rest) : rest[i][2] = rest[j][2] => i = j
  PROVE  Repairing(p)'
BY DEF Repairing

\* verify_all goes on after changing h, the first object of its list.
LEMMA ScrubNext ==
  ASSUME NEW p \in Proc, View(p), pc[p] = "scrub", arg[p].todo # <<>>, NEW h \in Hash,
         h = Head(arg[p].todo), arg' = [arg EXCEPT ![p].todo = Tail(@)], Goto(p, "scrub"),
         UNCHANGED staged, row' \in [Hash -> RowState], disk' \in [Hash -> FileState],
         \A g \in Hash \ {h} : row'[g] = row[g] /\ disk'[g] = disk[g],
         AccessOrder', QuotaRespected',
         row'[h] \notin {"evicting", "verifying", "transferring"},
         row'[h] = "absent" => disk'[h] = "missing", row'[h] = "corrupted" => disk'[h] # "good",
         faults = 0 => disk'[h] \in {"missing", "good"} /\ (row'[h] # "none" <=> disk'[h] # "missing")
  PROVE  View(p)'
<1> DEFINE rest == Tail(arg[p].todo)
           a == [arg[p] EXCEPT !.todo = rest]
<1>1. CacheTypeOK /\ arg[p] \in Arg /\ arg[p].op = "scrub"
  BY DEF View, CacheTypeOK, Working, AtHome
<1>2. /\ rest \in Seq(Hash) /\ rest \in Seq(Item)
      /\ \A i \in 1 .. Len(rest) : rest[i] # h /\ rest[i] \in Hash /\ row[rest[i]] # "none"
      /\ \A i, j \in 1 .. Len(rest) : rest[i] = rest[j] => i = j
  BY ListingRest DEF View, Working
<1> HIDE DEF rest
<1>3. a \in Arg /\ a.op = "scrub" /\ a.todo = rest BY <1>1, <1>2 DEF Arg
<1>4. arg' = [arg EXCEPT ![p] = a] BY <1>1 DEF CacheTypeOK, rest
<1> HIDE DEF a
<1>5. Frame /\ pc'[p] = "scrub" /\ arg'[p] = a
  BY <1>1, <1>3, <1>4, GotoFrame DEF Pc, CacheTypeOK
<1>6. CacheTypeOK' BY <1>1, <1>5, TypeBack DEF CacheTypeOK, Goto
<1>7. Working(p)'
  <2>1. arg'[p].todo = rest /\ arg'[p].op = "scrub" BY <1>3, <1>5
  <2>2. \A i \in 1 .. Len(rest) : row'[rest[i]] # "none" BY <1>2
  <2>3. Listing(p)' BY <1>2, <2>1, <2>2, ListingFrom
  <2> QED BY <1>5, <2>1, <2>3 DEF Working, AtHome, Repairing, Marked, RoomKept,
        Evicting, Auditing
<1>8. SettledBy(p)' BY <1>5 DEF View, SettledBy, Frame, Observed
<1>9. VerdictBy(p)' BY <1>5 DEF View, VerdictBy, Frame, Observed
<1>10. AccountBy(p)' BY <1>5 DEF View, AccountBy, Frame, Observed, Auditing
<1>11. ScrubSound' BY <1>5 DEF View, ScrubSound, Frame, Observed, Goto
<1> QED BY <1>6, <1>7, <1>8, <1>9, <1>10, <1>11 DEF View

\* verify_all is refused a transition only after a crash.
LEMMA ScrubView ==
  ASSUME NEW p \in Proc, View(p), Scrub(p) PROVE View(p)'
<1> DEFINE h == Head(arg[p].todo)
           found == Check(Head(arg[p].todo), TRUE)
<1>1. pc[p] = "scrub" /\ CacheTypeOK BY DEF Scrub, At, View
<1>2. CASE arg[p].todo = <<>> /\ Finish(p) /\ UNCHANGED store
  <2>1. AccessOrder' BY <1>1, <1>2, OrderKept DEF store
  <2> QED BY <1>1, <1>2, <2>1, QuietEnd DEF store
<1>3. CASE arg[p].todo # <<>>
  <2>1. h \in Hash /\ row[h] # "none" BY <1>1, <1>3, ListingRest DEF View, Working
  <2>2. /\ found \in {"absent", "corrupted", "valid"}
        /\ found = "absent" <=> disk[h] = "missing"
        /\ found = "corrupted" => disk[h] \in {"resized", "altered"}
        /\ found = "valid" => disk[h] = "good"
    BY <1>1, <2>1, Found
  <2>3. /\ \/ /\ found # "valid" /\ Purge(h) /\ arg' = [arg EXCEPT ![p].todo = Tail(@)]
              /\ Goto(p, "scrub") /\ UNCHANGED staged
           \/ /\ UNCHANGED disk /\ MayBecome(h, found) /\ SetRow(h, found)
              /\ arg' = [arg EXCEPT ![p].todo = Tail(@)]
              /\ Goto(p, "scrub") /\ UNCHANGED staged
           \/ /\ UNCHANGED disk /\ ~MayBecome(h, found)
              /\ scrubErr' = TRUE /\ Leave(p) /\ UNCHANGED <<row, older>>
    BY <1>3 DEF Scrub
  <2>4. h = Head(arg[p].todo) OBVIOUS
  <2> HIDE DEF h, found
  <2>5. CASE /\ found # "valid" /\ Purge(h) /\ arg' = [arg EXCEPT ![p].todo = Tail(@)]
             /\ Goto(p, "scrub") /\ UNCHANGED staged
    <3>1. /\ row' \in [Hash -> RowState] /\ AccessOrder' /\ QuotaRespected'
          /\ \A g \in Hash : row'[g] = IF g = h THEN "none" ELSE row[g]
      BY <2>1, <2>5, RowDropped DEF View, Purge
    <3>2. /\ disk' \in [Hash -> FileState] /\ \A g \in Hash \ {h} : disk'[g] = disk[g]
          /\ disk'[h] \in {disk[h], "missing"}
      BY <1>1, <2>1, <2>5, FileGone DEF Purge, CacheTypeOK
    <3>3. faults = 0 => disk'[h] = "missing" BY <2>1, <2>2, <2>5, <3>2 DEF View, AccountBy
    <3> QED BY <1>1, <1>3, <2>1, <2>4, <2>5, <3>1, <3>2, <3>3, ScrubNext
  <2>6. CASE /\ UNCHANGED disk /\ SetRow(h, found) /\ arg' = [arg EXCEPT ![p].todo = Tail(@)]
             /\ Goto(p, "scrub") /\ UNCHANGED staged
    <3>1. /\ row' \in [Hash -> RowState] /\ AccessOrder' /\ QuotaRespected'
          /\ \A g \in Hash : row'[g] = IF g = h THEN found ELSE row[g]
      BY <2>1, <2>2, <2>6, RowSet DEF View, SetRow, RowState
    <3>2. faults = 0 => disk[h] \in {"missing", "good"} /\ (row[h] # "none" <=> disk[h] # "missing")
      BY <1>1, <2>1 DEF View, AccountBy
    <3>3. disk' \in [Hash -> FileState] BY <1>1, <2>6 DEF CacheTypeOK
    <3> QED BY <1>1, <1>3, <2>1, <2>2, <2>4, <2>6, <3>1, <3>2, <3>3, ScrubNext
  <2>7. CASE /\ UNCHANGED disk /\ ~MayBecome(h, found)
             /\ scrubErr' = TRUE /\ Leave(p) /\ UNCHANGED <<row, older>>
    <3>1. crashes # 0
      <4> SUFFICES ASSUME crashes = 0 PROVE MayBecome(h, found) BY <2>7
      <4>1. row[h] \in {"absent", "valid", "corrupted"}
        BY <1>1, <2>1 DEF View, SettledBy, CacheTypeOK, RowState
      <4>2. /\ row[h] = "absent" => disk[h] = "missing"
            /\ row[h] = "corrupted" => disk[h] # "good"
        BY <1>1, <2>1 DEF View, VerdictBy
      <4> QED BY <1>1, <2>1, <2>2, <4>1, <4>2, Transitions
    <3>2. Frame /\ pc'[p] = "idle" /\ Working(p)' BY <1>1, <2>7, LeaveFrame
    <3>3. AccessOrder' /\ QuotaRespected' BY <1>1, <2>7, OrderKept, QuotaKept DEF View, Rows
    <3>4. CacheTypeOK' BY <1>1, <2>7, <3>2, <3>3, TypeBack DEF CacheTypeOK
    <3>5. SettledBy(p)' /\ VerdictBy(p)' BY <3>1, <3>2 DEF SettledBy, VerdictBy, Frame,
          Observed
    <3>6. AccountBy(p)' BY <1>1, <2>7, <3>2 DEF View, AccountBy, Frame, Observed, Auditing
    <3>7. ScrubSound'
      <4>1. crashes \in Nat /\ crashes' = crashes BY <3>2, CacheAssumption DEF View,
            CacheTypeOK, Frame, Observed
      <4> QED BY <3>1, <4>1 DEF ScrubSound
    <3> QED BY <3>2, <3>3, <3>4, <3>5, <3>6, <3>7 DEF View
  <2> QED BY <2>3, <2>5, <2>6, <2>7
<1> QED BY <1>2, <1>3 DEF Scrub

\* What reconcile has left after the first object.
LEMMA RepairRest ==
  ASSUME NEW p \in Proc, Repairing(p), pc[p] = "repair" \/ Auditing(p), arg[p].todo # <<>>
  PROVE  LET todo == arg[p].todo  rest == Tail(arg[p].todo) IN
         /\ Head(todo)[2] \in Hash /\ (Head(todo)[1] = "audit" => row[Head(todo)[2]] # "none")
         /\ rest \in Seq({"dangling", "orphan", "audit"} \X Hash) /\ rest \in Seq(Item)
         /\ \A i \in 1 .. Len(rest) : /\ rest[i][2] \in Hash \ {Head(todo)[2]}
                                      /\ rest[i][1] = "audit" => row[rest[i][2]] # "none"
         /\ \A i, j \in 1 .. Len(rest) : rest[i][2] = rest[j][2] => i = j
         /\ (\A i \in 1 .. Len(todo) : todo[i][1] = "audit") =>
              Head(todo)[1] = "audit" /\ \A i \in 1 .. Len(rest) : rest[i][1] = "audit"
<1> DEFINE K == {"dangling", "orphan", "audit"}
           todo == arg[p].todo
           rest == Tail(arg[p].todo)
<1>1. /\ todo \in Seq(K \X Hash) /\ todo # <<>>
      /\ \A i \in 1 .. Len(todo) : todo[i][1] = "audit" => row[todo[i][2]] # "none"
      /\ \A i, j \in 1 .. Len(todo) : todo[i][2] = todo[j][2] => i = j
  BY DEF Repairing
<1>2. /\ Head(todo) \in K \X Hash /\ Head(todo) = todo[1] /\ Len(todo) \in Nat /\ Len(todo) >= 1
      /\ rest \in Seq(K \X Hash) /\ Len(rest) = Len(todo) - 1
      /\ \A i \in 1 .. Len(rest) : i + 1 \in 1 .. Len(todo) /\ rest[i] = todo[i + 1]
  BY <1>1, Rest
<1>3. rest \in Seq(Item) BY <1>2 DEF Item
<1> HIDE DEF todo, rest, K
<1>4. 1 \in 1 .. Len(todo) BY <1>2
<1>5. \A i \in 1 .. Len(todo) : todo[i][2] \in Hash BY <1>1
<1>6. \A i \in 1 .. Len(rest) : /\ rest[i][2] \in Hash \ {Head(todo)[2]}
                                /\ rest[i][1] = "audit" => row[rest[i][2]] # "none"
  <2> SUFFICES ASSUME NEW i \in 1 .. Len(rest)
               PROVE  /\ rest[i][2] \in Hash \ {Head(todo)[2]}
                      /\ rest[i][1] = "audit" => row[rest[i][2]] # "none"
    OBVIOUS
  <2>1. i + 1 \in 1 .. Len(todo) /\ rest[i] = todo[i + 1] /\ i + 1 # 1 BY <1>2
  <2>2. todo[i + 1][2] # todo[1][2] BY <1>1, <1>4, <2>1
  <2> QED BY <1>1, <1>2, <1>5, <2>1, <2>2
<1>7. \A i, j \in 1 .. Len(rest) : rest[i][2] = rest[j][2] => i = j
  <2> SUFFICES ASSUME NEW i \in 1 .. Len(rest), NEW j \in 1 .. Len(rest), rest[i][2] = rest[j][2]
               PROVE  i = j
    OBVIOUS
  <2>1. /\ i + 1 \in 1 .. Len(todo) /\ j + 1 \in 1 .. Len(todo)
        /\ rest[i] = todo[i + 1] /\ rest[j] = todo[j + 1]
    BY <1>2
  <2>2. todo[i + 1][2] = todo[j + 1][2] BY <2>1
  <2>3. i + 1 = j + 1 BY <1>1, <2>1, <2>2
  <2>4. i \in Nat /\ j \in Nat BY <1>2
  <2> QED BY <2>3, <2>4
<1>8. (\A i \in 1 .. Len(todo) : todo[i][1] = "audit") =>
        Head(todo)[1] = "audit" /\ \A i \in 1 .. Len(rest) : rest[i][1] = "audit"
  BY <1>2, <1>4
<1>9. Head(todo)[2] \in Hash /\ (Head(todo)[1] = "audit" => row[Head(todo)[2]] # "none")
  BY <1>1, <1>2, <1>4, <1>5
<1> QED BY <1>2, <1>3, <1>6, <1>7, <1>8, <1>9 DEF todo, rest, K

\* reconcile goes on after changing h, the first object of its list.
LEMMA RepairNext ==
  ASSUME NEW p \in Proc, View(p), pc[p] = "repair" \/ Auditing(p), arg[p].todo # <<>>, NEW h \in Hash,
         h = Head(arg[p].todo)[2], arg' = [arg EXCEPT ![p].todo = Tail(@)], Goto(p, "repair"),
         UNCHANGED staged, row' \in [Hash -> RowState], disk' \in [Hash -> FileState],
         \A g \in Hash \ {h} : row'[g] = row[g] /\ disk'[g] = disk[g],
         AccessOrder', QuotaRespected',
         crashes = 0 => /\ row'[h] \notin {"evicting", "verifying", "transferring"}
                        /\ row'[h] = "absent" => disk'[h] = "missing"
                        /\ row'[h] = "corrupted" => disk'[h] # "good",
         faults = 0 => disk'[h] \in {"missing", "good"} /\ (row'[h] # "none" <=> disk'[h] # "missing")
  PROVE  View(p)'
<1> DEFINE rest == Tail(arg[p].todo)
           a == [arg[p] EXCEPT !.todo = rest]
<1>1. CacheTypeOK /\ arg[p] \in Arg /\ arg[p].op = "reconcile"
  BY DEF View, CacheTypeOK, Working, AtHome, Auditing
<1>2. /\ rest \in Seq({"dangling", "orphan", "audit"} \X Hash) /\ rest \in Seq(Item)
      /\ \A i \in 1 .. Len(rest) : /\ rest[i][2] \in Hash \ {h}
                                   /\ rest[i][1] = "audit" => row[rest[i][2]] # "none"
      /\ \A i, j \in 1 .. Len(rest) : rest[i][2] = rest[j][2] => i = j
      /\ (\A i \in 1 .. Len(arg[p].todo) : arg[p].todo[i][1] = "audit") =>
           \A i \in 1 .. Len(rest) : rest[i][1] = "audit"
  BY RepairRest DEF View, Working
<1> HIDE DEF rest
<1>3. a \in Arg /\ a.op = "reconcile" /\ a.todo = rest BY <1>1, <1>2 DEF Arg
<1>4. arg' = [arg EXCEPT ![p] = a] BY <1>1 DEF CacheTypeOK, rest
<1> HIDE DEF a
<1>5. Frame /\ pc'[p] = "repair" /\ arg'[p] = a
  <2>1. "repair" \in Pc /\ staged' \subseteq Proc BY <1>1 DEF Pc, CacheTypeOK
  <2> QED BY <1>1, <1>3, <1>4, <2>1, GotoFrame
<1>6. CacheTypeOK' BY <1>1, <1>5, TypeBack DEF CacheTypeOK, Goto
<1>7. arg'[p].todo = rest /\ arg'[p].op = "reconcile" BY <1>3, <1>5
<1>8. Working(p)'
  <2>1. \A i \in 1 .. Len(rest) : rest[i][1] = "audit" => row'[rest[i][2]] # "none" BY <1>2
  <2>2. Repairing(p)' BY <1>2, <1>7, <2>1, RepairingFrom
  <2> QED BY <1>5, <1>7, <2>2 DEF Working, AtHome, Listing, Marked, RoomKept, Evicting,
        Auditing
<1>9. pc[p] \in {"repair", "judge"} /\ (pc[p] = "judge" => Current(p) = h)
  BY DEF Auditing, Current, Evicting
<1>10. SettledBy(p)' BY <1>5, <1>9 DEF View, SettledBy, Frame, Observed
<1>11. VerdictBy(p)' BY <1>5, <1>9 DEF View, VerdictBy, Frame, Observed
<1>12. AccountBy(p)'
  <2>1. AccountBy(p) /\ busy' = busy /\ crashes' = crashes /\ faults' = faults
    BY <1>5 DEF View, Frame, Observed
  <2>2. faults = 0 => \A i \in 1 .. Len(rest) : rest[i][1] = "audit" BY <1>2,
        <2>1 DEF AccountBy
  <2>3. ASSUME faults = 0, NEW g \in Hash
        PROVE  disk'[g] \in {"missing", "good"} /\ (row'[g] # "none" <=> disk'[g] # "missing")
    BY <1>9, <2>1, <2>3 DEF AccountBy
  <2> QED BY <1>5, <1>7, <2>1, <2>2, <2>3 DEF AccountBy
<1>13. ScrubSound' BY <1>5 DEF View, ScrubSound, Frame, Observed, Goto
<1> QED BY <1>6, <1>8, <1>10, <1>11, <1>12, <1>13 DEF View

\* reconcile rejects h: its row goes, and its file if nobody holds it open.
LEMMA RejectView ==
  ASSUME NEW p \in Proc, View(p), pc[p] = "repair" \/ Auditing(p), arg[p].todo # <<>>, NEW h \in Hash,
         h = Head(arg[p].todo)[2], DropRow(h), Discard(p, h), faults = 0 => disk[h] = "missing"
  PROVE  View(p)'
<1>1. CacheTypeOK BY DEF View
<1>2. /\ row' \in [Hash -> RowState] /\ AccessOrder' /\ QuotaRespected'
      /\ \A g \in Hash : row'[g] = IF g = h THEN "none" ELSE row[g]
  BY RowDropped DEF View
<1>3. CASE disk[h] # "missing" /\ UNCHANGED disk /\ Finish(p)
  <2>1. faults # 0 BY <1>3
  <2>2. pc[p] \in {"repair", "judge"} /\ (pc[p] = "judge" => Current(p) = h)
    BY DEF Auditing, Current, Evicting
  <2>3. disk' \in [Hash -> FileState] BY <1>1, <1>3 DEF CacheTypeOK
  <2> QED BY <1>3, <2>1, <2>2, <2>3, DropEnd
<1>4. CASE /\ disk' = Unlinked(h) /\ UNCHANGED staged /\ arg' = [arg EXCEPT ![p].todo = Tail(@)]
           /\ Goto(p, "repair")
  <2>1. /\ disk' \in [Hash -> FileState]
        /\ \A g \in Hash : disk'[g] = IF g = h THEN "missing" ELSE disk[g]
    BY <1>1, <1>4, FileGone
  <2> QED BY <1>2, <1>4, <2>1, RepairNext
<1> QED BY <1>3, <1>4 DEF Discard

LEMMA RepairView ==
  ASSUME NEW p \in Proc, View(p), Repair(p) PROVE View(p)'
<1> DEFINE kind == Head(arg[p].todo)[1]
           h == Head(arg[p].todo)[2]
<1>1. pc[p] = "repair" /\ CacheTypeOK BY DEF Repair, At, View
<1>2. CASE UNCHANGED store /\ Finish(p)
  <2>1. AccessOrder' BY <1>1, <1>2, OrderKept DEF store
  <2> QED BY <1>1, <1>2, <2>1, QuietEnd DEF store
<1>3. CASE arg[p].todo # <<>> /\ ~(UNCHANGED store /\ Finish(p))
  <2>1. /\ h \in Hash /\ (kind = "audit" => row[h] # "none")
        /\ faults = 0 => kind = "audit"
    BY <1>1, <1>3, RepairRest DEF View, Working, AccountBy
  <2>2. \/ /\ kind = "dangling" /\ DropRow(h) /\ arg' = [arg EXCEPT ![p].todo = Tail(@)]
           /\ Goto(p, "repair") /\ UNCHANGED <<disk, staged>>
        \/ kind = "orphan" /\ Discard(p, h) /\ UNCHANGED <<row, older>>
        \/ /\ kind = "audit" /\ DropRow(h) /\ Discard(p, h)
           /\ disk[h] = "resized" \/ ~MayBecome(h, "verifying")
        \/ /\ kind = "audit" /\ SetRow(h, "verifying")
           /\ Goto(p, "judge") /\ UNCHANGED <<disk, staged, arg>>
    BY <1>3 DEF Repair
  <2>3. h = Head(arg[p].todo)[2] OBVIOUS
  <2> HIDE DEF h, kind
  <2>4. CASE /\ kind = "dangling" /\ DropRow(h) /\ arg' = [arg EXCEPT ![p].todo = Tail(@)]
             /\ Goto(p, "repair") /\ UNCHANGED <<disk, staged>>
    <3>1. /\ row' \in [Hash -> RowState] /\ AccessOrder' /\ QuotaRespected'
          /\ \A g \in Hash : row'[g] = IF g = h THEN "none" ELSE row[g]
      BY <2>1, <2>4, RowDropped DEF View
    <3>2. disk' \in [Hash -> FileState] BY <1>1, <2>4 DEF CacheTypeOK
    <3> QED BY <1>1, <1>3, <2>1, <2>3, <2>4, <3>1, <3>2, RepairNext
  <2>5. CASE kind = "orphan" /\ Discard(p, h) /\ UNCHANGED <<row, older>>
    <3>1. CASE /\ disk' = Unlinked(h) /\ UNCHANGED staged
               /\ arg' = [arg EXCEPT ![p].todo = Tail(@)] /\ Goto(p, "repair")
      <4>1. /\ disk' \in [Hash -> FileState]
            /\ \A g \in Hash : disk'[g] = IF g = h THEN "missing" ELSE disk[g]
        BY <1>1, <2>1, <3>1, FileGone
      <4>2. AccessOrder' /\ QuotaRespected' BY <1>1, <2>5, OrderKept,
            QuotaKept DEF View, Rows
      <4>3. crashes = 0 => row[h] \notin {"evicting", "verifying", "transferring"}
        BY <1>1, <2>1 DEF View, SettledBy
      <4>4. row' \in [Hash -> RowState] BY <1>1, <2>5 DEF CacheTypeOK
      <4> QED BY <1>1, <1>3, <2>1, <2>3, <2>5, <3>1, <4>1, <4>2, <4>3, <4>4, RepairNext
    <3> QED BY <1>3, <2>5, <3>1 DEF Discard, store
  <2>6. CASE /\ kind = "audit" /\ DropRow(h) /\ Discard(p, h)
             /\ disk[h] = "resized" \/ ~MayBecome(h, "verifying")
    <3>1. ASSUME faults = 0 PROVE FALSE
      <4>1. crashes = 0 BY <1>1, <3>1, CacheAssumption DEF View, AccountBy, CacheTypeOK
      <4>2. disk[h] # "resized" BY <2>1, <3>1 DEF View, AccountBy
      <4>3. row[h] # "evicting" BY <1>1, <2>1, <4>1 DEF View, SettledBy
      <4> QED BY <1>1, <2>1, <2>6, <4>2, <4>3, Transitions
    <3> QED BY <1>1, <1>3, <2>1, <2>3, <2>6, <3>1, RejectView
  <2>7. CASE /\ kind = "audit" /\ SetRow(h, "verifying")
             /\ Goto(p, "judge") /\ UNCHANGED <<disk, staged, arg>>
    <3>1. arg[p].op = "reconcile" BY <1>1 DEF View, Working, AtHome
    <3>2. Frame /\ pc'[p] = "judge" /\ arg'[p] = arg[p]
      BY <1>1, <2>7, GotoSame DEF Pc, CacheTypeOK
    <3>3. Current(p)' = h BY <2>3, <3>1, <3>2 DEF Current, Evicting, Auditing
    <3> QED BY <1>1, <1>3, <2>1, <2>7, <3>1, <3>2, <3>3, Verifying DEF Goto
  <2> QED BY <2>2, <2>4, <2>5, <2>6, <2>7
<1> QED BY <1>2, <1>3 DEF Repair

LEMMA AuditView ==
  ASSUME NEW p \in Proc, View(p), Audit(p) PROVE View(p)'
<1> DEFINE h == Head(arg[p].todo)[2]
           found == Check(Head(arg[p].todo)[2], TRUE)
<1>1. pc[p] = "judge" /\ CacheTypeOK /\ Auditing(p) BY DEF Audit, At, View, Auditing
<1>2. arg[p].todo # <<>> /\ Current(p) = h BY <1>1 DEF View, Working, Marked, Current,
      Evicting
<1>3. h \in Hash /\ row[h] = "verifying"
  BY <1>1, <1>2, RepairRest DEF View, Working, Marked
<1>4. /\ found = "valid" => disk[h] = "good"
      /\ found # "valid" => disk[h] \in {"missing", "resized", "altered"}
  BY <1>1, <1>3, Found
<1>5. h = Head(arg[p].todo)[2] OBVIOUS
<1>6. \/ /\ found = "valid" /\ SetRow(h, "valid") /\ arg' = [arg EXCEPT ![p].todo = Tail(@)]
         /\ Goto(p, "repair") /\ UNCHANGED <<disk, staged>>
      \/ found # "valid" /\ DropRow(h) /\ Discard(p, h)
  BY DEF Audit
<1> HIDE DEF h, found
<1>7. CASE /\ found = "valid" /\ SetRow(h, "valid") /\ arg' = [arg EXCEPT ![p].todo = Tail(@)]
           /\ Goto(p, "repair") /\ UNCHANGED <<disk, staged>>
  <2>1. /\ row' \in [Hash -> RowState] /\ AccessOrder' /\ QuotaRespected'
        /\ \A g \in Hash : row'[g] = IF g = h THEN "valid" ELSE row[g]
    BY <1>3, <1>7, RowSet DEF View, SetRow, RowState
  <2>2. disk' \in [Hash -> FileState] BY <1>1, <1>7 DEF CacheTypeOK
  <2> QED BY <1>1, <1>2, <1>3, <1>4, <1>5, <1>7, <2>1, <2>2, RepairNext
<1>8. CASE found # "valid" /\ DropRow(h) /\ Discard(p, h)
  <2>1. faults = 0 => disk[h] \in {"missing", "good"} BY <1>3 DEF View, AccountBy
  <2> QED BY <1>1, <1>2, <1>3, <1>4, <1>5, <1>8, <2>1, RejectView
<1> QED BY <1>6, <1>7, <1>8


-----------------------------------------------------------------------------
(* All steps *)

\* A process that has or takes the lock and leaves the others alone.
LEMMA Alone ==
  ASSUME CacheInv, NEW p \in Proc, pc[p] \in LockedPc \/ lock = NoProc,
         pc' = [pc EXCEPT ![p] = pc'[p]],
         \/ lock' = p /\ pc'[p] \in LockedPc
         \/ lock' = NoProc /\ pc'[p] \notin LockedPc,
         View(p) => View(p)'
  PROVE  CacheInv'
<1>1. \A q \in Proc : pc[q] \in LockedPc <=> lock = q BY DEF CacheInv, LockInv
<1>2. \A q \in Proc \ {p} : pc[q] \notin LockedPc BY <1>1, CacheAssumption
<1>3. View(p)' BY <1>2, ViewFrom
<1>4. pc \in [Proc -> Pc] BY DEF CacheInv, CacheTypeOK
<1>5. \A q \in Proc \ {p} : pc'[q] \notin LockedPc BY <1>2, <1>4
<1>6. LockInv' BY <1>5, CacheAssumption DEF LockInv
<1> QED BY <1>3, <1>5, <1>6, ViewBack

\* The three ways such a step ends.
LEMMA Taking ==
  ASSUME CacheInv, NEW p \in Proc, NEW l \in LockedPc, lock = NoProc, lock' = p,
         pc' = [pc EXCEPT ![p] = l], View(p) => View(p)'
  PROVE  CacheInv'
<1>1. pc'[p] = l BY DEF CacheInv, CacheTypeOK
<1> QED BY <1>1, Alone

LEMMA Holding ==
  ASSUME CacheInv, NEW p \in Proc, pc[p] \in LockedPc, View(p) => View(p)',
         Finish(p) \/ Leave(p) \/ \E l \in LockedPc : Goto(p, l)
  PROVE  CacheInv'
<1>1. lock = p /\ pc \in [Proc -> Pc] BY DEF CacheInv, CacheTypeOK, LockInv
<1>2. CASE Leave(p)
  <2>1. pc'[p] = "idle" /\ pc' = [pc EXCEPT ![p] = pc'[p]] /\ lock' = NoProc
    BY <1>1, <1>2 DEF Leave
  <2> QED BY <2>1, Alone DEF LockedPc
<1>3. CASE \E l \in LockedPc : Goto(p, l)
  <2>1. pc'[p] \in LockedPc /\ pc' = [pc EXCEPT ![p] = pc'[p]] /\ lock' = p
    BY <1>1, <1>3 DEF Goto
  <2> QED BY <2>1, Alone
<1> QED BY <1>2, <1>3 DEF Finish

\* What a process is at does not depend on the files or on the others.
LEMMA Untouched ==
  ASSUME CacheTypeOK, QuotaRespected, row' = row, NEW q \in Proc, pc'[q] = pc[q], arg'[q] = arg[q],
         Working(q)
  PROVE  Working(q)'
<1>1. arg[q].h \in Hash BY DEF CacheTypeOK, Arg
<1>2. \A h \in Hash : Fits(h) => Fits(h)' BY QuotaKept DEF Rows
<1>3. Current(q)' = Current(q) /\ Evicting(q)' = Evicting(q) /\ Auditing(q)' = Auditing(q)
  BY DEF Current, Evicting, Auditing
<1>4. AtHome(q)' BY DEF Working, AtHome
<1>5. Listing(q)' BY <1>3 DEF Working, Listing
<1>6. Repairing(q)' BY <1>3 DEF Working, Repairing
<1>7. Marked(q)' BY <1>3 DEF Working, Marked
<1>8. RoomKept(q)' BY <1>1, <1>2 DEF Working, RoomKept
<1> QED BY <1>4, <1>5, <1>6, <1>7, <1>8 DEF Working

\* A step without the lock that neither changes rows and files nor enters
\* an operation that needs it.
LEMMA Glance ==
  ASSUME CacheInv, UNCHANGED <<row, disk, busy, lock, crashes, faults, scrubErr>>, AccessOrder',
         staged' \subseteq Proc, pc' \in [Proc -> Pc], arg' \in [Proc -> Arg],
         \A q \in Proc : \/ pc'[q] = pc[q] /\ arg'[q] = arg[q]
                         \/ pc[q] \notin LockedPc /\ pc'[q] \notin LockedPc
  PROVE  CacheInv'
<1>1. CacheTypeOK' BY DEF CacheInv, CacheTypeOK
<1>2. LockInv' BY DEF CacheInv, LockInv
<1>4. QuotaRespected' BY QuotaKept DEF CacheInv, Rows
<1>5. {"stage", "quota", "batch", "mark", "unlink", "drop", "settle", "commit", "record", "judge",
       "scrub", "repair"} = LockedPc
  BY DEF LockedPc, Pc
<1>6. ASSUME NEW q \in Proc PROVE Working(q)'
  <2>1. CASE pc'[q] \notin LockedPc
    BY <1>5, <2>1 DEF Working, AtHome, Listing, Repairing, Marked, RoomKept, Evicting,
          Auditing
  <2>2. CASE pc'[q] = pc[q] /\ arg'[q] = arg[q]
    BY <2>2, Untouched DEF CacheInv
  <2> QED BY <2>1, <2>2
<1>7. ASSUME NEW S \in SUBSET LockedPc, NEW h PROVE InHand(S, h)' <=> InHand(S, h)
  <2>1. ASSUME NEW q \in Proc PROVE (pc'[q] \in S /\ Current(q)' = h) <=> (pc[q] \in S /\ Current(q) = h)
    BY DEF Current, Evicting, Auditing
  <2> QED BY <2>1 DEF InHand
<1>8. \A S \in {{"unlink", "drop"}, {"judge"}, {"record"}, {"drop"}, {"record", "drop"}} :
        \A h : InHand(S, h)' <=> InHand(S, h)
  BY <1>5, <1>7
<1>9. SettledInv' BY <1>5, <1>8 DEF CacheInv, SettledInv
<1>10. VerdictInv' BY <1>8 DEF CacheInv, VerdictInv
<1>11. AccountInv' BY <1>5, <1>8 DEF CacheInv, AccountInv, Auditing
<1>12. ScrubSound' BY DEF CacheInv, ScrubSound
<1> QED BY <1>1, <1>2, <1>4, <1>6, <1>9, <1>10, <1>11, <1>12 DEF CacheInv

\* A process that dies releases the lock; what it had in hand is excused.
LEMMA CrashKeeps ==
  ASSUME CacheInv, NEW p \in Proc, Crash(p) PROVE CacheInv'
<1>1. /\ CacheTypeOK /\ LockInv /\ crashes <= faults /\ faults < FaultBound
      /\ crashes \in Nat /\ faults \in Nat /\ FaultBound \in Nat
  BY CacheAssumption DEF CacheInv, AccountInv, CacheTypeOK, Crash, Fault
<1>2. crashes' = crashes + 1 /\ faults' = faults + 1 /\ UNCHANGED <<row, older, disk, busy, scrubErr>>
  BY DEF Crash, Fault, store
<1>3. AccessOrder' BY <1>1, <1>2, OrderKept
<1>4. /\ pc' \in [Proc -> Pc] /\ arg' \in [Proc -> Arg] /\ pc'[p] = "idle"
      /\ \A q \in Proc \ {p} : pc'[q] = pc[q] /\ arg'[q] = arg[q]
  BY <1>1, NoArgType DEF Crash, CacheTypeOK, Pc
<1>5. staged' \subseteq Proc /\ lock' = IF lock = p THEN NoProc ELSE lock
  BY <1>1 DEF Crash, CacheTypeOK
<1>6. crashes' \in 1 .. FaultBound /\ faults' \in 1 .. FaultBound /\ crashes' <= faults'
  BY <1>1, <1>2
<1>7. CacheTypeOK' BY <1>1, <1>2, <1>3, <1>4, <1>5, <1>6 DEF CacheTypeOK
<1>8. LockInv' BY <1>1, <1>4, <1>5, CacheAssumption DEF LockInv, LockedPc
<1>9. ASSUME NEW q \in Proc PROVE Working(q)'
  <2>1. CASE q = p
    BY <1>4, <2>1 DEF Working, AtHome, Listing, Repairing, Marked, RoomKept, Evicting,
          Auditing
  <2>2. CASE q # p BY <1>2, <1>4, <2>2, Untouched DEF CacheInv
  <2> QED BY <2>1, <2>2
<1>10. QuotaRespected' BY <1>2, QuotaKept DEF CacheInv, Rows
<1>11. SettledInv' /\ VerdictInv' /\ AccountInv' /\ ScrubSound'
  BY <1>6 DEF SettledInv, VerdictInv, AccountInv, ScrubSound
<1> QED BY <1>7, <1>8, <1>9, <1>10, <1>11 DEF CacheInv

\* A file damaged from outside, opened or closed by another program.
LEMMA OutsideKeeps ==
  ASSUME CacheInv, NEW h \in Hash, Damage(h) \/ Hold(h) \/ Release(h) PROVE CacheInv'
<1>1. CacheTypeOK /\ AccountInv /\ FaultBound \in Nat /\ faults \in Nat /\ crashes \in Nat
  BY CacheAssumption DEF CacheInv, CacheTypeOK
<1>2. UNCHANGED <<row, older, staged, lock, pc, arg, crashes, scrubErr>>
  BY DEF Damage, Hold, Release, store
<1>3. /\ faults' \in 0 .. FaultBound
      /\ busy' \subseteq Hash /\ disk' \in [Hash -> FileState]
      /\ \/ disk' = disk /\ faults' = faults
         \/ /\ disk[h] = "good" /\ disk'[h] # "good" /\ \A g \in Hash \ {h} : disk'[g] = disk[g]
            /\ faults' = faults + 1
  <2>1. CASE Damage(h) BY <1>1, <2>1 DEF Damage, Fault, CacheTypeOK
  <2>2. CASE Hold(h) BY <1>1, <2>2 DEF Hold, CacheTypeOK, store
  <2>3. CASE Release(h) BY <1>1, <2>3 DEF Release, CacheTypeOK, store
  <2> QED BY <2>1, <2>2, <2>3
<1>4. AccessOrder' BY <1>1, <1>2, OrderKept
<1>5. CacheTypeOK'
  BY <1>1, <1>2, <1>3, <1>4 DEF CacheTypeOK
<1>6. LockInv' BY <1>2 DEF CacheInv, LockInv
<1>7. \A q \in Proc : Working(q)' BY <1>2, Untouched DEF CacheInv
<1>8. QuotaRespected' BY <1>2, QuotaKept DEF CacheInv, Rows
<1>9. \A S, g : InHand(S, g)' <=> InHand(S, g)
  BY <1>2 DEF InHand, Current, Evicting, Auditing
<1>10. SettledInv' BY <1>2, <1>9 DEF CacheInv, SettledInv
<1>11. VerdictInv' BY <1>2, <1>3, <1>9 DEF CacheInv, VerdictInv
<1>12. AccountInv'
  <2>1. crashes' <= faults' BY <1>1, <1>2, <1>3 DEF AccountInv
  <2>2. CASE faults' # 0 BY <2>1, <2>2 DEF AccountInv
  <2>3. CASE faults' = 0
    <3>1. disk' = disk /\ faults = 0 BY <1>1, <1>3, <2>3
    <3> QED BY <1>1, <1>2, <1>9, <2>1, <3>1 DEF AccountInv, Auditing
  <2> QED BY <2>2, <2>3
<1>13. ScrubSound' BY <1>2 DEF CacheInv, ScrubSound
<1> QED BY <1>5, <1>6, <1>7, <1>8, <1>10, <1>11, <1>12, <1>13 DEF CacheInv

\* Lock-free reads, duplicates and clean_tmp only look, or refresh the access order.
LEMMA LookKeeps ==
  ASSUME CacheInv, NEW p \in Proc, NEW h \in Hash,
         \/ Duplicate(p, h) \/ StartRead(p, h) \/ ReadExists(p) \/ ReadSize(p) \/ ReadOpen(p)
         \/ CleanTmp
  PROVE  CacheInv'
<1>1. CacheTypeOK /\ arg[p].h \in Hash BY DEF CacheInv, CacheTypeOK, Arg
<1>2. UNCHANGED <<row, disk>> /\ (older' = older \/ \E g \in Hash : older' = Touched(g))
  BY <1>1 DEF Duplicate, StartRead, ReadExists, ReadSize, ReadOpen, CleanTmp, Touch, store
<1>3. AccessOrder' BY <1>1, <1>2, OrderKept, OrderTouched
<1>4. pc[p] \notin LockedPc \/ CleanTmp
  BY DEF Duplicate, StartRead, ReadExists, ReadSize, ReadOpen, At, LockedPc
<1>5. lock # p \/ CleanTmp BY <1>4 DEF CacheInv, LockInv
<1>6. CASE Leave(p) /\ UNCHANGED scrubErr /\ lock # p
  <2>1. /\ UNCHANGED <<busy, lock, crashes, faults, scrubErr>> /\ staged' \subseteq Proc
        /\ pc' \in [Proc -> Pc] /\ arg' \in [Proc -> Arg] /\ pc'[p] = "idle"
        /\ \A q \in Proc \ {p} : pc'[q] = pc[q] /\ arg'[q] = arg[q]
    BY <1>1, <1>6, NoArgType DEF Leave, Observed, CacheTypeOK, Pc
  <2>2. "idle" \notin LockedPc BY DEF LockedPc
  <2>3. pc[p] \notin LockedPc BY <1>6 DEF CacheInv, LockInv
  <2> QED BY <1>2, <1>3, <2>1, <2>2, <2>3, Glance
<1>7. CASE /\ UNCHANGED <<busy, lock, crashes, faults, scrubErr>> /\ staged' \subseteq staged
           /\ UNCHANGED <<pc, arg>>
  BY <1>1, <1>2, <1>3, <1>7, Glance DEF CacheTypeOK
<1>8. ASSUME NEW l \in {"exists", "size", "open"}, NEW a \in Arg, Goto(p, l),
             arg' = [arg EXCEPT ![p] = a], UNCHANGED staged, pc[p] \notin LockedPc
      PROVE  CacheInv'
  <2>1. l \in Pc \ LockedPc BY DEF Pc, LockedPc
  <2>2. /\ UNCHANGED <<busy, lock, crashes, faults, scrubErr>> /\ staged' \subseteq Proc
        /\ pc' \in [Proc -> Pc] /\ arg' \in [Proc -> Arg] /\ pc'[p] = l
        /\ \A q \in Proc \ {p} : pc'[q] = pc[q] /\ arg'[q] = arg[q]
    BY <1>1, <1>8, <2>1 DEF Goto, Observed, CacheTypeOK
  <2> QED BY <1>2, <1>3, <1>8, <2>1, <2>2, Glance
<1>9. arg = [arg EXCEPT ![p] = arg[p]] /\ arg[p] \in Arg BY <1>1 DEF CacheTypeOK
<1>10. CASE Duplicate(p, h) BY <1>7, <1>10 DEF Duplicate
<1>11. CASE StartRead(p, h)
  <2> DEFINE a == [NoArg EXCEPT !.op = "read", !.h = h]
  <2>1. a \in Arg BY NoArgType DEF Arg, Op
  <2>2. Goto(p, "exists") /\ arg' = [arg EXCEPT ![p] = a] /\ UNCHANGED staged /\ pc[p] \notin LockedPc
    BY <1>11 DEF StartRead, At, LockedPc
  <2> HIDE DEF a
  <2> QED BY <1>8, <2>1, <2>2
<1>12. CASE ReadExists(p)
  <2>1. \/ Leave(p) /\ UNCHANGED scrubErr
        \/ Goto(p, "size") /\ UNCHANGED <<arg, staged>>
    BY <1>12 DEF ReadExists, Finish
  <2>2. pc[p] \notin LockedPc /\ lock # p BY <1>12 DEF ReadExists, At, LockedPc,
        CacheInv, LockInv
  <2> QED BY <1>6, <1>8, <1>9, <2>1, <2>2
<1>13. CASE ReadSize(p)
  <2>1. \/ Leave(p) /\ UNCHANGED scrubErr
        \/ Goto(p, "open") /\ UNCHANGED <<arg, staged>>
    BY <1>13 DEF ReadSize, Finish
  <2>2. pc[p] \notin LockedPc /\ lock # p BY <1>13 DEF ReadSize, At, LockedPc,
        CacheInv, LockInv
  <2> QED BY <1>6, <1>8, <1>9, <2>1, <2>2
<1>14. CASE ReadOpen(p)
  <2>1. pc[p] \notin LockedPc /\ lock # p BY <1>14 DEF ReadOpen, At, LockedPc,
        CacheInv, LockInv
  <2> QED BY <1>6, <1>14, <2>1 DEF ReadOpen, Finish
<1>15. CASE CleanTmp BY <1>7, <1>15 DEF CleanTmp
<1> QED BY <1>10, <1>11, <1>12, <1>13, <1>14, <1>15

LEMMA CacheInit == Init => CacheInv
<1> SUFFICES ASSUME Init PROVE CacheInv OBVIOUS
<1>1. CacheTypeOK
  <2>1. row \in [Hash -> RowState] /\ disk \in [Hash -> FileState]
    BY DEF Init, RowState, FileState
  <2>2. AccessOrder BY DEF Init, AccessOrder
  <2>3. arg \in [Proc -> Arg] /\ pc \in [Proc -> Pc] BY NoArgType DEF Init, Pc
  <2>4. 0 \in 0 .. FaultBound BY CacheAssumption
  <2> QED BY <2>1, <2>2, <2>3, <2>4 DEF Init, CacheTypeOK
<1>2. \A p \in Proc : pc[p] = "idle" BY DEF Init
<1>3. LockInv BY <1>2, CacheAssumption DEF Init, LockInv, LockedPc
<1>4. \A p \in Proc : Working(p)
  BY <1>2 DEF Working, AtHome, Listing, Repairing, Marked, RoomKept, Evicting, Auditing
<1>5. QuotaRespected
  <2>1. Rows = {} BY DEF Init, Rows
  <2>2. Bytes({}) = {} BY DEF Bytes
  <2>3. TotalSize = 0 BY <2>1, <2>2, FS_EmptySet DEF TotalSize
  <2> QED BY <2>3, CacheAssumption DEF QuotaRespected
<1>6. SettledInv /\ VerdictInv /\ AccountInv /\ ScrubSound
  BY <1>2 DEF Init, SettledInv, VerdictInv, AccountInv, ScrubSound, Auditing, InHand
<1> QED BY <1>1, <1>3, <1>4, <1>5, <1>6 DEF CacheInv

\* Operations begin with the lock free, or without needing it.
LEMMA BeginsKeep ==
  ASSUME CacheInv, NEW p \in Proc, Begins(p) PROVE CacheInv'
<1>1. {"stage", "quota", "batch", "drop", "judge", "scrub", "repair"} \subseteq LockedPc
  BY DEF LockedPc, Pc
<1>2. ASSUME NEW h \in Hash, StartPutBytes(p, h) \/ StartPutFile(p, h) \/ StartPutStream(p, h)
      PROVE  CacheInv'
  <2>1. CASE Duplicate(p, h) BY <2>1, LookKeeps
  <2>2. ASSUME NEW op \in PutOp, NEW l \in {"quota", "stage"}, op = "bytes" => l = "quota",
               Begin(p, op, h, l), UNCHANGED <<store, staged>>
        PROVE  CacheInv'
    <3>1. View(p) => View(p)' BY <2>2, StartPutView
    <3> QED BY <1>1, <2>2, <3>1, Taking DEF Begin
  <2> QED BY <1>2, <2>1, <2>2 DEF StartPutBytes, StartPutFile, StartPutStream, PutOp
<1>3. ASSUME NEW n \in {SizeOf[h] : h \in Hash}, StartEvict(p, n) PROVE CacheInv'
  <2>1. View(p) => View(p)' BY <1>3, StartEvictView
  <2> QED BY <1>1, <1>3, <2>1, Taking DEF StartEvict
<1>4. ASSUME NEW h \in Hash, StartRemove(p, h) PROVE CacheInv'
  <2>1. View(p) => View(p)' BY <1>4, StartRemoveView
  <2> QED BY <1>1, <1>4, <2>1, Taking DEF StartRemove, Begin
<1>5. ASSUME NEW h \in Hash, StartRead(p, h) PROVE CacheInv' BY <1>5, LookKeeps
<1>6. ASSUME NEW h \in Hash, NEW auto \in BOOLEAN, StartVerify(p, h, auto) PROVE CacheInv'
  <2>1. View(p) => View(p)' BY <1>6, StartVerifyView
  <2> QED BY <1>1, <1>6, <2>1, Taking DEF StartVerify
<1>7. ASSUME NEW flag \in BOOLEAN, StartScrub(p, flag) PROVE CacheInv'
  <2>1. View(p) => View(p)' BY <1>7, StartScrubView
  <2> QED BY <1>1, <1>7, <2>1, Taking DEF StartScrub
<1>8. ASSUME NEW flag \in BOOLEAN, StartReconcile(p, flag) PROVE CacheInv'
  <2>1. View(p) => View(p)' BY <1>8, StartReconcileView
  <2> QED BY <1>1, <1>8, <2>1, Taking DEF StartReconcile
<1> QED BY <1>2, <1>3, <1>4, <1>5, <1>6, <1>7, <1>8 DEF Begins

\* They go on, or end, with the lock in hand, or without needing it.
LEMMA WorksKeep ==
  ASSUME CacheInv, NEW p \in Proc, Works(p) PROVE CacheInv'
<1>1. {"stage", "quota", "batch", "mark", "unlink", "drop", "settle", "commit", "record", "judge",
       "scrub", "repair"} = LockedPc
  BY DEF LockedPc, Pc
<1>2. CASE Stage(p)
  <2>1. View(p) => View(p)' BY <1>2, StageView
  <2>2. pc[p] \in LockedPc /\ (Finish(p) \/ \E l \in LockedPc : Goto(p, l))
    BY <1>1, <1>2 DEF Stage, At
  <2> QED BY <2>1, <2>2, Holding
<1>3. CASE EnforceQuota(p)
  <2>1. View(p) => View(p)' BY <1>3, EnforceQuotaView
  <2>2. pc[p] \in LockedPc /\ (Finish(p) \/ \E l \in LockedPc : Goto(p, l))
    BY <1>1, <1>3 DEF EnforceQuota, Admit, At
  <2> QED BY <2>1, <2>2, Holding
<1>4. CASE Commit(p)
  <2>1. View(p) => View(p)' BY <1>4, CommitView
  <2>2. pc[p] \in LockedPc /\ (Finish(p) \/ \E l \in LockedPc : Goto(p, l))
    BY <1>1, <1>4 DEF Commit, At
  <2> QED BY <2>1, <2>2, Holding
<1>5. CASE Record(p)
  <2>1. View(p) => View(p)' BY <1>5, RecordView
  <2>2. pc[p] \in LockedPc /\ Finish(p) BY <1>1, <1>5 DEF Record, At
  <2> QED BY <2>1, <2>2, Holding
<1>6. CASE EvictBatch(p)
  <2>1. View(p) => View(p)' BY <1>6, EvictBatchView
  <2>2. pc[p] \in LockedPc /\ \E l \in LockedPc : Goto(p, l)
    BY <1>1, <1>6 DEF EvictBatch, At
  <2> QED BY <2>1, <2>2, Holding
<1>7. CASE EvictMark(p)
  <2>1. View(p) => View(p)' BY <1>7, EvictMarkView
  <2>2. pc[p] \in LockedPc /\ \E l \in LockedPc : Goto(p, l)
    BY <1>1, <1>7 DEF EvictMark, At
  <2> QED BY <2>1, <2>2, Holding
<1>8. CASE EvictUnlink(p)
  <2>1. View(p) => View(p)' BY <1>8, EvictUnlinkView
  <2>2. pc[p] \in LockedPc /\ \E l \in LockedPc : Goto(p, l)
    BY <1>1, <1>8 DEF EvictUnlink, At
  <2> QED BY <2>1, <2>2, Holding
<1>9. CASE Drop(p)
  <2>1. View(p) => View(p)' BY <1>9, DropView
  <2>2. pc[p] \in LockedPc /\ (Finish(p) \/ \E l \in LockedPc : Goto(p, l))
    BY <1>1, <1>9 DEF Drop, At
  <2> QED BY <2>1, <2>2, Holding
<1>10. CASE EvictSettle(p)
  <2>1. View(p) => View(p)' BY <1>10, EvictSettleView
  <2>2. pc[p] \in LockedPc /\ (Finish(p) \/ \E l \in LockedPc : Goto(p, l))
    BY <1>1, <1>10 DEF EvictSettle, Admit, At
  <2> QED BY <2>1, <2>2, Holding
<1>11. ASSUME NEW deep \in BOOLEAN, Judge(p, deep) PROVE CacheInv'
  <2>1. View(p) => View(p)' BY <1>11, JudgeView
  <2>2. pc[p] \in LockedPc /\ Finish(p) BY <1>1, <1>11 DEF Judge, At
  <2> QED BY <2>1, <2>2, Holding
<1>12. CASE Scrub(p)
  <2>1. View(p) => View(p)' BY <1>12, ScrubView
  <2>2. pc[p] \in LockedPc /\ (Finish(p) \/ Leave(p) \/ \E l \in LockedPc : Goto(p, l))
    BY <1>1, <1>12 DEF Scrub, At
  <2> QED BY <2>1, <2>2, Holding
<1>13. CASE Repair(p)
  <2>1. View(p) => View(p)' BY <1>13, RepairView
  <2>2. pc[p] \in LockedPc /\ (Finish(p) \/ \E l \in LockedPc : Goto(p, l))
    BY <1>1, <1>13 DEF Repair, Discard, At
  <2> QED BY <2>1, <2>2, Holding
<1>14. CASE Audit(p)
  <2>1. View(p) => View(p)' BY <1>14, AuditView
  <2>2. pc[p] \in LockedPc /\ (Finish(p) \/ \E l \in LockedPc : Goto(p, l))
    BY <1>1, <1>14 DEF Audit, Discard, At
  <2> QED BY <2>1, <2>2, Holding
<1>15. CASE ReadExists(p) \/ ReadSize(p) \/ ReadOpen(p)
  BY <1>15, LookKeeps, CacheAssumption
<1> QED
  BY <1>2, <1>3, <1>4, <1>5, <1>6, <1>7, <1>8, <1>9, <1>10, <1>11, <1>12, <1>13, <1>14, <1>15
  DEF Works

LEMMA CacheStep ==
  CacheInv /\ [Next]_vars => CacheInv'
<1> SUFFICES ASSUME CacheInv, [Next]_vars PROVE CacheInv' OBVIOUS
<1>1. ASSUME NEW p \in Proc, Begins(p) \/ Works(p) \/ Crash(p) PROVE CacheInv'
  BY <1>1, BeginsKeep, WorksKeep, CrashKeeps
<1>2. CASE CleanTmp
  <2>1. staged # {} /\ staged \subseteq Proc BY <1>2 DEF CleanTmp, CacheInv, CacheTypeOK
  <2>2. PICK p \in Proc : TRUE BY <2>1
  <2>3. PICK h \in Hash : TRUE BY CacheAssumption
  <2> QED BY <1>2, LookKeeps
<1>3. ASSUME NEW h \in Hash, Damage(h) \/ Hold(h) \/ Release(h) PROVE CacheInv'
  BY <1>3, OutsideKeeps
<1>4. CASE UNCHANGED vars
  <2>1. UNCHANGED <<row, older, disk, busy, staged, lock, pc, arg, crashes, faults, scrubErr>>
    BY <1>4 DEF vars
  <2>2. CacheTypeOK BY DEF CacheInv
  <2>3. AccessOrder' BY <2>1, <2>2, OrderKept
  <2>4. staged' \subseteq Proc /\ pc' \in [Proc -> Pc] /\ arg' \in [Proc -> Arg]
    BY <2>1, <2>2 DEF CacheTypeOK
  <2> QED BY <2>1, <2>3, <2>4, Glance
<1> QED BY <1>1, <1>2, <1>3, <1>4 DEF Next

-----------------------------------------------------------------------------
(* Theorems *)

\* The inductive invariant holds in every state the processes that share a
\* cache directory can reach, whatever crashes and faults they meet.
THEOREM Invariance == Spec => []CacheInv
<1>1. Init => CacheInv BY CacheInit
<1>2. CacheInv /\ [Next]_vars => CacheInv' BY CacheStep
<1> QED BY <1>1, <1>2, PTL DEF Spec

\* Index, files, lock and operations keep their types, and the access order
\* (last_accessed_at) stays a strict total order of the rows.
THEOREM TypesKept == Spec => []CacheTypeOK
<1>1. CacheInv => CacheTypeOK BY DEF CacheInv
<1> QED BY <1>1, Invariance, PTL

\* enforce_quota: the rows never exceed max_cache_size_bytes, although the
\* quota is checked before the file is staged, renamed and recorded, and
\* whatever crashes, is held open or is damaged in between.
THEOREM QuotaHolds == Spec => []QuotaRespected
<1>1. CacheInv => QuotaRespected BY DEF CacheInv
<1> QED BY <1>1, Invariance, PTL

\* Without a crash no row is left "evicting" or "verifying" when the lock is
\* free: every failure path of evict_to_free, verify, verify_all and
\* reconcile puts it back or deletes it.
THEOREM RowsAlwaysSettled == Spec => []RowsSettled
<1>1. CacheInv => RowsSettled
  <2> SUFFICES ASSUME CacheInv, crashes = 0, lock = NoProc, NEW h \in Hash
               PROVE  row[h] \notin {"evicting", "verifying", "transferring"}
    BY DEF RowsSettled
  <2>1. \A p \in Proc : pc[p] \notin LockedPc BY CacheAssumption DEF CacheInv, LockInv
  <2>2. \A p \in Proc : pc[p] \notin {"unlink", "drop", "judge"} BY <2>1 DEF LockedPc, Pc
  <2> QED BY <2>2 DEF CacheInv, SettledInv, InHand
<1> QED BY <1>1, Invariance, PTL

\* Without crashes and damage every object file has a row and every row a file when the
\* lock is free, so that no bytes escape the quota.
THEOREM FilesAlwaysAccounted == Spec => []FilesAccounted
<1>1. CacheInv => FilesAccounted
  <2> SUFFICES ASSUME CacheInv, faults = 0, lock = NoProc PROVE Files = Rows
    BY DEF FilesAccounted
  <2>1. \A p \in Proc : pc[p] \notin LockedPc BY CacheAssumption DEF CacheInv, LockInv
  <2>2. \A p \in Proc : pc[p] \notin {"record", "drop"} BY <2>1 DEF LockedPc, Pc
  <2>3. \A h \in Hash : row[h] # "none" <=> disk[h] # "missing"
    BY <2>2 DEF CacheInv, AccountInv, InHand
  <2> QED BY <2>3 DEF Files, Rows
<1> QED BY <1>1, Invariance, PTL

\* verify_all is refused a transition by update_status only if some process
\* died between the rename and the row.
THEOREM ScrubFailsOnlyAfterCrash == Spec => []ScrubSound
<1>1. CacheInv => ScrubSound BY DEF CacheInv
<1> QED BY <1>1, Invariance, PTL

===============================================================================
