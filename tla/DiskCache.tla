------------------------------ MODULE DiskCache ------------------------------
(***************************************************************************)
(* The content-addressed disk cache (cache/*.py): objects on disk, one     *)
(* SQLite row per object, and processes that use both.  Operations that    *)
(* write take the cross-process file lock; reads and resolutions do not.   *)
(* Each step below is one durable effect (a row update, a rename, an       *)
(* unlink), so a crash may fall between any two of them and lock-free      *)
(* readers see every intermediate state.                                   *)
(***************************************************************************)
EXTENDS Naturals, Sequences, FiniteSets, SequencesExt

CONSTANTS
  Hash,        \* content hashes of the objects
  SizeOf,      \* [Hash -> Nat]: bytes of the object with that hash
  Quota,       \* max_cache_size_bytes; 0 is "no quota"
  Proc,        \* processes sharing the cache directory
  NoProc,      \* nobody holds the lock
  Lockable,    \* objects that other programs open now and then
  FaultBound   \* bound: crashes, damaged files

ASSUME CacheAssumption ==
  /\ SizeOf \in [Hash -> Nat \ {0}]
  /\ Quota \in Nat /\ FaultBound \in Nat
  /\ Lockable \subseteq Hash
  /\ NoProc \notin Proc /\ IsFiniteSet(Hash) /\ Hash # {}

\* CacheState, and "none" for a hash without a row.
RowState == {"none", "absent", "transferring", "verifying", "valid",
             "corrupted", "evicting"}

\* What an object file holds: the content its name promises, fewer or more
\* bytes, or other bytes of the same length.
FileState == {"missing", "good", "resized", "altered"}

VARIABLES
  row,      \* state column of the index
  older,    \* <<g, h>>: the row of g was accessed less recently than that of h
  disk,     \* object files
  busy,     \* objects some other program holds open (unlink is refused)
  staged,   \* processes with a staging file in tmp/
  lock,     \* owner of cache.lock
  pc,       \* what each process is doing
  arg,      \* its operation's arguments and loop variables
  crashes,  \* how many processes crashed (observation)
  faults,   \* faults injected so far (observation)
  scrubErr  \* has a verify_all() call ended with an exception? (observation)

store == <<row, older, disk>>
vars  == <<row, older, disk, busy, staged, lock, pc, arg, crashes, faults,
           scrubErr>>

Pc == {"idle", "stage", "quota", "batch", "mark", "unlink", "drop",
       "settle", "commit", "record", "judge", "scrub", "repair",
       "exists", "size", "open"}
Op == {"none", "bytes", "file", "stream", "evict", "verify", "scrub", "reconcile",
       "remove", "read"}
Item == Hash \cup ({"dangling", "orphan", "audit"} \X Hash)

\* op: the operation; h: its object; todo: what its loop has still to visit;
\* target, freed, gained: the eviction loop; kept: state of the row it is
\* evicting; fix: auto_evict.
NoArg == [op |-> "none", h |-> CHOOSE h \in Hash : TRUE, todo |-> <<>>,
          target |-> 0, freed |-> 0, gained |-> FALSE, kept |-> "none",
          fix |-> FALSE]

Arg == [op : Op, h : Hash, todo : Seq(Item), target : Nat, freed : Nat,
        gained : BOOLEAN, kept : RowState, fix : BOOLEAN]

\* The access order is a strict total order of the hashes that have a row.
AccessOrder ==
  /\ \A e \in older : e \in Hash \X Hash /\ row[e[1]] # "none" /\ row[e[2]] # "none"
  /\ \A g, h \in Hash : row[g] # "none" /\ row[h] # "none" =>
       /\ <<g, h>> \in older <=> g # h /\ <<h, g>> \notin older
       /\ \A i \in Hash : <<g, h>> \in older /\ <<h, i>> \in older => <<g, i>> \in older

CacheTypeOK ==
  /\ row \in [Hash -> RowState] /\ disk \in [Hash -> FileState]
  /\ AccessOrder
  /\ busy \subseteq Hash /\ staged \subseteq Proc
  /\ lock \in Proc \cup {NoProc} /\ pc \in [Proc -> Pc]
  /\ arg \in [Proc -> Arg]
  /\ crashes \in 0 .. FaultBound /\ faults \in 0 .. FaultBound
  /\ scrubErr \in BOOLEAN

Init ==
  /\ row = [h \in Hash |-> "none"] /\ older = {}
  /\ disk = [h \in Hash |-> "missing"] /\ busy = {} /\ staged = {}
  /\ lock = NoProc
  /\ pc = [p \in Proc |-> "idle"] /\ arg = [p \in Proc |-> NoArg]
  /\ crashes = 0 /\ faults = 0 /\ scrubErr = FALSE

-----------------------------------------------------------------------------
(* The index *)

Rows == {h \in Hash : row[h] # "none"}
Files == {h \in Hash : disk[h] # "missing"}

\* The bytes of the objects in S, one by one, and SUM(size_bytes).
Bytes(S) == UNION {{h} \X (1 .. SizeOf[h]) : h \in S}
TotalSize == Cardinality(Bytes(Rows))

\* update_status accepts these transitions, and staying put.
Allowed == [absent       |-> {"transferring", "verifying"},
            transferring |-> {"verifying", "absent"},
            verifying    |-> {"valid", "corrupted", "absent"},
            valid        |-> {"evicting", "corrupted", "absent", "verifying"},
            corrupted    |-> {"absent", "verifying"},
            evicting     |-> {"absent", "valid"}]
MayBecome(h, s) == row[h] = s \/ s \in Allowed[row[h]]

\* The access order without h, and with h as the most recently accessed.
Without(h) == {e \in older : e[1] # h /\ e[2] # h}
Youngest(h) == Without(h) \cup ((Rows \ {h}) \X {h})
Touched(h) == IF row[h] = "none" THEN older ELSE Youngest(h)

\* get_lru_candidates: the rows, oldest first.
Candidates ==
  {s \in SetToSeqs(Rows) : \A i, j \in DOMAIN s : i < j => <<s[i], s[j]>> \in older}

\* is_cache_valid: a valid row and a file of the recorded size.
CacheValid(h) == row[h] = "valid" /\ disk[h] \in {"good", "altered"}

-----------------------------------------------------------------------------
(* Control *)

At(p, l) == pc[p] = l
Observed == <<busy, crashes, faults>>

\* Take cache.lock and begin; a lock that times out changes nothing.
Begin(p, op, h, l) ==
  /\ At(p, "idle") /\ lock = NoProc
  /\ lock' = p
  /\ pc' = [pc EXCEPT ![p] = l]
  /\ arg' = [arg EXCEPT ![p] = [NoArg EXCEPT !.op = op, !.h = h]]
  /\ UNCHANGED <<Observed, scrubErr>>

Goto(p, l) ==
  /\ pc' = [pc EXCEPT ![p] = l]
  /\ UNCHANGED <<lock, Observed, scrubErr>>

\* Return or raise: the lock is released and the staging file unlinked.
Leave(p) ==
  /\ pc' = [pc EXCEPT ![p] = "idle"] /\ arg' = [arg EXCEPT ![p] = NoArg]
  /\ lock' = IF lock = p THEN NoProc ELSE lock
  /\ staged' = staged \ {p}
  /\ UNCHANGED Observed
Finish(p) == Leave(p) /\ UNCHANGED scrubErr

SetRow(h, s) == row' = [row EXCEPT ![h] = s] /\ UNCHANGED older
\* mutant: the row's place in the access order survives it
DropRowOnly(h) == row' = [row EXCEPT ![h] = "none"] /\ UNCHANGED older
DropRow(h) == row' = [row EXCEPT ![h] = "none"] /\ older' = Without(h)
Touch(h) == older' = Touched(h) /\ UNCHANGED <<row, disk>>
Unlinked(h) == [disk EXCEPT ![h] = "missing"]

-----------------------------------------------------------------------------
(* put_bytes, put_file and put_stream *)

\* An object that is already valid is only touched.
Duplicate(p, h) ==
  /\ At(p, "idle") /\ lock = NoProc /\ CacheValid(h) /\ Touch(h)
  /\ UNCHANGED <<busy, staged, lock, pc, arg, crashes, faults, scrubErr>>

StartPutBytes(p, h) ==
  \/ Duplicate(p, h)
  \/ ~CacheValid(h) /\ Begin(p, "bytes", h, "quota") /\ UNCHANGED <<store, staged>>

\* Without an expected hash a duplicate is noticed only after staging.
StartPutFile(p, h) ==
  \/ Duplicate(p, h)
  \/ Begin(p, "file", h, "stage") /\ UNCHANGED <<store, staged>>
StartPutStream(p, h) ==
  \/ Duplicate(p, h)
  \/ Begin(p, "stream", h, "stage") /\ UNCHANGED <<store, staged>>

\* write_stream up to the validation of hash and size.
Stage(p) ==
  /\ At(p, "stage")
  /\ \/ /\ staged' = staged \cup {p}
        /\ Goto(p, IF arg[p].op = "bytes" THEN "commit" ELSE "quota")
        /\ UNCHANGED <<store, arg>>
     \/ Finish(p) /\ UNCHANGED store

\* mutant: only the new object is compared with the quota
FitsAlone(h) == Quota = 0 \/ SizeOf[h] <= Quota
Fits(h) == Quota = 0 \/ TotalSize + SizeOf[h] <= Quota
Admit(p) == Goto(p, IF arg[p].op = "bytes" THEN "stage" ELSE "commit")

\* on_validated and enforce_quota up to the eviction loop.
EnforceQuota(p) ==
  LET h == arg[p].h IN
  /\ At(p, "quota")
  /\ \/ arg[p].op # "bytes" /\ CacheValid(h) /\ Touch(h) /\ Finish(p)
     \/ /\ arg[p].op = "bytes" \/ ~CacheValid(h)
        /\ UNCHANGED store
        /\ \/ Fits(h) /\ Admit(p) /\ UNCHANGED <<arg, staged>>
           \/ ~Fits(h) /\ SizeOf[h] > Quota /\ Finish(p)
           \/ /\ ~Fits(h) /\ SizeOf[h] <= Quota
              /\ arg' = [arg EXCEPT ![p].target = TotalSize + SizeOf[h] - Quota]
              /\ Goto(p, "batch") /\ UNCHANGED staged

\* os.replace moves the staging file over the object, if it is still there.
Commit(p) ==
  /\ At(p, "commit")
  /\ \/ /\ p \in staged /\ staged' = staged \ {p}
        /\ disk' = [disk EXCEPT ![arg[p].h] = "good"]
        /\ Goto(p, "record") /\ UNCHANGED <<row, older, arg>>
     \/ p \notin staged /\ Finish(p) /\ UNCHANGED store

\* mutant: ON CONFLICT does not update the state column
RecordKeepingState(p) ==
  LET h == arg[p].h IN
  /\ At(p, "record")
  /\ row' = [row EXCEPT ![h] = IF @ = "none" THEN "valid" ELSE @]
  /\ older' = Youngest(h)
  /\ Finish(p) /\ UNCHANGED disk
Record(p) ==
  LET h == arg[p].h IN
  /\ At(p, "record")
  /\ row' = [row EXCEPT ![h] = "valid"]
  /\ older' = Youngest(h)
  /\ Finish(p) /\ UNCHANGED disk

-----------------------------------------------------------------------------
(* evict_to_free, from enforce_quota and from evict_lru *)

StartEvict(p, n) ==
  /\ At(p, "idle") /\ lock = NoProc /\ lock' = p
  /\ pc' = [pc EXCEPT ![p] = "batch"]
  /\ arg' = [arg EXCEPT ![p] = [NoArg EXCEPT !.op = "evict", !.target = n]]
  /\ UNCHANGED <<store, staged, Observed, scrubErr>>

\* One batch of candidates, oldest first (the batch size exceeds any small
\* cache); none left ends the loop.
EvictBatch(p) ==
  LET enough == arg[p].freed >= arg[p].target \/ Rows = {} IN
  /\ At(p, "batch")
  /\ Goto(p, IF enough THEN "settle" ELSE "mark")
  /\ \E todo \in IF enough THEN {<<>>} ELSE Candidates :
       arg' = [arg EXCEPT ![p].todo = todo, ![p].gained = FALSE]
  /\ UNCHANGED <<store, staged>>

BatchOver(p) == arg[p].todo = <<>> \/ arg[p].freed >= arg[p].target

\* A batch that freed nothing ends the loop.
\* mutant: the loop has no such test
NeverGiveUp(p) == FALSE
GiveUp(p) == ~arg[p].gained

\* A row that may not become "evicting" is skipped.
EvictMark(p) ==
  /\ At(p, "mark") /\ UNCHANGED <<disk, staged>>
  /\ \/ /\ BatchOver(p) /\ UNCHANGED <<row, older, arg>>
        /\ Goto(p, IF GiveUp(p) THEN "settle" ELSE "batch")
     \/ LET h == Head(arg[p].todo) IN
        /\ ~BatchOver(p)
        /\ \/ /\ MayBecome(h, "evicting") /\ SetRow(h, "evicting")
              /\ arg' = [arg EXCEPT ![p].kept = row[h]]
              /\ Goto(p, "unlink")
           \/ /\ ~MayBecome(h, "evicting") /\ UNCHANGED <<row, older>>
              /\ arg' = [arg EXCEPT ![p].todo = Tail(@)]
              /\ Goto(p, "mark")

\* mutant: the row of a file held open stays "evicting"
NotRestored(p) == "evicting"
Restored(p) == arg[p].kept

\* A file held open cannot be unlinked: its row goes back to what it was
\* and to the young end of the queue.
EvictUnlink(p) ==
  LET h == Head(arg[p].todo) IN
  /\ At(p, "unlink") /\ UNCHANGED staged
  /\ \/ /\ h \in busy /\ disk[h] # "missing"
        /\ row' = [row EXCEPT ![h] = Restored(p)]
        /\ older' = Touched(h) /\ UNCHANGED disk
        /\ arg' = [arg EXCEPT ![p].todo = Tail(@), ![p].kept = "none"]
        /\ Goto(p, "mark")
     \/ /\ h \notin busy \/ disk[h] = "missing"
        /\ disk' = Unlinked(h) /\ UNCHANGED <<row, older, arg>>
        /\ Goto(p, "drop")

\* The row of an evicted or removed object is deleted last.
Drop(p) ==
  /\ At(p, "drop") /\ UNCHANGED disk
  /\ \/ /\ arg[p].op = "remove" /\ DropRow(arg[p].h) /\ Finish(p)
     \/ LET h == Head(arg[p].todo) IN
        /\ arg[p].op # "remove" /\ DropRow(h)
        /\ arg' = [arg EXCEPT ![p].todo = Tail(@), ![p].kept = "none",
                              ![p].gained = TRUE, ![p].freed = @ + SizeOf[h]]
        /\ Goto(p, "mark") /\ UNCHANGED staged

\* enforce_quota raises when the loop did not free enough.
EvictSettle(p) ==
  /\ At(p, "settle") /\ UNCHANGED store
  /\ \/ arg[p].op = "evict" /\ Finish(p)
     \/ arg[p].op # "evict" /\ ~Fits(arg[p].h) /\ Finish(p)
     \/ /\ arg[p].op # "evict" /\ Fits(arg[p].h)
        /\ Admit(p) /\ UNCHANGED <<arg, staged>>

\* remove(): a file held open raises before anything changed.
\* mutant: "storage.delete(h) or index.remove(h)" stops at the first success
StartRemoveShort(p, h) ==
  /\ h \notin busy /\ disk[h] # "missing"
  /\ At(p, "idle") /\ lock = NoProc /\ disk' = Unlinked(h)
  /\ UNCHANGED <<row, older, busy, staged, lock, pc, arg, crashes, faults, scrubErr>>
StartRemove(p, h) ==
  /\ h \notin busy \/ disk[h] = "missing"
  /\ Begin(p, "remove", h, "drop")
  /\ disk' = Unlinked(h) /\ UNCHANGED <<row, older, staged>>

-----------------------------------------------------------------------------
(* verify, verify_all and reconcile *)

\* What checking an object finds: deep also hashes the content.
Check(h, deep) ==
  CASE disk[h] = "missing" -> "absent"
    [] disk[h] = "resized" \/ (deep /\ disk[h] = "altered") -> "corrupted"
    [] OTHER -> "valid"

\* auto_evict: drop the row of a bad object and try to unlink its file.
Purge(h) ==
  /\ DropRow(h)
  /\ disk' = IF h \in busy THEN disk ELSE Unlinked(h)

\* A row that may not become "verifying" raises and nothing changes.
StartVerify(p, h, auto) ==
  /\ row[h] # "none" /\ MayBecome(h, "verifying")
  /\ At(p, "idle") /\ lock = NoProc /\ lock' = p
  /\ pc' = [pc EXCEPT ![p] = "judge"]
  /\ arg' = [arg EXCEPT ![p] =
               [NoArg EXCEPT !.op = "verify", !.h = h, !.fix = auto]]
  /\ SetRow(h, "verifying")
  /\ UNCHANGED <<disk, staged, Observed, scrubErr>>

Judge(p, deep) ==
  LET h == arg[p].h  found == Check(arg[p].h, deep) IN
  /\ At(p, "judge") /\ arg[p].op = "verify"
  /\ IF arg[p].fix /\ found # "valid" THEN Purge(h)
     ELSE SetRow(h, found) /\ UNCHANGED disk
  /\ Finish(p)

\* verify_all and reconcile visit a snapshot of the rows.
StartScrub(p, auto) ==
  \E todo \in SetToSeqs(Rows) :
    /\ At(p, "idle") /\ lock = NoProc /\ lock' = p
    /\ pc' = [pc EXCEPT ![p] = "scrub"]
    /\ arg' = [arg EXCEPT ![p] =
                 [NoArg EXCEPT !.op = "scrub", !.todo = todo, !.fix = auto]]
    /\ UNCHANGED <<store, staged, Observed, scrubErr>>

\* One object of verify_all; update_status may refuse and end the scan.
Scrub(p) ==
  /\ At(p, "scrub")
  /\ \/ arg[p].todo = <<>> /\ Finish(p) /\ UNCHANGED store
     \/ LET h == Head(arg[p].todo)  found == Check(Head(arg[p].todo), TRUE)
            next == arg' = [arg EXCEPT ![p].todo = Tail(@)] IN
        /\ arg[p].todo # <<>>
        /\ \/ /\ arg[p].fix /\ found # "valid" /\ Purge(h)
              /\ next /\ Goto(p, "scrub") /\ UNCHANGED staged
           \/ /\ ~arg[p].fix \/ found = "valid"
              /\ UNCHANGED disk
              /\ IF MayBecome(h, found)
                 THEN SetRow(h, found) /\ next /\ Goto(p, "scrub")
                      /\ UNCHANGED staged
                 ELSE scrubErr' = TRUE /\ Leave(p) /\ UNCHANGED <<row, older>>

StartReconcile(p, deep) ==
  \E dangling \in SetToSeqs({"dangling"} \X (Rows \ Files)),
     orphans \in SetToSeqs({"orphan"} \X (Files \ Rows)),
     audits \in SetToSeqs({"audit"} \X (IF deep THEN Rows \cap Files ELSE {})) :
    /\ At(p, "idle") /\ lock = NoProc /\ lock' = p
    /\ pc' = [pc EXCEPT ![p] = "repair"]
    /\ arg' = [arg EXCEPT ![p] = [NoArg EXCEPT !.op = "reconcile",
                                  !.todo = dangling \o orphans \o audits]]
    /\ UNCHANGED <<store, staged, Observed, scrubErr>>

\* Unlinking a file held open raises out of reconcile.
Discard(p, h) ==
  \/ /\ h \in busy /\ disk[h] # "missing" /\ UNCHANGED disk /\ Finish(p)
  \/ /\ h \notin busy \/ disk[h] = "missing"
     /\ disk' = Unlinked(h) /\ UNCHANGED staged
     /\ arg' = [arg EXCEPT ![p].todo = Tail(@)]
     /\ Goto(p, "repair")

Repair(p) ==
  /\ At(p, "repair")
  /\ \/ arg[p].todo = <<>> /\ Finish(p) /\ UNCHANGED store
     \/ LET kind == Head(arg[p].todo)[1]  h == Head(arg[p].todo)[2] IN
        /\ arg[p].todo # <<>>
        /\ \/ /\ kind = "dangling" /\ DropRow(h)
              /\ arg' = [arg EXCEPT ![p].todo = Tail(@)]
              /\ Goto(p, "repair") /\ UNCHANGED <<disk, staged>>
           \/ kind = "orphan" /\ Discard(p, h) /\ UNCHANGED <<row, older>>
           \/ kind = "audit" /\ disk[h] = "missing" /\ Finish(p) /\ UNCHANGED store
           \/ /\ kind = "audit" /\ disk[h] # "missing"
              /\ disk[h] = "resized" \/ ~MayBecome(h, "verifying")
              /\ DropRow(h) /\ Discard(p, h)
           \/ /\ kind = "audit" /\ disk[h] \in {"good", "altered"}
              /\ MayBecome(h, "verifying") /\ SetRow(h, "verifying")
              /\ Goto(p, "judge") /\ UNCHANGED <<disk, staged, arg>>

\* reconcile drops what the deep verification rejects.
Audit(p) ==
  LET h == Head(arg[p].todo)[2]  found == Check(Head(arg[p].todo)[2], TRUE) IN
  /\ At(p, "judge") /\ arg[p].op = "reconcile"
  /\ \/ /\ found = "valid" /\ SetRow(h, "valid")
        /\ arg' = [arg EXCEPT ![p].todo = Tail(@)]
        /\ Goto(p, "repair") /\ UNCHANGED <<disk, staged>>
     \/ found # "valid" /\ DropRow(h) /\ Discard(p, h)

-----------------------------------------------------------------------------
(* Lock-free reads: get_path, get_stream, get_bytes *)

\* Reading a hash without a valid row returns None at once.
StartRead(p, h) ==
  /\ At(p, "idle") /\ row[h] = "valid"
  /\ arg' = [arg EXCEPT ![p] = [NoArg EXCEPT !.op = "read", !.h = h]]
  /\ Goto(p, "exists") /\ UNCHANGED <<store, staged>>

\* exists, get_size and open are separate looks at the disk.
ReadExists(p) ==
  /\ At(p, "exists") /\ UNCHANGED store
  /\ \/ disk[arg[p].h] # "missing" /\ Goto(p, "size") /\ UNCHANGED <<arg, staged>>
     \/ disk[arg[p].h] = "missing" /\ Finish(p)

ReadSize(p) ==
  LET h == arg[p].h IN
  /\ At(p, "size")
  /\ \/ /\ disk[h] \in {"good", "altered"} /\ Touch(h)
        /\ Goto(p, "open") /\ UNCHANGED <<arg, staged>>
     \/ disk[h] \in {"missing", "resized"} /\ Finish(p) /\ UNCHANGED store

\* An object unlinked in the meantime raises instead of returning None.
ReadOpen(p) == At(p, "open") /\ Finish(p) /\ UNCHANGED store

\* clean_tmp with no minimum age takes the staging files of live writers.
CleanTmp ==
  /\ staged # {} /\ staged' = {}
  /\ UNCHANGED <<store, busy, lock, pc, arg, crashes, faults, scrubErr>>

-----------------------------------------------------------------------------
(* The environment *)

Fault == faults < FaultBound /\ faults' = faults + 1

\* A process dies; the operating system releases its lock.
Crash(p) ==
  /\ Fault /\ ~At(p, "idle") /\ crashes' = crashes + 1
  /\ pc' = [pc EXCEPT ![p] = "idle"] /\ arg' = [arg EXCEPT ![p] = NoArg]
  /\ lock' = IF lock = p THEN NoProc ELSE lock
  /\ staged' = staged \ {p}
  /\ UNCHANGED <<store, busy, scrubErr>>

\* Files are truncated, altered or deleted from outside.
Damage(h) ==
  /\ Fault /\ disk[h] = "good"
  /\ \E f \in FileState \ {"good"} : disk' = [disk EXCEPT ![h] = f]
  /\ UNCHANGED <<row, older, busy, staged, lock, pc, arg, crashes, scrubErr>>

\* Another program opens or closes an object.
Hold(h) ==
  /\ h \in Lockable \ busy /\ disk[h] # "missing"
  /\ busy' = busy \cup {h}
  /\ UNCHANGED <<store, staged, lock, pc, arg, crashes, faults, scrubErr>>
Release(h) ==
  /\ h \in busy /\ busy' = busy \ {h}
  /\ UNCHANGED <<store, staged, lock, pc, arg, crashes, faults, scrubErr>>

-----------------------------------------------------------------------------
Begins(p) ==
  \/ \E h \in Hash :
       StartPutBytes(p, h) \/ StartPutFile(p, h) \/ StartPutStream(p, h)
  \/ \E n \in {SizeOf[h] : h \in Hash} : StartEvict(p, n)
  \/ \E h \in Hash : StartRemove(p, h) \/ StartRead(p, h)
  \/ \E h \in Hash, auto \in BOOLEAN : StartVerify(p, h, auto)
  \/ \E flag \in BOOLEAN : StartScrub(p, flag) \/ StartReconcile(p, flag)

Works(p) ==
  \/ Stage(p) \/ EnforceQuota(p) \/ Commit(p) \/ Record(p)
  \/ EvictBatch(p) \/ EvictMark(p) \/ EvictUnlink(p) \/ Drop(p)
  \/ EvictSettle(p)
  \/ \E deep \in BOOLEAN : Judge(p, deep)
  \/ Scrub(p) \/ Repair(p) \/ Audit(p)
  \/ ReadExists(p) \/ ReadSize(p) \/ ReadOpen(p)

Next ==
  \/ \E p \in Proc : Begins(p) \/ Works(p) \/ Crash(p)
  \/ CleanTmp
  \/ \E h \in Hash : Damage(h) \/ Hold(h) \/ Release(h)

\* A process that runs keeps running until it returns, raises or dies.
Spec == Init /\ [][Next]_vars /\ \A p \in Proc : WF_vars(Works(p))

-----------------------------------------------------------------------------
(* Properties *)

\* The rows never add up to more than the quota, whatever raced, failed or
\* crashed between enforce_quota and the insertion of the row.
QuotaRespected == Quota = 0 \/ TotalSize <= Quota

\* Rows are "evicting" or "verifying" only while somebody holds the lock,
\* unless a process died: every failure path of eviction and verification
\* puts the row back into a state that get_path and put understand.
RowsSettled ==
  crashes = 0 /\ lock = NoProc =>
    \A h \in Hash : row[h] \notin {"evicting", "verifying", "transferring"}

\* No file escapes the quota: without crashes and damage, an object file
\* without a row exists only while a process holds the lock, although files
\* held open refuse to be unlinked.
FilesAccounted ==
  faults = 0 /\ lock = NoProc => Files = Rows

\* verify_all() fails on a forbidden state transition only after a crash:
\* between the rename and the row, put() leaves a good file under a row
\* that says "absent" or "corrupted".
ScrubSound == scrubErr => crashes > 0

\* Every operation returns: the eviction loop gives up on files that stay
\* locked instead of trying them for ever, and the lock is always released.
OpsReturn == \A p \in Proc : ~At(p, "idle") ~> At(p, "idle")
=============================================================================
