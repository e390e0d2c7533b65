---------------------------- MODULE AssetTransfer ----------------------------
(***************************************************************************)
(* Moving an asset from one worker's store to another: the peer that       *)
(* serves ranges of it (server.py), the requester that stages, verifies    *)
(* and commits it (transfer.py, cas_adapter.py), the failover between      *)
(* peers and the batch operations of the client.  A content is a sequence  *)
(* of bytes and its SHA-256 digest is the content itself: no collisions.   *)
(***************************************************************************)
EXTENDS Integers, Sequences, FiniteSets, SequencesExt, FiniteSetsExt, Trial

CONSTANTS
  Byte,      \* values of a byte
  MaxLen,    \* bound: longest content
  ChunkSize, \* bytes read at a time
  NoFile     \* no file, or no digest

Content == UNION {[1 .. n -> Byte] : n \in 0 .. MaxLen}

ASSUME TransferAssumption ==
  /\ Byte # {} /\ MaxLen \in Nat \ {0} /\ ChunkSize \in Nat \ {0}
  /\ NoFile \notin Content

Sha256(content) == content

-----------------------------------------------------------------------------
(* The local store: a file, or none, for each digest *)

HasAsset(cas, h) == cas[h] # NoFile
GetMissingHashes(cas, required) == {h \in required : ~HasAsset(cas, h)}
GetAssetSize(cas, h) == IF HasAsset(cas, h) THEN Len(cas[h]) ELSE 0
OpenAssetStream(cas, h, offset) == SubSeq(cas[h], offset + 1, Len(cas[h]))
DeleteAsset(cas, h) == [cas EXCEPT ![h] = NoFile]

Refused(cas) == [ok |-> FALSE, cas |-> cas]
\* mutant: the staged file is trusted
CommitUnread(cas, file, h, full) ==
  IF HasAsset(cas, h) THEN [ok |-> TRUE, cas |-> cas]
  ELSE IF full THEN Refused(cas)
  ELSE [ok |-> TRUE, cas |-> [cas EXCEPT ![h] = file]]
\* The staged file is read again; a file that is there already is kept.  full:
\* the rename fails.
CommitStagedFile(cas, file, h, full) ==
  IF Sha256(file) # h THEN Refused(cas)
  ELSE IF HasAsset(cas, h) THEN [ok |-> TRUE, cas |-> cas]
  ELSE IF full THEN Refused(cas)
  ELSE [ok |-> TRUE, cas |-> [cas EXCEPT ![h] = file]]

StoreBytes(cas, data, full) == CommitStagedFile(cas, data, Sha256(data), full)
\* expected is a digest or NoFile, if the caller has none.
StoreFile(cas, file, expected, full) ==
  IF expected # NoFile /\ Sha256(file) # expected THEN Refused(cas)
  ELSE CommitStagedFile(cas, file, IF expected = NoFile THEN Sha256(file) ELSE expected, full)

-----------------------------------------------------------------------------
(* The serving worker *)

Open == -1
WholeBody == [kind |-> "none", from |-> 0, to |-> Open]
From(n) == [kind |-> "bytes", from |-> n, to |-> Open]

Slice(start, length, partial) ==
  [error |-> "no", start |-> start, length |-> length, partial |-> partial]
Unparsed(error) == [error |-> error, start |-> 0, length |-> 0, partial |-> FALSE]
Satisfiable(range, size) ==
  IF size = 0 THEN range.from = 0
  ELSE range.from < size /\ (range.to = Open \/ range.to >= range.from)
\* mutant: the end of a range is taken as exclusive
LastExclusive(range, size) ==
  IF range.to = Open THEN size - 1 ELSE Min({range.to, size}) - 1
LastByte(range, size) ==
  IF range.to = Open THEN size - 1 ELSE Min({range.to, size - 1})

ParseByteRangeHeader(range, size) ==
  CASE range.kind = "none" -> Slice(0, size, FALSE)
    [] range.kind = "malformed" -> Unparsed("syntax")
    [] range.kind = "bytes" ->
         IF ~Satisfiable(range, size) THEN Unparsed("range")
         ELSE IF size = 0 THEN Slice(0, 0, TRUE)
         ELSE Slice(range.from, LastByte(range, size) - range.from + 1, TRUE)

\* What is sent chunk by chunk: count bytes, or what the stream has.
GenerateBoundedChunks(stream, count) ==
  LET sent[remaining \in 0 .. count] ==
        LET at == count - remaining
            n == Min({ChunkSize, remaining, Len(stream) - at})
        IN IF n <= 0 THEN <<>>
           ELSE SubSeq(stream, at + 1, at + n) \o sent[remaining - n]
  IN sent[count]

Reply(status, length, body) == [status |-> status, length |-> length, body |-> body]
ReplyWith(stream, slice) ==
  Reply(IF slice.partial THEN 206 ELSE 200, slice.length,
        GenerateBoundedChunks(stream, slice.length))
\* A range that does not parse is ignored; one out of bounds is refused.
ServeSlice(cas, h, parsed) ==
  CASE parsed.error = "range" -> Reply(416, 0, <<>>)
    [] parsed.error = "syntax" ->
         ReplyWith(OpenAssetStream(cas, h, 0), Slice(0, GetAssetSize(cas, h), FALSE))
    [] parsed.error = "no" -> ReplyWith(OpenAssetStream(cas, h, parsed.start), parsed)
StreamAsset(cas, h, range) ==
  IF ~HasAsset(cas, h) THEN Reply(404, 0, <<>>)
  ELSE ServeSlice(cas, h, ParseByteRangeHeader(range, GetAssetSize(cas, h)))

\* The answer to an upload, and the store after it.
Answer(status, cas) == [status |-> status, cas |-> cas]
UploadAsset(cas, h, body, full) ==
  IF HasAsset(cas, h) THEN Answer("exists", cas)
  ELSE IF Sha256(body) # h THEN Answer("mismatch", cas)
  ELSE Answer("stored", CommitStagedFile(cas, body, h, full).cas)

-----------------------------------------------------------------------------
(* The requesting worker.  A peer is what it has under the digest and what *)
(* happens on the way: it ignores ranges (plain), the last bytes are lost  *)
(* (cut), or it cannot be reached (down).                                  *)

Request(peer, h, range) ==
  IF peer.down THEN Reply(0, 0, <<>>)
  ELSE LET r == StreamAsset([x \in {h} |-> peer.file], h, IF peer.plain THEN WholeBody ELSE range)
       IN [r EXCEPT !.body = SubSeq(@, 1, Len(@) - peer.cut)]

Failed == [ok |-> FALSE, file |-> NoFile, bytes |-> 0]
\* Download to a staging file, after the bytes of an earlier part of it.  The
\* digest is compared when the file is the whole asset as far as is known.
StageReply(reply, h, offset, part) ==
  LET resumed == offset > 0 /\ part # NoFile /\ Len(part) = offset /\ reply.status = 206
      file == IF resumed THEN part \o reply.body ELSE reply.body
      whole == offset = 0 \/ resumed \/ reply.status = 200
  IN IF \/ reply.status \notin {200, 206}
        \/ Len(reply.body) # reply.length
        \/ whole /\ Sha256(file) # h
     THEN Failed ELSE [ok |-> TRUE, file |-> file, bytes |-> Len(reply.body)]
DownloadStreamToStaging(peer, h, offset, part) ==
  StageReply(Request(peer, h, IF offset > 0 THEN From(offset) ELSE WholeBody), h, offset, part)

Transferred(ok, cas, bytes) == [ok |-> ok, cas |-> cas, bytes |-> bytes]
CommitTransfer(cas, h, staged, full) ==
  LET commit == CommitStagedFile(cas, staged.file, h, full)
  IN IF staged.ok /\ commit.ok THEN Transferred(TRUE, commit.cas, staged.bytes)
     ELSE Transferred(FALSE, cas, 0)
TransferAssetFromCandidate(cas, h, peer, full) ==
  IF HasAsset(cas, h) THEN Transferred(TRUE, cas, 0)
  ELSE CommitTransfer(cas, h, DownloadStreamToStaging(peer, h, 0, NoFile), full)

\* The first candidate that succeeds; one that fails leaves the store alone.
TransferAssetWithFailover(cas, h, peers, full) ==
  LET result == [i \in DOMAIN peers |-> TransferAssetFromCandidate(cas, h, peers[i], full)]
      served == {i \in DOMAIN peers : result[i].ok}
  IN IF HasAsset(cas, h) THEN Transferred(TRUE, cas, 0)
     ELSE IF served = {} THEN Transferred(FALSE, cas, 0)
     ELSE result[Min(served)]

\* Transfers of different digests do not meet.
DownloadMissingAssets(cas, locations, full) ==
  [h \in DOMAIN locations |-> TransferAssetWithFailover(cas, h, locations[h], full)]

\* What is there counts as transferred; what nobody has, as failed.
\* locations: the candidates the coordinator has for each digest.
SyncAssets(cas, required, locations, full) ==
  LET missing == GetMissingHashes(cas, required)
      found == {h \in missing : locations[h] # <<>>}
      got == DownloadMissingAssets(cas, [h \in found |-> locations[h]], full)
  IN [results |-> [h \in required |-> IF h \in found THEN got[h]
                                      ELSE Transferred(h \notin missing, cas, 0)],
      cas |-> [h \in DOMAIN cas |-> IF h \in found THEN got[h].cas[h] ELSE cas[h]]]

\* The digests whose bytes were found at some location, and saved.
PullJobArtifacts(outputs, locations) ==
  {h \in outputs : \E i \in DOMAIN locations[h] :
     LET reply == Request(locations[h][i], h, WholeBody)
     IN reply.status = 200 /\ Sha256(reply.body) = h}

-----------------------------------------------------------------------------
(* Hit and miss accounting (HitMissResolver) *)

\* Records of the same digest: the largest size counts.
ExtractPlanAssets(records) ==
  [h \in {r.sha256 : r \in records} |-> Max({r.size : r \in {x \in records : x.sha256 = h}})]
ResolveHashes(required, cached, sizes) ==
  LET hits == required \cap cached
      misses == required \ cached
      Bytes(S) == MapThenSumSet(LAMBDA h : sizes[h], S)
  IN [hits |-> hits, misses |-> misses, hitBytes |-> Bytes(hits), missBytes |-> Bytes(misses)]
\* Sizes the plan does not know are taken from the cache index.
ResolvePlan(records, cached, index) ==
  LET plan == ExtractPlanAssets(records)
      sizes == [h \in DOMAIN plan |->
                  IF plan[h] = 0 /\ h \in DOMAIN index THEN index[h] ELSE plan[h]]
  IN ResolveHashes(DOMAIN plan, cached, sizes)

-----------------------------------------------------------------------------
(* Trials *)

Peer == [file : Content \cup {NoFile}, plain : BOOLEAN, cut : {0, 1}, down : BOOLEAN]
\* Peers that differ in their answer to a request for the whole asset.
WholePeer == {p \in Peer : ~p.plain /\ (p.down \/ p.file = NoFile => p.cut = 0)
                            /\ (p.down => p.file = NoFile)}
RangeHeader == [kind : {"none", "malformed"}, from : {0}, to : {Open}]
         \cup [kind : {"bytes"}, from : 0 .. MaxLen + 1, to : -1 .. MaxLen + 1]

SyncTrial == [kind : {"sync"}, h : Content, local : Content \cup {NoFile},
              peers : [1 .. 2 -> WholePeer], full : BOOLEAN]
ResumeTrial == [kind : {"resume"}, h : Content, offset : 0 .. MaxLen,
                part : Content \cup {NoFile}, peer : Peer]
RangeTrial == [kind : {"range"}, h : Content, range : RangeHeader]
StoreTrial == [kind : {"store"}, h : Content, local : Content \cup {NoFile},
               data : Content, full : BOOLEAN]

Intact(peer, h) == ~peer.down /\ peer.cut = 0 /\ peer.file = h
Verified(before, after) ==
  \A h \in DOMAIN before : after[h] = before[h] \/ (before[h] = NoFile /\ after[h] = h)

SyncOutcomeSound(t, cas, locations, out, missBytes) ==
  /\ Verified(cas, out.cas)
  /\ \A x \in DOMAIN cas : out.results[x].ok <=> HasAsset(out.cas, x)
  /\ ~t.full /\ (\E i \in 1 .. 2 : Intact(t.peers[i], t.h)) => out.results[t.h].ok
  /\ out.results[t.h].bytes = IF out.results[t.h].ok THEN missBytes ELSE 0
  /\ t.local = NoFile /\ out.results[t.h].ok => PullJobArtifacts({t.h}, locations) = {t.h}
SyncSound(t) ==
  LET rest == IF t.h = <<>> THEN <<CHOOSE b \in Byte : TRUE>> ELSE <<>>
      both == {t.h, rest}
      cas == [x \in both |-> IF x = t.h THEN t.local ELSE NoFile]
      locations == [x \in both |-> IF x = t.h THEN t.peers ELSE <<>>]
      accounted == ResolvePlan({[sha256 |-> t.h, size |-> s] : s \in {0, Len(t.h)}},
                               {x \in both : HasAsset(cas, x)}, <<>>)
  IN SyncOutcomeSound(t, cas, locations, SyncAssets(cas, both, locations, t.full),
                      accounted.missBytes)

ResumeSound(t) ==
  LET none == [x \in {t.h} |-> NoFile]
      staged == DownloadStreamToStaging(t.peer, t.h, t.offset, t.part)
      stored == CommitStagedFile(none, staged.file, t.h, FALSE)
      usable == t.offset < Len(t.h) /\ (t.offset = 0 \/ t.part = SubSeq(t.h, 1, t.offset))
  IN /\ staged.ok => Verified(none, stored.cas)
     /\ usable /\ Intact(t.peer, t.h) => staged.ok /\ stored.ok

RangeSound(t) ==
  LET reply == StreamAsset([x \in {t.h} |-> t.h], t.h, t.range)
      wanted == {i \in DOMAIN t.h : i > t.range.from
                   /\ (t.range.to = Open \/ i <= t.range.to + 1)}
  IN /\ reply.length = Len(reply.body) /\ reply.status \in {200, 206, 416}
     /\ reply.status = 206 => reply.body = SubSeq(t.h, t.range.from + 1, t.range.from + Cardinality(wanted))
     /\ reply.status = 200 => reply.body = t.h
     /\ reply.status = 416 => wanted = {}

StoreSound(t) ==
  LET cas == [x \in Content |-> IF x = t.h THEN t.local ELSE NoFile]
      put == UploadAsset(cas, t.h, t.data, t.full)
      kept == StoreBytes(cas, t.data, t.full)
      copied == StoreFile(cas, t.data, t.h, t.full)
  IN /\ Verified(cas, put.cas) /\ Verified(cas, kept.cas) /\ Verified(cas, copied.cas)
     /\ kept.ok => HasAsset(kept.cas, t.data)
     /\ copied.ok => HasAsset(copied.cas, t.h)
     /\ put.status = "stored" /\ ~t.full => HasAsset(put.cas, t.h)
     /\ ~HasAsset(DeleteAsset(put.cas, t.h), t.h)

\* Whatever a peer has under a digest, serves, ignores or cuts off, and
\* whatever part an earlier download left, an object is stored only with the
\* content of its digest, stored objects are never changed, and a transfer
\* succeeds exactly if the object is there afterwards.  One intact and
\* reachable candidate is enough, a true prefix can be resumed, and a range
\* is answered with exactly its bytes (download, failover, sync_assets,
\* pull_job_artifacts, upload_asset, stream_asset, commit_staged_file).
CommittedIsVerified ==
  trial.area = "transfer" =>
    CASE trial.input.kind = "sync" -> SyncSound(trial.input)
      [] trial.input.kind = "resume" -> ResumeSound(trial.input)
      [] trial.input.kind = "range" -> RangeSound(trial.input)
      [] trial.input.kind = "store" -> StoreSound(trial.input)

TryTransfer ==
  \/ Try("transfer", SyncTrial) \/ Try("transfer", ResumeTrial)
  \/ Try("transfer", RangeTrial) \/ Try("transfer", StoreTrial)
==============================================================================
