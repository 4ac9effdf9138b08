------------------------------- MODULE Chain -------------------------------
(***************************************************************************)
(* The epoch chain beside the log: server/chain/block.mjs, build.mjs,      *)
(* keys.mjs and verify.mjs, with the job of .github/workflows/archive.yml  *)
(* that fetches the record, verifies it and publishes a copy.              *)
(*                                                                         *)
(* Three processes share files and no lock.  The writer appends lines to   *)
(* acts.jsonl (server/log.mjs); the builder reads that file while it       *)
(* grows, seals what it finds closed and renames a new chain.json into     *)
(* place; the archive job asks the host for the chain and then for the     *)
(* log.                                                                    *)
(*                                                                         *)
(* `log' is the lines the writer knows to be on the disk, `ghost' what     *)
(* lies beyond them: Torn bytes, a whole line not yet synced, the Scrap of *)
(* an older line under a shorter one.  A line has its kind, its stamp (the *)
(* time, index and sender it was accepted with and, of a close, the rate   *)
(* it seals) and its ref: the picture of a post, the post of a settle, and *)
(* of a close what the world keeps nothing of, its signature and the       *)
(* quotes its rate is the clamped median of.  A digest is the value it     *)
(* digests, and the signature of a block the number of the key.            *)
(***************************************************************************)
EXTENDS Integers, Sequences, FiniteSets, SequencesExt, FiniteSetsExt

CONSTANTS
  Kinds,         \* bound: the kinds of act written
  MaxLines,      \* bound: lines of the log; a trouble (a failed write, a restart,
                 \* a crash, a lost key, an upgrade) takes the room of two
  MaxBlobs       \* MAX_BLOBS_PER_RUN

ASSUME ChainAssumption == {MaxLines, MaxBlobs} \subseteq Nat

VARIABLES
  log, ghost,
  pending,   \* the line being appended, <<>> when none is
  chain,     \* chain.json
  head,      \* chain/head.json, <<>> before it is written
  key,       \* the producer key beside the log, 0 when there is none
  edition,   \* the digest of the code that computes a block
  build,     \* the builder: where it is, the acts it read, the blocks it will write
  job,       \* the archive job: where it is and what it has fetched
  archive,   \* the published copy
  troubles   \* counted against the bound

files   == <<log, ghost, pending>>
sealing == <<chain, head, key, edition, build>>
vars    == <<files, sealing, job, archive, troubles>>

Torn    == [k |-> "torn",  stamp |-> <<0, 0>>, ref |-> 0]
Scrap   == [k |-> "scrap", stamp |-> <<0, 0>>, ref |-> 0]
Genesis == <<>>

Void(stamp) == [k |-> "void", stamp |-> stamp, ref |-> 0]

Undisturbed == troubles = 0

Room(n) == Len(log) + 2 * troubles + n <= MaxLines
-----------------------------------------------------------------------------
(* What the rulebook takes of a log: `post' names its picture in ref,      *)
(* `settle' the index of the post, and a settled post settles no more.     *)
Settles(lines, i, p) == lines[i].k = "settle" /\ lines[i].ref = p

Takes(lines, i) ==
  CASE lines[i].k = "post"   -> TRUE
    [] lines[i].k = "close"  -> TRUE
    [] lines[i].k = "settle" -> /\ lines[i].ref \in 1 .. i - 1
                                /\ lines[lines[i].ref].k = "post"
                                /\ \A j \in 1 .. i - 1 : ~Settles(lines, j, lines[i].ref)
    [] OTHER                 -> FALSE

(* The numbers of S up to n, in their order.                               *)
Ordered(S, n) ==
  LET upto[m \in 0 .. n] ==
        IF m = 0 THEN <<>> ELSE IF m \in S THEN Append(upto[m - 1], m) ELSE upto[m - 1]
  IN  upto[n]

Taken(lines, a, b) == Ordered({i \in a .. b : Takes(lines, i)}, b)

At(lines, idx) == [n \in DOMAIN idx |-> lines[idx[n]]]

(* structuralOf: the line without the fields redaction may take.           *)
Structure(line) == IF line.k = "post" THEN [line EXCEPT !.ref = 0] ELSE line

Structures(lines) == [n \in DOMAIN lines |-> Structure(lines[n])]

(* walkLog: where the epochs of a log end.                                 *)
Closes(lines) == Ordered({i \in DOMAIN lines : lines[i].k = "close"}, Len(lines))

Epochs(lines) == Len(Closes(lines))

Parses(lines) == \A i \in DOMAIN lines : lines[i].k \notin {"torn", "scrap"}

(* packageOf: the state after a close, as what it keeps of the acts it was *)
(* computed from: neither the picture of a post nor the ref of a close.    *)
Trace(line) == IF line.k \in {"post", "close"} THEN [line EXCEPT !.ref = 0] ELSE line

Traces(lines) == [n \in DOMAIN lines |-> Trace(lines[n])]

Package(lines, end) == Traces(At(lines, Taken(lines, 1, end)))

(* sealEpoch, with structures committed twice.                             *)
Seal_NoPayloads(lines, h, prev, ed) ==
  LET end   == Closes(lines)[h]
      start == IF h = 1 THEN 1 ELSE Closes(lines)[h - 1] + 1
  IN  [height   |-> h,
       prev     |-> prev,
       range    |-> <<start, end>>,
       time     |-> lines[end].stamp,
       acts     |-> Structures(At(lines, Taken(lines, start, end - 1))),
       payloads |-> Structures(At(lines, Taken(lines, start, end - 1))),
       skipped  |-> Cardinality({i \in start .. end : ~Takes(lines, i)}),
       package  |-> Package(lines, end),
       edition  |-> ed]

(* walkLog and sealEpoch: the derived fields of the block of one epoch.    *)
Seal(lines, h, prev, ed) ==
  LET end   == Closes(lines)[h]
      start == IF h = 1 THEN 1 ELSE Closes(lines)[h - 1] + 1
  IN  [height   |-> h,
       prev     |-> prev,
       range    |-> <<start, end>>,
       time     |-> lines[end].stamp,
       acts     |-> Structures(At(lines, Taken(lines, start, end - 1))),
       payloads |-> At(lines, Taken(lines, start, end - 1)),
       skipped  |-> Cardinality({i \in start .. end : ~Takes(lines, i)}),
       package  |-> Package(lines, end),
       edition  |-> ed]

Reseal_Unlinked(lines, blocks, h, ed) == Seal(lines, h, Genesis, ed)

Reseal(lines, blocks, h, ed) ==
  Seal(lines, h, IF h = 1 THEN Genesis ELSE blocks[h - 1], ed)

(* blockDifference, over the blocks both have.                             *)
Reproduces(lines, blocks, ed) ==
  \A h \in DOMAIN blocks :
    h <= Epochs(lines) => blocks[h].derived = Reseal(lines, blocks, h, ed)

(* checkBlockAlone: what a block says of itself.                           *)
Sound(blocks) ==
  \A h \in DOMAIN blocks :
    /\ blocks[h].derived.height = h
    /\ Len(blocks[h].derived.acts) = Len(blocks[h].derived.payloads)

(* verifyChain of a fetched record, which has no pinned key beside it.     *)
Verifies(blocks, lines, ed) ==
  /\ Parses(lines) /\ Sound(blocks)
  /\ Len(blocks) <= Epochs(lines)
  /\ Reproduces(lines, blocks, ed)
  /\ \A h \in DOMAIN blocks : blocks[h].by = blocks[1].by
-----------------------------------------------------------------------------
Idle == [pc |-> "idle", acts |-> <<>>, out |-> <<>>]

NoJob == [pc |-> "idle", chain |-> <<>>, acts |-> <<>>]

Init ==
  /\ log = <<>> /\ ghost = <<>> /\ pending = <<>>
  /\ chain = <<>> /\ head = <<>> /\ key = 0 /\ edition = 1
  /\ build = Idle
  /\ job = NoJob
  /\ archive = [chain |-> <<>>, acts |-> <<>>, media |-> {}, edition |-> 1]
  /\ troubles = 0

(* The writer.  It appends only what the rulebook takes (Writer).          *)
Offered ==
  LET new(k, ref) == [k |-> k, stamp |-> <<Len(log) + 1, troubles>>, ref |-> ref]
      unsettled(p) == log[p].k = "post" /\ \A j \in DOMAIN log : ~Settles(log, j, p)
  IN  {line \in {new("post", Len(log) + 1), new("close", 0)}
                \cup {new("settle", p) : p \in {q \in DOMAIN log : unsettled(q)}} :
         line.k \in Kinds}

(* log.append: the bytes go over whatever an earlier failure left there,   *)
(* and a reader sees part of the line or all of it before it is synced.    *)
StartAppend ==
  /\ pending = <<>> /\ Room(1)
  /\ \E line \in Offered, rest \in {<<>>} \cup (IF ghost = <<>> THEN {} ELSE {<<Scrap>>}) :
       /\ pending' = <<line>>
       /\ ghost' \in {<<Torn>> \o rest, <<line>> \o rest}
  /\ UNCHANGED <<log, sealing, job, archive, troubles>>

Synced ==
  /\ pending # <<>>
  /\ log' = log \o pending
  /\ ghost' = Tail(ghost)
  /\ pending' = <<>>
  /\ UNCHANGED <<sealing, job, archive, troubles>>

Trouble == Room(2) /\ troubles' = troubles + 1

AppendFails ==
  /\ pending # <<>> /\ Trouble
  /\ pending' = <<>>
  /\ UNCHANGED <<log, ghost, sealing, job, archive>>

(* openLog cuts off what has no newline behind it and keeps the rest.      *)
Kept ==
  CASE ghost = <<>> \/ ghost = <<Torn>> -> <<>>
    [] ghost = <<Torn, Scrap>>          -> <<Scrap>>
    [] OTHER                            -> ghost

(* What was never synced may be lost with the power.                       *)
WriterRestarts ==
  /\ Trouble
  /\ log' \in {log, log \o Kept}
  /\ ghost' = <<>> /\ pending' = <<>>
  /\ UNCHANGED <<sealing, job, archive>>
-----------------------------------------------------------------------------
(* buildChain.  readRecord parses the file as it is at that moment, and    *)
(* one bad line refuses the whole of it.                                   *)
ReadActs ==
  /\ build.pc = "idle"
  /\ Parses(log \o ghost)
  /\ build' = [Idle EXCEPT !.pc = "read", !.acts = log \o ghost]
  /\ UNCHANGED <<files, chain, head, key, edition, job, archive, troubles>>

FreshKey == 1 + Max({0, key} \cup {chain[h].by : h \in DOMAIN chain})

Signer == IF key = 0 THEN FreshKey ELSE key

(* A block for every epoch: those there are, then those of epochs beyond   *)
(* the chain, each linked to the one before.                               *)
Extended(lines, blocks, by, ed) ==
  LET upto[h \in 0 .. Epochs(lines)] ==
        IF h <= Len(blocks) THEN SubSeq(blocks, 1, h)
        ELSE LET done == upto[h - 1]
             IN  Append(done, [derived |-> Reseal(lines, done, h, ed), by |-> by])
  IN  upto[Epochs(lines)]

(* A fork, a chain ahead of the log, and with --rebuild another producer's *)
(* block are refusals: the run ends and nothing is written.                *)
Refuses_NotAhead(rebuild) ==
  \/ ~Reproduces(build.acts, chain, edition)
  \/ rebuild /\ \E h \in DOMAIN chain : chain[h].by # Signer

(* An epoch with no act is refused a root, as by buildTree.                *)
Refuses_QuietDay(rebuild) ==
  \/ \E h \in 1 .. Epochs(build.acts) :
       Seal(build.acts, h, Genesis, edition).acts = <<>>
  \/ ~Reproduces(build.acts, chain, edition)
  \/ Len(chain) > Epochs(build.acts)

Refuses(rebuild) ==
  \/ ~Reproduces(build.acts, chain, edition)
  \/ Len(chain) > Epochs(build.acts)
  \/ rebuild /\ \E h \in DOMAIN chain : chain[h].by # Signer

(* The key is loaded, or made, when the walk comes to something to sign.   *)
Signs(rebuild) ==
  \/ Reproduces(build.acts, chain, edition) /\ Epochs(build.acts) > Len(chain)
  \/ rebuild /\ chain # <<>> /\ Reproduces(build.acts, SubSeq(chain, 1, 1), edition)

SealBlocks(rebuild) ==
  /\ build.pc = "read"
  /\ key' = IF Signs(rebuild) THEN Signer ELSE key
  /\ build' = IF Refuses(rebuild) THEN Idle
              ELSE [Idle EXCEPT !.pc = "sealed",
                                !.out = Extended(build.acts, chain, Signer, edition)]
  /\ UNCHANGED <<files, chain, head, edition, job, archive, troubles>>

(* A temporary file and a rename.                                          *)
Publish ==
  /\ build.pc = "sealed"
  /\ chain' = build.out
  /\ build' = [Idle EXCEPT !.pc = "published"]
  /\ UNCHANGED <<files, head, key, edition, job, archive, troubles>>

(* writeProjection, of which /api/chain/head serves the last file.  One    *)
(* builder runs at a time: what it holds in memory is what it published.   *)
Project ==
  /\ build.pc = "published"
  /\ head' = IF chain = <<>> THEN head ELSE <<Last(chain)>>
  /\ build' = Idle
  /\ UNCHANGED <<files, chain, key, edition, job, archive, troubles>>

BuilderCrashes ==
  /\ build.pc # "idle" /\ Trouble
  /\ build' = Idle
  /\ UNCHANGED <<files, chain, head, key, edition, job, archive>>

(* The record moves to a machine without the key.                          *)
KeyLost ==
  /\ key # 0 /\ build.pc = "idle" /\ Trouble
  /\ key' = 0
  /\ UNCHANGED <<files, chain, head, edition, build, job, archive>>

(* A new build of the code that computes the same state.                   *)
Upgrade ==
  /\ build.pc = "idle" /\ job.pc = "idle" /\ Trouble
  /\ edition' = edition + 1
  /\ UNCHANGED <<files, chain, head, key, build, job, archive>>
-----------------------------------------------------------------------------
(* The archive job: chain first, acts second, then the pictures.           *)
Fetch_ActsFirst ==
  \/ /\ job.pc = "idle"
     /\ job' = [NoJob EXCEPT !.pc = "chain", !.acts = log]
  \/ /\ job.pc = "chain"
     /\ job' = [job EXCEPT !.pc = "acts", !.chain = chain]

Fetch ==
  \/ /\ job.pc = "idle"
     /\ job' = [pc |-> "chain", chain |-> chain, acts |-> <<>>]
  \/ /\ job.pc = "chain"
     /\ job' = [pc |-> "acts", chain |-> job.chain, acts |-> log]

Fetching == Fetch /\ UNCHANGED <<files, sealing, archive, troubles>>

(* The pictures the host holds: settling deletes (Writer).                 *)
Held ==
  {log[p].ref : p \in {q \in DOMAIN log : log[q].k = "post"
                                          /\ \A j \in DOMAIN log : ~Settles(log, j, q)}}

(* The two passes over the log.  A settle act names its post in `pid' and  *)
(* carries no cid, so the second pass takes nothing out.                   *)
Wanted(lines) == {lines[p].ref : p \in {q \in DOMAIN lines : lines[q].k = "post"}}

(* missing.slice(0, MAX_BLOBS_PER_RUN), in the order of the log.           *)
Asked ==
  LET missing == SetToSortSeq(Wanted(job.acts) \ archive.media, <)
  IN  ToSet(SubSeq(missing, 1, Min({MaxBlobs, Len(missing)})))

Media == (Wanted(job.acts) \cap archive.media) \cup (Asked \cap Held)

Staged_Ungated == TRUE

Staged == Verifies(job.chain, job.acts, edition)

(* The pictures are fetched, and nothing that does not verify is published. *)
Stage ==
  /\ job.pc = "acts"
  /\ IF Staged
     THEN archive' = [chain |-> job.chain, acts |-> job.acts, media |-> Media,
                      edition |-> edition]
     ELSE UNCHANGED archive
  /\ job' = NoJob
  /\ UNCHANGED <<files, sealing, troubles>>

-----------------------------------------------------------------------------
Writing  == StartAppend \/ Synced
Sealing  == (\E rebuild \in BOOLEAN : SealBlocks(rebuild)) \/ Publish \/ Project
Copying  == Fetching \/ Stage
Troubled == AppendFails \/ WriterRestarts \/ BuilderCrashes \/ KeyLost \/ Upgrade

Next == Writing \/ ReadActs \/ Sealing \/ Copying \/ Troubled

Spec == Init /\ [][Next]_vars

(* A write ends; the builder and the job run again and again.              *)
Fairness ==
  /\ WF_vars(Synced)
  /\ WF_vars(ReadActs \/ SealBlocks(FALSE) \/ Publish \/ Project)
  /\ WF_vars(Copying)

FairSpec == Spec /\ Fairness
-----------------------------------------------------------------------------
Lines == [k : {"post", "settle", "close", "torn", "scrap"},
          stamp : (0 .. MaxLines) \X (0 .. MaxLines), ref : 0 .. MaxLines]

IsChain(blocks) ==
  \A h \in DOMAIN blocks :
    /\ blocks[h].by \in Nat \ {0}
    /\ blocks[h].derived.height = h
    /\ blocks[h].derived.prev = IF h = 1 THEN Genesis ELSE blocks[h - 1]

(* Types; and whatever is published as a chain is linked block to block.   *)
TypeOK ==
  /\ {log, ghost, pending, build.acts, job.acts, archive.acts} \subseteq Seq(Lines)
  /\ IsChain(chain) /\ IsChain(build.out) /\ IsChain(job.chain) /\ IsChain(archive.chain)
  /\ head = <<>> \/ head[1] \in ToSet(chain)
  /\ build.pc \in {"idle", "read", "sealed", "published"}
  /\ job.pc \in {"idle", "chain", "acts"}
  /\ key \in Nat /\ edition \in Nat /\ troubles \in 0 .. MaxLines

(* build.mjs: "Sealed blocks are never dropped", nor resealed.  Whatever   *)
(* fails, restarts or is upgraded, what was published stays as it was, in  *)
(* the chain and in the archive that follows it.                           *)
SealedStays == [][IsPrefix(chain, chain') /\ IsPrefix(archive.chain, archive'.chain)]_vars

(* archive.yml: chain first, acts second leaves at worst the log ahead.  A *)
(* record fetched so from an undisturbed host verifies, but for one line   *)
(* the builder sealed before the writer had it synced.                     *)
FetchedRecordVerifies ==
  Undisturbed /\ job.pc = "acts" =>
    \/ Verifies(job.chain, job.acts, edition)
    \/ LET disk == log \o ghost
       IN  /\ Len(disk) > Len(job.acts)
           /\ Verifies(job.chain, Append(job.acts, disk[Len(job.acts) + 1]), edition)

(* A record that did not verify is never published, and the published one  *)
(* goes on verifying under the code that published it.                     *)
ArchiveVerifies == Verifies(archive.chain, archive.acts, archive.edition)

Edits(lines) ==
  {RemoveAt(lines, i) : i \in DOMAIN lines}
  \cup {InsertAt(lines, i, Void(<<0, 0>>)) : i \in DOMAIN lines}
  \cup {[lines EXCEPT ![i] = Void(@.stamp)] : i \in DOMAIN lines}
  \cup {[lines EXCEPT ![i].stamp = <<0, 0>>] : i \in DOMAIN lines}
  \cup {[lines EXCEPT ![i].ref = r] : i \in DOMAIN lines, r \in 0 .. MaxLines}
  \cup {[lines EXCEPT ![i] = lines[i + 1], ![i + 1] = lines[i]] : i \in 1 .. Len(lines) - 1}

(* walkLog sets the act that closes an epoch aside.  It is in no list of   *)
(* its block, which has of it its stamp and what it did to the world.      *)
Bare(line) == IF line.k = "close" THEN [line EXCEPT !.ref = 0] ELSE line

Bared(lines) == [n \in DOMAIN lines |-> Bare(lines[n])]

(* What the blocks fix of a log: the acts taken up to the last close that  *)
(* is sealed, but for the ref of a close.                                  *)
Sealed(lines, blocks) ==
  IF blocks = <<>> THEN <<>>
  ELSE Bared(At(lines, Taken(lines, 1, Last(blocks).derived.range[2])))

(* block.mjs: "silent rewriting becomes detectable".  Take a line out, put *)
(* one in, swap two, restamp one or change what one refers to: if the      *)
(* record still verifies, the acts that were sealed are untouched, but for *)
(* what of a close no block has: its signature and its quotes.             *)
TamperShows ==
  build.pc = "idle" /\ job.pc = "idle" /\ Verifies(chain, log, edition) =>
    \A edited \in Edits(log) :
      Verifies(chain, edited, edition) => Sealed(edited, chain) = Sealed(log, chain)

(* The record holds: what is served and archived verifies, and an edit of  *)
(* what a block fixes of the log does not.                                 *)
RecordHolds == TypeOK /\ FetchedRecordVerifies /\ ArchiveVerifies /\ TamperShows

(* However the builder and the job interleave with the writer, once no     *)
(* more is written every closed epoch is sealed, served as the head and in *)
(* the archive for good, unless something went wrong on the way.           *)
ClosedIsArchived ==
  <>[](Undisturbed =>
         /\ Len(archive.chain) = Epochs(log)
         /\ chain # <<>> => head = <<Last(chain)>>)

(* archive.yml refuses "a picture the log says was settled": the archive   *)
(* holds no picture whose settlement its own log shows.                    *)
ArchiveDropsSettled ==
  \A s \in DOMAIN archive.acts :
    archive.acts[s].k = "settle" => archive.acts[archive.acts[s].ref].ref \notin archive.media
=============================================================================
