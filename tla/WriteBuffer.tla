---------------------------- MODULE WriteBuffer ----------------------------
(***************************************************************************)
(* The buffered write path of one append-only table (buffer.rs) over a     *)
(* durable tail (the TailStore contract of tail.rs, as LocalWal keeps it)  *)
(* and an Iceberg REST catalog.                                            *)
(*                                                                         *)
(* An INSERT is staged on the tail, routed into `pending` and acknowledged *)
(* once its frame is durable.  The flusher claims `pending`, loads fresh   *)
(* metadata, and posts one commit that carries the rows together with the  *)
(* watermark "every tail sequence up to here is in the table".  A restart  *)
(* replays the frames above the watermark.                                 *)
(*                                                                         *)
(* One statement is one batch and one frame, as in the code; what the rows *)
(* contain is not modelled.  Sequence 0 and mark 0 stand for None.         *)
(***************************************************************************)
EXTENDS Integers, Sequences, FiniteSets, Functions

CONSTANTS
  Stmts,        \* the INSERT statements clients may issue
  Faults,       \* the faults that may happen: a subset of FaultKinds
  MaxFaults,    \* bound on the number of fault events in a behaviour
  MaxScans,     \* bound on the number of table scans
  MaxAttempts   \* MAX_COMMIT_ATTEMPTS

FaultKinds ==
  { "crash",          \* the process dies; frames in the page cache survive
    "power_loss",     \* ... and frames that were not fsynced are lost,
    "old_frame",      \* ... among them one that an earlier process wrote,
    "buried",         \* ... with synced frames behind it that the scan deletes
    "sync_fails",     \* an fsync of the active segment fails
    "ghost_frame",    \* ... and a wait over-reports it for a synced frame
    "tail_io",        \* a sidecar write or a segment delete fails
    "load_fails",     \* the flusher's metadata load fails
    "boot_load_fails",\* the metadata load of the boot replay fails
    "response_lost",  \* the outcome of a POST does not reach the client
    "reload_fails",   \* the load that disambiguates a lost outcome fails
    "late_post",      \* a POST the flusher gave up on is applied later
    "foreign",        \* another writer commits to the table
    "prop_drop",      \* another writer drops the watermark property
    "outage" }        \* scans are served from cached metadata

ASSUME ConstantsAssumption ==
  /\ Faults \subseteq FaultKinds
  /\ MaxFaults \in Nat
  /\ MaxScans \in Nat
  /\ MaxAttempts \in Nat \ {0}

VARIABLES
  table,       \* catalog: current metadata [head, snaps, rows, mark]
  posts,       \* commit requests sent and not yet processed by the catalog
  frames,      \* tail: set of [seq, stmt, synced, age]; age counts restarts
  sidecar,     \* tail: the watermark sidecar
  up,          \* the process is serving
  nextSeq,     \* tail: the next sequence it hands out (in memory)
  pending,     \* buffer: sequence of [stmt, claimed]
  flushed,     \* buffer: set of flushed generations
  tailHigh,    \* buffer: highest staged or replayed sequence
  flush,       \* the flusher: [pc, attempt, n, mark, id, reply]
  status,      \* what each statement's client knows
  seqOf,       \* the sequence each statement was staged with
  cached,      \* metadata the scan cache holds (NoMeta when it holds none)
  scan,        \* metadata a scan loaded and has not yet overlaid
  lastId,      \* last snapshot id generated
  happened,    \* the kinds of faults that happened so far
  faultsLeft, scansLeft

catalogVars == <<table, posts>>
tailVars == <<frames, sidecar>>
bufferVars == <<nextSeq, pending, flushed, tailHigh>>
clientVars == <<status, seqOf>>
scanVars == <<cached, scan, scansLeft>>
faultVars == <<happened, faultsLeft>>
vars == <<catalogVars, tailVars, up, bufferVars, flush, clientVars, scanVars,
          lastId, faultVars>>

NoMeta == [head |-> -1, snaps |-> {}, rows |-> [s \in Stmts |-> 0], mark |-> 0]

Idle == [pc |-> "idle", attempt |-> 0, n |-> 0, mark |-> 0, id |-> 0,
         reply |-> "none"]

Max2(a, b) == IF a >= b THEN a ELSE b

\* The statements of a sequence of batches.
StmtsOf(batches) == {batches[i].stmt : i \in DOMAIN batches}

\* A fault happens, within the bound; some faults have more than one aspect.
FaultOf(kinds) == /\ kinds \subseteq Faults
                  /\ faultsLeft > 0
                  /\ faultsLeft' = faultsLeft - 1
                  /\ happened' = happened \cup kinds

Fault(kind) == FaultOf({kind})

NoFault == UNCHANGED faultVars

Init ==
  /\ table = [head |-> 0, snaps |-> {0}, rows |-> [s \in Stmts |-> 0], mark |-> 0]
  /\ posts = {}
  /\ frames = {} /\ sidecar = 0
  /\ up = TRUE
  /\ nextSeq = 1 /\ pending = <<>> /\ flushed = {} /\ tailHigh = 0
  /\ flush = Idle
  /\ status = [s \in Stmts |-> "new"] /\ seqOf = [s \in Stmts |-> 0]
  /\ cached = NoMeta /\ scan = NoMeta
  /\ lastId = 0
  /\ happened = {} /\ faultsLeft = MaxFaults /\ scansLeft = MaxScans

----------------------------------------------------------------------------
\* Buffered INSERT: append, wait_durable, unroute_failed.

\* Under the tables lock: write the frame, consume the sequence, raise
\* tail_high and route the batch behind `pending`.
Stage(s) ==
  /\ up /\ status[s] = "new"
  /\ frames' = frames \cup {[seq |-> nextSeq, stmt |-> s, synced |-> FALSE, age |-> 0]}
  /\ nextSeq' = nextSeq + 1
  /\ tailHigh' = nextSeq
  /\ pending' = Append(pending, [stmt |-> s, claimed |-> FALSE])
  /\ seqOf' = [seqOf EXCEPT ![s] = nextSeq]
  /\ status' = [status EXCEPT ![s] = "staged"]
  /\ NoFault
  /\ UNCHANGED <<catalogVars, sidecar, up, flushed, flush, scanVars, lastId>>

\* The frame write fails and is rolled back: no sequence is consumed and
\* nothing is routed; the statement errors.
StageFails(s) ==
  /\ up /\ status[s] = "new"
  /\ Fault("tail_io")
  /\ status' = [status EXCEPT ![s] = "failed"]
  /\ UNCHANGED <<catalogVars, tailVars, up, bufferVars, flush, seqOf, scanVars,
                 lastId>>

\* The frames this process wrote.  Those it has not synced are in the active
\* segment.  The frames found at boot are in sealed ones, which nothing syncs.
Ours(f) == f.age = 0

\* The frames of F once an fsync covered those in S.
AfterSync(F, S) == {IF f \in S THEN [f EXCEPT !.synced = TRUE] ELSE f : f \in F}

\* A group fsync covers the frame (or ran on a segment that a covering
\* truncate already unlinked): the INSERT is acknowledged.
WaitOk(s) ==
  /\ up /\ status[s] = "staged"
  /\ frames' = AfterSync(frames, {f \in frames : Ours(f) /\ f.seq <= seqOf[s]})
  /\ status' = [status EXCEPT ![s] = "acked"]
  /\ NoFault
  /\ UNCHANGED <<catalogVars, sidecar, up, bufferVars, flush, seqOf, scanVars,
                 lastId>>

IsSynced(s) == \E f \in frames : f.stmt = s /\ f.synced

\* An fsync of the active segment fails, for a waiting INSERT or for the
\* flusher's rotate.  cleanup_failed_segment erases everything past the
\* durable boundary; the erased sequences stay consumed.  Every wait past the
\* boundary is doomed, and so may be one below it that has not returned yet
\* (wait_group_sync tests `failed` before the boundary).
SyncFails ==
  /\ up
  /\ \E s \in Stmts : status[s] = "staged" /\ ~IsSynced(s)
  /\ frames' = {f \in frames : f.synced \/ ~Ours(f)}
  /\ \E ghosts \in SUBSET {s \in Stmts : status[s] = "staged" /\ IsSynced(s)} :
       /\ FaultOf({"sync_fails"} \cup IF ghosts = {} THEN {} ELSE {"ghost_frame"})
       /\ status' = [s \in Stmts |->
            IF status[s] = "staged" /\ (s \in ghosts \/ ~IsSynced(s))
            THEN "doomed" ELSE status[s]]
  /\ UNCHANGED <<catalogVars, sidecar, up, bufferVars, flush, seqOf, scanVars,
                 lastId>>

\* The batches of s that unroute_failed may remove: the unclaimed ones.
Unclaimed(s) ==
  {i \in DOMAIN pending : pending[i].stmt = s /\ ~pending[i].claimed}

WithoutAt(q, i) == SubSeq(q, 1, i - 1) \o SubSeq(q, i + 1, Len(q))

\* Mutant of WaitFails: the error is returned but the batch stays routed.
WaitFails_NoUnroute(s) ==
  /\ up /\ status[s] = "doomed"
  /\ status' = [status EXCEPT ![s] = IF Unclaimed(s) = {} THEN "ambiguous" ELSE "failed"]
  /\ NoFault
  /\ UNCHANGED <<catalogVars, tailVars, up, bufferVars, flush, seqOf, scanVars, lastId>>

\* A doomed wait returns its error: unroute_failed takes the batch out of
\* `pending` (exact failure) unless a flush claimed it (ambiguous failure).
WaitFails(s) ==
  /\ up /\ status[s] = "doomed"
  /\ \/ \E i \in Unclaimed(s) :
          /\ pending' = WithoutAt(pending, i)
          /\ status' = [status EXCEPT ![s] = "failed"]
     \/ /\ Unclaimed(s) = {}
        /\ pending' = pending
        /\ status' = [status EXCEPT ![s] = "ambiguous"]
  /\ NoFault
  /\ UNCHANGED <<catalogVars, tailVars, up, nextSeq, flushed, tailHigh, flush,
                 seqOf, scanVars, lastId>>

----------------------------------------------------------------------------
\* The flusher: flush_now, flush_table.  flush_lock makes it one at a time.

\* Mutant of Contained: compares with the head instead of the history.
Contained_HeadOnly(meta, commit) ==
  IF commit.snap # 0 THEN commit.snap = meta.head ELSE meta.mark >= commit.mark

\* contained_in: does metadata hold the commit of a flushed generation?
Contained(meta, commit) ==
  IF commit.snap # 0 THEN commit.snap \in meta.snaps
                     ELSE meta.mark >= commit.mark

\* note_observed / the side effect of overlay_with.
Observe(g, meta) == [g EXCEPT !.observed = @ \/ Contained(meta, g.commit)]
Observed(gens, meta) == {Observe(g, meta) : g \in gens}

\* gc_flushed may drop a generation that was observed and is older than
\* FLUSHED_GC; that age outlasts any scan between its load and its overlay.
Expired(g) == g.observed /\ (scan = NoMeta \/ Contained(scan, g.commit))

\* flush_now: collect old generations, then (if anything is pending) rotate
\* the tail, which syncs every frame this process wrote, and start the attempts.
FlushNow ==
  /\ up /\ flush.pc = "idle"
  /\ \E aged \in SUBSET {g \in flushed : Expired(g)} : flushed' = flushed \ aged
  /\ IF pending = <<>>
     THEN UNCHANGED <<frames, flush>>
     ELSE /\ frames' = AfterSync(frames, {f \in frames : Ours(f)})
          /\ flush' = [Idle EXCEPT !.pc = "snapshot", !.attempt = 1]
  /\ NoFault
  /\ UNCHANGED <<catalogVars, sidecar, up, nextSeq, pending, tailHigh, clientVars,
                 scanVars, lastId>>

Claim(batch) == [batch EXCEPT !.claimed = TRUE]

\* snapshot_pending: claim everything pending; the mark is tail_high, read
\* under the same lock.
FlushSnapshot ==
  /\ up /\ flush.pc = "snapshot"
  /\ pending' = [i \in DOMAIN pending |-> Claim(pending[i])]
  /\ flush' = IF pending = <<>> THEN Idle
              ELSE [flush EXCEPT !.pc = "load", !.n = Len(pending), !.mark = tailHigh]
  /\ NoFault
  /\ UNCHANGED <<catalogVars, tailVars, up, nextSeq, flushed, tailHigh, clientVars,
                 scanVars, lastId>>

Generation(commit, batches) ==
  [commit |-> commit, batches |-> batches, observed |-> FALSE]

Prefix(n) == SubSeq(pending, 1, n)
Suffix(n) == SubSeq(pending, n + 1, Len(pending))

\* Mutant of TruncateCovered: up to the tail's end, not the flusher's mark.
TruncateCovered_TailHigh(upto) ==
  sidecar' = Max2(sidecar, tailHigh) /\ frames' = {f \in frames : f.seq > tailHigh} /\ NoFault

\* tail_truncate_covered: record the sidecar, then delete covered frames.  A
\* failed sidecar write skips the delete; a failed delete leaves the frames
\* above some k, which a later truncate covers.
TruncateCovered(upto) ==
  \/ /\ sidecar' = Max2(sidecar, upto)
     /\ frames' = {f \in frames : f.seq > upto}
     /\ NoFault
  \/ /\ Fault("tail_io")
     /\ \/ UNCHANGED tailVars
        \/ /\ sidecar' = Max2(sidecar, upto)
           /\ \E k \in 0 .. upto : frames' = {f \in frames : f.seq > k}

\* generation_already_committed.
AlreadyCommitted(prev, mark) == prev >= mark

\* The metadata of the attempt is loaded and its stamp covers the whole
\* generation: park it as covered and forget its frames, without a POST.
FlushCovered ==
  /\ up /\ flush.pc = "load"
  /\ AlreadyCommitted(table.mark, flush.mark)
  /\ flushed' = Observed(flushed, table) \cup
       {Generation([snap |-> 0, mark |-> flush.mark], Prefix(flush.n))}
  /\ pending' = Suffix(flush.n)
  /\ TruncateCovered(flush.mark)
  /\ flush' = Idle
  /\ UNCHANGED <<catalogVars, up, nextSeq, tailHigh, clientVars, scanVars, lastId>>

\* Mutant of FlushPost: the rows leave `pending` but no generation keeps them
\* readable while the POST is in flight.
FlushPost_NoGeneration ==
  /\ up /\ flush.pc = "load"
  /\ ~AlreadyCommitted(table.mark, flush.mark)
  /\ lastId' = lastId + 1
  /\ flushed' = Observed(flushed, table)
  /\ pending' = Suffix(flush.n)
  /\ posts' = posts \cup
       {[id |-> lastId + 1, base |-> table.head, stmts |-> StmtsOf(Prefix(flush.n)),
         stamp |-> Max2(table.mark, flush.mark)]}
  /\ flush' = [flush EXCEPT !.pc = "posted", !.id = lastId + 1]
  /\ NoFault
  /\ UNCHANGED <<table, tailVars, up, nextSeq, tailHigh, clientVars, scanVars>>

\* Otherwise prepare the commit, tag the generation with its snapshot id and
\* only then send the POST: rows, watermark and the assertion on the head the
\* metadata showed are one request.
FlushPost ==
  /\ up /\ flush.pc = "load"
  /\ ~AlreadyCommitted(table.mark, flush.mark)
  /\ lastId' = lastId + 1
  /\ flushed' = Observed(flushed, table) \cup
       {Generation([snap |-> lastId + 1, mark |-> 0], Prefix(flush.n))}
  /\ pending' = Suffix(flush.n)
  /\ posts' = posts \cup
       {[id |-> lastId + 1, base |-> table.head, stmts |-> StmtsOf(Prefix(flush.n)),
         stamp |-> Max2(table.mark, flush.mark)]}
  /\ flush' = [flush EXCEPT !.pc = "posted", !.id = lastId + 1]
  /\ NoFault
  /\ UNCHANGED <<table, tailVars, up, nextSeq, tailHigh, clientVars, scanVars>>

\* The load or the preparation of the commit fails: the flush errors and the
\* rows stay pending, claimed.
FlushLoadFails ==
  /\ up /\ flush.pc = "load"
  /\ Fault("load_fails")
  /\ flush' = Idle
  /\ UNCHANGED <<catalogVars, tailVars, up, bufferVars, clientVars, scanVars, lastId>>

\* move_flushed_back_to_pending: the generation returns to the front.
MoveBack(id) ==
  \E g \in flushed :
    /\ g.commit.snap = id
    /\ flushed' = flushed \ {g}
    /\ pending' = g.batches \o pending

\* Outcome 2xx: the covered frames are forgotten.
FlushCommitted ==
  /\ up /\ flush.pc = "posted" /\ flush.reply = "committed"
  /\ TruncateCovered(flush.mark)
  /\ flush' = Idle
  /\ UNCHANGED <<catalogVars, up, bufferVars, clientVars, scanVars, lastId>>

\* Mutant of FlushConflict: the attempts are not bounded.
FlushConflict_Unbounded ==
  /\ up /\ flush.pc = "posted" /\ flush.reply = "conflict"
  /\ MoveBack(flush.id)
  /\ flush' = [Idle EXCEPT !.pc = "snapshot", !.attempt = flush.attempt + 1]
  /\ NoFault
  /\ UNCHANGED <<catalogVars, tailVars, up, nextSeq, tailHigh, clientVars, scanVars,
                 lastId>>

\* Outcome 409: re-queue, and retry from fresh metadata while attempts last.
FlushConflict ==
  /\ up /\ flush.pc = "posted" /\ flush.reply = "conflict"
  /\ MoveBack(flush.id)
  /\ flush' = IF flush.attempt < MaxAttempts
              THEN [Idle EXCEPT !.pc = "snapshot", !.attempt = flush.attempt + 1]
              ELSE Idle
  /\ NoFault
  /\ UNCHANGED <<catalogVars, tailVars, up, nextSeq, tailHigh, clientVars, scanVars,
                 lastId>>

\* No outcome: the request never arrived, or its answer was lost, or it is
\* still on its way.
FlushAmbiguous ==
  /\ up /\ flush.pc = "posted"
  /\ \/ /\ Fault("response_lost")
        /\ posts' = {p \in posts : p.id # flush.id}
     \/ /\ flush.reply = "none"
        /\ FaultOf({"response_lost", "late_post"})
        /\ posts' = posts
  /\ flush' = [flush EXCEPT !.pc = "reload", !.reply = "none"]
  /\ UNCHANGED <<table, tailVars, up, bufferVars, clientVars, scanVars, lastId>>

\* Mutant of FlushReload: every lost answer counts as a failed commit.
FlushReload_AlwaysRequeues ==
  /\ up /\ flush.pc = "reload"
  /\ MoveBack(flush.id) /\ NoFault
  /\ flush' = Idle
  /\ UNCHANGED <<catalogVars, tailVars, up, nextSeq, tailHigh, clientVars, scanVars,
                 lastId>>

\* Mutant of FlushReload: every lost answer counts as a commit.
FlushReload_NeverRequeues ==
  /\ up /\ flush.pc = "reload"
  /\ IF table.mark >= flush.mark THEN TruncateCovered(flush.mark)
                                 ELSE NoFault /\ UNCHANGED tailVars
  /\ flush' = Idle
  /\ UNCHANGED <<catalogVars, up, bufferVars, clientVars, scanVars, lastId>>

\* The disambiguating reload: a stamp that covers the mark means the commit
\* landed; otherwise the generation is re-queued and the flush errors.
FlushReload ==
  /\ up /\ flush.pc = "reload"
  /\ IF table.mark >= flush.mark
     THEN TruncateCovered(flush.mark) /\ UNCHANGED <<flushed, pending>>
     ELSE MoveBack(flush.id) /\ NoFault /\ UNCHANGED tailVars
  /\ flush' = Idle
  /\ UNCHANGED <<catalogVars, up, nextSeq, tailHigh, clientVars, scanVars, lastId>>

\* The reload fails: the generation is re-queued without knowing.
FlushReloadFails ==
  /\ up /\ flush.pc = "reload"
  /\ Fault("reload_fails")
  /\ MoveBack(flush.id)
  /\ flush' = Idle
  /\ UNCHANGED <<catalogVars, tailVars, up, nextSeq, tailHigh, clientVars, scanVars,
                 lastId>>

----------------------------------------------------------------------------
\* The catalog and other writers of the table.

\* The catalog processes a commit request: assert-ref-snapshot-id decides.
\* The answer reaches the flusher if it is still waiting for it.
CatalogProcess(p) ==
  /\ posts' = posts \ {p}
  /\ table' = IF p.base = table.head
              THEN [head |-> p.id, snaps |-> table.snaps \cup {p.id},
                    rows |-> [s \in Stmts |->
                               table.rows[s] + IF s \in p.stmts THEN 1 ELSE 0],
                    mark |-> p.stamp]
              ELSE table
  /\ flush' = IF flush.pc = "posted" /\ flush.id = p.id
              THEN [flush EXCEPT !.reply =
                      IF p.base = table.head THEN "committed" ELSE "conflict"]
              ELSE flush
  /\ NoFault
  /\ UNCHANGED <<tailVars, up, bufferVars, clientVars, scanVars, lastId>>

CatalogApply == \E p \in posts : CatalogProcess(p)

\* Another engine commits a snapshot of its own.
ForeignCommit ==
  /\ Fault("foreign")
  /\ lastId' = lastId + 1
  /\ table' = [table EXCEPT !.head = lastId + 1, !.snaps = @ \cup {lastId + 1}]
  /\ UNCHANGED <<posts, tailVars, up, bufferVars, flush, clientVars, scanVars>>

\* Another engine resets the table properties, the watermark included.
ForeignPropertyDrop ==
  /\ Fault("prop_drop")
  /\ table' = [table EXCEPT !.mark = 0]
  /\ UNCHANGED <<posts, tailVars, up, bufferVars, flush, clientVars, scanVars, lastId>>

----------------------------------------------------------------------------
\* Crash and boot replay.

\* The frames a power loss may take: of what each process left unsynced, which
\* is in one segment, those from some point on.
Losses ==
  {lost \in SUBSET {f \in frames : ~f.synced} :
     \A f \in lost : \A g \in frames :
       g.age = f.age /\ g.seq > f.seq /\ ~g.synced => g \in lost}

\* scan_table: where the loss tore a frame, rather than cut the file between
\* two, the next boot deletes the segments behind, which are not contiguous.
Readable(lost, torn) == {f \in frames \ lost : \A g \in torn : f.seq < g.seq}

\* One restart older; what a power loss leaves is on disk.
Older(f, kept) == [f EXCEPT !.age = @ + 1, !.synced = @ \/ kept # frames]

\* The aspects of a power loss that leaves the frames `kept` of `frames`.
LossKinds(kept) ==
  {"power_loss"}
  \cup (IF \E f \in frames \ kept : ~Ours(f) THEN {"old_frame"} ELSE {})
  \cup (IF \E f \in frames \ kept : f.synced THEN {"buried"} ELSE {})

\* The process dies: memory is gone, clients in a wait get no answer.  In a
\* power loss so are frames that were not synced, and what is behind them.  A
\* commit request in flight dies with the process, or is applied later.
Crash ==
  /\ up /\ up' = FALSE
  /\ nextSeq' = 1 /\ pending' = <<>> /\ flushed' = {} /\ tailHigh' = 0
  /\ flush' = Idle
  /\ status' = [s \in Stmts |-> IF status[s] \in {"staged", "doomed"}
                                THEN "ambiguous" ELSE status[s]]
  /\ \E lost \in Losses : \E torn \in SUBSET lost : \E late \in SUBSET {"late_post"} :
       LET kept == Readable(lost, torn) IN
       /\ FaultOf({"crash"} \cup late \cup IF kept = frames THEN {} ELSE LossKinds(kept))
       /\ frames' = {Older(f, kept) : f \in kept}
       /\ IF late = {} THEN posts' = {} ELSE posts # {} /\ posts' = posts
  /\ cached' = NoMeta /\ scan' = NoMeta
  /\ UNCHANGED <<table, sidecar, seqOf, scansLeft, lastId>>

\* The sequences that list a set of frames in sequence order.
Ordered(F) ==
  {q \in [1 .. Cardinality(F) -> F] :
     /\ Range(q) = F
     /\ \A i, j \in DOMAIN q : i < j => q[i].seq < q[j].seq}

\* scan_table: numbering resumes after the last frame found.
ResumeSeq(q) == IF q = <<>> THEN 1 ELSE q[Len(q)].seq + 1

\* ensure_seq_floor: never hand out a sequence the watermark covers.
SeqFloor(q, w) == Max2(ResumeSeq(q), w + 1)

\* Mutant of Watermark: the property committed with the rows is not consulted.
Watermark_SidecarOnly == sidecar

\* effective_watermark of a restart: the committed property or the sidecar.
Watermark == Max2(table.mark, sidecar)

\* replay_tail with the table's metadata loaded: the floor, the covered frames
\* dropped (and truncated if there were any), the others back in `pending`.
Boot ==
  /\ ~up /\ up' = TRUE
  /\ LET survivors == {f \in frames : f.seq > Watermark}   \* drop_stale_frames
     IN /\ \E q \in Ordered(frames) : nextSeq' = SeqFloor(q, Watermark)
        /\ \E q \in Ordered(survivors) :
             /\ pending' = [i \in DOMAIN q |-> [stmt |-> q[i].stmt, claimed |-> FALSE]]
             /\ tailHigh' = IF q = <<>> THEN 0 ELSE q[Len(q)].seq
        /\ IF survivors # frames THEN TruncateCovered(Watermark)
           ELSE UNCHANGED tailVars /\ NoFault
  /\ UNCHANGED <<catalogVars, flushed, flush, clientVars, scanVars, lastId>>

\* replay_tail when the table cannot be loaded and the tail holds no frame of
\* it: only the sidecar floors the numbering.  With frames the boot aborts.
BootFrameless ==
  /\ ~up /\ frames = {} /\ Fault("boot_load_fails")
  /\ up' = TRUE
  /\ nextSeq' = Max2(1, sidecar + 1)
  /\ UNCHANGED <<catalogVars, tailVars, pending, flushed, tailHigh, flush,
                 clientVars, scanVars, lastId>>

----------------------------------------------------------------------------
\* Table scans (cache.rs scan): load metadata, then take the overlay.

\* The default mode (--freshness-ms 0): every scan loads.  A metadata cache that
\* counts as fresh, which spares the load, is Freshness.
ScanLoad ==
  /\ up /\ scan = NoMeta /\ scansLeft > 0
  /\ scansLeft' = scansLeft - 1
  /\ scan' = table /\ cached' = table
  /\ NoFault
  /\ UNCHANGED <<catalogVars, tailVars, up, bufferVars, flush, clientVars, lastId>>

\* stale_read_policy: the load fails and the cached metadata is served.
ScanStale ==
  /\ up /\ scan = NoMeta /\ scansLeft > 0 /\ cached # NoMeta
  /\ Fault("outage")
  /\ scansLeft' = scansLeft - 1
  /\ scan' = cached
  /\ UNCHANGED <<catalogVars, tailVars, up, bufferVars, flush, clientVars, cached,
                 lastId>>

\* overlay_with: the rows are Visible below; generations the metadata
\* contains are observed.
ScanOverlay ==
  /\ up /\ scan # NoMeta
  /\ flushed' = Observed(flushed, scan)
  /\ scan' = NoMeta
  /\ NoFault
  /\ UNCHANGED <<catalogVars, tailVars, up, nextSeq, pending, tailHigh, flush,
                 clientVars, cached, scansLeft, lastId>>

\* How often a scan over metadata `meta` returns the row of s: committed,
\* pending, or in a generation the metadata does not contain.
Visible(meta, s) ==
  meta.rows[s]
  + Cardinality({i \in DOMAIN pending : pending[i].stmt = s})
  + Cardinality({g \in flushed : /\ ~Contained(meta, g.commit)
                                 /\ s \in StmtsOf(g.batches)})

----------------------------------------------------------------------------
Next ==
  \/ \E s \in Stmts : Stage(s) \/ StageFails(s) \/ WaitOk(s) \/ WaitFails(s)
  \/ SyncFails
  \/ FlushNow \/ FlushSnapshot \/ FlushCovered \/ FlushPost \/ FlushLoadFails
  \/ FlushCommitted \/ FlushConflict \/ FlushAmbiguous
  \/ FlushReload \/ FlushReloadFails
  \/ CatalogApply \/ ForeignCommit \/ ForeignPropertyDrop
  \/ Crash \/ Boot \/ BootFrameless
  \/ ScanLoad \/ ScanStale \/ ScanOverlay

Spec == Init /\ [][Next]_vars

----------------------------------------------------------------------------
Metas == [head : Int, snaps : SUBSET Nat, rows : [Stmts -> Nat], mark : Nat]
Batches == [stmt : Stmts, claimed : BOOLEAN]
Posts == [id : Nat, base : Int, stmts : SUBSET Stmts, stamp : Nat]
Frames == [seq : Nat, stmt : Stmts, synced : BOOLEAN, age : Nat]
Generations == [commit : [snap : Nat, mark : Nat], batches : Seq(Batches),
                observed : BOOLEAN]
FlusherStates ==
  [pc : {"idle", "snapshot", "load", "posted", "reload"}, attempt : 0 .. MaxAttempts,
   n : Nat, mark : Nat, id : Nat, reply : {"none", "committed", "conflict"}]
Statuses == {"new", "staged", "doomed", "acked", "failed", "ambiguous"}

\* Type invariant of the buffer, the tail and the catalog.
TypeOK ==
  /\ table \in Metas /\ posts \subseteq Posts
  /\ frames \subseteq Frames /\ sidecar \in Nat
  /\ up \in BOOLEAN /\ nextSeq \in Nat \ {0} /\ tailHigh \in Nat
  /\ pending \in Seq(Batches) /\ flushed \subseteq Generations
  /\ flush \in FlusherStates
  /\ status \in [Stmts -> Statuses] /\ seqOf \in [Stmts -> Nat]
  /\ cached \in Metas /\ scan \in Metas
  /\ lastId \in Nat /\ happened \subseteq Faults
  /\ faultsLeft \in Nat /\ scansLeft \in Nat

\* No step repeated on incomplete knowledge: every POST was applied before its
\* flusher gave up on it or never, and every lost answer was disambiguated.
NoBlindRetry == happened \cap {"late_post", "reload_fails", "prop_drop"} = {}

\* Exactly-once, the upper half: the rows of a statement enter the table at
\* most once, whatever crashes, retries and lost answers happen between the
\* POST, the sidecar write and the truncate (flush_table, replay_tail).
AppliedAtMostOnce == NoBlindRetry => \A s \in Stmts : table.rows[s] <= 1

\* The row of s is in the table, or a durable frame above the watermark a
\* restart would use carries it.
Recoverable(s) ==
  \/ table.rows[s] >= 1
  \/ \E f \in frames : f.stmt = s /\ f.synced /\ f.seq > Watermark

\* No sequence below a committed or coming watermark can be handed out again:
\* that takes a lost frame whose number the next process does not know of.
NoReusedSequence ==
  /\ "boot_load_fails" \in happened => happened \cap {"sync_fails", "old_frame"} = {}
  /\ "late_post" \in happened => happened \cap {"sync_fails", "power_loss"} = {}

\* No number was used twice, and no scan deleted a synced frame behind a torn one.
Intact == NoReusedSequence /\ "buried" \notin happened

\* Exactly-once, the lower half: an acknowledged statement survives a crash
\* in any state; no truncate, watermark or sequence reuse drops it (stage,
\* tail_truncate_covered, replay_tail).
AckedRecoverable ==
  Intact => \A s \in Stmts : status[s] = "acked" => Recoverable(s)

\* A statement whose error is exact (its batch was taken out of `pending`, or
\* its frame was never written) has no row in the table, now or after a
\* replay, unless its wait over-reported the failure (unroute_failed).
FailedExactly ==
  "ghost_frame" \notin happened =>
    \A s \in Stmts : status[s] = "failed" => table.rows[s] = 0

\* A scan that takes its overlay now, whatever metadata it was served, returns
\* no row twice: a row leaves `pending` for a generation before the table can
\* hold it, and a generation the metadata contains is left out of the overlay.
UnionReadNoDuplicate ==
  scan # NoMeta /\ NoBlindRetry => \A s \in Stmts : Visible(scan, s) <= 1

\* ... and it returns every acknowledged row, if it loaded its metadata: the
\* flush protocol and the garbage collection of generations leave no gap
\* between buffer and table (move_pending_to_flushed, gc_flushed).
UnionReadComplete ==
  scan # NoMeta /\ Intact /\ "outage" \notin happened =>
    \A s \in Stmts : status[s] = "acked" => Visible(scan, s) >= 1

----------------------------------------------------------------------------
\* What clients see of a statement: a doomed wait has not returned yet.
Outcome == [s \in Stmts |-> IF status[s] \in {"staged", "doomed"} THEN "open"
                            ELSE status[s]]

Promise == INSTANCE ExactlyOnceInserts WITH outcome <- Outcome, applied <- table.rows

\* The buffered write path implements exactly-once INSERTs: each commit
\* applies a group of statements that neither were applied before nor were
\* reported as failed, and no step takes an effect back.
ImplementsPromise == Promise!Spec

\* The flusher's interval timer and its own steps, the catalog's processing of
\* requests it received, and the supervisor's restart do not stop for ever.
FlushStep == \/ FlushNow /\ pending # <<>>
             \/ FlushSnapshot \/ FlushCovered \/ FlushPost
             \/ FlushCommitted \/ FlushConflict \/ FlushReload

LiveSpec == /\ Spec
            /\ WF_vars(FlushStep)
            /\ WF_vars(CatalogApply)
            /\ WF_vars(Boot)

\* Every acknowledged row reaches the table while the tail is intact: no
\* sequence of conflicts, lost answers and restarts, however it ends, leaves it
\* in the buffer or only in the tail for ever (the flusher retries what it
\* re-queued).
AckedEventuallyApplied ==
  \A s \in Stmts : status[s] = "acked" ~> table.rows[s] >= 1 \/ ~Intact

====
