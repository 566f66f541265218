# Verification of icegres

icegres is a Postgres-wire and Flight SQL server over Apache Iceberg tables. It
buffers INSERTs and keyed updates on a durable tail and commits them to the
catalog in groups, reads the union of table and buffer, serves reads from a
cache of bounded staleness, and can keep its tail on three acceptors. This
directory holds TLA+ models of those protocols, TLC configurations for small
instances, and TLAPS proofs. `PROJECT.json` maps every definition to the lines
it models and lists the hazards of the code with the properties that watch them.

## The system and its parts

| Part | Source (`icegres/src/`) | Modules |
|---|---|---|
| Write buffer: INSERT, flush, replay, union reads | `buffer.rs` | `WriteBuffer`, `ExactlyOnceInserts` |
| Keyed upserts | `keyed.rs`, keyed half of `buffer.rs` | `KeyedBuffer` |
| Local WAL | `tail.rs`, `segment.rs` | `LocalWal`, over `TailStore` |
| Postgres tail | `tail_pg.rs` | `PgTail`, over `TailStore` |
| Quorum acceptor, proposer and tail | `quorum/`, `tail_quorum.rs` | `QuorumTail` |
| Cache, generations, refresher | `cache.rs`, `freshness.rs` | `Freshness` |
| Plan cache, result cache, Flight tickets | `plancache.rs`, `flight.rs` | `Freshness`, `PlanReuse` |
| Commit engine, transactions | `overwrite.rs`, `dml.rs`, `txn.rs` | `Lake` |
| Branches, compaction, maintenance | `branch.rs`, `compact.rs`, `maintain.rs` | `Lake` |
| Open tail API and peer mirrors | `tailapi.rs`, `peer.rs` | `PeerMirror`, over `KeyedBuffer` |
| Leader lease | `lease.rs` | `Lease` |
| Control plane, accept loop, scaled workload | `bin/icegresd.rs`, `ops.rs`, `k8s.rs` | `Supervisor`, `ControlPlane` |
| Assembly, SQL rewriting, access checks, tools | the rest | not modelled |

How they interact. A buffered statement goes to the tail and to the buffer; the
flusher turns the buffer into one catalog commit that carries a watermark, and
then lets the tail forget the covered frames. A scan takes metadata from the
caching provider and adds the buffer's overlay; another server adds the overlay
of its mirror. A local commit invalidates the cache and with it kept plans and
results. The three tails implement one trait, `TailStore`. The control plane
runs the compute, and its lease is a quorum log of its own.

`WriteBuffer` composes buffer, tail contract, flusher, catalog, clients and
scans; `KeyedBuffer` and `PeerMirror` two servers; `Tails` a flusher with either
storage backend; `PlanReuse` the reads with everything that is kept of them;
`ControlPlane` the lease loops with the supervisor.

## Modules and the code

Atomic steps are what the code does under one lock or between two awaits.
Rows are abstracted to the statement that wrote them, files to the frames or
rows they hold, a metadata location to a version or a snapshot id. Variables
named `happened`, `raced` and `tangled` are history: they record faults and
races, so that a property can name the ones it does not cover.

### WriteBuffer

State: catalog (`table`, `posts`), tail (`frames`, `sidecar`, `nextSeq`), buffer
(`pending`, `flushed`, `tailHigh`), flusher (`flush`), clients (`status`,
`seqOf`), scans (`scan`, `cached`).

| Actions | Code |
|---|---|
| `Stage`, `StageFails` | `BufferState::append` with `append_staged` under the tables lock |
| `WaitOk`, `SyncFails`, `WaitFails` | `wait_group_sync`, `cleanup_failed_segment`, `unroute_failed` |
| `FlushNow`, `FlushSnapshot` | `flush_now` (GC, rotate), `snapshot_pending` |
| `FlushCovered`, `FlushPost`, `FlushLoadFails` | one attempt of `flush_table` up to the POST |
| `FlushCommitted`, `FlushConflict`, `FlushAmbiguous`, `FlushReload`, `FlushReloadFails` | the outcomes of the POST and the disambiguating reload |
| `CatalogApply`, `ForeignCommit`, `ForeignPropertyDrop` | external: the REST catalog and other engines |
| `Crash`, `Boot`, `BootFrameless` | process death, `replay_tail` |
| `ScanLoad`, `ScanStale`, `ScanOverlay` | `CachingTableProvider::scan`, stale fallback, `overlay_with` |

`TruncateCovered` keeps the order sidecar, then delete, with a failure of
either. Sequence 0 and mark 0 stand for "none". The `age` of a frame counts the
restarts since it was written: a wait syncs the active segment, that is, frames of
this process (`Ours`), and what an earlier process left in the page cache stays
unsynced. A power loss takes unsynced frames from some point on in each of those
segments; where it tears a frame, the scan at the next boot also deletes the
synced segments behind it (`Readable`; the fault kinds `old_frame` and `buried`
record both). Scans are those of the default mode, `--freshness-ms 0`, in which
every scan loads; the cache that spares a load is `Freshness`.
`ExactlyOnceInserts` is the abstract specification: a statement takes effect at
most once, never after an exact error, and irrevocably.

### KeyedBuffer and PeerMirror

Rows are bags, so that a row served twice differs from one served once.
`BufferedInsert` is an INSERT; `TryKeyedDml`, `KeyedLookup`, `KeyedApply` an
UPDATE or DELETE by key around its awaits; `TrySerializedSyncDml`, `Execute`,
`ExecuteFails` the fenced synchronous statement; `NoteDurable`, `PublishAcked` and
`UnrouteFailed` the end of a wait, of which the broadcast to subscribers is a step
of its own. The `Flush` actions are the coalesced flush: already committed, nets
to nothing, prepared, committed, conflict with merge back, and a lost answer with
the reload that follows. `CrashAndReplay` is the restart.

`MirrorSnapshot` to `MirrorEnds` are the stages of `mirror_table`: the first
snapshot, install, backlog, `SubscribeRegister` and then `SubscribeSnapshot` on the
serving side, backfill, events and the heartbeat. `MirrorOrphaned` is a task that
is aborted with its connection and still installs before its next await. The
`Rival` actions are a second peer that claims the table; `PeerScan`, `ReaderIdles`
and `PeerStalls` the reading server. Watermarks age one by one (`Ages`). `log` is
the serial order of the effects. `UnionReadsSerial` compares the server's reads
with it; `PeerReadsSerial` compares the reader's with `Owed`: every durable op
above the watermark of the snapshot it scans, without the ones that are visibly on
their way (a batch, an event, a broadcast to come) and those that the snapshots
had to leave out (`missed`), because they had left the window or were in their
wait below its head. An op that is neither and does not show is a lost event.

### TailStore, LocalWal, PgTail, Tails

`TailStore` is what the buffer does with a tail. `LocalWal` has segment files
with a durable prefix each, the group sync (`LeadSync`, `SyncReturns`, `WaitOk`,
`WaitFails`), sealing, undo and poison markers, `Rotate`, `RecordWatermark`,
`Truncate`, and the scan at open (`OpenDir`, `ReplayWal`); `WalCrash` keeps the
page cache and `PowerLoss` does not. An unlink is durable once the directory is
synced, and a cut whose sync failed need not be: `shadow` holds the files as they
were, and a power loss brings back any of them. `PgTail` has the frames and
watermarks tables, the identity row, and an advisory lock that lives as long as its
connection. `Tails` runs either behind the same flusher.

### QuorumTail

Acceptors keep a term, a term history and a log in two stores; server runs open
the tail by an election (`Greet`, `Vote`, `Elect`), download from the donor
(`Download`, `Recovered`), stream to each acceptor (`PeerStep`), re-elect
themselves, and move the retention horizon. `HandleStale` is a request handled
after its sender gave up. `AcceptorRestarts` stops and restarts an acceptor;
`TornElected` stops it within the cut or between its two stores, `TornAppend`
inside an append, with a prefix of the batch on disk or only the name of a new
segment. An acceptor without any segment restarts at position zero, as
`SegmentWal::open` does. Submits, coverage and the horizon go on during a
re-election. A step that only its own server can see is
taken at once (`Urgent`); the proofs do not use that.

### Freshness and PlanReuse

`ReadStart`, `ReadAnalyze`, `ReadPlanned` are `PlanCacheHook::run` before, around
and after planning; `ReadLookup`, `ReadMount` the lazy mount of
`CachingSchemaProvider::table`; `ReadCheck`, `ReadFast` `current_provider`; the
`Load` actions the stages of `load_current`; the `Refresher` actions
`refresher_loop`, `prune` and `supervise`; `WriterPlans`, which binds the mounted
instance, `WriterCommits`, `WriterRefused` and `WriterReturns` a local write;
`DropUnmounts`, `DropFences`, `DropEnds` a DROP TABLE. Versions count commits.
`PlanReuse` adds the result cache (`PgStart`, `PgPlanned`, `PgDone`) and the
one-shot plans of Flight SQL (`InfoStart` to `FlightDone`, `StashDrops`). The races the code leaves open are
`straggler` (an older install), `twins` (two instances of one table) and `ddl`
(a mount that a drop overtook).

### Lake

A catalog of tables with snapshots and refs, an object store, and jobs. Every
job loads, stages files, and posts one request of requirements and updates:
`Execute`, `AutocommitInsert`, `AppendStream` (autocommit), `HandleQuery`,
`CommitPinned`, `CommitPinnedMulti` (transactions), `LoadRefs` (branches and
merges; a ref that is missing ends the job), `Compact`, the `Expire` steps, and
`OrphanLoad` before `OrphanList`, the live set before the listing. Which snapshots
are the newest is decided by the clocks of their writers, so expiry may keep any
that many (`Newest`). `PostCommit` and
`PostTransaction` are the catalog; `Lose` and `Arrive` a request whose answer is
lost and which may land later; `Age` lets files pass the grace window. Rows of a
file are a set; that no two live files hold the same row is a conjunct of
`SerialHistory` (`RowsOnce`).

### Lease, Supervisor, ControlPlane

`Lease` is `lease_loop` of the instances over acceptors, with time as ticks
(`Poll`, `Elect`, `RenewDue`, `Land`, `WatermarkDue`, `RecordAcked`, `Stalls`).
The periodic watermark record is the second half of an acquisition or renewal and
fails like the first. A poll is read and judged at once; in the code its answers
may be two probe timeouts old. An election is
one step at a quorum, which is what `QuorumTail` shows of it. A campaign that
fails leaves its term on the acceptors that voted (`Campaigned`), and a
re-election succeeds only while the donor's log ends with a record of the
proposer's own history (`Reelect`, `Poisoned`). `LeaseSpec` is the lease loops
alone; `ControlPlane` interleaves them with the supervisor. `Supervisor` is
one instance with its compute: client tasks, a monitor and a health watch per
spawn, the warm pool, idle shutdown and the Kubernetes parking loop. A probe of
the health watch and its answer are two steps. The compute's data tail is `own`,
`voted` (a rival collected votes for a term it never led), `fenced`, or
`poisoned`; a fenced writer learns of it at its next append (`AppendTail`), which
recovers a voted tail and poisons a fenced one, and only a poisoned tail makes
`/health` answer 503. A spawn can be refused (`SpawnRefused`); a child killed at
the wake timeout is dead at once: `start_kill` sends SIGKILL, and the moment
until the process is gone is left out. The watch task that stamps `leader_since`
is a step of its own (`LeaderSince`), and so is the passing of the window
(`LedPasses`).

## Runs

| Run | Checks | States | Shows |
|---|---|---|---|
| `crash` | `TypeOK`, `AppliedAtMostOnce`, `AckedRecoverable`, `FailedExactly`, `ImplementsPromise`, `AckedEventuallyApplied` | 0.85 M | two statements, up to four faults of ten kinds |
| `scan` | `UnionReadNoDuplicate`, `UnionReadComplete` | 0.63 M | two scans at any point of the protocol, up to two faults of all fifteen kinds |
| `reads` | `FreshMeansLoaded`, `ReadYourWritesUnlessRaced`, `ReusedNotOlder` | 2.76 M | readers, refresher, writer and DROP TABLE on one table; plans, results, tickets |
| `refresh` | `EventuallyServesHead` | 0.95 M | the cache converges after failed loads, stragglers, twins and a dead refresher |
| `quorum` | `TermOwned`, `Agreement`, `CommittedHeld`, `LeaderComplete`, `WatermarkRetained`, `SequenceOrdered` | 0.44 M | three acceptors, two server runs, stops inside a cut or an append, lost calls, late requests |
| `lake` | `PrimaryKeyHolds`, `SerialHistory`, `CommitsWhatItShowed`, `ConsistentCut`, `LiveFilesExist`, `CommitTellsOutcome`, `RefsOnlyAdvance`, `ExpiryStrandsNoListedRef` | 0.53 M | up to four concurrent jobs of every kind |
| `peer` | `UnionReadsSerial`, `NothingClobbered`, `PeerReadsSerial`, `NoPhantomMirrored`, `StreamKeepsMirror` | 0.75 M | keyed statements, flush, replay, and the mirror on another server |
| `control` | `OneCompute`, `ComputesSupervised`, `OverlapBounded`, `TakeoverOnlyWhenLapsed`, `ScalesToZero`, `WedgedReplaced` | 0.36 M | wakes, restarts, health kills, poisoned tails, idle shutdown, leadership changes |
| `tails` | `AckedReplayed`, `AppliedOnce`, `FailedNeverApplied` | 1.51 M | local WAL at segment level and Postgres tail |

Three further runs show that a statement of the source does not hold as written;
`findings` quotes the lines.

- `rewind` (`NeverRewound`): a re-election appends its term to a history that
  may already start above the donor's flush point; a later handshake then
  computes a common prefix that is too low and truncates committed records.
- `reinsert` (`ReinsertSurvives`): an INSERT that arrives while the DELETE of its
  key is in flight is erased when that flush conflicts and merges back.
- `powercut` (`AckedKept`): a segment that a boot kept unsynced is torn by a
  later power loss, and the acknowledged segment behind it goes with it.

### What the passing properties leave out

Each exclusion is a disagreement met while modelling, or a residual the source
documents:

- `NoBlindRetry` (in `AppliedAtMostOnce`, `UnionReadNoDuplicate`): after a lost
  answer and a failed reload, a generation that has grown is not recognised as
  committed and is applied twice (`buffer.rs:2673` says the guard resolves it);
  so is a predecessor's request that lands after the successor's replay
  (`docs/limitations.md:284`); a foreign engine that drops the watermark
  property is documented.
- `Intact` (in `AckedRecoverable`, `AckedEventuallyApplied`, `UnionReadComplete`)
  has two parts. `NoReusedSequence`: a frame is lost and the next process does not
  know its number. A frame erased after a failed fsync, or one of an earlier
  process that a power loss takes, and then a boot with an unloadable table restart
  the numbering under the committed watermark (`buffer.rs:1789`); so does any lost
  frame of a request that lands late. `buried`: what `powercut` shows.
- `outage` (in `UnionReadComplete`): the flusher's own load lets the GC drop a
  generation that stale-served scans still need (`buffer.rs:2695`). The row is then
  missing from such a scan; `UnionReadNoDuplicate` covers these scans, but it only
  says that no row is doubled.
- `ghost_frame` (in `FailedExactly`): a wait that reports failure for a frame
  already synced; `tail.rs` documents it. `marker` and `reply` in `Tails` are its
  counterparts at segment level and for a lost Postgres reply; `overlap` there
  is a replacement that starts beside a process with rows left to flush.
- `raced` (in the `reads` properties): two loads of one generation that finish in
  the other order (`freshness.rs:22`), concurrent first lookups that leave the
  schema map and the registry with different instances (`freshness.rs:26`), and
  a mount overtaken by a drop. A snapshot that regresses and recovers between the
  two version checks (`plancache.rs:821`) is the first of these.
- `tangled` (in the `quorum` properties): what `rewind` shows.
- `overtaken`, `merged`, `resurrected`, `requeued` (in `UnionReadsSerial`): what
  `reinsert` shows; an op that fails after a merge back preferred it; two failures
  on one key, which `unroute_failed` documents; a commit that landed although
  neither its answer nor the reload said so, as with `NoBlindRetry`. `unfenced` (in
  `NothingClobbered`): a fence that is skipped because nothing is pending while a
  flush is still in flight.
- `lapsed`, `hidden` (in `PeerReadsSerial`): a mark collected while the reader was
  idle; a durable op that a tail snapshot misses because one whose wait is not over
  has replaced it. Nor is the reader's view compared between the crash of the
  server and the moment the stream notices it. `missed` names one residual more:
  an op in its wait below the head of a snapshot (`buffer.rs:1283`) is in no
  snapshot and its event is below the cursor, so the mirror lacks it until its
  flush.
- `Untroubled` (`control`): a live compute that was slow to accept is spawned
  again, and a monitor writes the slot over a newer spawn, which then has no
  health watch. `WedgedReplaced` speaks of a poisoned tail: a compute that was
  fenced and on which no session appends answers its probe with 200 and stays.
- `OverlapBounded` is a weaker bound than the one `lease.rs:38` gives ("the old
  leader learns it lost only at its next renew (<= TTL/3 + the append
  timeout)"). `wait_commit` waits two append timeouts, with a re-election
  between them, before it poisons; and a renewal in flight when the later leader
  takes over may be acked just before its second timeout, by acceptors that took
  the record before they voted, so that only the renewal after it meets the
  fence. The bound that holds is TTL/3 and four append timeouts.
  `docs/limitations.md:501` repeats the smaller one.
- `ConsistentCut` is about the tables that were branched: `create_branch_all`
  skips a table without a snapshot, unanchored. `ExpiryStrandsNoListedRef` is
  about branches that stand where the listing saw them, and covers a request of
  the expiry that lands late. `CommitTellsOutcome` is about commits whose answer
  arrives.

The instances `LostCommit` and `OnlyRewoken` of the MC modules reproduce two of
these once the exclusion is removed from the property.

### Bounds

An instance of most modules is a record `bound`, picked in `Init` from the set
`Bounds` of the MC module; each member is built around one kind of interaction
(the comments there say which), since the product of all of them is out of
reach. `MaxFaults`, `MaxScans`, the numbers of readers, statements, jobs, terms,
records and processes are bounds of the model. `MAX_COMMIT_ATTEMPTS`,
`RESTART_MAX_ATTEMPTS`, `HEALTH_MAX_FAILS`, `MaxBatch`, `ReadChunk`, `KeepLast`,
`TargetRows` stand for constants of the code, taken as small as lets both a
retry and exhaustion, or both a full and a partial step, happen. Two statements
let one be acknowledged while another is in a flush or fails; four faults allow
a failed sync, a lost answer, a crash and a failing sidecar write in one
history. Two readers and the refresher give three concurrent loads. Three
acceptors with a quorum of two are what the code requires; two runs with up to
four terms give overlapping leaders and diverging logs. The violations listed
need at most two statements, two terms beyond the first or three faults, which
is within these bounds. Symmetry is used for statements, readers and acceptors
in safety runs only. Deadlock is checked in `WriteBuffer`; elsewhere clients,
jobs or readers may be done.

### Fairness

- `WriteBuffer`: weak fairness of the flusher's steps (its interval timer never
  stops), of the catalog processing a request it received, and of the restart (a
  supervisor restarts the process). Clients, faults and foreign writers are not
  fair; faults are bounded in number.
- `Freshness`: weak fairness of each task, of a writer that committed returning,
  and of the refresher's timer with its supervisor, which respawns it. No client
  is assumed to read.
- `ControlPlane`: weak fairness of each ready task, of the idle watchdog and of
  the workload following its replica count. Clients, faults and the lease are
  not fair.

## Proofs

Each theorem holds for every value of the constants that satisfies the module's
assumption (`ConstantsAssumption`, `LeaseAssumption`, `PidsAssumption`): any set of
statements, readers, acceptors, instances, clients or processes, any bounds, any
faults.

| Theorem | Module | States |
|---|---|---|
| `TypeCorrect` | `WriteBufferProofs` | `Spec => []TypeOK` |
| `AckedDurable` | `WriteBufferDurable` | `Spec => []AckedRecoverable` |
| `AppliedOnce` | `WriteBufferOnce` | `Spec => []AppliedAtMostOnce` |
| `FailedNever` | `WriteBufferOnce` | `Spec => []FailedExactly` |
| `ImplementsOnce` | `WriteBufferOnce` | `Spec => ImplementsPromise`, if `Faults` has no `late_post`, `reload_fails`, `prop_drop`, `ghost_frame` |
| `UnionReadsAll` | `WriteBufferDurable` | `Spec => []UnionReadComplete` |
| `UnionReadsOnce` | `WriteBufferOnce` | `Spec => []UnionReadNoDuplicate` |
| `FreshAfterLoad` | `FreshnessProofs` | `ReuseSpec => []FreshMeansLoaded` |
| `ReadYourWrites` | `FreshnessProofs` | `ReuseSpec => []ReadYourWritesUnlessRaced` |
| `KeptNotOlder` | `FreshnessProofs` | `ReuseSpec => []ReusedNotOlder` |
| `TermOwnership` | `QuorumTailProofs` | `Spec => []TermOwned` |
| `TermsNeverFall` | `QuorumTailProofs` | `Spec => [][TermsGrow]_vars` |
| `LeadershipOverlapBounded` | `LeaseProofs` | `LeaseSpec => []OverlapBounded` |
| `InstancesOverlapBounded` | `ControlPlaneProofs` | `Spec => []OverlapBounded` |
| `EveryComputeSupervised` | `ControlPlaneProofs` | `Spec => []ComputesSupervised` |
| `ComputesNeverOverlap` | `ControlPlaneProofs` | `Spec => []OneCompute` |

### WriteBuffer

The four modules divide one development: `WriteBufferTypes` has the facts about
batches and what every step does to the buffer, `WriteBufferProofs` concludes type
correctness and keeps the frames of owed rows, and on these rest
`WriteBufferDurable` and `WriteBufferOnce`, independent of each other.

`WriteBufferTypes` and `WriteBufferProofs` prove types. `TypeOK` is not
inductive: that `FlushPost` and `MoveBack` yield sequences of batches needs the
flusher's prefix to lie within `pending`. `Bookkeeping` adds `FramesWellFormed`
(finitely many frames, each with the sequence its statement was staged with),
`DownIsEmpty`, `BufferedBelowTailHigh`, `FlusherConsistent` (what a flush took is
a claimed prefix, or a generation, with sequences up to its mark) and `IdsFresh`
(snapshot ids name one generation and one request).

`WriteBufferProofs` and `WriteBufferDurable` prove that acknowledged rows are
recoverable. A row the client was told of, or may still be
told of, is *owed*. `NothingLost` says where an owed row is: framed above every
watermark, buffered while the process is up, carried by every request whose
stamp covers its sequence, with numbering above every watermark. `Orderly`
covers histories without failed syncs and late requests, and without a power loss
that reaches a synced frame or one of an earlier process (`NoStray`): the only
request in flight is the flusher's own, what is buffered is framed, and the
committed watermark is known from the sidecar or from a frame that no fault of
such a history removes (`SettledFrames`: synced, or of an earlier process), which
is what a frameless boot rests on. `DurableInv` joins `Bookkeeping`,
`NoStray => Orderly` and `Intact => NothingLost`.

A scan reads twice, metadata first and the buffer later, and every row that was
acknowledged by then must be in one of the two. `WholeInv` adds to `DurableInv`:
`SnapsCarry`, a generation whose snapshot id the table has is in the table, since
ids are fresh and the request carries the generation's rows; and `ScanWhole`, an
owed row at or below the watermark of the loaded metadata is in that metadata,
and every owed row is in it or in the overlay. The second is why the garbage
collection of generations is safe: the GC age outlasts a scan (see below), so what
is dropped is in the metadata that the scan in progress has loaded, and
containment, by snapshot id or by watermark, implies that the rows are there.

`WriteBufferOnce` proves the other half. That `table.rows[s] <= 1` is kept by
`CatalogApply` needs to know that the request carries nothing the table has. Its
invariant `OnceInv` says so through three facts. `BufferedOnce`: a statement is
in the buffer once, in `pending` or in the generation the flusher may return.
`SentOnce`, while `NoBlindRetry`: what the table has is below its watermark and
out of the buffer; the only request is the one the flusher waits for, with
statements of its own generation; and while the committed watermark is below
the flusher's mark, none of that generation is in the table. The last conjunct
is what makes the already-committed test of `flush_table` and of the reload
right. `FailuresExact`: a batch no flush has claimed was never sent, so that
`unroute_failed` can still take it back; the frame of a doomed wait is gone; and
nothing is left of a statement that failed. The refinement reads `status` as what
the client knows (`Outcome`) and `table.rows` as the effect. The initial states
map to initial states, and `PromiseStep` shows for each action which step of
`ExactlyOnceInserts` it is, or that it is a stutter. The theorem's assumption on
`Faults` is that of the `crash` run; with one of those faults the promise does not
hold (see above).

That a scan returns no row twice needs `ReadInv`, which adds `ReadOnce` to `OnceInv`:
no statement is in two generations, or in a generation and in `pending`; and the
metadata a scan was or may be served, the table's, the loaded and the cached one,
*accounts* for each generation: if it shows one of its rows, it has its snapshot,
so that `overlay_with` leaves the generation out.

### Freshness and PlanReuse

`FreshInv == raced = {} => Ordered`. A fresh cache has what was acknowledged only
if the loads in flight are accounted for: `Sound(p, n)` says that instance `p`,
if it counts as fresh, has loaded and cached version `n`, and that so will every
load that can still make it fresh, because its token is the current generation.
`AllSound` states it for the registered instance with what is acknowledged now,
and for each reader's instance with what was acknowledged when it began: the two
differ when the table is dropped under the reader. `LoaderFits` says that a load
no invalidation has overtaken finds its answer, or a newer one, in the cache when
it completes; `ReaderFits` what a reader has at each stage; `MountOrdered` which
instance is mounted, registered and held by the writer while a DROP TABLE is in
progress; `Kept` that an entry is not older than its version. Steps are handled
once for all bystanders: `Advances` (generations and cached versions only grow
while nothing has raced) keeps what a loader that does not move relies on.

### QuorumTail

`TermInv`: an acceptor that voted is bound to the term (`VotesBind`) and votes for
one run in it (`VotesOnce`); the quorum that elected a run still backs it
(`HoldersBacked`: bound to its term, and voting for nobody else in it). Two runs
with one term would have two quorums, which intersect: `ConstantsAssumption`
says only that the quorum is a majority of a finite set. `HoldersBacked` is
needed because a server forgets its votes when it campaigns again. Requests that
are handled after their sender gave up are in the invariant too (`StaleShaped`).
`TermsNeverFall` follows from the same case analysis.

### Lease and ControlPlane

`LeaseInv` makes the overlap an argument about majorities. A term that is held is
known to a majority and has one holder (`TermsHeld`); of two leaders the earlier
one is *superseded*, that is, a majority's last record is of a later term, and a
first record under way beside a later leader is superseded or *blocked*, refused
by a majority that has not taken it (`EarlierSuperseded`). A superseded loop
cannot re-elect itself: every majority has a donor whose log is not of its
history. `OverlapInv` then bounds the overlap by what the clocks leave:
`over[i] + TicksLeft(i)` is at most TTL/3 and four append timeouts, where
`TicksLeft` counts the append in flight and, unless it is blocked, one more
renewal. `LeaseAssumption` says that acceptors are finitely many, a quorum is a
majority of them, and the TTL is positive. `InstancesOverlapBounded` carries the
bound to `ControlPlane`: by its lemma `LeaseUntouched`, the control plane's steps
are steps of `LeaseSpec` or leave the lease alone.

`SuperInv` is the supervisor's invariant: who spawns, polls or parks holds the spawn
lock, and a slot that is starting has such a task (`LockHeld`); monitors are of
processes that were spawned, and a child being spawned has no other monitor
(`ChildrenKnown`); every live process has its task or monitor
(`ComputesSupervised`); and, until one of the two open races occurs, the slot names
the process that works and tells whether it accepts yet (`SlotTells`).

Every inductive invariant was checked by TLC before its proof: `OnceInv` on
5.0 M states, `ReadInv` and `WholeInv` on 9.4 M, `FreshInv` on 2.4 M, `TermInv` on
0.36 M, `LeaseInv`, `OverlapInv` and `SuperInv` on the `control` run.

### Only model-checked

- Liveness (`AckedEventuallyApplied`, `EventuallyServesHead`, `ScalesToZero`,
  `WedgedReplaced`): fairness and ENABLED are outside the prover's reach.
- `Agreement`, `CommittedHeld`, `LeaderComplete`, `WatermarkRetained`,
  `SequenceOrdered`: they rest on logs and term histories, whose common prefixes
  and sorted merges need induction over sequences. Moreover a recovery
  download (`handle_read`) does not check the reader's term, and the argument why
  that is harmless uses that there are three acceptors: no theorem about every
  majority is to be had.
- `TakeoverOnlyWhenLapsed`: a tracker compares the term and flush position it saw
  last. For arbitrary terms and positions an acceptor could move away and back
  between two polls; that it does not is a fact about whole histories of
  truncation and re-append, not about the state an invariant sees.
- The properties of `Lake`, `KeyedBuffer`, `PeerMirror` and `Tails` that compare a
  state with a serial replay: the replay is a fold over a sequence, for which
  induction would be needed.
- The other safety properties of those modules: no inductive invariant has been
  worked out for them.

## Not modelled

`components` in `PROJECT.json` says for each part what is left out. Acceptor
daemon, configuration, SQL rewriting, access checks, metrics and tools have no
protocol state. Within the modelled parts: record and message encodings, budgets
and eviction by size, NULL keys, savepoints, schema evolution, partition and file
layout, time travel, identity adoption of the acceptors, TLS and session
settings, daemon shutdown, branch and replica slots. Time appears as order, and
as ticks in `Lease`: the GC age of generations outlasts a scan between its load
and its overlay, and the grace window outlasts a commit in flight, as the source
assumes.
