------------------------------ MODULE LocalWal ------------------------------
(* The local tail of tail.rs, one table: numbered segment files, the group fsync of
   the active one, the sealing of a segment whose disk refuses a write, an fsync or
   their undo, poison markers, and the scan that recovers the frames at boot.

   A segment file is a sequence of frames; a length in bytes is a number of frames.
   A Torn item stands for bytes that are no valid frame. *)
EXTENDS TailStore

VARIABLES
    root,       \* [format, identity]: the marker files of the tail directory
    segs,       \* segment files by id: [items, dur, marker]; dur items are on disk
    shadow,     \* files a power loss may bring back: an unlink or a cut not yet synced
    sidecar,    \* the watermark file
    wal,        \* TableWal: [nextSeq, nextSeg, active, sealed]; active 0 is none
    sync,       \* SegSync by segment: [written, synced, target, failed, cleaned]
    wait,       \* per staged statement: [seg, end], what its waiter waits for
    poisoning   \* the statement whose refused write holds the tables lock, or 0

walMem == <<wal, sync, wait, poisoning>>
walDisk == <<root, segs, shadow, sidecar>>
walVars == <<walMem, walDisk>>

Torn == [seq |-> 0, stmt |-> 0]
NoMarker == [clamp |-> -1, resume |-> 0]
EmptyFile == [items |-> <<>>, dur |-> 0, marker |-> NoMarker]
NewSync == [written |-> 0, synced |-> 0, target |-> -1, failed |-> FALSE, cleaned |-> FALSE]
NoWait == [seg |-> 0, end |-> 0]
NoWal == [nextSeq |-> 1, nextSeg |-> 1, active |-> 0, sealed |-> {}]
NoFiles == [id \in {} |-> EmptyFile]
NoSyncs == [id \in {} |-> NewSync]

MemoryLost ==
    wal' = NoWal /\ sync' = NoSyncs /\ wait' = [s \in Stmts |-> NoWait] /\ poisoning' = 0

WalInit ==
    /\ root = [format |-> FALSE, identity |-> 0]
    /\ segs = NoFiles /\ shadow = NoFiles /\ sidecar = 0
    /\ wal = NoWal /\ sync = NoSyncs /\ wait = [s \in Stmts |-> NoWait] /\ poisoning = 0

Without(f, ids) == [id \in DOMAIN f \ ids |-> f[id]]
Unlocked == poisoning = 0

\* The files are unlinked or cut in the page cache, and no fsync of the directory or
\* of the file follows: a power loss may show the old ones again.
Shadowed(files) == IF "power" \in bound.faults THEN shadow @@ files ELSE shadow
Unlinked(ids) == Shadowed([id \in ids |-> segs[id]])

\* sync_dir makes the unlinks before it durable, and not the cuts.
DirSynced == [id \in DOMAIN shadow \cap DOMAIN segs |-> shadow[id]]

-----------------------------------------------------------------------------
(* append_staged: under the tables lock. *)

Target == IF wal.active = 0 THEN wal.nextSeg ELSE wal.active
Fresh == wal.active = 0

\* The segment the append goes to, created (create_new, sync_dir) if none is active.
OpenedSegs == IF Fresh THEN segs @@ (Target :> EmptyFile) ELSE segs
OpenedSync == IF Fresh THEN sync @@ (Target :> NewSync) ELSE sync
OpenedWal == IF Fresh THEN [wal EXCEPT !.active = Target, !.nextSeg = @ + 1] ELSE wal
OpenedShadow == IF Fresh THEN DirSynced ELSE shadow
CanOpen == Fresh => Target \notin DOMAIN segs

Frame(s) == [seq |-> wal.nextSeq, stmt |-> s]

\* The frame is written and its sequence consumed; the waiter is handed out.
AppendStaged(p, s) ==
    /\ Issues(p, s) /\ Unlocked /\ CanOpen
    /\ segs' = [OpenedSegs EXCEPT ![Target].items = Append(@, Frame(s))]
    /\ sync' = [OpenedSync EXCEPT ![Target].written = @ + 1]
    /\ wal' = [OpenedWal EXCEPT !.nextSeq = @ + 1]
    /\ wait' = [wait EXCEPT ![s] = [seg |-> Target, end |-> OpenedSync[Target].written + 1]]
    /\ shadow' = OpenedShadow
    /\ Routes(p, s, wal.nextSeq)
    /\ Answers(s, "staged")
    /\ UNCHANGED <<bound, lake, spent, happened, root, sidecar, poisoning>>

\* create_new finds the file, or the directory fsync fails behind it and leaves it
\* there; or the write fails and set_len takes its bytes back.
AppendFails(p, s) ==
    /\ Issues(p, s) /\ Unlocked
    /\ \/ /\ ~CanOpen /\ Faulty({})
          /\ UNCHANGED <<segs, shadow, sync, wal>>
       \/ /\ CanOpen /\ Fresh /\ Faulty({"dirsync"})
          /\ segs' = OpenedSegs
          /\ shadow' = Without(shadow, {Target})
          /\ UNCHANGED <<sync, wal>>
       \/ /\ CanOpen /\ Faulty({"write"})
          /\ segs' = OpenedSegs /\ sync' = OpenedSync /\ wal' = OpenedWal
          /\ shadow' = OpenedShadow
    /\ Answers(s, "failed")
    /\ UNCHANGED <<bound, seqOf, lake, srv, root, sidecar, wait, poisoning>>

\* The disk refuses the write and its undo: whatever it wrote of the frame stays, the
\* segment's sync group fails, and the lock is kept until the cleanup ran.
AppendPoisons(p, s) ==
    /\ Issues(p, s) /\ Unlocked /\ CanOpen /\ Faulty({"poison"})
    /\ \E left \in {Torn, Frame(s)} :
         segs' = [OpenedSegs EXCEPT ![Target].items = Append(@, left)]
    /\ sync' = [OpenedSync EXCEPT ![Target].failed = TRUE]
    /\ wal' = OpenedWal /\ shadow' = OpenedShadow
    /\ poisoning' = s
    /\ Answers(s, "staged")
    /\ UNCHANGED <<bound, seqOf, lake, srv, root, sidecar, wait>>

-----------------------------------------------------------------------------
(* cleanup_failed_segment_locked. *)

\* What the disk refuses the cleanup: the undo (set_len, or the fsync behind a set_len
\* that took effect), the marker, the unlink.
Refusals == SUBSET {"undo", "cutsync", "marker", "unlink"}
Undone(refused) == {"undo", "cutsync"} \cap refused = {}

\* The marker: where the durable frames end, and where numbering resumes.
Marked(id) == [clamp |-> sync[id].synced, resume |-> wal.nextSeq]

\* Only an undo that failed leaves a marker.
WithMarker(id, refused) ==
    IF Undone(refused) \/ "marker" \in refused THEN segs[id]
    ELSE [segs[id] EXCEPT !.marker = Marked(id)]

\* The file once it is cut at the durable boundary, or clamped there by a marker.
CutAt(id, refused) ==
    IF "undo" \in refused THEN WithMarker(id, refused)
    ELSE [WithMarker(id, refused) EXCEPT
             !.items = SubSeq(@, 1, sync[id].synced), !.dur = sync[id].synced]

\* Seal segment id at its durable boundary.  The sequences past it are burned:
\* nextSeq is not touched.
Seals(id, refused) ==
    LET n == sync[id].synced
        goes == n = 0 /\ "unlink" \notin refused
    IN
    /\ segs' = IF goes THEN Without(segs, {id}) ELSE [segs EXCEPT ![id] = CutAt(id, refused)]
    /\ shadow' = CASE "cutsync" \in refused -> Shadowed(id :> WithMarker(id, refused))
                   [] goes /\ "cutsync" \notin refused -> Shadowed(id :> CutAt(id, refused))
                   [] OTHER -> shadow
    /\ wal' = [wal EXCEPT !.active = 0, !.sealed = IF n = 0 THEN @
                 ELSE @ \cup {[id |-> id, max |-> segs[id].items[n].seq]}]

\* Once no fsync is in flight; a segment that is no longer active needs no cleanup.
CleansUp(id) ==
    /\ sync[id].target = -1
    /\ sync' = [sync EXCEPT ![id].failed = TRUE, ![id].cleaned = TRUE]
    /\ IF sync[id].cleaned \/ wal.active # id
       THEN Faulty({}) /\ UNCHANGED <<segs, shadow, wal>>
       ELSE \E refused \in Refusals :
              /\ Faulty(refused)
              /\ ~({"undo", "cutsync"} \subseteq refused)
              /\ "marker" \in refused => ~Undone(refused)
              /\ "unlink" \in refused => sync[id].synced = 0
              /\ Seals(id, refused)

\* The refused append returns its error and releases the lock.
PoisonCleanup ==
    /\ poisoning # 0
    /\ CleansUp(wal.active)
    /\ poisoning' = 0
    /\ Answers(poisoning, "failed")
    /\ UNCHANGED <<bound, seqOf, lake, srv, root, sidecar, wait>>

-----------------------------------------------------------------------------
(* wait_group_sync. *)

Waits(s) == status[s] = "staged" /\ wait[s].seg # 0
SyncOf(s) == sync[wait[s].seg]

\* A waiter whose frame is not covered leads a sync_data of all that is written.
LeadSync(s) ==
    /\ Waits(s)
    /\ ~SyncOf(s).failed /\ SyncOf(s).synced < wait[s].end /\ SyncOf(s).target = -1
    /\ sync' = [sync EXCEPT ![wait[s].seg].target = SyncOf(s).written]
    /\ UNCHANGED <<storeVars, root, segs, shadow, sidecar, wal, wait, poisoning>>

\* The items of segment id up to n reached the disk (its file may be unlinked).
Persisted(id, n) ==
    IF id \in DOMAIN segs THEN [segs EXCEPT ![id].dur = Max2(@, n)] ELSE segs

\* Mutant of SyncOk: the boundary is what is written when the fsync returns.
SyncOk_LiveBoundary(id) ==
    /\ segs' = Persisted(id, sync[id].target)
    /\ sync' = [sync EXCEPT ![id].target = -1,
                  ![id].synced = IF sync[id].failed \/ sync[id].cleaned THEN @ ELSE sync[id].written]

\* Only what was written before the fsync began is durable, and the boundary does not
\* move once the segment has failed.
SyncOk(id) ==
    /\ segs' = Persisted(id, sync[id].target)
    /\ sync' = [sync EXCEPT ![id].target = -1,
                  ![id].synced = IF sync[id].failed \/ sync[id].cleaned THEN @
                                 ELSE Max2(@, sync[id].target)]

SyncReturns(id) ==
    /\ id \in DOMAIN sync /\ sync[id].target # -1
    /\ \/ SyncOk(id) /\ Faulty({})
       \/ /\ Faulty({"fsync"})
          /\ sync' = [sync EXCEPT ![id].target = -1, ![id].failed = TRUE]
          /\ UNCHANGED segs
    /\ UNCHANGED <<bound, clientVars, lake, srv, root, shadow, sidecar, wal, wait, poisoning>>

WaitOk(s) ==
    /\ Waits(s) /\ ~SyncOf(s).failed /\ SyncOf(s).synced >= wait[s].end
    /\ Answers(s, "acked")
    /\ UNCHANGED <<bound, seqOf, lake, srv, spent, happened, walVars>>

\* The waiter cleans up and errors, and unroute_failed takes the rows out of pending.
\* They may still land if a flush took them, or if the frame was durable already.
WaitFails(s) ==
    /\ Waits(s) /\ SyncOf(s).failed /\ Unlocked
    /\ CleansUp(wait[s].seg)
    /\ \E p \in Servers :
         /\ srv[p].st # "down"
         /\ srv' = [srv EXCEPT ![p].pending = @ \ {s}]
         /\ Answers(s, IF s \in srv[p].pending /\ wait[s].end > SyncOf(s).synced
                       THEN "failed" ELSE "doubtful")
    /\ UNCHANGED <<bound, seqOf, lake, root, sidecar, wait, poisoning>>

-----------------------------------------------------------------------------
(* rotate, record_watermark and truncate, as a flush calls them. *)

Starts(p) == Up(p) /\ srv[p].fl = "idle" /\ srv[p].pending # {} /\ Unlocked
ToCommit(p) == srv' = [srv EXCEPT ![p].fl = "commit"]

\* seal_active: a segment with frames waits for a covering truncate, one without goes.
SealActive ==
    LET id == wal.active IN
    IF sync[id].written > 0
    THEN /\ wal' = [wal EXCEPT !.active = 0, !.sealed = @ \cup
                      {[id |-> id, max |-> segs[id].items[sync[id].written].seq]}]
         /\ segs' = Persisted(id, sync[id].written)
         /\ Faulty({}) /\ UNCHANGED shadow
    ELSE \E refused \in SUBSET {"unlink"} :
           /\ Faulty(refused)
           /\ wal' = [wal EXCEPT !.active = 0]
           /\ segs' = IF refused = {} THEN Without(segs, {id}) ELSE segs
           /\ shadow' = IF refused = {} THEN Unlinked({id}) ELSE shadow

\* ensure_active_synced joins or leads the group sync, then the segment is sealed.
Rotate(p) ==
    /\ Starts(p)
    /\ \/ wal.active = 0 /\ Faulty({}) /\ UNCHANGED <<segs, shadow, wal, sync>>
       \/ /\ wal.active # 0 /\ ~sync[wal.active].failed /\ sync[wal.active].target = -1
          /\ SealActive
          /\ sync' = [sync EXCEPT ![wal.active].synced = sync[wal.active].written]
    /\ ToCommit(p)
    /\ UNCHANGED <<bound, clientVars, lake, root, sidecar, wait, poisoning>>

\* ... or fails: the cleanup runs inline (the fsync it led failed, or one before it
\* did) and the flush errors.
RotateFails(p) ==
    /\ Starts(p) /\ wal.active # 0 /\ sync[wal.active].written > 0
    /\ sync[wal.active].failed
    /\ CleansUp(wal.active)
    /\ UNCHANGED <<bound, clientVars, lake, srv, root, sidecar, wait, poisoning>>

RotateLeads(p) ==
    /\ Starts(p) /\ wal.active # 0 /\ sync[wal.active].synced < sync[wal.active].written
    /\ ~sync[wal.active].failed /\ sync[wal.active].target = -1
    /\ Faulty({"fsync"})
    /\ sync' = [sync EXCEPT ![wal.active].failed = TRUE]
    /\ UNCHANGED <<bound, clientVars, lake, srv, walDisk, wal, wait, poisoning>>

WalCommit(p) == Commit(p) /\ UNCHANGED walVars

\* write_atomic fails: before the rename, or after it in the directory fsync.
WriteAtomicFails(old, new) == {old, new}

\* The sidecar never regresses; if it cannot be written the truncate is skipped.
RecordWatermark(p) ==
    /\ srv[p].fl = "record"
    /\ \/ /\ sidecar' = Max2(sidecar, srv[p].upto) /\ Faulty({})
          /\ shadow' = IF sidecar' = sidecar THEN shadow ELSE DirSynced
          /\ srv' = [srv EXCEPT ![p].fl = "truncate"]
       \/ /\ Faulty({"sidecar"})
          /\ sidecar' \in WriteAtomicFails(sidecar, Max2(sidecar, srv[p].upto))
          /\ srv' = [srv EXCEPT ![p] = Flushed(@)]
          /\ UNCHANGED shadow
    /\ UNCHANGED <<bound, clientVars, lake, walMem, root, segs>>

\* Delete every covered segment; one that cannot be deleted stays in the books (the
\* active one only on disk).
Truncate(p) ==
    /\ srv[p].fl = "truncate" /\ Unlocked
    /\ LET covered == {g \in wal.sealed : g.max <= srv[p].upto}
           act == {id \in {wal.active} \ {0} : sync[id].written > 0
                     /\ segs[id].items[sync[id].written].seq <= srv[p].upto}
           gone == {g.id : g \in covered} \cup act
       IN  \E stuck \in SUBSET gone :
             /\ Faulty((IF stuck = {} THEN {} ELSE {"unlink"})
                       \cup IF stuck \cap act = {} THEN {} ELSE {"unsynced"})
             /\ segs' = Without(segs, gone \ stuck)
             /\ shadow' = Unlinked(gone \ stuck)
             /\ wal' = [wal EXCEPT !.sealed = {g \in @ : g \in covered => g.id \in stuck},
                                   !.active = IF @ \in act THEN 0 ELSE @]
    /\ srv' = [srv EXCEPT ![p] = Flushed(@)]
    /\ UNCHANGED <<bound, clientVars, lake, root, sidecar, sync, wait, poisoning>>

-----------------------------------------------------------------------------
(* scan_segment, scan_table: what the files hold, and what the scan leaves of them. *)

Clamped(file) == file.marker.clamp >= 0 /\ Len(file.items) > file.marker.clamp

\* Mutant of Readable: the marker is not consulted.
Readable_NoClamp(file) == file.items

Readable(file) == IF Clamped(file) THEN SubSeq(file.items, 1, file.marker.clamp) ELSE file.items

\* The frames before the first invalid one.
Valid(items) ==
    SubSeq(items, 1, Max({k \in 0 .. Len(items) : \A i \in 1 .. k : items[i] # Torn}))

\* The segment ended in an invalid frame or was clamped.
HitBad(file) == Valid(Readable(file)) # file.items

\* A segment that ended badly is cut on disk, and its marker has done its job.
Repaired(file) ==
    LET frames == Valid(Readable(file)) IN
    IF HitBad(file) THEN [items |-> frames, dur |-> Len(frames), marker |-> NoMarker] ELSE file

ScanStart == [files |-> NoFiles, frames |-> <<>>, sealed |-> {}, bad |-> FALSE, hint |-> 0]

\* Behind a bad frame a segment must start where the marker says numbering resumed,
\* or right behind the last good frame.
Continues(scan, frames) ==
    LET expected == IF scan.hint # 0 THEN scan.hint
                    ELSE IF scan.frames # <<>> THEN Last(scan.frames).seq + 1 ELSE 0
    IN  expected # 0 /\ Head(frames).seq = expected

ScanNext(scan, id) ==
    LET file == segs[id]
        frames == Valid(Readable(file))
        hint == IF HitBad(file) THEN file.marker.resume ELSE 0
    IN  CASE frames = <<>> ->
               IF HitBad(file) THEN [scan EXCEPT !.bad = TRUE, !.hint = hint] ELSE scan
          [] frames # <<>> /\ scan.bad /\ ~Continues(scan, frames) -> scan
          [] OTHER ->
               [files |-> scan.files @@ (id :> Repaired(file)),
                frames |-> scan.frames \o frames,
                sealed |-> scan.sealed \cup {[id |-> id, max |-> Last(frames).seq]},
                bad |-> HitBad(file), hint |-> hint]

SegmentIds == SetToSortSeq(DOMAIN segs, <)
ScanTable == FoldLeft(ScanNext, ScanStart, SegmentIds)

\* A marker outlived the segment it points at, and there are frames behind that.
Stranded ==
    \E id, later \in DOMAIN segs :
        /\ id < later /\ Clamped(segs[id]) /\ Valid(Readable(segs[later])) # <<>>
        /\ id + 1 \notin DOMAIN segs \/ segs[id + 1].items = <<>>

\* A killed process left frames it had not synced; the scan does not sync them either.
Unsynced == \E id \in DOMAIN segs : segs[id].dur < Len(Valid(Readable(segs[id])))

-----------------------------------------------------------------------------
(* LocalWal::open, replay, and the end of a process. *)

\* flock: no other process has the directory.
Flocks(p) == \A q \in Servers : srv[q].st = "down"

\* check_or_create_format: a directory with an identity and no format is refused.
OpenDir(p) ==
    /\ p <= bound.servers /\ Flocks(p)
    /\ root.format \/ root.identity = 0
    /\ root' = [root EXCEPT !.format = TRUE]
    /\ srv' = [srv EXCEPT ![p].st = "opened"]
    /\ UNCHANGED <<bound, clientVars, lake, spent, happened, segs, shadow, sidecar, walMem>>

Minted(last) == IF last + 1 \in Identities THEN last + 1 ELSE last

\* Mutant of LoadOrCreateIdentity: every open mints an identity.
LoadOrCreateIdentity_Fresh(old) == Minted(old)

\* load_or_create_identity.
LoadOrCreateIdentity(old) == IF old = 0 THEN Minted(old) ELSE old

\* The next number is behind the last frame and above the watermark (ensure_seq_floor).
ReplayWal(p) ==
    /\ srv[p].st = "opened"
    /\ LET ident == LoadOrCreateIdentity(root.identity)
           scan == ScanTable
           next == IF scan.frames = <<>> THEN 1 ELSE Last(scan.frames).seq + 1
       IN  /\ root' = [root EXCEPT !.identity = ident]
           /\ segs' = scan.files
           /\ shadow' = Unlinked(DOMAIN segs \ DOMAIN scan.files)
           /\ wal' = [nextSeq |-> Max2(next, EffectiveWatermark(ident, sidecar) + 1),
                      nextSeg |-> Max({0} \cup DOMAIN segs) + 1,
                      active |-> 0, sealed |-> scan.sealed]
           /\ Boots(p, ident, ToSet(scan.frames), sidecar)
    /\ happened' = happened \cup (IF Stranded THEN {"stranded"} ELSE {})
                            \cup (IF Unsynced THEN {"unsynced"} ELSE {})
    /\ UNCHANGED <<bound, clientVars, lake, spent, sidecar, sync, wait, poisoning>>

\* The process is killed: what it wrote is in the page cache.
WalCrash(p) ==
    /\ Faulty({"crash"}) /\ Dies(p) /\ MemoryLost
    /\ UNCHANGED <<bound, seqOf, lake, walDisk>>

\* What a file may be after a power loss: all that was synced, some of the rest, torn
\* or not.  A marker is not synced and may be lost.
AfterPowerLoss(file) ==
    {[items |-> SubSeq(file.items, 1, k) \o torn, dur |-> k + Len(torn), marker |-> m] :
        k \in file.dur .. Len(file.items), torn \in {<<>>, <<Torn>>},
        m \in {file.marker, NoMarker}}

\* Whatever was unlinked or cut without an fsync behind it may be back.
PowerLoss(p) ==
    /\ Dies(p) /\ MemoryLost
    /\ \E back \in SUBSET DOMAIN shadow :
         LET disk == [i \in back |-> shadow[i]] @@ segs IN
         \E id \in DOMAIN disk : \E file \in AfterPowerLoss(disk[id]) :
           /\ Len(file.items) <= Len(disk[id].items)
           /\ Faulty({"power"} \cup IF file.marker # disk[id].marker THEN {"marker"} ELSE {})
           /\ segs' = [i \in DOMAIN disk |->
                IF i = id THEN file
                ELSE [disk[i] EXCEPT !.items = SubSeq(@, 1, disk[i].dur)]]
    /\ shadow' = NoFiles
    /\ UNCHANGED <<bound, seqOf, lake, root, sidecar>>
=============================================================================
