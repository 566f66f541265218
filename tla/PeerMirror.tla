----------------------------- MODULE PeerMirror -----------------------------
(* The open tail API (tailapi.rs) of the server of KeyedBuffer, and the mirror *)
(* another compute keeps of its tail window (peer.rs): snapshot, install,      *)
(* ingest, subscribe from the snapshot's head, ingest events; garbage          *)
(* collection by watermark; the age gate; and a second configured peer that    *)
(* claims the same table.                                                      *)
(*                                                                             *)
(* The reader scans some committed snapshot and adds the mirror's overlay.     *)
EXTENDS KeyedBuffer

VARIABLES
    mirror,     \* TableMirror of the table on the reading server
    task,       \* mirror_table of the serving peer: step and undelivered batches
    rival,      \* mirror_table of a second peer that serves the same table
    reader      \* the snapshot the reading server scans

peerVars == <<mirror, task, rival, reader>>
vars == <<bound, lake, tail, buf, flush, serial, job, sub, log, happened, departed,
          mirror, task, rival, reader>>

Peer == 1
Rival == 2
\* The last three are history: the head of the snapshot it began with, the ops
\* that its snapshots had to leave out, and whether it collected too much.
NoMirror == [peer |-> Nobody, appends |-> <<>>, keyed |-> [k \in Keys |-> NoEntry], watermark |-> 0,
             marks |-> {}, observed |-> 0, active |-> FALSE, serving |-> FALSE,
             high |-> 0, missed |-> {}, lapsed |-> FALSE]
Ended == [pc |-> "idle", batches |-> <<>>, high |-> 0, missed |-> {}]

PeerInit ==
    /\ Init
    /\ mirror = NoMirror
    /\ task = Ended
    /\ rival = "idle"
    /\ reader = 1

-----------------------------------------------------------------------------
(* The tail API: one consistent view of the table's durable window. *)

Item(seq, op, rows) == [seq |-> seq, op |-> op, rows |-> rows]
AppendItems(batches) == {Item(batches[i].seq, "append", batches[i].rows) : i \in DOMAIN batches}
KeyedItems(keyed) ==
    {IF keyed[k].row = EmptyBag THEN Item(keyed[k].seq, "delete", SetToBag({Row(k, {})}))
     ELSE Item(keyed[k].seq, "upsert", keyed[k].row) : k \in Entered(keyed)}
WindowItems ==
    UNION {AppendItems(buf.flushed[i].batches) \cup KeyedItems(buf.flushed[i].keyed)
           : i \in DOMAIN buf.flushed}
      \cup AppendItems(buf.pending) \cup KeyedItems(buf.keyed)

\* Without the ops whose wait is not over; then the head is the last one served.
TailSnapshot_All == [items |-> WindowItems, high |-> buf.high]
TailSnapshot ==
    LET items == {i \in WindowItems : i.seq \notin buf.undurable}
    IN  [items |-> items,
         high |-> IF buf.undurable = {} THEN buf.high ELSE Max({i.seq : i \in items} \cup {0})]

\* A durable op that is in no snapshot: an op whose wait is not over replaced it.
Hidden == \E c \in Clients : /\ job[c].pc \in {"wait", "doomed"}
                             /\ \E u \in job[c].undo : u.displaced.seq \notin buf.undurable \cup {0}
Recorded == happened' = happened \cup (IF Hidden THEN {"hidden"} ELSE {})

\* The ops above the cursor that no snapshot can serve any more, or not yet and
\* no event will: those that left the window, and those in their wait below its head.
Unserved(from, snap) == ((from + 1)..departed) \cup {s \in buf.undurable : s < snap.high}

Ordered(items) == SetToSortSeq(items, LAMBDA i, j : i.seq < j.seq)

-----------------------------------------------------------------------------
(* The mirror. *)

\* The newest op of a key wins, whatever the order of arrival.
UpsertKey(m, k, seq, row) ==
    IF m.keyed[k].seq >= seq THEN m
    ELSE [m EXCEPT !.keyed[k] = [stamp |-> 1, seq |-> seq, row |-> row]]

\* Rows whose key has an older entry that no watermark covers supersede it.
ApplyAppend(m, seq, rows) ==
    LET routed == {k \in KeysOf(rows) : LET e == m.keyed[k]
                                        IN  e.stamp # 0 /\ e.seq < seq /\ e.seq > m.watermark}
        upsert(acc, k) == UpsertKey(acc, k, seq, OfKeys(rows, {k}))
        rest == Without(rows, routed)
        up == FoldLeft(upsert, m, SetToSeq(routed))
    IN  IF rest = EmptyBag THEN up
        ELSE [up EXCEPT !.appends = Append(@, [seq |-> seq, rows |-> rest])]

\* Items covered by a mark of grace age go; while a reader is active, only those
\* its own metadata has covered.  Marks come in ascending order and age one by
\* one: aged is the newest that is old enough, or 0.
Threshold(m, aged) == IF m.active THEN Min({aged, m.observed}) ELSE aged
Gc(m, aged) ==
    LET t == Threshold(m, aged)
        above(a) == a.seq > t
    IN  [m EXCEPT !.appends = SelectSeq(@, above),
                  !.keyed = [k \in Keys |-> IF m.keyed[k].seq > t THEN m.keyed[k] ELSE NoEntry],
                  !.marks = {w \in @ : w > t},
                  !.lapsed = @ \/ (~m.active /\ t > m.observed)]
Ages(m) == m.marks \cup {0}

Covered(m, w) == IF w > m.watermark THEN [m EXCEPT !.watermark = w, !.marks = @ \cup {w}] ELSE m

\* One wire batch; the garbage collection that follows a watermark ends in any of these.
Keyed(m, e) == LET k == CHOOSE x \in KeysOf(e.rows) : TRUE
               IN  UpsertKey(m, k, e.seq, IF e.op = "delete" THEN EmptyBag ELSE e.rows)
Apply(m, e) ==
    CASE e.op = "watermark" -> LET c == Covered(m, e.seq) IN {Gc(c, aged) : aged \in Ages(c)}
      [] e.op = "append" -> {ApplyAppend(m, e.seq, e.rows)}
      [] OTHER -> {Keyed(m, e)}

\* PeerMirrors::ingest: the owner's batches only; the peer is alive again.
IngestBatch(m, e) == {[n EXCEPT !.serving = TRUE] : n \in Apply(m, e)}

-----------------------------------------------------------------------------
(* mirror_table. *)

DropTable_Any(peer) == NoMirror
DropTable(peer) == IF mirror.peer = peer THEN NoMirror ELSE mirror

\* claim_refused, then the TailSnapshot call.
MirrorSnapshot ==
    /\ task.pc = "idle" /\ bound.sessions > 0
    /\ mirror.peer \in {Nobody, Peer}
    /\ buf.high > 0
    /\ bound' = [bound EXCEPT !.sessions = @ - 1]
    /\ task' = [pc |-> "install", batches |-> Ordered(TailSnapshot.items), high |-> TailSnapshot.high,
                missed |-> Unserved(0, TailSnapshot)]
    /\ Recorded
    /\ UNCHANGED <<lake, tail, buf, flush, serial, job, sub, log, departed, mirror, rival, reader>>

\* Install: the first claim owns the table, an owner starts over.
MayInstall(peer) == mirror.peer \in {Nobody, peer}
Installed(peer) == [NoMirror EXCEPT !.peer = peer, !.serving = TRUE]
InstalledHere == [Installed(Peer) EXCEPT !.high = task.high, !.missed = task.missed]
MirrorInstall ==
    /\ task.pc = "install"
    /\ IF MayInstall(Peer)
       THEN mirror' = InstalledHere /\ task' = [task EXCEPT !.pc = "backlog", !.missed = {}]
       ELSE task' = Ended /\ UNCHANGED mirror
    /\ UNCHANGED serverVars /\ UNCHANGED <<rival, reader>>

\* The backlog, a batch at a time; no other peer can have taken the mirror.
MirrorBacklog ==
    /\ task.pc = "backlog" /\ task.batches # <<>> /\ mirror.peer = Peer
    /\ mirror' \in IngestBatch(mirror, task.batches[1])
    /\ task' = [task EXCEPT !.batches = Tail(@)]
    /\ UNCHANGED serverVars /\ UNCHANGED <<rival, reader>>

\* The connection is lost during the install: run_peer aborts the task and drops
\* the table, but the task only stops at its next await, with the mirror in place.
MirrorOrphaned ==
    /\ task.pc = "install"
    /\ MayInstall(Peer)
    /\ LET ingest(m, e) == CHOOSE n \in IngestBatch(m, e) : TRUE
       IN  mirror' = FoldLeft(ingest, InstalledHere, task.batches)
    /\ task' = Ended
    /\ UNCHANGED serverVars /\ UNCHANGED <<rival, reader>>

\* TailSubscribe: the receiver is registered before the window is read.
SubscribeRegister ==
    /\ task.pc = "backlog" /\ task.batches = <<>>
    /\ sub' = [NoSub EXCEPT !.on = TRUE]
    /\ task' = [task EXCEPT !.pc = "registered"]
    /\ UNCHANGED <<bound, lake, tail, buf, flush, serial, job, log, happened, departed, mirror, rival, reader>>

\* The backfill above the client's cursor; its head is the cursor of the stream.
Backfill ==
    LET snap == TailSnapshot
    IN  /\ sub' = [sub EXCEPT !.high = snap.high]
        /\ task' = [task EXCEPT !.pc = "stream",
                               !.batches = Ordered({i \in snap.items : i.seq > task.high})]
        /\ mirror' = [mirror EXCEPT !.missed = @ \cup Unserved(task.high, snap)]
        /\ Recorded
SubscribeSnapshot_First ==
    /\ \/ /\ task.pc = "backlog" /\ task.batches = <<>> /\ buf.high > 0
          /\ Backfill
       \/ /\ task.pc = "stream" /\ ~sub.on
          /\ sub' = [sub EXCEPT !.on = TRUE]
          /\ UNCHANGED <<task, mirror, happened>>
    /\ UNCHANGED <<bound, lake, tail, buf, flush, serial, job, log, departed, rival, reader>>
SubscribeSnapshot ==
    /\ task.pc = "registered" /\ sub.on /\ buf.high > 0
    /\ Backfill
    /\ UNCHANGED <<bound, lake, tail, buf, flush, serial, job, log, departed, rival, reader>>

\* The stream: the backfill, then the events above its head; a watermark goes out
\* as the highest seen, and once a second as the heartbeat.
Streaming == task.pc = "stream" /\ mirror.peer = Peer
MirrorBackfill ==
    /\ Streaming /\ task.batches # <<>>
    /\ mirror' \in IngestBatch(mirror, task.batches[1])
    /\ task' = [task EXCEPT !.batches = Tail(@)]
    /\ UNCHANGED serverVars /\ UNCHANGED <<rival, reader>>
WatermarkItem(mark) == Item(mark, "watermark", EmptyBag)
MirrorStream ==
    /\ Streaming /\ task.batches = <<>> /\ sub.on /\ ~sub.lagged /\ sub.events # <<>>
    /\ LET e == sub.events[1]
           mark == IF e.op = "watermark" THEN Max({sub.mark, e.seq}) ELSE sub.mark
       IN  /\ sub' = [sub EXCEPT !.events = Tail(@), !.mark = mark]
           /\ CASE e.op = "watermark" -> mirror' \in IngestBatch(mirror, WatermarkItem(mark))
                [] e.op # "watermark" /\ e.seq > sub.high -> mirror' \in IngestBatch(mirror, e)
                [] OTHER -> UNCHANGED mirror
    /\ UNCHANGED <<bound, lake, tail, buf, flush, serial, job, log, happened, departed, task, rival, reader>>
MirrorHeartbeat ==
    /\ Streaming /\ task.batches = <<>> /\ sub.on
    /\ mirror' \in IngestBatch(mirror, WatermarkItem(sub.mark))
    /\ UNCHANGED serverVars /\ UNCHANGED <<task, rival, reader>>

\* DATA_LOSS, a server that went away, or a connection that broke: run_peer then
\* drops the table of every subscriber it had, of refused ones too.
MirrorEnds ==
    /\ \/ task.pc = "stream" /\ sub.lagged
       \/ task.pc \in {"registered", "stream"} /\ ~sub.on
       \/ task.pc = "registered" /\ buf.high = 0
       \/ bound.sessions > 0
    /\ mirror' = DropTable(Peer)
    /\ task' = Ended
    /\ sub' = NoSub
    /\ UNCHANGED <<bound, lake, tail, buf, flush, serial, job, log, happened, departed, rival, reader>>

\* The second peer claims, is refused or installs, ingests, and gives up.
RivalSnapshot ==
    /\ rival = "idle" /\ bound.rivals > 0 /\ mirror.peer # Peer
    /\ rival' = "install"
    /\ bound' = [bound EXCEPT !.rivals = @ - 1]
    /\ UNCHANGED <<lake, tail, buf, flush, serial, job, sub, log, happened, departed, mirror, task, reader>>
RivalInstall ==
    /\ rival = "install"
    /\ IF MayInstall(Rival)
       THEN mirror' = Installed(Rival) /\ rival' = "stream"
       ELSE rival' = "idle" /\ UNCHANGED mirror
    /\ UNCHANGED serverVars /\ UNCHANGED <<task, reader>>
RivalEnds ==
    /\ rival # "idle" \/ bound.rivals > 0
    /\ mirror' = DropTable(Rival)
    /\ rival' = "idle"
    /\ UNCHANGED serverVars /\ UNCHANGED <<task, reader>>

-----------------------------------------------------------------------------
(* Scans on the reading server. *)

Appends == ToSet(mirror.appends)
AppendNewest(k) == Max({a.seq : a \in {b \in Appends : k \in KeysOf(b.rows)}} \cup {0})

SeparatedByWatermark(older, newer) == \E w \in mirror.marks : older <= w /\ w < newer

\* The mirrored rows above the watermark of the scanned snapshot.
Superseded(k) == LET e == mirror.keyed[k]
                 IN  AppendNewest(k) > e.seq /\ ~SeparatedByWatermark(e.seq, AppendNewest(k))
MirrorKeys(w) == {k \in Entered(mirror.keyed) : mirror.keyed[k].seq > w}
MirrorRows(w) ==
    LET newer(a) == a.seq > w
        serve(rows, a) == rows (+) Without(a.rows, {k \in KeysOf(a.rows) : mirror.keyed[k].seq > a.seq})
    IN  FoldLeft(serve, EmptyBag, SelectSeq(mirror.appends, newer))
          (+) BagUnion({mirror.keyed[k].row : k \in {j \in MirrorKeys(w) : ~Superseded(j)}})

PeerRead(meta) == LET w == lake[meta].mark
                  IN  Without(lake[meta].rows, MirrorKeys(w)) (+) MirrorRows(w)

Serves == mirror.peer = Peer /\ mirror.serving

\* A scan: newer metadata or the same, and what it covers is observed.
PeerScan(meta) ==
    /\ meta \in reader..Tip
    /\ reader' = meta
    /\ mirror' = IF Serves THEN [mirror EXCEPT !.active = TRUE, !.observed =
                                   IF lake[meta].mark > @ THEN lake[meta].mark ELSE @]
                 ELSE mirror
    /\ UNCHANGED serverVars /\ UNCHANGED <<task, rival>>

\* No scan for the grace period, and no event for the serving age bound.
ReaderIdles == mirror.active /\ mirror' = [mirror EXCEPT !.active = FALSE]
               /\ UNCHANGED serverVars /\ UNCHANGED <<task, rival, reader>>
PeerStalls == Serves /\ bound.stalls /\ mirror' = [mirror EXCEPT !.serving = FALSE]
              /\ UNCHANGED serverVars /\ UNCHANGED <<task, rival, reader>>

Server(action) == action /\ UNCHANGED peerVars

Next ==
    \/ \E c \in Clients :
          \/ Server(BufferedInsert(c)) \/ Server(TryKeyedDml(c)) \/ Server(KeyedLookup(c))
          \/ Server(KeyedApply(c)) \/ Server(NoteDurable(c)) \/ Server(PublishAcked(c)) \/ Server(UnrouteFailed(c))
          \/ Server(TrySerializedSyncDml(c)) \/ Server(Execute(c)) \/ Server(ExecuteFails(c))
    \/ \E by \in Clients \cup {Nobody}, old \in BOOLEAN : Server(FlushNow(by, old))
    \/ Server(FlushSnapshot) \/ Server(FlushCovered) \/ Server(FlushNetsZero)
    \/ Server(FlushPrepare) \/ Server(FlushUnprepared) \/ Server(FlushCommitted)
    \/ Server(FlushConflict) \/ Server(FlushUnanswered)
    \/ \E loaded \in BOOLEAN : Server(FlushReload(loaded))
    \/ Server(TailFails) \/ Server(ForeignCommit)
    \/ \E first \in 1..tail.next : Server(CrashAndReplay(first))
    \/ MirrorSnapshot \/ MirrorInstall \/ MirrorBacklog \/ MirrorOrphaned
    \/ SubscribeRegister \/ SubscribeSnapshot
    \/ MirrorBackfill \/ MirrorStream \/ MirrorHeartbeat \/ MirrorEnds
    \/ RivalSnapshot \/ RivalInstall \/ RivalEnds
    \/ \E meta \in 1..Tip : PeerScan(meta)
    \/ ReaderIdles \/ PeerStalls

Spec == PeerInit /\ [][Next]_vars

-----------------------------------------------------------------------------
(* Properties. *)

OnMirror(seq, k) == mirror.keyed[k].seq = seq \/ \E a \in Appends : a.seq = seq /\ k \in KeysOf(a.rows)

\* The part of an op that is still on its way: in the backlog or the backfill,
\* itself or the newer op of its key that replaced it there; beyond the head of
\* the first snapshot as long as no subscription follows it; among the events, or
\* durable and about to be broadcast.
InTransit(seq, k) ==
    \/ /\ task.pc \in {"backlog", "stream"}
       /\ \E i \in DOMAIN task.batches :
             /\ k \in KeysOf(task.batches[i].rows)
             /\ task.batches[i].seq = seq \/ (task.batches[i].seq > seq /\ ~OnMirror(seq, k))
    \/ task.pc # "stream" /\ seq > mirror.high
    \/ /\ task.pc = "stream" /\ seq > sub.high
       /\ \/ \E i \in DOMAIN sub.events : sub.events[i].op # "watermark" /\ sub.events[i].seq = seq
          \/ \E c \in Clients : job[c].pc = "publish" /\ job[c].seq = seq

\* What the mirror owes a reader of meta: every durable op of the server above
\* that snapshot's watermark, in sequence order, but for what is on its way and
\* what its snapshots had to leave out.
Owed(meta) ==
    LET arrived(e) == {k \in e.keys : ~InTransit(e.seq, k)}
        owed(e) == Durable(e) /\ e.seq > lake[meta].mark /\ e.seq \notin mirror.missed
        entries == SelectSeq(log, owed)
    IN  [i \in DOMAIN entries |-> LET ks == arrived(entries[i])
                                 IN  [entries[i] EXCEPT !.keys = ks, !.rows = OfKeys(@, ks)]]

\* A reader of the mirror sees its snapshot with the durable ops of the server's
\* window above that snapshot's watermark applied in sequence order: every op
\* whose event is not on its way, none lost between the snapshot and the events
\* and none twice, each row once whether the flush has committed it or not, in
\* whatever order the events came, after backfill, reconnection and garbage
\* collection.  Not after a mark the reader has not seen was collected while it
\* was idle, nor when a snapshot misses a durable op that one in its wait has
\* replaced, nor between the server's crash and the moment the stream notices it.
PeerReadsSerial ==
    Serves /\ (task.pc = "stream" => sub.on) /\ ~mirror.lapsed /\ "hidden" \notin happened
      => PeerRead(reader) = Serial(lake[reader].rows, Owed(reader))

\* A statement that failed is on no mirror (F4): its rows are never served, not
\* even between its staging and its failure.
NoPhantomMirrored ==
    \A i \in DOMAIN log : log[i].state = "failed" =>
        \A k \in log[i].keys : ~OnMirror(log[i].seq, k)

\* While a peer's stream feeds a mirror, the mirror is its own: no claim, refusal
\* or teardown of another peer that serves the table replaces or drops it (F3).
StreamKeepsMirror ==
    /\ task.pc \in {"backlog", "registered", "stream"} => mirror.peer = Peer
    /\ rival = "stream" => mirror.peer = Rival
====
