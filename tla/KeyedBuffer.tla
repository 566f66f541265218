---------------------------- MODULE KeyedBuffer ----------------------------
(* The keyed side of the write buffer (buffer.rs, keyed.rs): one table with a *)
(* declared primary key and icegres.tail-upsert, served by one server with a  *)
(* durable tail.                                                              *)
(*                                                                            *)
(* INSERTs go to the buffer without a lock.  An UPDATE or DELETE by exact key *)
(* resolves the current row, stages one keyed frame and enters the keyed map; *)
(* any other UPDATE flushes first and commits synchronously.  Both hold the   *)
(* table's keyed-serial lock.  The flusher commits [appends, delete by key,   *)
(* upserts] as one snapshot.  Every process interleaves at its awaits.        *)
(*                                                                            *)
(* The faults of the tail are in WriteBuffer and TailStore; here a commit      *)
(* conflicts, fails or lands with or without an answer, a durability wait may *)
(* fail, and the server may crash and replay.  The rows of a snapshot, of a   *)
(* batch and of a read are bags: a row that is served twice counts twice.     *)
EXTENDS Integers, FiniteSets, Sequences, SequencesExt, Bags

CONSTANTS
    Keys,                   \* primary keys
    Clients,                \* clients, one statement each
    Bounds,                 \* instances, see MCPeerMirror
    MAX_COMMIT_ATTEMPTS,    \* attempts of one flush
    EventCapacity           \* TAIL_EVENT_CAPACITY

VARIABLES
    bound,      \* the instance: statements of the clients and numbers of faults
    lake,       \* snapshots of the table: rows, and the watermark property
    tail,       \* durable tail: frames, watermark sidecar and next sequence
    buf,        \* TableBuf: pending, keyed map, flushed generations
    flush,      \* the flush in progress, guarded by flush_lock
    serial,     \* holder of the keyed-serial lock
    job,        \* the statements
    sub,        \* the subscription of a peer (tailapi.rs): cursor and events
    log,        \* history: the effects in their serial order
    happened,   \* history: races the code does not close
    departed    \* history: the newest op that has left the window for good

serverVars == <<bound, lake, tail, buf, flush, serial, job, sub, log, happened, departed>>

Nobody == 0
NoEntry == [stamp |-> 0, seq |-> 0, row |-> EmptyBag]
Free == [pc |-> "idle", by |-> Nobody, attempt |-> 0, batches |-> <<>>,
         keyed |-> [k \in Keys |-> NoEntry], mark |-> 0, base |-> 0]
NewBuf == [pending |-> <<>>, keyed |-> [k \in Keys |-> NoEntry], nextStamp |-> 1,
           claimedBelow |-> 1, flushed |-> <<>>, high |-> 0, undurable |-> {}]
NoSub == [on |-> FALSE, high |-> 0, mark |-> 0, events |-> <<>>, lagged |-> FALSE]

\* A row: its key, and the statements whose values its columns hold.
Row(k, by) == [key |-> k, by |-> by]
Chosen(rows, chosen) == [r \in chosen |-> rows[r]]
OfKeys(rows, ks) == Chosen(rows, {r \in DOMAIN rows : r.key \in ks})
Without(rows, ks) == Chosen(rows, {r \in DOMAIN rows : r.key \notin ks})
KeysOf(rows) == {r.key : r \in DOMAIN rows}
SetBy(rows, c) == LET set(r) == Row(r.key, r.by \cup {c}) IN BagOfAll(set, rows)

\* The keys that have an entry in a keyed map, and the rows of its upserts.
Entered(keyed) == {k \in Keys : keyed[k].stamp # 0}
Upserts(keyed) == BagUnion({keyed[k].row : k \in Keys})
RowsOf(batches) == LET add(rows, b) == rows (+) b.rows IN FoldLeft(add, EmptyBag, batches)

Tip == Len(lake)

\* The effects of a log, in order: each replaces the rows of its keys.
Effect(rows, e) == Without(rows, e.keys) (+) e.rows
Serial(rows, entries) == FoldLeft(Effect, rows, entries)
Lasting(e) == e.state # "failed"
SerialRows == Serial(lake[1].rows, SelectSeq(log, Lasting))
Durable(e) == e.state \in {"durable", "acked"}
Confirmed(e) == e.state = "acked"
AckedRows == Serial(lake[1].rows, SelectSeq(log, Confirmed))

Init ==
    /\ bound \in Bounds
    /\ lake = <<[rows |-> SetToBag(bound.rows), mark |-> 0]>>
    /\ tail = [frames |-> {}, sidecar |-> 0, next |-> 1]
    /\ buf = NewBuf
    /\ flush = Free
    /\ serial = Nobody
    /\ job = [c \in Clients |->
                [pc |-> "new", seq |-> 0, meta |-> 0, current |-> {}, undo |-> {}]]
    /\ sub = NoSub
    /\ log = <<>>
    /\ happened = {}
    /\ departed = 0

-----------------------------------------------------------------------------
(* The tail events of the open tail API. *)

\* The broadcast to a registered receiver.  One that lags past the capacity gets
\* no further event: its next receive is an error.
Publish(e) ==
    sub' = IF ~sub.on THEN sub
           ELSE [sub EXCEPT !.events = Append(@, e),
                            !.lagged = @ \/ Len(sub.events) >= EventCapacity]

\* The watermark of a generation that is committed, or nets out to nothing.
PublishWatermark(mark) == Publish([seq |-> mark, op |-> "watermark", rows |-> EmptyBag])

-----------------------------------------------------------------------------
(* The union of a snapshot with the buffer. *)

\* A generation is contained in the metadata that holds its snapshot, or, when its
\* snapshot is not known, in metadata whose watermark covers it.
ContainedIn(meta, g) ==
    IF g.covered THEN lake[meta].mark >= g.mark ELSE g.snapshot # 0 /\ g.snapshot <= meta

\* The layers a scan of meta adds: generations it cannot see, then the live one.
Layers(meta) ==
    LET unseen(g) == ~ContainedIn(meta, g)
        layer(g) == [appends |-> RowsOf(g.batches), keyed |-> g.keyed]
        gens == SelectSeq(buf.flushed, unseen)
    IN  [i \in 1..Len(gens) |-> layer(gens[i])]
          \o <<[appends |-> RowsOf(buf.pending), keyed |-> buf.keyed]>>

\* Keys with a keyed op in a layer newer than i.
NewerKeys(layers, i) == UNION {Entered(layers[j].keyed) : j \in (i + 1)..Len(layers)}

\* The last layer's own entries always suppress its own appends.
OverlayWith(layers) ==
    LET layer(i) == LET newer == NewerKeys(layers, i)
                    IN  Without(layers[i].appends, newer \cup Entered(layers[i].keyed))
                          (+) Without(Upserts(layers[i].keyed), newer)
        add(rows, i) == rows (+) layer(i)
    IN  FoldLeft(add, EmptyBag, [i \in DOMAIN layers |-> i])

\* The committed rows that KeySuppressExec lets through.
KeySuppressExec(meta, layers) == Without(lake[meta].rows, NewerKeys(layers, 0))

\* What a scan of snapshot meta returns on this server.
UnionRead(meta) == LET layers == Layers(meta)
                   IN  KeySuppressExec(meta, layers) (+) OverlayWith(layers)

-----------------------------------------------------------------------------
(* Staging. *)

\* Enters a keyed op under a new stamp.
Entry(keyed, k, stamp, seq, row) == [keyed EXCEPT ![k] = [stamp |-> stamp, seq |-> seq, row |-> row]]

\* A statement's rows enter the tail as one frame, not yet durable.
Stage(c, op, ks, rows) ==
    /\ tail' = [tail EXCEPT !.next = @ + 1,
                            !.frames = @ \cup {[seq |-> tail.next, op |-> op, keys |-> ks, rows |-> rows]}]
    /\ log' = Append(log, [seq |-> tail.next, by |-> c, keys |-> ks, rows |-> rows,
                           kind |-> op, state |-> "staged"])

Staged(b, seq) == [b EXCEPT !.high = seq, !.undurable = @ \cup {seq}]

PushPending(b, rows, seq) ==
    IF rows = EmptyBag THEN b
    ELSE [b EXCEPT !.pending = Append(@, [seq |-> seq, rows |-> rows, claimed |-> FALSE])]

\* Rows whose key has a live keyed entry supersede it; the others are appended.
RouteAppends(b, rows, seq) ==
    LET hit == OfKeys(rows, Entered(b.keyed))
        routed == [b EXCEPT !.keyed = [k \in Keys |->
                       IF k \in KeysOf(hit)
                       THEN [stamp |-> b.nextStamp, seq |-> seq, row |-> OfKeys(hit, {k})]
                       ELSE b.keyed[k]],
                   !.nextStamp = @ + 1]
    IN  IF hit = EmptyBag THEN PushPending(b, rows, seq)
        ELSE PushPending(routed, Without(rows, KeysOf(hit)), seq)

\* What a statement needs to be taken out again: the entries it displaced.
Undo(b, ks) == {[key |-> k, stamp |-> b.nextStamp, displaced |-> b.keyed[k]] : k \in ks}

\* The last generation may or may not be committed yet.
Posted == flush.pc \in {"post", "reload"}
Answered(c) == [job EXCEPT ![c].pc = "done"]

\* An INSERT.  The application respects the key it declared: no row has it, and
\* the statement that deleted one is acknowledged.
BufferedInsert(c) ==
    /\ job[c].pc = "new" /\ bound.stmt[c].kind = "insert"
    /\ LET ks == bound.stmt[c].keys
           rows == SetToBag({Row(k, {c}) : k \in ks})
       IN  /\ OfKeys(SerialRows (+) AckedRows, ks) = EmptyBag
           /\ Stage(c, "append", ks, rows)
           /\ buf' = RouteAppends(Staged(buf, tail.next), rows, tail.next)
           /\ job' = [job EXCEPT ![c].pc = "wait", ![c].seq = tail.next,
                                 ![c].undo = Undo(buf, ks \cap Entered(buf.keyed))]
           /\ happened' = happened \cup
                 (IF Posted /\ ks \cap Entered(Last(buf.flushed).keyed) # {}
                  THEN {"overtaken"} ELSE {})
    /\ UNCHANGED <<bound, lake, flush, serial, sub, departed>>

\* A keyed op: frame and map entry under one lock.
KeyedWrite(c, op, k, rows) ==
    /\ Stage(c, op, {k}, rows)
    /\ buf' = [Staged(buf, tail.next) EXCEPT
                 !.keyed = Entry(@, k, buf.nextStamp, tail.next, rows),
                 !.nextStamp = @ + 1]
    /\ job' = [job EXCEPT ![c].pc = "wait", ![c].seq = tail.next, ![c].undo = Undo(buf, {k})]

SetState(seq, s) == [i \in DOMAIN log |->
                        IF log[i].seq = seq THEN [log[i] EXCEPT !.state = s] ELSE log[i]]
DurableSeqs == {log[i].seq : i \in {j \in DOMAIN log : Durable(log[j])}}
Unlock(c) == IF serial = c THEN Nobody ELSE serial
Logged(seq) == log[CHOOSE i \in DOMAIN log : log[i].seq = seq]

\* The wait succeeds: tail snapshots may serve the op.
NoteDurable(c) ==
    /\ job[c].pc = "wait"
    /\ buf' = [buf EXCEPT !.undurable = @ \ {job[c].seq}]
    /\ log' = SetState(job[c].seq, "durable")
    /\ job' = [job EXCEPT ![c].pc = "publish"]
    /\ UNCHANGED <<bound, lake, tail, flush, serial, sub, happened, departed>>

\* Then it is broadcast, outside the buffer's lock, and the client has its answer.
PublishAcked(c) ==
    /\ job[c].pc = "publish"
    /\ LET e == Logged(job[c].seq)
       IN  Publish([seq |-> e.seq, op |-> e.kind,
                    rows |-> IF e.kind = "delete" THEN SetToBag({Row(k, {}) : k \in e.keys})
                             ELSE e.rows])
    /\ log' = SetState(job[c].seq, "acked")
    /\ job' = Answered(c)
    /\ serial' = Unlock(c)
    /\ UNCHANGED <<bound, lake, tail, buf, flush, happened, departed>>

\* A flush has claimed what the statement routed, or drained it.
Claimed(c) ==
    LET mine == {i \in DOMAIN buf.pending : buf.pending[i].seq = job[c].seq}
        keyed == {u.key : u \in job[c].undo}
        plain == bound.stmt[c].kind = "insert" /\ bound.stmt[c].keys \ keyed # {}
    IN  \/ plain /\ (mine = {} \/ \E i \in mine : buf.pending[i].claimed)
        \/ \E u \in job[c].undo : u.stamp < buf.claimedBelow \/ u.key \notin Entered(buf.keyed)

\* The rows of a failed statement leave the buffer, and displaced entries return.
Unroute(c) ==
    LET mine(b) == b.seq # job[c].seq
        undone(k) == {u \in job[c].undo : u.key = k /\ u.stamp = buf.keyed[k].stamp}
    IN  [buf EXCEPT !.undurable = @ \ {job[c].seq},
                    !.pending = SelectSeq(@, mine),
                    !.keyed = [k \in Keys |-> IF undone(k) = {} THEN buf.keyed[k]
                                              ELSE (CHOOSE u \in undone(k) : TRUE).displaced]]

\* The tail cannot make the staged frames durable: they never replay, their
\* sequences are burned and every wait on them fails.
TailFails ==
    /\ bound.faults > 0 /\ \E c \in Clients : job[c].pc = "wait"
    /\ bound' = [bound EXCEPT !.faults = @ - 1]
    /\ tail' = [tail EXCEPT !.frames = {f \in @ : f.seq \in DurableSeqs}]
    /\ job' = [c \in Clients |-> IF job[c].pc = "wait" THEN [job[c] EXCEPT !.pc = "doomed"]
                                 ELSE job[c]]
    /\ UNCHANGED <<lake, buf, flush, serial, sub, log, happened, departed>>

\* A wait returns its error: the failure is exact, unless a flush has claimed
\* the rows.  It may bring back an entry that has failed as well.
UnrouteFailed(c) ==
    /\ job[c].pc = "doomed"
    /\ IF Claimed(c) THEN UNCHANGED <<buf, log, happened>>
       ELSE /\ buf' = Unroute(c)
            /\ log' = SetState(job[c].seq, "failed")
            /\ happened' = happened \cup
                  (IF \E u \in job[c].undo : u.displaced.seq # 0 /\ ~Lasting(Logged(u.displaced.seq))
                   THEN {"resurrected"} ELSE {})
    /\ job' = [job EXCEPT ![c].pc = "failed"]
    /\ serial' = Unlock(c)
    /\ UNCHANGED <<bound, lake, tail, flush, sub, departed>>

-----------------------------------------------------------------------------
(* Keyed UPDATE and DELETE. *)

KeyOf(c) == CHOOSE k \in bound.stmt[c].keys : TRUE
IsKeyed(c) == bound.stmt[c].kind \in {"update", "delete"}

\* The statement takes the lock; a live map entry is the current row.
TryKeyedDml(c) ==
    /\ job[c].pc = "new" /\ IsKeyed(c) /\ serial = Nobody
    /\ serial' = c
    /\ job' = IF KeyOf(c) \in Entered(buf.keyed)
              THEN [job EXCEPT ![c].pc = "apply", ![c].current = buf.keyed[KeyOf(c)].row]
              ELSE [job EXCEPT ![c].pc = "scan", ![c].meta = Tip]
    /\ UNCHANGED <<bound, lake, tail, buf, flush, sub, log, happened, departed>>

\* Otherwise it is read through the union view, of the metadata loaded above.
KeyedLookup(c) ==
    /\ job[c].pc = "scan"
    /\ job' = [job EXCEPT ![c].pc = "apply",
                          ![c].current = OfKeys(UnionRead(job[c].meta), {KeyOf(c)})]
    /\ UNCHANGED <<bound, lake, tail, buf, flush, serial, sub, log, happened, departed>>

\* No row: zero rows affected.  Duplicates: the synchronous path decides.
KeyedApply(c) ==
    /\ job[c].pc = "apply"
    /\ LET current == job[c].current
       IN  CASE current = EmptyBag ->
                  /\ job' = Answered(c) /\ serial' = Unlock(c)
                  /\ UNCHANGED <<tail, buf, log>>
             [] BagCardinality(current) > 1 ->
                  /\ job' = [job EXCEPT ![c].pc = "sync"] /\ serial' = Unlock(c)
                  /\ UNCHANGED <<tail, buf, log>>
             [] OTHER ->
                  /\ IF bound.stmt[c].kind = "delete" THEN KeyedWrite(c, "delete", KeyOf(c), EmptyBag)
                     ELSE KeyedWrite(c, "upsert", KeyOf(c), SetBy(current, c))
                  /\ UNCHANGED serial
    /\ UNCHANGED <<bound, lake, flush, sub, happened, departed>>

-----------------------------------------------------------------------------
(* The synchronous path on a keyed table. *)

HasPending == buf.pending # <<>> \/ Entered(buf.keyed) # {}

Skipped == happened' = happened \cup
             (IF ~HasPending /\ Posted THEN {"unfenced"} ELSE {})

\* The lock first, then the fence, which is skipped when nothing is pending.
TrySerializedSyncDml_NoLock(c) ==
    /\ job[c].pc = "sync" \/ (job[c].pc = "new" /\ bound.stmt[c].kind = "sync")
    /\ job' = [job EXCEPT ![c].pc = IF HasPending THEN "fence" ELSE "execute"]
    /\ Skipped
    /\ UNCHANGED <<bound, lake, tail, buf, flush, serial, sub, log, departed>>

TrySerializedSyncDml(c) ==
    /\ job[c].pc = "sync" \/ (job[c].pc = "new" /\ bound.stmt[c].kind = "sync")
    /\ serial = Nobody
    /\ serial' = c
    /\ job' = [job EXCEPT ![c].pc = IF HasPending THEN "fence" ELSE "execute"]
    /\ Skipped
    /\ UNCHANGED <<bound, lake, tail, buf, flush, sub, log, departed>>

\* The commit engine's UPDATE or DELETE of the committed rows of the key: the
\* catalog applies it only to the snapshot it was computed from, so that load and
\* commit of the attempt that lands are one step.  Its place in the serial order
\* is before the statements that are not committed.
SyncRows(c) ==
    IF bound.stmt[c].kind = "delete" THEN EmptyBag
    ELSE SetBy(OfKeys(lake[Tip].rows, bound.stmt[c].keys), c)
Execute(c) ==
    /\ job[c].pc = "execute"
    /\ LET ks == bound.stmt[c].keys
           open(e) == e.seq > lake[Tip].mark
           done(e) == ~open(e)
           entry == [seq |-> 0, by |-> c, keys |-> ks, rows |-> SyncRows(c), kind |-> "sync",
                     state |-> "acked"]
       IN  IF OfKeys(lake[Tip].rows, ks) = EmptyBag THEN UNCHANGED <<lake, log>>
           ELSE /\ lake' = Append(lake, [lake[Tip] EXCEPT
                                !.rows = Without(@, ks) (+) SyncRows(c)])
                /\ log' = SelectSeq(log, done) \o <<entry>> \o SelectSeq(log, open)
    /\ job' = Answered(c)
    /\ serial' = Unlock(c)
    /\ UNCHANGED <<bound, tail, buf, flush, sub, happened, departed>>

\* The engine gives up: the statement fails and has changed nothing.
ExecuteFails(c) ==
    /\ job[c].pc = "execute" /\ bound.faults > 0
    /\ bound' = [bound EXCEPT !.faults = @ - 1]
    /\ job' = [job EXCEPT ![c].pc = "failed"]
    /\ serial' = Unlock(c)
    /\ UNCHANGED <<lake, tail, buf, flush, sub, log, happened, departed>>

-----------------------------------------------------------------------------
(* The flush. *)

\* What the statement that asked for the flush does next.
Flushed(ok) == IF flush.by = Nobody THEN job
               ELSE [job EXCEPT ![flush.by].pc = IF ok THEN "execute" ELSE "failed"]
Released(ok) == IF flush.by # Nobody /\ ~ok THEN Unlock(flush.by) ELSE serial
\* The flush ends and its lock is free.
Finish(ok) == flush' = Free /\ job' = Flushed(ok) /\ serial' = Released(ok)

\* Generations whose commit some metadata load has shown go once they are old.
Expired(g, old) == g.observed /\ old
GcFlushed(old) == LET keep(g) == ~Expired(g, old) IN SelectSeq(buf.flushed, keep)
Departing(old) == {buf.flushed[i].mark : i \in {j \in DOMAIN buf.flushed : Expired(buf.flushed[j], old)}}

FlushNow(by, old) ==
    /\ flush.pc = "idle"
    /\ by # Nobody => job[by].pc = "fence"
    /\ by = Nobody => HasPending /\ bound.ticks > 0
    /\ bound' = IF by = Nobody THEN [bound EXCEPT !.ticks = @ - 1] ELSE bound
    /\ buf' = [buf EXCEPT !.flushed = GcFlushed(old)]
    /\ IF HasPending
       THEN /\ flush' = [Free EXCEPT !.pc = "snapshot", !.by = by, !.attempt = 1]
            /\ job' = IF by = Nobody THEN job ELSE [job EXCEPT ![by].pc = "flushing"]
       ELSE /\ flush' = Free
            /\ job' = [job EXCEPT ![by].pc = "execute"]
    /\ departed' = Max(Departing(old) \cup {departed})
    /\ UNCHANGED <<lake, tail, serial, sub, log, happened>>

\* snapshot_pending: everything buffered is claimed.
FlushSnapshot ==
    /\ flush.pc = "snapshot"
    /\ IF ~HasPending THEN Finish(TRUE) /\ UNCHANGED buf
       ELSE /\ buf' = [buf EXCEPT !.pending = [i \in DOMAIN @ |-> [@[i] EXCEPT !.claimed = TRUE]],
                                  !.claimedBelow = buf.nextStamp]
            /\ flush' = [flush EXCEPT !.pc = "prepare", !.batches = buf.pending,
                                      !.keyed = buf.keyed, !.mark = buf.high]
            /\ UNCHANGED <<job, serial>>
    /\ UNCHANGED <<bound, lake, tail, sub, log, happened, departed>>

\* [Append(pending), Delete(keys), Append(upserts)] over the committed rows.
Composed(rows) ==
    Without(rows (+) RowsOf(flush.batches), Entered(flush.keyed)) (+) Upserts(flush.keyed)

\* The claimed prefix leaves, and the entries that were not overwritten since.
DrainKeyedSnapshot_ByKey(b) == [k \in Keys |-> IF k \in Entered(flush.keyed) THEN NoEntry ELSE b.keyed[k]]
DrainKeyedSnapshot(b) ==
    [k \in Keys |-> IF flush.keyed[k].stamp # 0 /\ b.keyed[k].stamp = flush.keyed[k].stamp
                    THEN NoEntry ELSE b.keyed[k]]
DropPendingPrefix(b) ==
    [b EXCEPT !.pending = SubSeq(@, Len(flush.batches) + 1, Len(@)),
              !.keyed = DrainKeyedSnapshot(b)]

NoteObserved(b, meta) ==
    [b EXCEPT !.flushed = [i \in DOMAIN @ |->
                             [@[i] EXCEPT !.observed = @ \/ ContainedIn(meta, buf.flushed[i])]]]

\* record_watermark, then the covered frames go.
TailTruncateCovered(upto) ==
    tail' = [tail EXCEPT !.sidecar = IF upto > @ THEN upto ELSE @,
                         !.frames = {f \in @ : f.seq > upto}]

\* The claimed prefix as a flushed generation, on the metadata just loaded.
MovePendingToFlushed(covered) ==
    LET seen == NoteObserved(buf, Tip)
    IN  [DropPendingPrefix(seen) EXCEPT !.flushed = Append(@,
           [snapshot |-> 0, covered |-> covered, mark |-> flush.mark, batches |-> flush.batches,
            keyed |-> flush.keyed, observed |-> FALSE])]

\* The commit has landed: the covered frames go, subscribers hear of it.
Landed ==
    /\ TailTruncateCovered(flush.mark)
    /\ PublishWatermark(flush.mark)
    /\ Finish(TRUE)

GenerationAlreadyCommitted == lake[Tip].mark >= flush.mark
NetsZero == Composed(lake[Tip].rows) = lake[Tip].rows

\* An earlier flush of these rows landed and nobody was told: not posted again.
FlushCovered ==
    /\ flush.pc = "prepare" /\ GenerationAlreadyCommitted
    /\ buf' = MovePendingToFlushed(TRUE)
    /\ Landed
    /\ UNCHANGED <<bound, lake, log, happened, departed>>

\* Nothing to change: the prefix is dropped.
FlushNetsZero ==
    /\ flush.pc = "prepare" /\ ~GenerationAlreadyCommitted /\ NetsZero
    /\ buf' = DropPendingPrefix(NoteObserved(buf, Tip))
    /\ departed' = Max({departed, flush.mark})
    /\ Landed
    /\ UNCHANGED <<bound, lake, log, happened>>

\* The commit is staged; the prefix becomes a generation before it is posted.
FlushPrepare ==
    /\ flush.pc = "prepare" /\ ~GenerationAlreadyCommitted /\ ~NetsZero
    /\ buf' = MovePendingToFlushed(FALSE)
    /\ flush' = [flush EXCEPT !.pc = "post", !.base = Tip]
    /\ UNCHANGED <<bound, lake, tail, serial, job, sub, log, happened, departed>>

\* The metadata cannot be loaded, or the commit not staged: the rows stay pending.
FlushUnprepared ==
    /\ flush.pc = "prepare" /\ bound.faults > 0
    /\ bound' = [bound EXCEPT !.faults = @ - 1]
    /\ Finish(FALSE)
    /\ UNCHANGED <<lake, tail, buf, sub, log, happened, departed>>

\* The catalog applies the commit if the snapshot it was staged on is current.
Post ==
    /\ flush.pc = "post" /\ flush.base = Tip
    /\ lake' = Append(lake, [rows |-> Composed(lake[Tip].rows), mark |-> flush.mark])
    /\ buf' = [buf EXCEPT !.flushed[Len(buf.flushed)].snapshot = Tip + 1]

FlushCommitted ==
    /\ Post
    /\ Landed
    /\ UNCHANGED <<bound, log, happened, departed>>

\* The generation goes back to the front; a key updated since keeps its newer op.
MoveFlushedBackToPending(b) ==
    LET g == Last(b.flushed)
        claim(batch) == [batch EXCEPT !.claimed = TRUE]
    IN  [b EXCEPT !.flushed = Front(@),
                  !.pending = [i \in DOMAIN g.batches |-> claim(g.batches[i])] \o @,
                  !.keyed = [k \in Keys |-> IF b.keyed[k].stamp = 0 THEN g.keyed[k] ELSE b.keyed[k]]]

\* An entry that is dropped for a newer op whose wait may still fail.
Merged == IF \E k \in Entered(Last(buf.flushed).keyed) : buf.keyed[k].seq \in buf.undurable
          THEN {"merged"} ELSE {}

\* 409: again from fresh metadata, a bounded number of times.
FlushConflict ==
    /\ flush.pc = "post" /\ flush.base # Tip
    /\ buf' = MoveFlushedBackToPending(buf)
    /\ happened' = happened \cup Merged
    /\ IF flush.attempt < MAX_COMMIT_ATTEMPTS
       THEN /\ flush' = [flush EXCEPT !.pc = "snapshot", !.attempt = @ + 1]
            /\ UNCHANGED <<job, serial>>
       ELSE Finish(FALSE)
    /\ UNCHANGED <<bound, lake, tail, sub, log, departed>>

\* The request has no answer, and may have been applied.
FlushUnanswered ==
    /\ bound.faults > 0
    /\ bound' = [bound EXCEPT !.faults = @ - 1]
    /\ \/ Post
       \/ flush.pc = "post" /\ UNCHANGED <<lake, buf>>
    /\ flush' = [flush EXCEPT !.pc = "reload"]
    /\ UNCHANGED <<tail, serial, job, sub, log, happened, departed>>

\* The metadata tells, when it can be loaded; if not, the rows go back although
\* they may be committed, until a flush finds them covered.
FlushReload(loaded) ==
    /\ flush.pc = "reload"
    /\ IF loaded /\ GenerationAlreadyCommitted
       THEN Landed /\ UNCHANGED <<buf, happened>>
       ELSE /\ buf' = MoveFlushedBackToPending(buf)
            /\ happened' = happened \cup Merged
                              \cup (IF GenerationAlreadyCommitted THEN {"requeued"} ELSE {})
            /\ Finish(FALSE)
            /\ UNCHANGED <<tail, sub>>
    /\ UNCHANGED <<bound, lake, log, departed>>

\* Another writer commits (a compaction, say): the rows stay the same.
ForeignCommit ==
    /\ bound.foreign > 0
    /\ bound' = [bound EXCEPT !.foreign = @ - 1]
    /\ lake' = Append(lake, lake[Tip])
    /\ UNCHANGED <<tail, buf, flush, serial, job, sub, log, happened, departed>>

-----------------------------------------------------------------------------
(* Crash and boot replay. *)

\* One frame, in sequence order: appends are routed again, keyed ops entered.
ReplayKeyedFrame(b, f) ==
    LET k == CHOOSE key \in f.keys : TRUE
    IN  [b EXCEPT !.keyed = Entry(@, k, b.nextStamp, f.seq, f.rows), !.nextStamp = @ + 1]
ReplayFrame(b, f) ==
    IF f.op = "append" THEN RouteAppends(b, f.rows, f.seq) ELSE ReplayKeyedFrame(b, f)

Older(f, g) == f.seq < g.seq
ReplayTail(frames) ==
    LET ordered == SetToSortSeq(frames, Older)
        b == FoldLeft(ReplayFrame, NewBuf, ordered)
    IN  IF ordered = <<>> THEN b ELSE [b EXCEPT !.high = Last(ordered).seq]

\* A crash loses frames from some sequence on, none whose wait is over.
CrashAndReplay(first) ==
    /\ bound.crashes > 0
    /\ \A seq \in DurableSeqs : seq < first
    /\ bound' = [bound EXCEPT !.crashes = @ - 1]
    /\ LET w == IF tail.sidecar > lake[Tip].mark THEN tail.sidecar ELSE lake[Tip].mark
           kept == {f \in tail.frames : f.seq > w /\ f.seq < first}
           state(e) == CASE e.seq <= w -> e.state
                         [] e.seq > w /\ e.seq \notin {f.seq : f \in kept} -> "failed"
                         [] OTHER -> IF Confirmed(e) THEN "acked" ELSE "durable"
       IN  /\ tail' = [tail EXCEPT !.frames = kept]
           /\ buf' = ReplayTail(kept)
           /\ log' = [i \in DOMAIN log |-> [log[i] EXCEPT !.state = state(log[i])]]
           /\ departed' = Max({departed, w})
    /\ flush' = Free /\ serial' = Nobody /\ sub' = NoSub
    /\ job' = [c \in Clients |-> IF job[c].pc \in {"new", "done"} THEN job[c]
                                 ELSE [job[c] EXCEPT !.pc = "failed"]]
    /\ UNCHANGED <<lake, happened>>

-----------------------------------------------------------------------------
(* Properties. *)

\* A union read of the head returns the rows that the statements leave when
\* they are applied one by one in tail sequence order: whatever a flush, a merge
\* back, a failed wait or a replay is doing, nothing is lost, doubled or stale.
\* Not when an INSERT overtakes the commit that carries its key's DELETE, see
\* ReinsertSurvives; when an op fails that a merge back preferred to an older
\* acknowledged one; after two failures on one key (unroute_failed says so); nor
\* when a commit landed, but neither its answer nor the reload that follows says
\* so, and its ops are queued again (see WriteBuffer).
UnionReadsSerial ==
    happened \cap {"overtaken", "merged", "resurrected", "requeued"} = {}
      => UnionRead(Tip) = SerialRows

\* A keyed or synchronous write builds on the row that precedes it in the serial
\* order: no full-row image computed from an older row replaces a newer one
\* (the keyed-serial lock).  Not when a fence finds the rows in an unfinished
\* flush, which has_pending does not count, and not after failed statements.
Built(i) == LET base == OfKeys(Serial(lake[1].rows, SubSeq(log, 1, i - 1)), log[i].keys)
            IN  log[i].rows = EmptyBag \/ log[i].rows = SetBy(base, log[i].by)
NothingClobbered ==
    "unfenced" \notin happened /\ (\A i \in DOMAIN log : Lasting(log[i]))
      => \A i \in DOMAIN log : log[i].kind \in {"upsert", "sync"} => Built(i)

\* Claimed by buffer.rs: "an insert acked AFTER the keyed op became the key's
\* upsert row instead and survives" the flush of that op.
ReinsertSurvives == UnionRead(Tip) = SerialRows
====
