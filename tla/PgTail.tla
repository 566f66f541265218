------------------------------- MODULE PgTail -------------------------------
(* The Postgres tail of tail_pg.rs, one table: the frames and watermarks tables, the
   identity row, and the one connection of each server, which holds the advisory lock
   of the tail for as long as it lives and is never made again. *)
EXTENDS TailStore

VARIABLES
    db,     \* [frames, sidecar, identity, holder]: the tail schema and its lock
    conn,   \* per server: none, live or dead
    next    \* per server: the next sequence it hands out

pgVars == <<db, conn, next>>

PgInit ==
    /\ db = [frames |-> {}, sidecar |-> 0, identity |-> 0, holder |-> 0]
    /\ conn = [p \in Servers |-> "none"]
    /\ next = [p \in Servers |-> 1]

\* pg_try_advisory_lock: refused while another session holds the lock.
TakesLock(p) == db.holder = 0

\* The identity row is inserted once (ON CONFLICT DO NOTHING) and read back.
MintIdentity == IF db.identity = 0 THEN 1 ELSE db.identity

\* The session ends on both sides: the lock goes with it.
Released(p) == [db EXCEPT !.holder = IF @ = p THEN 0 ELSE @]

\* The first sequence: behind the frames and behind the sidecar.
Seed == Max2(TopSeq(db.frames), db.sidecar) + 1

\* replay: every frame of the table and its watermark row, which may be alone.
PgReplay == [frames |-> db.frames, sidecar |-> db.sidecar]

\* The lock, the identity and the seed, then replay_tail.
PgOpen(p) ==
    /\ p <= bound.servers /\ srv[p].st = "down" /\ TakesLock(p)
    /\ db' = [db EXCEPT !.holder = p, !.identity = MintIdentity]
    /\ next' = [next EXCEPT ![p] =
                  Max2(Seed, EffectiveWatermark(MintIdentity, PgReplay.sidecar) + 1)]
    /\ Boots(p, MintIdentity, PgReplay.frames, PgReplay.sidecar)
    /\ conn' = [conn EXCEPT ![p] = "live"]
    /\ happened' = happened \cup (IF Overlaps(p) THEN {"overlap"} ELSE {})
    /\ UNCHANGED <<bound, clientVars, lake, spent>>

\* The row of one statement.
FrameRow(p, s) == [seq |-> next[p], stmt |-> s]

\* append: one INSERT, durable when it returns; only then is the sequence consumed.
PgAppend(p, s) ==
    /\ Issues(p, s) /\ conn[p] = "live"
    /\ db' = [db EXCEPT !.frames = @ \cup {FrameRow(p, s)}]
    /\ next' = [next EXCEPT ![p] = @ + 1]
    /\ Routes(p, s, next[p])
    /\ Answers(s, "acked")
    /\ UNCHANGED <<bound, lake, spent, happened, conn>>

\* The connection breaks under the INSERT, which may have been committed; or it broke
\* before.  The statement errors.
PgAppendFails(p, s) ==
    /\ Issues(p, s)
    /\ \/ conn[p] = "dead" /\ Faulty({}) /\ Answers(s, "failed") /\ UNCHANGED pgVars
       \/ /\ conn[p] = "live"
          /\ \E kept \in {{}, {FrameRow(p, s)}} :
               /\ Faulty({"conn"} \cup IF kept = {} THEN {} ELSE {"reply"})
               /\ db' = [Released(p) EXCEPT !.frames = @ \cup kept]
          /\ conn' = [conn EXCEPT ![p] = "dead"]
          /\ Answers(s, "failed")
          /\ UNCHANGED next
    /\ UNCHANGED <<bound, seqOf, lake, srv>>

ConnectionDies(p) ==
    /\ conn[p] = "live" /\ Faulty({"conn"})
    /\ conn' = [conn EXCEPT ![p] = "dead"] /\ db' = Released(p)
    /\ UNCHANGED <<bound, clientVars, lake, srv, next>>

\* A flush starts (rotate is a no-op here).
PgFlush(p) ==
    /\ Up(p) /\ srv[p].fl = "idle" /\ srv[p].pending # {}
    /\ srv' = [srv EXCEPT ![p].fl = "commit"]
    /\ UNCHANGED <<bound, clientVars, lake, spent, happened, pgVars>>

PgCommit(p) == Commit(p) /\ UNCHANGED pgVars

\* The upsert keeps the greater sequence (GREATEST).
Upserted(seq) == [db EXCEPT !.sidecar = Max2(@, seq)]

\* Without a connection the upsert fails, and the truncate is skipped.
PgRecordWatermark(p) ==
    /\ srv[p].fl = "record"
    /\ IF conn[p] = "live"
       THEN /\ db' = Upserted(srv[p].upto)
            /\ srv' = [srv EXCEPT ![p].fl = "truncate"]
       ELSE UNCHANGED db /\ srv' = [srv EXCEPT ![p] = Flushed(@)]
    /\ UNCHANGED <<bound, clientVars, lake, spent, happened, conn, next>>

PgTruncate(p) ==
    /\ srv[p].fl = "truncate"
    /\ db' = IF conn[p] = "live" THEN [db EXCEPT !.frames = {f \in @ : f.seq > srv[p].upto}]
             ELSE db
    /\ srv' = [srv EXCEPT ![p] = Flushed(@)]
    /\ UNCHANGED <<bound, clientVars, lake, spent, happened, conn, next>>

PgCrash(p) ==
    /\ Faulty({"crash"}) /\ Dies(p)
    /\ db' = Released(p)
    /\ conn' = [conn EXCEPT ![p] = "none"] /\ next' = [next EXCEPT ![p] = 1]
    /\ UNCHANGED <<bound, seqOf, lake>>
=============================================================================
