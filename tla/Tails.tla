-------------------------------- MODULE Tails --------------------------------
(* The two storage backends of the durable tail behind the same buffer: an instance
   uses one of them.  What the TailStore trait promises is stated for both. *)
EXTENDS LocalWal, PgTail

vars == <<storeVars, walVars, pgVars>>

Init == StoreInit /\ WalInit /\ PgInit

OnWal(action) == bound.backend = "local" /\ action /\ UNCHANGED pgVars
OnPg(action) == bound.backend = "pg" /\ action /\ UNCHANGED walVars

Next ==
    \/ \E p \in Servers, s \in Stmts :
         \/ OnWal(AppendStaged(p, s)) \/ OnWal(AppendFails(p, s)) \/ OnWal(AppendPoisons(p, s))
         \/ OnPg(PgAppend(p, s)) \/ OnPg(PgAppendFails(p, s))
    \/ OnWal(PoisonCleanup)
    \/ \E s \in Stmts : OnWal(LeadSync(s)) \/ OnWal(WaitOk(s)) \/ OnWal(WaitFails(s))
    \/ \E id \in DOMAIN sync : OnWal(SyncReturns(id))
    \/ \E p \in Servers :
         \/ OnWal(OpenDir(p)) \/ OnWal(ReplayWal(p)) \/ OnWal(WalCrash(p)) \/ OnWal(PowerLoss(p))
         \/ OnWal(Rotate(p)) \/ OnWal(RotateFails(p)) \/ OnWal(RotateLeads(p))
         \/ OnWal(WalCommit(p)) \/ OnWal(RecordWatermark(p)) \/ OnWal(Truncate(p))
         \/ OnPg(PgOpen(p)) \/ OnPg(ConnectionDies(p)) \/ OnPg(PgCrash(p))
         \/ OnPg(PgFlush(p)) \/ OnPg(PgCommit(p)) \/ OnPg(PgRecordWatermark(p))
         \/ OnPg(PgTruncate(p))

Spec == Init /\ [][Next]_vars

-----------------------------------------------------------------------------
(* Properties. *)

\* What a process that opened the tail now would have to apply.
Recoverable ==
    IF bound.backend = "pg"
    THEN IF db.identity = 0 THEN {} ELSE StmtsOf(Surviving(db.frames, db.identity, db.sidecar))
    ELSE IF root.format /\ root.identity # 0
    THEN StmtsOf(Surviving(ToSet(ScanTable.frames), root.identity, sidecar)) ELSE {}

Kept(s) == lake.rows[s] > 0 \/ s \in Recoverable

\* An acknowledged statement is in the lake, or the next boot finds it: whatever the
\* disk refused, whenever the process or the power went.
AckedKept == \A s \in Stmts : status[s] = "acked" => Kept(s) \/ "marker" \in happened

\* The same, except behind a poison marker whose next segment is gone, and behind
\* frames that an earlier boot recovered from the page cache.
AckedReplayed ==
    \A s \in Stmts : status[s] = "acked" =>
        Kept(s) \/ {"marker", "stranded", "unsynced"} \cap happened # {} \/ Stranded

\* Frames that were flushed are dropped at replay: no statement is applied twice,
\* unless a replacement started beside a process that had rows left to flush.
AppliedOnce == \A s \in Stmts : lake.rows[s] <= 1 \/ "overlap" \in happened

\* "An error means the frame is NOT durable and will never replay": a statement that
\* was told it failed is never applied, also by a later process.
FailedNeverApplied ==
    \A s \in Stmts : status[s] = "failed" =>
        (lake.rows[s] = 0 /\ s \notin Recoverable) \/ {"marker", "reply"} \cap happened # {}
=============================================================================
