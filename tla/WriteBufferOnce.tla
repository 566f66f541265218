-------------------------- MODULE WriteBufferOnce --------------------------
(***************************************************************************)
(* Exactly-once, the upper half, and the refinement: the rows of a         *)
(* statement enter the table at most once, a statement whose error is      *)
(* exact never enters it, and WriteBuffer implements ExactlyOnceInserts.   *)
(* A scan, too, returns a row at most once.                                *)
(***************************************************************************)
EXTENDS WriteBufferProofs

\* s has not been applied, and no request would apply it.
Unsent(s) == table.rows[s] = 0 /\ \A p \in posts : s \notin p.stmts

Framed(s) == \E f \in frames : f.stmt = s

OwnStmts == UNION {StmtsOf(g.batches) : g \in OwnGenerations}

\* The process has s in its buffer.
Buffered(s) == s \in StmtsOf(pending) \/ (InFlight /\ s \in OwnStmts)

NoGhost == "ghost_frame" \notin happened

\* A batch that no flush of this process claimed has not been sent, so that
\* unroute_failed can take it back; the frame of a doomed wait is gone, and nothing
\* is left of a statement that failed.
FailsExactly(s) ==
  /\ status[s] = "new" => Unsent(s)
  /\ status[s] \in {"staged", "doomed"} /\ Loose(pending, s) => Unsent(s)
  /\ NoGhost /\ status[s] = "doomed" => ~Framed(s)
  /\ NoGhost /\ status[s] = "failed" => Unsent(s) /\ ~Buffered(s) /\ ~Framed(s)

FailuresExact == \A s \in Stmts : FailsExactly(s)

\* What the table has is below its watermark and out of the buffer; the only
\* request is the one the flusher waits for, of its own generation, which the table
\* has not got while the watermark is below the flusher's mark.
SentOnce ==
  /\ \A s \in Stmts : table.rows[s] <= 1
  /\ \A s \in Stmts : Applied(s) => seqOf[s] <= table.mark /\ s \notin StmtsOf(pending)
  /\ flush.pc # "posted" => flush.reply = "none"
  /\ posts # {} => flush.pc = "posted" /\ flush.reply = "none"
  /\ \A p, r \in posts : p = r
  /\ \A p \in posts : p.id = flush.id /\ p.stmts \subseteq OwnStmts
  /\ flush.pc = "posted" /\ flush.reply # "committed" => table.mark < flush.mark
  /\ InFlight /\ table.mark < flush.mark => \A s \in OwnStmts : ~Applied(s)

OnceInv == /\ Bookkeeping /\ BufferedOnce /\ FailuresExact
           /\ NoBlindRetry => SentOnce

----------------------------------------------------------------------------
\* An error that unroute_failed made exact stays exact.

\* Only the flusher sends a statement (flush_table).
LEMMA UnsentKept ==
  ASSUME Bookkeeping, Next, ~FlushPost, NEW s \in Stmts, Unsent(s)
  PROVE  Unsent(s)'
<1>1. TypeOK
  BY Zenon DEF Bookkeeping
<1>2. table'.rows = table.rows /\ posts' \in SUBSET posts => Unsent(s)'
  BY Zenon DEF Unsent
<1>3. UNCHANGED <<table, posts>> => Unsent(s)'
  BY <1>2, Zenon
<1>4. ASSUME NEW x \in Stmts, Stage(x) \/ StageFails(x) \/ WaitOk(x) \/ WaitFails(x)
      PROVE  Unsent(s)'
  BY <1>3, <1>4, Zenon DEF Stage, StageFails, WaitOk, WaitFails, catalogVars
<1>5. CASE SyncFails \/ FlushNow \/ FlushSnapshot \/ FlushCovered \/ FlushLoadFails
           \/ FlushCommitted \/ FlushConflict \/ FlushReload \/ FlushReloadFails \/ Boot
           \/ BootFrameless \/ ScanLoad \/ ScanStale \/ ScanOverlay
  BY <1>3, <1>5, Zenon DEF SyncFails, FlushNow, FlushSnapshot, FlushCovered, FlushLoadFails,
    FlushCommitted, FlushConflict, FlushReload, FlushReloadFails, Boot, BootFrameless,
    ScanLoad, ScanStale, ScanOverlay, catalogVars
<1>6. CASE FlushAmbiguous \/ Crash
  <2>1. table' = table /\ posts' \in SUBSET posts
    BY <1>6, Zenon DEF FlushAmbiguous, Crash
  <2> QED BY <1>2, <2>1, Zenon
<1>7. CASE ForeignCommit \/ ForeignPropertyDrop
  <2>1. table'.rows = table.rows /\ posts' = posts
    BY <1>1, <1>7, Zenon DEF ForeignCommit, ForeignPropertyDrop, TypeOK, Metas
  <2> QED BY <1>2, <2>1, Zenon
<1>8. CASE CatalogApply
  <2>1. PICK p \in posts : CatalogProcess(p)
    BY <1>8, Zenon DEF CatalogApply
  <2>2. s \notin p.stmts /\ table.rows[s] = 0
    BY Zenon DEF Unsent
  <2>3. table'.rows[s] = 0 /\ posts' \in SUBSET posts
    BY <2>1, <2>2 DEF CatalogProcess
  <2> QED BY <2>3, Zenon DEF Unsent
<1> QED BY <1>4, <1>5, <1>6, <1>7, <1>8, Zenon DEF Next

\* Only an append writes a frame (stage).
LEMMA FramedKept ==
  ASSUME Bookkeeping, Next, NEW s \in Stmts, Framed(s)'
  PROVE  Framed(s) \/ Stage(s)
<1>1. TypeOK /\ IsFiniteSet(frames) /\ frames \in SUBSET Frames
  BY Zenon DEF Bookkeeping, FramesWellFormed, TypeOK
<1>2. frames' \in SUBSET frames => Framed(s)
  BY Zenon DEF Framed
<1>3. ASSUME NEW S \in SUBSET frames, frames' = AfterSync(frames, S) PROVE Framed(s)
  <2>1. \A g \in frames' : \E f \in frames : f.stmt = g.stmt
    BY <1>1, <1>3, SyncFacts
  <2> QED BY <2>1, Zenon DEF Framed
<1>4. ASSUME NEW upto \in Nat, TruncateCovered(upto) PROVE Framed(s)
  BY <1>1, <1>2, <1>4, TruncateFacts, Zenon
<1>5. flush.mark \in Nat /\ Watermark \in Nat
  BY <1>1, Zenon DEF TypeOK, FlusherStates, Metas, Watermark, Max2
<1>6. ASSUME NEW x \in Stmts, Stage(x), x # s PROVE Framed(s)
  <2> DEFINE n == [seq |-> nextSeq, stmt |-> x, synced |-> FALSE, age |-> 0]
  <2>1. frames' = frames \cup {n} /\ n.stmt = x
    BY <1>6, Zenon DEF Stage
  <2> HIDE DEF n
  <2> QED BY <1>6, <2>1, Zenon DEF Framed
<1>7. ASSUME NEW x \in Stmts, WaitOk(x) PROVE Framed(s)
  <2>1. frames' = AfterSync(frames, {f \in frames : Ours(f) /\ f.seq <= seqOf[x]})
    BY <1>7, Zenon DEF WaitOk
  <2> QED BY <1>3, <2>1, Zenon
<1>8. ASSUME NEW x \in Stmts, StageFails(x) \/ WaitFails(x) PROVE Framed(s)
  BY <1>2, <1>8, Zenon DEF StageFails, WaitFails, tailVars
<1>9. CASE FlushNow
  <2>1. frames' = frames \/ frames' = AfterSync(frames, {f \in frames : Ours(f)})
    BY <1>9, Zenon DEF FlushNow
  <2> QED BY <1>2, <1>3, <2>1, Zenon
<1>10. CASE SyncFails \/ FlushSnapshot \/ FlushPost \/ FlushLoadFails \/ FlushConflict
            \/ FlushAmbiguous \/ FlushReloadFails \/ CatalogApply \/ ForeignCommit
            \/ ForeignPropertyDrop \/ BootFrameless \/ ScanLoad \/ ScanStale \/ ScanOverlay
  BY <1>2, <1>10, Zenon DEF SyncFails, FlushSnapshot, FlushPost, FlushLoadFails,
    FlushConflict, FlushAmbiguous, FlushReloadFails, CatalogApply, CatalogProcess,
    ForeignCommit, ForeignPropertyDrop, BootFrameless, ScanLoad, ScanStale, ScanOverlay,
    tailVars
<1>11. CASE FlushCovered \/ FlushCommitted \/ FlushReload \/ Boot
  <2>1. \/ TruncateCovered(flush.mark) \/ TruncateCovered(Watermark)
        \/ UNCHANGED tailVars
    BY <1>11, Zenon DEF FlushCovered, FlushCommitted, FlushReload, Boot
  <2> QED BY <1>2, <1>4, <1>5, <2>1, Zenon DEF tailVars
<1>12. CASE Crash
  <2>1. \A g \in frames' : \E f \in frames : f.stmt = g.stmt
    BY <1>1, <1>12, CrashFacts, Zenon
  <2> QED BY <2>1, Zenon DEF Framed
<1> QED
  BY <1>6, <1>7, <1>8, <1>9, <1>10, <1>11, <1>12, Zenon DEF Next

\* Only an append or a replay brings a statement into the buffer.
LEMMA BufferedKept ==
  ASSUME Bookkeeping, Next, NEW s \in Stmts, Buffered(s)'
  PROVE  Buffered(s) \/ Framed(s) \/ Stage(s)
<1>1. TypeOK /\ IsFiniteSet(frames) /\ FlusherConsistent /\ IdsFresh /\ DownIsEmpty
  BY Zenon DEF Bookkeeping, FramesWellFormed
<1>2. pending \in Seq(Batches) /\ Idle.pc = "idle"
  BY <1>1, Zenon DEF TypeOK, Idle
<1>3. flush'.pc \notin {"posted", "reload"} => s \in StmtsOf(pending')
  BY Zenon DEF Buffered, InFlight
<1>4. ASSUME StmtsOf(pending') \subseteq StmtsOf(pending),
             flush'.pc = flush.pc \/ (flush.pc = "posted" /\ flush'.pc = "reload"),
             flush'.id = flush.id,
             \A h \in flushed' : \E g \in flushed : h.batches = g.batches /\ h.commit = g.commit
      PROVE  Buffered(s)
  <2>1. CASE s \in StmtsOf(pending')
    BY <1>4, <2>1, Zenon DEF Buffered
  <2>2. CASE InFlight' /\ s \in OwnStmts'
    <3>1. PICK h \in flushed' : h.commit.snap = flush'.id /\ s \in StmtsOf(h.batches)
      BY <2>2, Zenon DEF OwnStmts, OwnGenerations
    <3>2. PICK g \in flushed : h.batches = g.batches /\ h.commit = g.commit
      BY <1>4, Zenon
    <3>3. g \in OwnGenerations /\ s \in StmtsOf(g.batches)
      BY <1>4, <3>1, <3>2, Zenon DEF OwnGenerations
    <3>4. InFlight
      BY <1>4, <2>2, Zenon DEF InFlight
    <3> QED BY <3>3, <3>4, Zenon DEF Buffered, OwnStmts
  <2> QED BY <2>1, <2>2, Zenon DEF Buffered
<1>5. UNCHANGED <<pending, flush, flushed>> => Buffered(s)
  BY <1>4, Zenon
<1>6. ASSUME NEW x \in Stmts, Stage(x), x # s PROVE Buffered(s)
  <2>1. StmtsOf(pending') = StmtsOf(pending) \cup {x} /\ UNCHANGED <<flush, flushed>>
    BY <1>1, <1>6, StageFacts, Zenon DEF Stage
  <2> QED BY <1>6, <2>1, Zenon DEF Buffered, InFlight, OwnStmts, OwnGenerations
<1>7. ASSUME NEW x \in Stmts, WaitFails(x) PROVE Buffered(s)
  <2>1. StmtsOf(pending') \subseteq StmtsOf(pending) /\ UNCHANGED <<flush, flushed>>
    BY <1>1, <1>7, UnrouteFacts, Zenon DEF WaitFails
  <2> QED BY <1>4, <2>1, Zenon
<1>8. ASSUME NEW x \in Stmts, StageFails(x) \/ WaitOk(x) PROVE Buffered(s)
  BY <1>5, <1>8, Zenon DEF StageFails, WaitOk, bufferVars
<1>9. CASE SyncFails \/ ForeignCommit \/ ForeignPropertyDrop \/ ScanLoad \/ ScanStale
           \/ BootFrameless
  BY <1>5, <1>9, Zenon DEF SyncFails, ForeignCommit, ForeignPropertyDrop, ScanLoad, ScanStale,
    BootFrameless, bufferVars
<1>10. CASE FlushNow
  <2>1. pending' = pending /\ flush.pc = "idle" /\ (flush' = flush \/ flush'.pc = "snapshot")
    BY <1>10, Zenon DEF FlushNow, Idle
  <2> QED BY <1>3, <2>1, Zenon DEF Buffered
<1>11. CASE FlushSnapshot
  <2>1. StmtsOf(pending') = StmtsOf(pending)
    BY <1>2, <1>11, StmtsOfClaimed, Zenon DEF FlushSnapshot
  <2>2. flush'.pc \notin {"posted", "reload"}
    BY <1>1, <1>2, <1>11, Zenon DEF FlushSnapshot, TypeOK, FlusherStates
  <2> QED BY <1>3, <2>1, <2>2, Zenon DEF Buffered
<1>12. CASE FlushCovered \/ FlushPost
  <2>1. flush.pc = "load" /\ pending' = Suffix(flush.n)
    BY <1>12, Zenon DEF FlushCovered, FlushPost
  <2>2. StmtsOf(pending) = StmtsOf(Prefix(flush.n)) \cup StmtsOf(pending')
    BY <1>1, <2>1, MoveOutFacts, Zenon
  <2>3. ASSUME InFlight', s \in OwnStmts' PROVE s \in StmtsOf(Prefix(flush.n))
    <3>1. FlushPost
      BY <1>2, <1>12, <2>3, Zenon DEF FlushCovered, InFlight
    <3>2. /\ flush'.id = lastId + 1 /\ lastId \in Nat
          /\ flushed' = Observed(flushed, table)
               \cup {Generation([snap |-> lastId + 1, mark |-> 0], Prefix(flush.n))}
      BY <1>1, <3>1, Zenon DEF FlushPost, TypeOK, FlusherStates
    <3>3. \A g \in Observed(flushed, table) : g.commit.snap <= lastId /\ g.commit.snap \in Nat
      BY <1>1, ObservedFresh, Zenon
    <3>4. \A g \in OwnGenerations' : g.batches = Prefix(flush.n)
      BY <3>2, <3>3 DEF Generation, OwnGenerations
    <3> QED BY <2>3, <3>4, Zenon DEF OwnStmts
  <2> QED BY <2>2, <2>3, Zenon DEF Buffered
<1>13. CASE FlushLoadFails \/ FlushCommitted
  <2>1. flush'.pc = "idle" /\ pending' = pending
    BY <1>2, <1>13, Zenon DEF FlushLoadFails, FlushCommitted, bufferVars
  <2> QED BY <1>3, <2>1, Zenon DEF Buffered
<1>14. ASSUME InFlight, MoveBack(flush.id), flush'.pc \notin {"posted", "reload"}
       PROVE  Buffered(s)
  <2>1. PICK g \in flushed : /\ OwnGenerations = {g}
                             /\ StmtsOf(pending') = StmtsOf(g.batches) \cup StmtsOf(pending)
    BY <1>1, <1>14, MoveBackFacts, Zenon
  <2> QED BY <1>3, <1>14, <2>1, Zenon DEF Buffered, OwnStmts
<1>15. CASE FlushConflict
  BY <1>14, <1>15, Zenon DEF FlushConflict, InFlight, Idle
<1>16. CASE FlushReload \/ FlushReloadFails
  <2>1. InFlight /\ flush'.pc = "idle" /\ (pending' = pending \/ MoveBack(flush.id))
    BY <1>2, <1>16, Zenon DEF FlushReload, FlushReloadFails, InFlight
  <2> QED BY <1>3, <1>14, <2>1, Zenon DEF Buffered
<1>17. CASE FlushAmbiguous \/ CatalogApply
  <2>1. /\ flush'.pc = flush.pc \/ (flush.pc = "posted" /\ flush'.pc = "reload")
        /\ flush'.id = flush.id
    BY <1>1, <1>17, Zenon DEF FlushAmbiguous, CatalogApply, CatalogProcess, TypeOK, FlusherStates
  <2>2. UNCHANGED <<pending, flushed>>
    BY <1>17, Zenon DEF FlushAmbiguous, CatalogApply, CatalogProcess, bufferVars
  <2> QED BY <1>4, <2>1, <2>2, Zenon
<1>18. CASE Crash
  <2>1. StmtsOf(pending') = {} /\ flush'.pc = "idle"
    BY <1>2, <1>18 DEF Crash, StmtsOf
  <2> QED BY <1>3, <2>1, Zenon
<1>19. CASE Boot
  <2>1. flush'.pc = "idle" /\ \A x \in StmtsOf(pending') : \E f \in frames : f.stmt = x
    BY <1>1, <1>2, <1>19, BootFacts, Zenon DEF Boot, DownIsEmpty
  <2> QED BY <1>3, <2>1, Zenon DEF Framed
<1>20. CASE ScanOverlay
  <2>1. \A h \in flushed' : \E g \in flushed : h.batches = g.batches /\ h.commit = g.commit
    BY <1>1, <1>20, ObservedFacts DEF ScanOverlay, TypeOK
  <2> QED BY <1>4, <1>20, <2>1, Zenon DEF ScanOverlay
<1> QED
  BY <1>6, <1>7, <1>8, <1>9, <1>10, <1>11, <1>12, <1>13, <1>15, <1>16, <1>17, <1>18, <1>19,
     <1>20, Zenon DEF Next

\* The client of s learns what it has to learn, and nothing else.
LEMMA StatusKept ==
  ASSUME TypeOK, Next, NEW s \in Stmts
  PROVE  \/ status'[s] = status[s]
         \/ status[s] \in {"staged", "doomed"} /\ status'[s] \in {"acked", "ambiguous"}
         \/ Stage(s) \/ StageFails(s) \/ SyncFails \/ (WaitFails(s) /\ status'[s] = "failed")
<1>1. ASSUME NEW x \in Stmts, Stage(x) \/ StageFails(x) \/ WaitOk(x) \/ WaitFails(x), x # s
      PROVE  status'[s] = status[s]
  BY <1>1, Zenon DEF Stage, StageFails, WaitOk, WaitFails, TypeOK
<1>2. WaitOk(s) => status[s] = "staged" /\ status'[s] = "acked"
  BY Zenon DEF WaitOk, TypeOK
<1>3. WaitFails(s) => status[s] = "doomed" /\ status'[s] \in {"failed", "ambiguous"}
  BY Zenon DEF WaitFails, TypeOK
<1>4. Crash => \/ status'[s] = status[s]
               \/ status[s] \in {"staged", "doomed"} /\ status'[s] = "ambiguous"
  BY Zenon DEF Crash
<1>5. CASE \/ FlushNow \/ FlushSnapshot \/ FlushCovered \/ FlushPost \/ FlushLoadFails
           \/ FlushCommitted \/ FlushConflict \/ FlushAmbiguous \/ FlushReload
           \/ FlushReloadFails \/ CatalogApply \/ ForeignCommit \/ ForeignPropertyDrop
           \/ Boot \/ BootFrameless \/ ScanLoad \/ ScanStale \/ ScanOverlay
  BY <1>5, Zenon DEF FlushNow, FlushSnapshot, FlushCovered, FlushPost, FlushLoadFails,
    FlushCommitted, FlushConflict, FlushAmbiguous, FlushReload, FlushReloadFails,
    CatalogApply, CatalogProcess, ForeignCommit, ForeignPropertyDrop, Boot, BootFrameless,
    ScanLoad, ScanStale, ScanOverlay, clientVars
<1> QED BY <1>1, <1>2, <1>3, <1>4, <1>5, Zenon DEF Next

\* Every step keeps exact failures exact.
LEMMA FailuresStep ==
  ASSUME Bookkeeping, BufferedOnce, FailuresExact, Next
  PROVE  FailuresExact'
<1> SUFFICES ASSUME NEW s \in Stmts PROVE FailsExactly(s)'
  BY Zenon DEF FailuresExact
<1>1. /\ TypeOK /\ FramesWellFormed /\ DownIsEmpty /\ BufferedBelowTailHigh
      /\ FlusherConsistent /\ IdsFresh /\ FailsExactly(s)
  BY Zenon DEF Bookkeeping, FailuresExact
<1>2. NoGhost' => NoGhost
  BY <1>1, HappenedGrows, Zenon DEF NoGhost, FramesWellFormed
<1>3. Loose(pending', s) /\ status[s] \in {"staged", "doomed"} => Loose(pending, s)
  <2>1. Loose(pending', s) => Loose(pending, s) \/ Stage(s) \/ Boot
    BY BufferedOnceStep, Zenon
  <2>2. Stage(s) => status[s] = "new"
    BY Zenon DEF Stage
  <2>3. Boot => status[s] \notin {"staged", "doomed"}
    BY <1>1, Zenon DEF Boot, DownIsEmpty
  <2> QED BY <2>1, <2>2, <2>3, Zenon
<1>4. ~FlushPost /\ Unsent(s) => Unsent(s)'
  BY UnsentKept, Zenon
<1>5. status[s] # "new" /\ Framed(s)' => Framed(s)
  BY FramedKept, Zenon DEF Stage
<1>6. status[s] # "new" /\ Buffered(s)' => Buffered(s) \/ Framed(s)
  BY BufferedKept, Zenon DEF Stage
<1>7. status[s] = "new" => s \notin StmtsOf(pending) /\ ~Buffered(s) /\ ~Framed(s)
  BY <1>1, Zenon
    DEF BufferedBelowTailHigh, FramesWellFormed, Buffered, OwnStmts, OwnGenerations, Framed
<1>8. CASE Stage(s)
  <2>1. status[s] = "new" /\ status'[s] = "staged" /\ ~FlushPost
    BY <1>1, <1>8 DEF Stage, FlushPost, TypeOK
  <2> QED BY <1>1, <1>4, <2>1, Zenon DEF FailsExactly
<1>9. CASE StageFails(s)
  <2>1. /\ status[s] = "new" /\ status'[s] = "failed" /\ ~FlushPost
        /\ UNCHANGED <<pending, flushed, flush, frames>>
    BY <1>1, <1>9 DEF StageFails, FlushPost, TypeOK, tailVars, bufferVars
  <2>2. ~Buffered(s)' /\ ~Framed(s)'
    BY <1>7, <2>1, Zenon DEF Buffered, InFlight, OwnStmts, OwnGenerations, Framed
  <2> QED BY <1>1, <1>4, <2>1, <2>2, Zenon DEF FailsExactly
<1>10. CASE SyncFails
  <2>1. /\ UNCHANGED <<table, posts, pending, flushed, flush>>
        /\ frames' = {f \in frames : f.synced \/ ~Ours(f)}
    BY <1>10, Zenon DEF SyncFails, catalogVars, bufferVars
  <2>2. \/ status'[s] = status[s]
        \/ status[s] = "staged" /\ status'[s] = "doomed" /\ (NoGhost' => ~IsSynced(s))
    <3>1. PICK ghosts \in SUBSET Stmts :
            /\ FaultOf({"sync_fails"} \cup IF ghosts = {} THEN {} ELSE {"ghost_frame"})
            /\ status' = [x \in Stmts |->
                 IF status[x] = "staged" /\ (x \in ghosts \/ ~IsSynced(x))
                 THEN "doomed" ELSE status[x]]
      BY <1>10, Zenon DEF SyncFails
    <3>2. NoGhost' => ghosts = {}
      BY <3>1, Zenon DEF FaultOf, NoGhost
    <3> QED BY <3>1, <3>2, Zenon
  <2>3. /\ Unsent(s)' = Unsent(s) /\ (Framed(s)' => Framed(s))
        /\ status[s] = "staged" /\ ~IsSynced(s) => ~Framed(s)'
    <3>1. \A f \in frames : f.stmt = s /\ status[s] = "staged" => Ours(f)
      BY Zenon DEF Bookkeeping, FramesWellFormed
    <3> QED BY <2>1, <3>1, Zenon DEF Unsent, Framed, IsSynced
  <2>4. Buffered(s)' => Buffered(s)
    BY <2>1, Zenon DEF Buffered, InFlight, OwnStmts, OwnGenerations
  <2> QED BY <1>1, <1>2, <2>1, <2>2, <2>3, <2>4, Zenon DEF FailsExactly
<1>11. CASE WaitFails(s) /\ status'[s] = "failed"
  <2>1. /\ status[s] = "doomed" /\ ~FlushPost
        /\ UNCHANGED <<flushed, flush, frames>>
    BY <1>1, <1>11 DEF WaitFails, FlushPost, TypeOK, tailVars
  <2>2. PICK i \in Unclaimed(s) : pending' = WithoutAt(pending, i)
    BY <1>1, <1>11, Zenon DEF WaitFails, TypeOK
  <2>3. /\ pending \in Seq(Batches) /\ i \in 1 .. Len(pending) /\ i \in DOMAIN pending
        /\ pending[i].stmt = s /\ ~pending[i].claimed
    BY <1>1, <2>2 DEF TypeOK, Unclaimed
  <2>4. Loose(pending, s) /\ s \in StmtsOf(pending)
    BY <2>3, Zenon DEF Loose, StmtsOf
  <2>5. s \notin StmtsOf(pending')
    BY <2>2, <2>3, OnceRemove, Zenon DEF BufferedOnce
  <2>6. InFlight => s \notin OwnStmts
    BY <2>4, Zenon DEF BufferedOnce, OwnStmts
  <2>7. ~Buffered(s)'
    BY <2>1, <2>5, <2>6, Zenon DEF Buffered, InFlight, OwnStmts, OwnGenerations
  <2>8. Framed(s)' => Framed(s)
    BY <2>1, Zenon DEF Framed
  <2> QED BY <1>1, <1>2, <1>4, <1>11, <2>1, <2>4, <2>7, <2>8, Zenon DEF FailsExactly
<1>12. CASE FlushPost
  <2> DEFINE new == [id |-> lastId + 1, base |-> table.head,
                     stmts |-> StmtsOf(Prefix(flush.n)),
                     stamp |-> Max2(table.mark, flush.mark)]
  <2>1. /\ flush.pc = "load" /\ pending' = Suffix(flush.n) /\ UNCHANGED <<table, status, frames>>
        /\ posts' = posts \cup {new} /\ new.stmts = StmtsOf(Prefix(flush.n))
    BY <1>12, Zenon DEF FlushPost, tailVars, clientVars
  <2> HIDE DEF new
  <2>2. Unsent(s) /\ s \notin StmtsOf(Prefix(flush.n)) => Unsent(s)'
    BY <2>1, Zenon DEF Unsent
  <2>3. StmtsOf(pending) = StmtsOf(Prefix(flush.n)) \cup StmtsOf(Suffix(flush.n))
    BY <1>1, <2>1, MoveOutFacts, Zenon
  <2>4. StmtsOf(Prefix(flush.n)) \cap StmtsOf(Suffix(flush.n)) = {}
    <3>1. flush.n \in Nat /\ flush.n <= Len(pending) /\ pending \in Seq(Batches) /\ Once(pending)
      BY <1>1, <2>1, Zenon DEF TypeOK, FlusherStates, FlusherConsistent, BufferedOnce
    <3>2. SplitsOnce(pending, flush.n, Prefix(flush.n), Suffix(flush.n))
      BY <3>1, OnceSplit, Zenon DEF Prefix, Suffix
    <3> QED BY <3>2, Zenon DEF SplitsOnce
  <2>5. Loose(pending', s) => s \in StmtsOf(pending')
    BY Zenon DEF Loose, StmtsOf
  <2>6. Buffered(s)' => status[s] = "new" \/ Buffered(s) \/ Framed(s)
    BY <1>6, Zenon
  <2>7. s \in StmtsOf(pending) => Buffered(s)
    BY Zenon DEF Buffered
  <2>8. Framed(s)' => Framed(s)
    BY <2>1, Zenon DEF Framed
  <2> QED
    BY <1>1, <1>2, <1>3, <1>7, <2>1, <2>2, <2>3, <2>4, <2>5, <2>6, <2>7, <2>8, Zenon
    DEF FailsExactly
<1>13. CASE /\ ~FlushPost
            /\ status'[s] = status[s] \/ status'[s] \in {"acked", "ambiguous"}
  BY <1>1, <1>2, <1>3, <1>4, <1>5, <1>6, <1>13, Zenon DEF FailsExactly
<1> QED
  BY <1>1, <1>8, <1>9, <1>10, <1>11, <1>12, <1>13, StatusKept, Zenon

----------------------------------------------------------------------------
\* The table gets a statement once.

\* While no step is repeated on incomplete knowledge, a step sends only what the
\* table has not got: the watermark tells a restart and a reload what is in it
\* (flush_table, generation_already_committed, replay_tail).
LEMMA SentOnceStep ==
  ASSUME Bookkeeping, BufferedOnce, FailuresExact, SentOnce, Next, NoBlindRetry'
  PROVE  SentOnce'
<1>1. /\ TypeOK /\ FramesWellFormed /\ IsFiniteSet(frames) /\ DownIsEmpty
      /\ BufferedBelowTailHigh /\ FlusherConsistent /\ IdsFresh
  BY Zenon DEF Bookkeeping, FramesWellFormed
<1>2. /\ pending \in Seq(Batches) /\ StmtsOf(pending) \subseteq Stmts
      /\ \A g \in flushed : StmtsOf(g.batches) \subseteq Stmts
      /\ table.rows \in [Stmts -> Nat] /\ seqOf \in [Stmts -> Nat]
      /\ table.mark \in Nat /\ flush.mark \in Nat /\ lastId \in Nat
      /\ \A p \in posts : p.stamp \in Nat
      /\ Idle.pc = "idle" /\ Idle.reply = "none"
  BY <1>1, StmtsOfIndex, Zenon DEF TypeOK, Generations, Metas, FlusherStates, Posts, Idle
<1> DEFINE
      Rows == \A s \in Stmts : /\ table.rows[s] <= 1
                               /\ Applied(s) => seqOf[s] <= table.mark /\ s \notin StmtsOf(pending)
      Own == /\ flush.pc # "posted" => flush.reply = "none"
             /\ posts # {} => flush.pc = "posted" /\ flush.reply = "none"
             /\ \A p, r \in posts : p = r
             /\ \A p \in posts : p.id = flush.id /\ p.stmts \subseteq OwnStmts
      Open == /\ flush.pc = "posted" /\ flush.reply # "committed" => table.mark < flush.mark
              /\ InFlight /\ table.mark < flush.mark => \A s \in OwnStmts : ~Applied(s)
<1>3. Rows /\ Own /\ Open /\ (Rows' /\ Own' /\ Open' => SentOnce')
  BY Zenon DEF SentOnce
<1>4. OwnStmts \subseteq Stmts
  BY <1>2, Zenon DEF OwnStmts, OwnGenerations
<1>5. ASSUME table'.rows = table.rows, table'.mark = table.mark, seqOf' = seqOf,
             \A s \in StmtsOf(pending') : s \in StmtsOf(pending) \/ ~Applied(s)
      PROVE  Rows'
  BY <1>3, <1>5, Zenon DEF Applied
<1>6. ASSUME table'.rows = table.rows, table'.mark = table.mark, UNCHANGED <<posts, flush>>,
             OwnStmts' = OwnStmts
      PROVE  Own' /\ Open'
  BY <1>3, <1>6, Zenon DEF Applied, InFlight
<1>7. UNCHANGED <<flush, flushed>> => OwnStmts' = OwnStmts
  BY Zenon DEF OwnStmts, OwnGenerations
<1>8. ASSUME posts' = {}, flush'.pc \notin {"posted", "reload"}, flush'.reply = "none"
      PROVE  Own' /\ Open'
  BY <1>8, Zenon DEF InFlight
<1>9. flush.pc # "posted" \/ flush.reply # "none" => posts = {}
  BY <1>3, Zenon
<1>10. \A s \in Stmts : Applied(s) <=> table.rows[s] # 0
  BY <1>2 DEF Applied
<1> HIDE DEF Rows, Own, Open
<1>11. ASSUME UNCHANGED <<table, posts, pending, flush, flushed, seqOf>> PROVE SentOnce'
  BY <1>3, <1>5, <1>6, <1>7, <1>11, Zenon
<1>12. ASSUME NEW s \in Stmts, Stage(s) PROVE SentOnce'
  <2>1. /\ status[s] = "new" /\ seqOf' = [seqOf EXCEPT ![s] = nextSeq]
        /\ UNCHANGED <<table, posts, flush, flushed>>
    BY <1>12, Zenon DEF Stage, catalogVars
  <2>2. StmtsOf(pending') = StmtsOf(pending) \cup {s}
    BY <1>1, <1>12, StageFacts, Zenon
  <2>3. ~Applied(s)
    BY <1>10, <2>1, Zenon DEF FailuresExact, FailsExactly, Unsent
  <2>4. Rows'
    BY <1>2, <1>3, <2>1, <2>2, <2>3, Zenon DEF Rows, Applied
  <2> QED BY <1>3, <1>6, <1>7, <2>1, <2>4, Zenon
<1>13. ASSUME NEW s \in Stmts, StageFails(s) \/ WaitOk(s) PROVE SentOnce'
  BY <1>11, <1>13, Zenon DEF StageFails, WaitOk, catalogVars, bufferVars
<1>14. ASSUME NEW s \in Stmts, WaitFails(s) PROVE SentOnce'
  <2>1. /\ StmtsOf(pending') \subseteq StmtsOf(pending)
        /\ UNCHANGED <<table, posts, flush, flushed, seqOf>>
    BY <1>1, <1>14, UnrouteFacts, Zenon DEF WaitFails, catalogVars
  <2> QED BY <1>3, <1>5, <1>6, <1>7, <2>1, Zenon
<1>15. CASE SyncFails \/ ScanLoad \/ ScanStale \/ BootFrameless
  BY <1>11, <1>15, Zenon DEF SyncFails, ScanLoad, ScanStale, BootFrameless, catalogVars, bufferVars,
    clientVars
<1>16. ~FlushReloadFails /\ ~ForeignPropertyDrop
  BY Zenon DEF FlushReloadFails, ForeignPropertyDrop, Fault, FaultOf, NoBlindRetry
<1>17. CASE FlushNow
  <2>1. flush.pc = "idle" /\ (flush' = flush \/ (flush'.pc = "snapshot" /\ flush'.reply = "none"))
    BY <1>17, Zenon DEF FlushNow, Idle
  <2>2. UNCHANGED <<table, posts, pending, seqOf>>
    BY <1>17, Zenon DEF FlushNow, catalogVars, clientVars
  <2>3. posts' = {} /\ flush'.pc \notin {"posted", "reload"} /\ flush'.reply = "none"
    BY <1>3, <1>9, <2>1, <2>2, Zenon DEF Own
  <2> QED BY <1>3, <1>5, <1>8, <2>2, <2>3, Zenon
<1>18. CASE FlushSnapshot
  <2>1. StmtsOf(pending') = StmtsOf(pending)
    BY <1>2, <1>18, StmtsOfClaimed, Zenon DEF FlushSnapshot
  <2>2. flush.pc = "snapshot" /\ UNCHANGED <<table, posts, seqOf>>
    BY <1>18, Zenon DEF FlushSnapshot, catalogVars, clientVars
  <2>3. flush'.pc \notin {"posted", "reload"} /\ flush'.reply = "none"
    <3>1. flush.reply = "none"
      BY <1>3, <2>2, Zenon DEF Own
    <3> QED BY <1>1, <1>2, <1>18, <3>1, Zenon DEF FlushSnapshot, TypeOK, FlusherStates
  <2> QED BY <1>3, <1>5, <1>8, <1>9, <2>1, <2>2, <2>3, Zenon
<1>19. CASE FlushCovered
  <2>1. /\ flush.pc = "load" /\ pending' = Suffix(flush.n) /\ flush' = Idle
        /\ UNCHANGED <<table, posts, seqOf>>
    BY <1>19, Zenon DEF FlushCovered, catalogVars, clientVars
  <2>2. StmtsOf(pending') \subseteq StmtsOf(pending)
    BY <1>1, <2>1, MoveOutFacts, Zenon
  <2>3. posts' = {} /\ flush'.pc \notin {"posted", "reload"} /\ flush'.reply = "none"
    BY <1>2, <1>9, <2>1, Zenon
  <2> QED BY <1>3, <1>5, <1>8, <2>1, <2>2, <2>3, Zenon
<1>20. CASE FlushPost
  <2> DEFINE new == [id |-> lastId + 1, base |-> table.head,
                     stmts |-> StmtsOf(Prefix(flush.n)),
                     stamp |-> Max2(table.mark, flush.mark)]
             gen == Generation([snap |-> lastId + 1, mark |-> 0], Prefix(flush.n))
  <2>1. /\ flush.pc = "load" /\ table.mark < flush.mark /\ pending' = Suffix(flush.n)
        /\ posts' = posts \cup {new} /\ flushed' = Observed(flushed, table) \cup {gen}
        /\ UNCHANGED <<table, seqOf>>
    BY <1>2, <1>20 DEF FlushPost, AlreadyCommitted, clientVars
  <2>2. /\ flush'.pc = "posted" /\ flush'.id = lastId + 1 /\ flush'.mark = flush.mark
        /\ flush'.reply = flush.reply
    BY <1>1, <1>20, Zenon DEF FlushPost, TypeOK, FlusherStates
  <2>3. new.id = lastId + 1 /\ new.stmts = StmtsOf(Prefix(flush.n))
    BY Zenon
  <2>4. gen.commit.snap = lastId + 1 /\ gen.batches = Prefix(flush.n)
    BY Zenon DEF Generation
  <2> HIDE DEF new, gen
  <2>5. posts' = {new} /\ flush'.reply = "none"
    BY <1>3, <1>9, <2>1, <2>2, Zenon DEF Own
  <2>6. \A g \in Observed(flushed, table) : g.commit.snap <= lastId /\ g.commit.snap \in Nat
    BY <1>1, ObservedFresh, Zenon
  <2>7. OwnGenerations' = {gen}
    <3>1. ASSUME NEW g \in flushed', g.commit.snap = lastId + 1 PROVE g = gen
      <4>1. lastId \in Nat
        BY <1>1, Zenon DEF TypeOK
      <4>2. ASSUME g \in Observed(flushed, table) PROVE FALSE
        BY <2>6, <3>1, <4>1, <4>2
      <4>3. g \in Observed(flushed, table) \cup {gen}
        BY <2>1, <3>1, Zenon
      <4> QED BY <4>2, <4>3, Zenon
    <3>2. gen \in flushed'
      BY <2>1, Zenon
    <3> QED BY <2>2, <2>4, <3>1, <3>2, Zenon DEF OwnGenerations
  <2>8. OwnStmts' = StmtsOf(Prefix(flush.n))
    BY <2>4, <2>7, Zenon DEF OwnStmts
  <2>9. StmtsOf(pending) = StmtsOf(Prefix(flush.n)) \cup StmtsOf(Suffix(flush.n))
    BY <1>1, <2>1, MoveOutFacts, Zenon
  <2>10. \A s \in StmtsOf(Prefix(flush.n)) : ~Applied(s)
    BY <1>2, <1>3, <2>9, Zenon DEF Rows
  <2>11. Own'
    BY <2>2, <2>3, <2>5, <2>8, Zenon DEF Own
  <2>12. Open'
    BY <2>1, <2>2, <2>8, <2>10, Zenon DEF Open, Applied
  <2>13. Rows'
    BY <1>5, <2>1, <2>9, Zenon
  <2> QED BY <1>3, <2>11, <2>12, <2>13, Zenon
<1>21. CASE FlushLoadFails \/ FlushCommitted
  <2>1. posts' = {} /\ flush' = Idle /\ UNCHANGED <<table, pending, seqOf>>
    BY <1>9, <1>21, Zenon DEF FlushLoadFails, FlushCommitted, catalogVars, bufferVars, clientVars
  <2> QED BY <1>2, <1>3, <1>5, <1>8, <2>1, Zenon
<1>22. ASSUME InFlight, MoveBack(flush.id), table.mark < flush.mark, UNCHANGED <<table, seqOf>>
       PROVE  Rows'
  <2>1. PICK g \in flushed : /\ OwnGenerations = {g}
                             /\ StmtsOf(pending') = StmtsOf(g.batches) \cup StmtsOf(pending)
    BY <1>1, <1>22, MoveBackFacts, Zenon
  <2>2. \A s \in StmtsOf(g.batches) : ~Applied(s)
    BY <1>3, <1>22, <2>1, Zenon DEF Open, OwnStmts
  <2> QED BY <1>5, <1>22, <2>1, <2>2, Zenon
<1>23. CASE FlushConflict
  <2>1. /\ InFlight /\ MoveBack(flush.id) /\ UNCHANGED <<table, posts, seqOf>>
        /\ flush.pc = "posted" /\ flush.reply = "conflict"
    BY <1>23, Zenon DEF FlushConflict, InFlight, catalogVars, clientVars
  <2>2. flush'.pc \notin {"posted", "reload"} /\ flush'.reply = "none"
    BY <1>23, Zenon DEF FlushConflict, Idle
  <2>3. posts' = {} /\ table.mark < flush.mark
    BY <1>3, <1>9, <2>1, Zenon DEF Open
  <2> QED BY <1>3, <1>8, <1>22, <2>1, <2>2, <2>3, Zenon
<1>24. CASE FlushReload
  <2>1. /\ InFlight /\ flush' = Idle /\ UNCHANGED <<table, posts, seqOf>> /\ flush.pc = "reload"
        /\ pending' = pending \/ (MoveBack(flush.id) /\ ~(table.mark >= flush.mark))
    BY <1>24, Zenon DEF FlushReload, InFlight, catalogVars, clientVars
  <2>2. posts' = {} /\ flush'.pc \notin {"posted", "reload"} /\ flush'.reply = "none"
    BY <1>2, <1>9, <2>1, Zenon
  <2>3. Rows'
    BY <1>2, <1>5, <1>22, <2>1
  <2> QED BY <1>3, <1>8, <2>2, <2>3, Zenon
<1>25. CASE FlushAmbiguous
  <2>1. posts' = {p \in posts : p.id # flush.id}
    <3>1. ~FaultOf({"response_lost", "late_post"})
      BY Zenon DEF FaultOf, NoBlindRetry
    <3> QED BY <1>25, <3>1, Zenon DEF FlushAmbiguous
  <2>2. posts' = {}
    BY <1>3, <2>1, Zenon DEF Own
  <2>3. /\ flush.pc = "posted" /\ flush'.pc = "reload" /\ flush'.reply = "none"
        /\ flush'.mark = flush.mark /\ flush'.id = flush.id
        /\ UNCHANGED <<table, pending, flushed, seqOf>>
    BY <1>1, <1>25, Zenon DEF FlushAmbiguous, TypeOK, FlusherStates, bufferVars, clientVars
  <2>4. OwnStmts' = OwnStmts
    BY <2>3, Zenon DEF OwnStmts, OwnGenerations
  <2>5. Own' /\ Open'
    BY <1>3, <2>2, <2>3, <2>4, Zenon DEF Own, Open, InFlight, Applied
  <2> QED BY <1>3, <1>5, <2>3, <2>5, Zenon
<1>26. CASE CatalogApply
  <2>1. PICK p \in posts : CatalogProcess(p)
    BY <1>26, Zenon DEF CatalogApply
  <2>2. /\ flush.pc = "posted" /\ flush.reply = "none" /\ p.id = flush.id
        /\ p.stmts \subseteq OwnStmts /\ posts = {p} /\ InFlight
        /\ table.mark < flush.mark /\ \A s \in OwnStmts : ~Applied(s)
    BY <1>3, <2>1, Zenon DEF Own, Open, InFlight
  <2>3. /\ posts' = {} /\ UNCHANGED <<pending, flushed, seqOf>>
        /\ flush' = [flush EXCEPT !.reply =
                       IF p.base = table.head THEN "committed" ELSE "conflict"]
    BY <2>1, <2>2, Zenon DEF CatalogProcess, bufferVars, clientVars
  <2>4. /\ flush'.pc = "posted" /\ flush'.mark = flush.mark /\ flush'.id = flush.id
        /\ flush'.reply = IF p.base = table.head THEN "committed" ELSE "conflict"
    BY <1>1, <2>2, <2>3, Zenon DEF TypeOK, FlusherStates
  <2>5. Own'
    BY <2>3, <2>4, Zenon DEF Own
  <2>6. CASE p.base # table.head
    <3>1. table' = table
      BY <2>1, <2>6, Zenon DEF CatalogProcess
    <3>2. Open'
      BY <2>2, <2>3, <2>4, <3>1, Zenon DEF Open, OwnStmts, OwnGenerations, Applied
    <3> QED BY <1>3, <1>5, <2>3, <2>5, <3>1, <3>2, Zenon
  <2>7. CASE p.base = table.head
    <3>1. /\ table'.mark = p.stamp
          /\ table'.rows = [s \in Stmts |-> table.rows[s] + IF s \in p.stmts THEN 1 ELSE 0]
      BY <2>1, <2>7, Zenon DEF CatalogProcess
    <3>2. p.stamp >= flush.mark /\ p.stamp \in Nat
      BY <1>1, <1>2, <2>2, Zenon DEF IdsFresh
    <3>3. Open'
      BY <1>2, <2>4, <2>7, <3>1, <3>2 DEF Open
    <3>4. \A s \in OwnStmts : seqOf[s] <= flush.mark /\ s \notin StmtsOf(pending)
      BY <1>1, <2>2, Zenon DEF FlusherConsistent, BufferedOnce, OwnStmts
    <3>5. ASSUME NEW s \in Stmts
          PROVE  /\ table'.rows[s] <= 1
                 /\ table'.rows[s] >= 1 => seqOf[s] <= p.stamp /\ s \notin StmtsOf(pending)
      <4>1. CASE s \in p.stmts
        <5>1. table.rows[s] = 0 /\ seqOf[s] <= flush.mark /\ s \notin StmtsOf(pending)
          BY <1>10, <2>2, <3>4, <4>1, Zenon
        <5>2. table'.rows[s] = 1
          BY <3>1, <4>1, <5>1
        <5> QED BY <1>2, <3>2, <5>1, <5>2
      <4>2. CASE s \notin p.stmts
        <5>1. table'.rows[s] = table.rows[s]
          BY <1>2, <3>1, <4>2
        <5> QED BY <1>2, <1>3, <2>2, <3>2, <5>1 DEF Rows, Applied
      <4> QED BY <4>1, <4>2, Zenon
    <3>6. Rows'
      BY <2>3, <3>1, <3>5, Zenon DEF Rows, Applied
    <3> QED BY <1>3, <2>5, <3>3, <3>6, Zenon
  <2> QED BY <2>6, <2>7, Zenon
<1>27. CASE ForeignCommit
  <2>1. /\ table'.rows = table.rows /\ table'.mark = table.mark
        /\ UNCHANGED <<posts, pending, flush, flushed, seqOf>>
    BY <1>1, <1>27, Zenon DEF ForeignCommit, TypeOK, Metas, bufferVars, clientVars
  <2> QED BY <1>3, <1>5, <1>6, <1>7, <2>1, Zenon
<1>28. CASE Crash
  <2>1. posts' = {}
    <3>1. \A kinds : "late_post" \in kinds => ~FaultOf({"crash"} \cup kinds)
      BY Zenon DEF FaultOf, NoBlindRetry
    <3> QED BY <1>28, <3>1, Zenon DEF Crash
  <2>2. flush' = Idle /\ StmtsOf(pending') = {} /\ UNCHANGED <<table, seqOf>>
    BY <1>28 DEF Crash, StmtsOf
  <2> QED BY <1>2, <1>3, <1>5, <1>8, <2>1, <2>2, Zenon
<1>29. CASE Boot
  <2>1. flush' = Idle /\ flush = Idle /\ UNCHANGED <<table, posts, seqOf>>
    BY <1>1, <1>29, Zenon DEF Boot, DownIsEmpty, catalogVars, clientVars
  <2>2. posts' = {}
    BY <1>2, <1>9, <2>1, Zenon
  <2>3. \A s \in StmtsOf(pending') : \E f \in frames : f.stmt = s /\ f.seq > Watermark
    BY <1>1, <1>29, BootFacts, Zenon
  <2>4. Watermark \in Nat /\ table.mark <= Watermark
    BY <1>1, <1>2 DEF TypeOK, Watermark, Max2
  <2>5. ASSUME NEW s \in StmtsOf(pending') PROVE ~Applied(s)
    <3>1. PICK f \in frames : f.stmt = s /\ f.seq > Watermark
      BY <2>3, Zenon
    <3>2. s \in Stmts /\ seqOf[s] \in Nat /\ seqOf[s] > Watermark
      BY <1>1, <1>2, <3>1, Zenon DEF FramesWellFormed, TypeOK, Frames
    <3>3. Applied(s) => seqOf[s] <= table.mark
      BY <1>3, <3>2, Zenon DEF Rows
    <3> QED BY <1>2, <2>4, <3>2, <3>3
  <2> QED BY <1>2, <1>3, <1>5, <1>8, <2>1, <2>2, <2>5, Zenon
<1>30. CASE ScanOverlay
  <2>1. flushed' = Observed(flushed, scan) /\ UNCHANGED <<table, posts, pending, flush, seqOf>>
    BY <1>30, Zenon DEF ScanOverlay, catalogVars, clientVars
  <2>2. /\ \A o \in flushed' : \E g \in flushed : o.commit = g.commit /\ o.batches = g.batches
        /\ \A g \in flushed : \E o \in flushed' : o.commit = g.commit /\ o.batches = g.batches
    BY <1>1, <2>1, ObservedFacts DEF TypeOK
  <2>3. /\ \A o \in OwnGenerations' : \E g \in OwnGenerations : o.batches = g.batches
        /\ \A g \in OwnGenerations : \E o \in OwnGenerations' : o.batches = g.batches
    BY <2>1, <2>2 DEF OwnGenerations
  <2>4. \A s : s \in OwnStmts' <=> s \in OwnStmts
    BY <2>3, Zenon DEF OwnStmts
  <2>5. OwnStmts' = OwnStmts
    BY <2>4, Zenon
  <2> QED BY <1>3, <1>5, <1>6, <2>1, <2>5, Zenon
<1> QED
  BY <1>12, <1>13, <1>14, <1>15, <1>16, <1>17, <1>18, <1>19, <1>20, <1>21, <1>23, <1>24, <1>25,
     <1>26, <1>27, <1>28, <1>29, <1>30, Zenon DEF Next

----------------------------------------------------------------------------
\* The invariant, and what follows from it.

\* OnceInv holds at the start.
LEMMA OnceInit == Init => OnceInv
<1> SUFFICES ASSUME Init PROVE OnceInv
  BY Zenon
<1>1. Bookkeeping
  BY BookkeepingInit, Zenon
<1>2. Idle.pc = "idle" /\ Idle.reply = "none"
  BY Zenon DEF Idle
<1>3. /\ pending = <<>> /\ posts = {} /\ flush = Idle /\ DOMAIN pending = {}
      /\ \A s \in Stmts : status[s] = "new" /\ table.rows[s] = 0
  BY DEF Init
<1>4. BufferedOnce
  BY <1>2, <1>3, Zenon DEF BufferedOnce, Once, InFlight
<1>5. FailuresExact
  BY <1>3, Zenon DEF FailuresExact, FailsExactly, Unsent
<1>6. SentOnce
  BY <1>2, <1>3 DEF SentOnce, InFlight, Applied
<1> QED BY <1>1, <1>4, <1>5, <1>6, Zenon DEF OnceInv

\* OnceInv is inductive.
LEMMA OnceStep == OnceInv /\ [Next]_vars => OnceInv'
<1>1. ASSUME OnceInv, Next PROVE OnceInv'
  <2>1. /\ Bookkeeping /\ BufferedOnce /\ FailuresExact /\ (NoBlindRetry => SentOnce)
        /\ TypeOK /\ IsFiniteSet(frames)
    BY <1>1, Zenon DEF OnceInv, Bookkeeping, FramesWellFormed
  <2>2. NoBlindRetry' => NoBlindRetry
    BY <1>1, <2>1, HappenedGrows, Zenon DEF NoBlindRetry
  <2>3. Bookkeeping'
    BY <1>1, <2>1, BookkeepingStep, Zenon
  <2>4. BufferedOnce' /\ FailuresExact'
    BY <1>1, <2>1, BufferedOnceStep, FailuresStep, Zenon
  <2>5. NoBlindRetry' => SentOnce'
    BY <1>1, <2>1, <2>2, SentOnceStep, Zenon
  <2> QED BY <2>3, <2>4, <2>5, Zenon DEF OnceInv
<1>2. ASSUME OnceInv, UNCHANGED vars PROVE OnceInv'
  <2>1. UNCHANGED <<table, posts, frames, pending, flushed, flush, status, seqOf, happened>>
    BY <1>2, Zenon DEF vars, catalogVars, tailVars, bufferVars, clientVars, faultVars
  <2>2. Bookkeeping'
    BY <1>2, BookkeepingStep, Zenon DEF OnceInv
  <2>3. BufferedOnce'
    BY <1>2, <2>1, Zenon DEF OnceInv, BufferedOnce, InFlight, OwnGenerations
  <2>4. FailuresExact'
    BY <1>2, <2>1, Zenon
      DEF OnceInv, FailuresExact, FailsExactly, Unsent, Framed, NoGhost, Buffered,
      InFlight, OwnStmts, OwnGenerations
  <2>5. NoBlindRetry' => SentOnce'
    BY <1>2, <2>1, Zenon DEF OnceInv, NoBlindRetry, SentOnce, Applied, InFlight, OwnStmts,
      OwnGenerations
  <2> QED BY <2>2, <2>3, <2>4, <2>5, Zenon DEF OnceInv
<1> QED BY <1>1, <1>2, Zenon

\* OnceInv holds in every state.
LEMMA OnceAlways == Spec => []OnceInv
BY OnceInit, OnceStep, PTL DEF Spec

\* Exactly-once, the upper half, for every number of statements, faults and scans:
\* no crash, retry or lost answer between the POST, the sidecar write and the truncate
\* makes the rows of a statement enter the table twice (flush_table, replay_tail).
THEOREM AppliedOnce == Spec => []AppliedAtMostOnce
<1>1. OnceInv => AppliedAtMostOnce
  BY Zenon DEF OnceInv, SentOnce, AppliedAtMostOnce
<1> QED BY <1>1, OnceAlways, PTL

\* A statement whose INSERT returned an exact error has no row in the table and never
\* gets one, not after a replay either, unless its wait over-reported the failure
\* (unroute_failed, wait_group_sync).
THEOREM FailedNever == Spec => []FailedExactly
<1>1. OnceInv => FailedExactly
  BY Zenon DEF OnceInv, FailuresExact, FailsExactly, NoGhost, Unsent, FailedExactly
<1> QED BY <1>1, OnceAlways, PTL

----------------------------------------------------------------------------
\* The buffered write path implements ExactlyOnceInserts.

\* What a client sees of a status.
Seen(st) == IF st \in {"staged", "doomed"} THEN "open" ELSE st

\* Outcome, statement by statement.
LEMMA OutcomeSeen == Outcome = [s \in Stmts |-> Seen(status[s])]
BY Zenon DEF Outcome, Seen

\* One client learns something.
LEMMA OneOutcome ==
  ASSUME NEW x \in Stmts, NEW v, Seen(status'[x]) = v,
         \A s \in Stmts : s # x => status'[s] = status[s]
  PROVE  Outcome' = [Outcome EXCEPT ![x] = v]
<1>1. Outcome = [s \in Stmts |-> Seen(status[s])] /\ Outcome' = [s \in Stmts |-> Seen(status'[s])]
  BY OutcomeSeen, Zenon DEF Outcome, Seen
<1> QED BY <1>1, Zenon

\* Every step of the write path is a step of the promise, or is not seen by clients.
LEMMA PromiseStep ==
  ASSUME OnceInv, NoBlindRetry, NoGhost, [Next]_vars
  PROVE  [Promise!Next]_Promise!vars
<1>1. /\ TypeOK /\ FailuresExact /\ SentOnce /\ Bookkeeping
      /\ table \in Metas /\ table.rows \in [Stmts -> Nat] /\ status \in [Stmts -> Statuses]
  BY Zenon DEF OnceInv, Bookkeeping, TypeOK, Metas
<1>2. Outcome = [s \in Stmts |-> Seen(status[s])] /\ Outcome' = [s \in Stmts |-> Seen(status'[s])]
  BY OutcomeSeen, Zenon DEF Outcome, Seen
<1> DEFINE Goal == [Promise!Next]_Promise!vars
<1>3. ASSUME table'.rows = table.rows, \A s \in Stmts : Seen(status'[s]) = Seen(status[s])
      PROVE  Goal
  <2>1. Outcome' = Outcome
    BY <1>2, <1>3, Zenon
  <2> QED BY <1>3, <2>1, Zenon DEF Promise!vars
<1>4. UNCHANGED <<table, status>> => Goal
  BY <1>3, Zenon
<1>5. ASSUME NEW x \in Stmts, Promise!Submit(x) \/ Promise!Acknowledge(x) \/ Promise!FailExactly(x)
      PROVE  Goal
  BY <1>5, Zenon DEF Promise!Next
<1>6. Promise!LoseTrack \/ Promise!Apply => Goal
  BY Zenon DEF Promise!Next
<1> HIDE DEF Goal
<1> SUFFICES Goal
  BY Zenon DEF Goal
<1>7. ASSUME NEW x \in Stmts, Stage(x) PROVE Goal
  <2>1. /\ status[x] = "new" /\ status'[x] = "staged" /\ table' = table
        /\ \A s \in Stmts : s # x => status'[s] = status[s]
    BY <1>1, <1>7, Zenon DEF Stage, catalogVars
  <2>2. Outcome' = [Outcome EXCEPT ![x] = "open"] /\ Outcome[x] = "new"
    BY <1>2, <2>1, OneOutcome, Zenon DEF Seen
  <2>3. Promise!Submit(x)
    BY <2>1, <2>2, Zenon DEF Promise!Submit
  <2> QED BY <1>5, <2>3, Zenon
<1>8. ASSUME NEW x \in Stmts, StageFails(x) PROVE Goal
  <2>1. /\ status[x] = "new" /\ status'[x] = "failed" /\ table' = table
        /\ \A s \in Stmts : s # x => status'[s] = status[s]
    BY <1>1, <1>8, Zenon DEF StageFails, catalogVars
  <2>2. Outcome' = [Outcome EXCEPT ![x] = "failed"] /\ Outcome[x] = "new"
    BY <1>2, <2>1, OneOutcome, Zenon DEF Seen
  <2>3. table.rows[x] = 0
    BY <1>1, <2>1, Zenon DEF FailuresExact, FailsExactly, Unsent
  <2>4. Promise!FailExactly(x)
    BY <2>1, <2>2, <2>3, Zenon DEF Promise!FailExactly
  <2> QED BY <1>5, <2>4, Zenon
<1>9. ASSUME NEW x \in Stmts, WaitOk(x) PROVE Goal
  <2>1. /\ status[x] = "staged" /\ status'[x] = "acked" /\ table' = table
        /\ \A s \in Stmts : s # x => status'[s] = status[s]
    BY <1>1, <1>9, Zenon DEF WaitOk, catalogVars
  <2>2. Outcome' = [Outcome EXCEPT ![x] = "acked"] /\ Outcome[x] = "open"
    BY <1>2, <2>1, OneOutcome, Zenon DEF Seen
  <2>3. Promise!Acknowledge(x)
    BY <2>1, <2>2, Zenon DEF Promise!Acknowledge
  <2> QED BY <1>5, <2>3, Zenon
<1>10. ASSUME NEW x \in Stmts, WaitFails(x) PROVE Goal
  <2>1. /\ status[x] = "doomed" /\ table' = table
        /\ \A s \in Stmts : s # x => status'[s] = status[s]
    BY <1>1, <1>10, Zenon DEF WaitFails, catalogVars
  <2>2. Outcome[x] = "open"
    BY <1>2, <2>1, Zenon DEF Seen
  <2>3. ASSUME NEW i \in Unclaimed(x), status'[x] = "failed" PROVE Goal
    <3>1. table.rows[x] = 0
      BY <1>1, <2>1, <2>3, Zenon DEF FailuresExact, FailsExactly, Unsent, Unclaimed, Loose
    <3>2. Outcome' = [Outcome EXCEPT ![x] = "failed"]
      BY <2>1, <2>3, OneOutcome, Zenon DEF Seen
    <3>3. Promise!FailExactly(x)
      BY <2>1, <2>2, <3>1, <3>2, Zenon DEF Promise!FailExactly
    <3> QED BY <1>5, <3>3, Zenon
  <2>4. ASSUME status'[x] = "ambiguous" PROVE Goal
    <3>1. {x} \in SUBSET {s \in Stmts : Outcome[s] = "open"}
      BY <2>2, Zenon
    <3>2. Outcome' = [s \in Stmts |-> IF s \in {x} THEN "ambiguous" ELSE Outcome[s]]
      BY <1>2, <2>1, <2>4, Zenon DEF Seen
    <3>3. Promise!LoseTrack
      BY <2>1, <3>1, <3>2, Zenon DEF Promise!LoseTrack
    <3> QED BY <1>6, <3>3, Zenon
  <2>5. (\E i \in Unclaimed(x) : status'[x] = "failed") \/ status'[x] = "ambiguous"
    BY <1>1, <1>10, Zenon DEF WaitFails
  <2> QED BY <2>3, <2>4, <2>5, Zenon
<1>11. CASE SyncFails
  <2>1. table' = table /\ \A s \in Stmts : Seen(status'[s]) = Seen(status[s])
    BY <1>11, Zenon DEF SyncFails, catalogVars, Seen
  <2> QED BY <1>3, <2>1, Zenon
<1>12. CASE \/ FlushNow \/ FlushSnapshot \/ FlushCovered \/ FlushPost \/ FlushLoadFails
            \/ FlushCommitted \/ FlushConflict \/ FlushAmbiguous \/ FlushReload
            \/ FlushReloadFails \/ Boot \/ BootFrameless \/ ScanLoad \/ ScanStale
            \/ ScanOverlay \/ UNCHANGED vars
  BY <1>4, <1>12, Zenon DEF FlushNow, FlushSnapshot, FlushCovered, FlushPost, FlushLoadFails,
    FlushCommitted, FlushConflict, FlushAmbiguous, FlushReload, FlushReloadFails, Boot,
    BootFrameless, ScanLoad, ScanStale, ScanOverlay, vars, catalogVars, clientVars
<1>13. CASE CatalogApply
  <2>1. PICK p \in posts : CatalogProcess(p)
    BY <1>13, Zenon DEF CatalogApply
  <2>2. status' = status /\ p.stmts \subseteq Stmts
    BY <1>1, <2>1, Zenon DEF CatalogProcess, clientVars, TypeOK, Posts
  <2>3. CASE p.base # table.head
    BY <1>4, <2>1, <2>2, <2>3, Zenon DEF CatalogProcess
  <2>4. CASE p.base = table.head
    <3>1. table'.rows = [s \in Stmts |-> table.rows[s] + IF s \in p.stmts THEN 1 ELSE 0]
      BY <2>1, <2>4, Zenon DEF CatalogProcess
    <3>2. ASSUME NEW s \in p.stmts PROVE table.rows[s] = 0
      <4>1. s \in OwnStmts /\ flush.pc = "posted" /\ table.mark < flush.mark
        BY <1>1, <2>1, Zenon DEF SentOnce
      <4>2. ~Applied(s)
        BY <1>1, <4>1, Zenon DEF SentOnce, InFlight
      <4> QED BY <1>1, <2>2, <4>2 DEF Applied
    <3>3. ASSUME NEW s \in p.stmts PROVE Outcome[s] \in {"open", "acked", "ambiguous"}
      <4>1. status[s] \notin {"new", "failed"} /\ s \in Stmts
        BY <1>1, <2>1, <2>2, Zenon DEF FailuresExact, FailsExactly, Unsent
      <4>2. Outcome[s] = Seen(status[s]) /\ status[s] \in Statuses
        BY <1>1, <1>2, <4>1, Zenon
      <4> QED BY <4>1, <4>2, Zenon DEF Seen, Statuses
    <3>4. table'.rows = [s \in Stmts |-> IF s \in p.stmts THEN 1 ELSE table.rows[s]]
      BY <1>1, <3>1, <3>2
    <3>5. Outcome' = Outcome
      BY <1>2, <2>2, Zenon
    <3>6. Promise!Apply
      BY <2>2, <3>2, <3>3, <3>4, <3>5, Zenon DEF Promise!Apply
    <3> QED BY <1>6, <3>6, Zenon
  <2> QED BY <2>3, <2>4, Zenon
<1>14. CASE ForeignCommit \/ ForeignPropertyDrop
  <2>1. table'.rows = table.rows
    BY <1>1, <1>14, Zenon DEF ForeignCommit, ForeignPropertyDrop, Metas
  <2>2. status' = status
    BY <1>14, Zenon DEF ForeignCommit, ForeignPropertyDrop, clientVars
  <2> QED BY <1>3, <2>1, <2>2, Zenon
<1>15. CASE Crash
  <2> DEFINE S == {s \in Stmts : status[s] \in {"staged", "doomed"}}
  <2>1. /\ table' = table
        /\ status' = [s \in Stmts |-> IF status[s] \in {"staged", "doomed"}
                                      THEN "ambiguous" ELSE status[s]]
    BY <1>15, Zenon DEF Crash
  <2>2. S \in SUBSET {s \in Stmts : Outcome[s] = "open"}
    BY <1>2, Zenon DEF Seen
  <2>3. Outcome' = [s \in Stmts |-> IF s \in S THEN "ambiguous" ELSE Outcome[s]]
    BY <1>2, <2>1, Zenon DEF Seen
  <2> HIDE DEF S
  <2>4. Promise!LoseTrack
    BY <2>1, <2>2, <2>3, Zenon DEF Promise!LoseTrack
  <2> QED BY <1>6, <2>4, Zenon
<1> QED
  BY <1>7, <1>8, <1>9, <1>10, <1>11, <1>12, <1>13, <1>14, <1>15, Zenon DEF Next

\* The initial states map to initial states of the promise.
LEMMA PromiseInit == Init => Promise!Init
<1> SUFFICES ASSUME Init PROVE Promise!Init
  BY Zenon
<1>1. status = [s \in Stmts |-> "new"] /\ table.rows = [s \in Stmts |-> 0]
  BY Zenon DEF Init
<1>2. Outcome = [s \in Stmts |-> "new"]
  BY <1>1, Zenon DEF Outcome
<1> QED BY <1>1, <1>2, Zenon DEF Promise!Init

\* A process that never retries without knowing the outcome and never over-reports a
\* failed fsync implements exactly-once INSERTs: every commit of flush_table applies
\* statements that were not applied before and that no client was told had failed.
THEOREM ImplementsOnce ==
  ASSUME Faults \cap {"late_post", "reload_fails", "prop_drop", "ghost_frame"} = {}
  PROVE  Spec => ImplementsPromise
<1>1. OnceInv => NoBlindRetry /\ NoGhost
  <2>1. OnceInv => happened \subseteq Faults
    BY Zenon DEF OnceInv, Bookkeeping, TypeOK
  <2> QED BY <2>1, Zenon DEF NoBlindRetry, NoGhost
<1>2. OnceInv /\ [Next]_vars => [Promise!Next]_Promise!vars
  BY <1>1, PromiseStep, Zenon
<1> QED
  BY <1>2, PromiseInit, OnceAlways, PTL DEF Spec, ImplementsPromise, Promise!Spec

----------------------------------------------------------------------------
\* A union read returns no row twice.

\* No statement is in two generations.
Apart(G) == \A g, h \in G : \A s \in Stmts :
              s \in StmtsOf(g.batches) /\ s \in StmtsOf(h.batches) => g = h

\* Metadata that shows a row of generation g has g's snapshot, so that overlay_with
\* leaves g out.
Accounted(m, g) == \A s \in Stmts : s \in StmtsOf(g.batches) /\ m.rows[s] >= 1 =>
                                      g.commit.snap # 0 /\ g.commit.snap \in m.snaps

\* Every buffered statement is in one place, and all metadata a scan may be served,
\* which is the table's or was once, accounts for the generations.
ReadOnce ==
  /\ Apart(flushed)
  /\ \A g \in flushed : /\ StmtsOf(g.batches) \cap StmtsOf(pending) = {}
                        /\ Accounted(table, g) /\ Accounted(scan, g) /\ Accounted(cached, g)
  /\ \A s \in Stmts : scan.rows[s] <= table.rows[s] /\ cached.rows[s] <= table.rows[s]

\* Observing generations moves no statement (note_observed).
LEMMA ApartObserved ==
  ASSUME NEW G, NEW m, Apart(G), G \subseteq Generations, NEW O, O = Observed(G, m)
  PROVE  Apart(O)
<1>1. \A g \in G : Observe(g, m).batches = g.batches
  BY Zenon DEF Observe, Generations
<1>2. \A o \in O : \E g \in G : o = Observe(g, m)
  BY Zenon DEF Observed
<1> QED BY <1>1, <1>2 DEF Apart

\* A generation of statements that are in none joins the others.
LEMMA ApartWith ==
  ASSUME NEW G, NEW new, Apart(G),
         \A g \in G : StmtsOf(g.batches) \cap StmtsOf(new.batches) = {}
  PROVE  Apart(G \cup {new})
BY Zenon DEF Apart

\* Every step keeps it that way (append, snapshot_pending, move_pending_to_flushed_gen,
\* move_flushed_back_to_pending, note_observed, gc_flushed, overlay_with).
LEMMA ReadOnceStep ==
  ASSUME OnceInv, NoBlindRetry, NoBlindRetry', ReadOnce, Next
  PROVE  ReadOnce'
<1>1. /\ TypeOK /\ FramesWellFormed /\ DownIsEmpty /\ BufferedBelowTailHigh
      /\ FlusherConsistent /\ IdsFresh /\ BufferedOnce /\ SentOnce
  BY Zenon DEF OnceInv, Bookkeeping
<1>2. /\ pending \in Seq(Batches) /\ Once(pending) /\ flushed \subseteq Generations
      /\ table \in Metas /\ scan \in Metas /\ cached \in Metas /\ lastId \in Nat
      /\ \A g \in flushed : g.batches \in Seq(Batches) /\ g.commit.snap \in Nat
  BY <1>1, Zenon DEF TypeOK, BufferedOnce, Generations
<1>3. \A s \in Stmts : /\ table.rows[s] \in Nat /\ scan.rows[s] \in Nat /\ cached.rows[s] \in Nat
                       /\ NoMeta.rows[s] = 0
  BY <1>2, Zenon DEF Metas, NoMeta
<1>4. \A s \in Stmts : s \in StmtsOf(pending) =>
        ~(table.rows[s] >= 1) /\ ~(scan.rows[s] >= 1) /\ ~(cached.rows[s] >= 1)
  BY <1>1, <1>3 DEF SentOnce, Applied, ReadOnce
\* The generations of the next state are some of this one's, maybe observed.
<1> DEFINE Kept == \A h \in flushed' : \E g \in flushed :
                     h.commit = g.commit /\ h.batches = g.batches
           Served(m) == m \in {table, scan, cached, NoMeta}
<1>5. ASSUME Apart(flushed'), Kept, StmtsOf(pending') \subseteq StmtsOf(pending), table' = table,
             Served(scan'), Served(cached')
      PROVE  ReadOnce'
  <2>1. ASSUME NEW m, Served(m)
        PROVE  /\ \A g \in flushed : Accounted(m, g)
               /\ \A s \in Stmts : m.rows[s] <= table.rows[s]
    BY <1>3, <2>1 DEF ReadOnce, Accounted
  <2>2. ASSUME NEW h \in flushed'
        PROVE  /\ StmtsOf(h.batches) \cap StmtsOf(pending') = {}
               /\ Accounted(table', h) /\ Accounted(scan', h) /\ Accounted(cached', h)
    <3>1. PICK g \in flushed : h.commit = g.commit /\ h.batches = g.batches
      BY <1>5, Zenon
    <3>2. \A m : Accounted(m, g) => Accounted(m, h)
      BY <3>1, Zenon DEF Accounted
    <3> QED BY <1>5, <2>1, <3>1, <3>2, Zenon DEF ReadOnce
  <2>3. \A s \in Stmts : scan'.rows[s] <= table'.rows[s] /\ cached'.rows[s] <= table'.rows[s]
    BY <1>5, <2>1, Zenon
  <2> QED BY <1>5, <2>2, <2>3, Zenon DEF ReadOnce
<1>6. ASSUME flushed' \subseteq flushed PROVE Kept /\ Apart(flushed')
  BY <1>6, Zenon DEF ReadOnce, Apart
<1>7. ASSUME NEW m \in Metas
      PROVE  /\ Apart(Observed(flushed, m))
             /\ \A h \in Observed(flushed, m) : \E g \in flushed :
                  h.commit = g.commit /\ h.batches = g.batches
  BY <1>2, ObservedFacts, ApartObserved DEF ReadOnce
<1> HIDE DEF Kept, Served
<1>8. Served(table) /\ Served(scan) /\ Served(cached) /\ Served(NoMeta)
  BY Zenon DEF Served
\* Steps that leave the buffer, the table and the scan alone.
<1>9. UNCHANGED <<flushed, pending, table, scan, cached>> => ReadOnce'
  BY <1>5, <1>6, <1>8, Zenon
<1>10. ASSUME NEW s \in Stmts, StageFails(s) \/ WaitOk(s) PROVE ReadOnce'
  BY <1>9, <1>10, Zenon DEF StageFails, WaitOk, catalogVars, bufferVars, scanVars
<1>11. CASE SyncFails \/ FlushLoadFails \/ FlushCommitted \/ FlushAmbiguous \/ BootFrameless
  BY <1>9, <1>11, Zenon
    DEF SyncFails, FlushLoadFails, FlushCommitted, FlushAmbiguous, BootFrameless,
    catalogVars, bufferVars, scanVars
<1>12. ASSUME NEW s \in Stmts, Stage(s) PROVE ReadOnce'
  <2>1. status[s] = "new" /\ UNCHANGED <<table, scan, cached, flushed>>
    BY <1>12, Zenon DEF Stage, catalogVars, scanVars
  <2>2. StmtsOf(pending') = StmtsOf(pending) \cup {s}
    BY <1>1, <1>12, StageFacts, Zenon
  <2>3. \A g \in flushed : s \notin StmtsOf(g.batches)
    BY <1>1, <2>1, Zenon DEF BufferedBelowTailHigh
  <2> QED BY <2>1, <2>2, <2>3, Zenon DEF ReadOnce
<1>13. ASSUME NEW s \in Stmts, WaitFails(s) PROVE ReadOnce'
  <2>1. UNCHANGED <<table, scan, cached, flushed>>
    BY <1>13, Zenon DEF WaitFails, catalogVars, scanVars
  <2>2. StmtsOf(pending') \subseteq StmtsOf(pending)
    BY <1>1, <1>13, UnrouteFacts, Zenon
  <2> QED BY <1>5, <1>6, <1>8, <2>1, <2>2, Zenon
<1>14. CASE FlushNow
  <2>1. flushed' \subseteq flushed /\ UNCHANGED <<table, scan, cached, pending>>
    BY <1>14, Zenon DEF FlushNow, catalogVars, scanVars
  <2> QED BY <1>5, <1>6, <1>8, <2>1, Zenon
<1>15. CASE FlushSnapshot
  <2>1. /\ pending' = [i \in DOMAIN pending |-> Claim(pending[i])]
        /\ UNCHANGED <<table, scan, cached, flushed>>
    BY <1>15, Zenon DEF FlushSnapshot, catalogVars, scanVars
  <2>2. StmtsOf(pending') = StmtsOf(pending)
    BY <1>2, <2>1, StmtsOfClaimed, Zenon
  <2> QED BY <1>5, <1>6, <1>8, <2>1, <2>2, Zenon
\* The flusher's prefix becomes a generation.
<1>16. ASSUME flush.pc = "load", pending' = Suffix(flush.n), UNCHANGED <<table, scan, cached>>,
              NEW new, new.batches = Prefix(flush.n),
              flushed' = Observed(flushed, table) \cup {new}
       PROVE  ReadOnce'
  <2>1. /\ flush.n \in Nat /\ flush.n <= Len(pending)
        /\ StmtsOf(pending) = StmtsOf(Prefix(flush.n)) \cup StmtsOf(Suffix(flush.n))
    BY <1>1, <1>16, MoveOutFacts, Zenon
  <2>2. StmtsOf(new.batches) \cap StmtsOf(pending') = {}
    <3>1. SplitsOnce(pending, flush.n, Prefix(flush.n), Suffix(flush.n))
      BY <1>2, <2>1, OnceSplit, Zenon DEF Prefix, Suffix
    <3> QED BY <1>16, <3>1, Zenon DEF SplitsOnce
  <2>3. /\ StmtsOf(new.batches) \subseteq StmtsOf(pending)
        /\ StmtsOf(pending') \subseteq StmtsOf(pending)
    BY <1>16, <2>1, Zenon
  <2>4. Accounted(table, new) /\ Accounted(scan, new) /\ Accounted(cached, new)
    BY <1>4, <2>3, Zenon DEF Accounted
  <2>5. ASSUME NEW h \in Observed(flushed, table)
        PROVE  /\ StmtsOf(h.batches) \cap StmtsOf(pending) = {}
               /\ Accounted(table, h) /\ Accounted(scan, h) /\ Accounted(cached, h)
    <3>1. PICK g \in flushed : h.commit = g.commit /\ h.batches = g.batches
      BY <1>2, <1>7, Zenon
    <3> QED BY <3>1, Zenon DEF ReadOnce, Accounted
  <2>6. Apart(flushed')
    <3>1. Apart(Observed(flushed, table))
      BY <1>2, <1>7, Zenon
    <3>2. \A g \in Observed(flushed, table) : StmtsOf(g.batches) \cap StmtsOf(new.batches) = {}
      BY <2>3, <2>5, Zenon
    <3> QED BY <1>16, <3>1, <3>2, ApartWith, Zenon
  <2> QED BY <1>16, <2>2, <2>3, <2>4, <2>5, <2>6, Zenon DEF ReadOnce
<1>17. CASE FlushCovered
  <2> DEFINE new == Generation([snap |-> 0, mark |-> flush.mark], Prefix(flush.n))
  <2>1. /\ flush.pc = "load" /\ pending' = Suffix(flush.n) /\ UNCHANGED <<table, scan, cached>>
        /\ flushed' = Observed(flushed, table) \cup {new}
    BY <1>17, Zenon DEF FlushCovered, catalogVars, scanVars
  <2>2. new.batches = Prefix(flush.n)
    BY Zenon DEF Generation
  <2> QED BY <1>16, <2>1, <2>2, Zenon
<1>18. CASE FlushPost
  <2> DEFINE new == Generation([snap |-> lastId + 1, mark |-> 0], Prefix(flush.n))
  <2>1. /\ flush.pc = "load" /\ pending' = Suffix(flush.n) /\ UNCHANGED <<table, scan, cached>>
        /\ flushed' = Observed(flushed, table) \cup {new}
    BY <1>18, Zenon DEF FlushPost, scanVars
  <2>2. new.batches = Prefix(flush.n)
    BY Zenon DEF Generation
  <2> QED BY <1>16, <2>1, <2>2, Zenon
\* The generation the flusher takes back was in no other.
<1>19. ASSUME InFlight, MoveBack(flush.id), UNCHANGED <<table, scan, cached>> PROVE ReadOnce'
  <2>1. PICK g \in flushed : /\ flushed' = flushed \ {g}
                             /\ StmtsOf(pending') = StmtsOf(g.batches) \cup StmtsOf(pending)
                             /\ StmtsOf(g.batches) \subseteq Stmts
    BY <1>1, <1>19, MoveBackFacts, Zenon
  <2>2. ASSUME NEW h \in flushed' PROVE StmtsOf(h.batches) \cap StmtsOf(pending') = {}
    <3>1. h \in flushed /\ h # g
      BY <2>1, Zenon
    <3>2. StmtsOf(h.batches) \cap StmtsOf(g.batches) = {}
      BY <2>1, <3>1, Zenon DEF ReadOnce, Apart
    <3> QED BY <2>1, <3>1, <3>2, Zenon DEF ReadOnce
  <2>3. Apart(flushed') /\ flushed' \subseteq flushed
    BY <1>6, <2>1, Zenon
  <2> QED BY <1>19, <2>2, <2>3, Zenon DEF ReadOnce
<1>20. CASE FlushConflict
  BY <1>19, <1>20, Zenon DEF FlushConflict, InFlight, catalogVars, scanVars
<1>21. CASE FlushReload
  <2>1. /\ InFlight /\ UNCHANGED <<table, scan, cached>>
        /\ UNCHANGED <<flushed, pending>> \/ MoveBack(flush.id)
    BY <1>21, Zenon DEF FlushReload, InFlight, catalogVars, scanVars
  <2> QED BY <1>9, <1>19, <2>1, Zenon
<1>22. CASE FlushReloadFails
  BY <1>22, Zenon DEF FlushReloadFails, Fault, FaultOf, NoBlindRetry
<1>23. CASE CatalogApply
  <2>1. PICK p \in posts : CatalogProcess(p)
    BY <1>23, Zenon DEF CatalogApply
  <2>2. UNCHANGED <<flushed, pending, scan, cached>>
    BY <2>1, Zenon DEF CatalogProcess, bufferVars, scanVars
  <2>3. p.id = flush.id /\ p.stmts \subseteq OwnStmts /\ flush.id # 0 /\ p.stmts \subseteq Stmts
    BY <1>1, <2>1, Zenon DEF SentOnce, FlusherConsistent, InFlight, TypeOK, Posts
  <2>4. CASE p.base # table.head
    BY <1>9, <2>1, <2>2, <2>4, Zenon DEF CatalogProcess
  <2>5. CASE p.base = table.head
    <3>1. /\ table'.snaps = table.snaps \cup {p.id}
          /\ table'.rows = [s \in Stmts |-> table.rows[s] + IF s \in p.stmts THEN 1 ELSE 0]
      BY <2>1, <2>5, Zenon DEF CatalogProcess
    <3>2. \A s \in Stmts : /\ table'.rows[s] >= table.rows[s] /\ table'.rows[s] \in Nat
                           /\ s \notin p.stmts => table'.rows[s] = table.rows[s]
      BY <1>3, <3>1
    <3>3. ASSUME NEW g \in flushed, NEW s \in Stmts, s \in StmtsOf(g.batches), table'.rows[s] >= 1
          PROVE  g.commit.snap # 0 /\ g.commit.snap \in table'.snaps
      <4>1. CASE s \in p.stmts
        <5>1. PICK o \in flushed : o.commit.snap = flush.id /\ s \in StmtsOf(o.batches)
          BY <2>3, <4>1, Zenon DEF OwnStmts, OwnGenerations
        <5>2. o = g
          BY <3>3, <5>1, Zenon DEF ReadOnce, Apart
        <5> QED BY <2>3, <3>1, <5>1, <5>2, Zenon
      <4>2. CASE s \notin p.stmts
        BY <3>1, <3>2, <3>3, <4>2, Zenon DEF ReadOnce, Accounted
      <4> QED BY <4>1, <4>2, Zenon
    <3>4. \A g \in flushed : Accounted(table', g)
      BY <3>3, Zenon DEF Accounted
    <3>5. \A s \in Stmts : scan.rows[s] <= table'.rows[s] /\ cached.rows[s] <= table'.rows[s]
      BY <1>3, <3>2 DEF ReadOnce
    <3> QED BY <2>2, <3>4, <3>5, Zenon DEF ReadOnce
  <2> QED BY <2>4, <2>5, Zenon
<1>24. CASE ForeignCommit
  <2>1. /\ table'.rows = table.rows /\ table'.snaps = table.snaps \cup {lastId + 1}
        /\ UNCHANGED <<flushed, pending, scan, cached>>
    BY <1>2, <1>24, Zenon DEF ForeignCommit, Metas, bufferVars, scanVars
  <2>2. \A g \in flushed : Accounted(table', g)
    BY <2>1, Zenon DEF ReadOnce, Accounted
  <2> QED BY <2>1, <2>2, Zenon DEF ReadOnce
<1>25. CASE ForeignPropertyDrop
  BY <1>25, Zenon DEF ForeignPropertyDrop, Fault, FaultOf, NoBlindRetry
<1>26. CASE Crash
  <2>1. flushed' = {} /\ pending' = <<>> /\ table' = table /\ scan' = NoMeta /\ cached' = NoMeta
    BY <1>26, Zenon DEF Crash
  <2>2. StmtsOf(pending') \subseteq StmtsOf(pending)
    BY <2>1 DEF StmtsOf
  <2> QED BY <1>5, <1>6, <1>8, <2>1, <2>2, Zenon
<1>27. CASE Boot
  <2>1. flushed' = {} /\ UNCHANGED <<table, scan, cached>>
    BY <1>1, <1>27, Zenon DEF Boot, DownIsEmpty, catalogVars, scanVars
  <2> QED BY <2>1, Zenon DEF ReadOnce, Apart
<1>28. CASE ScanLoad \/ ScanStale
  <2>1. /\ UNCHANGED <<flushed, pending, table>> /\ scan' \in {table, cached}
        /\ cached' \in {table, cached}
    BY <1>28, Zenon DEF ScanLoad, ScanStale, catalogVars, bufferVars
  <2> QED BY <1>5, <1>6, <1>8, <2>1, Zenon
<1>29. CASE ScanOverlay
  <2>1. flushed' = Observed(flushed, scan) /\ scan' = NoMeta /\ UNCHANGED <<pending, table, cached>>
    BY <1>29, Zenon DEF ScanOverlay, catalogVars
  <2>2. Kept /\ Apart(flushed')
    BY <1>2, <1>7, <2>1, Zenon DEF Kept
  <2> QED BY <1>5, <1>8, <2>1, <2>2, Zenon
<1> QED
  BY <1>10, <1>11, <1>12, <1>13, <1>14, <1>15, <1>17, <1>18, <1>20, <1>21, <1>22, <1>23, <1>24,
     <1>25, <1>26, <1>27, <1>28, <1>29, Zenon DEF Next

\* A set whose members are all equal has at most one.
LEMMA AtMostOne ==
  ASSUME NEW S, \A x, y \in S : x = y
  PROVE  Cardinality(S) \in Nat /\ Cardinality(S) <= 1 /\ (S = {} => Cardinality(S) = 0)
<1>1. CASE S = {}
  BY <1>1, FS_EmptySet
<1>2. CASE S # {}
  <2>1. PICK x \in S : S = {x}
    BY <1>2, Zenon
  <2> QED BY <1>2, <2>1, FS_Singleton
<1> QED BY <1>1, <1>2, Zenon

\* ... so that the three places a row may be seen in add up to one.
LEMMA ReadOnceVisible ==
  ASSUME OnceInv, NoBlindRetry, ReadOnce, NEW s \in Stmts
  PROVE  Visible(scan, s) <= 1
<1> DEFINE P == {i \in DOMAIN pending : pending[i].stmt = s}
           G == {g \in flushed : ~Contained(scan, g.commit) /\ s \in StmtsOf(g.batches)}
<1>1. /\ scan.rows[s] \in Nat /\ table.rows[s] \in Nat /\ scan.rows[s] <= table.rows[s]
      /\ table.rows[s] <= 1
  BY Zenon DEF OnceInv, Bookkeeping, TypeOK, Metas, SentOnce, ReadOnce
<1>2. Cardinality(P) \in Nat /\ Cardinality(P) <= 1 /\ (P = {} => Cardinality(P) = 0)
  <2>1. \A x, y \in P : x = y
    BY Zenon DEF OnceInv, BufferedOnce, Once
  <2> HIDE DEF P
  <2> QED BY <2>1, AtMostOne, Zenon
<1>3. Cardinality(G) \in Nat /\ Cardinality(G) <= 1 /\ (G = {} => Cardinality(G) = 0)
  <2>1. \A x, y \in G : x = y
    BY Zenon DEF ReadOnce, Apart
  <2> HIDE DEF G
  <2> QED BY <2>1, AtMostOne, Zenon
<1>4. scan.rows[s] >= 1 => P = {}
  <2>1. P # {} => s \in StmtsOf(pending)
    BY Zenon DEF StmtsOf
  <2>2. table.rows[s] >= 1 => s \notin StmtsOf(pending)
    BY Zenon DEF OnceInv, SentOnce, Applied
  <2> QED BY <1>1, <2>1, <2>2
<1>5. scan.rows[s] >= 1 => G = {}
  BY Zenon DEF ReadOnce, Accounted, Contained
<1>6. P # {} => G = {}
  BY Zenon DEF ReadOnce, StmtsOf
<1>7. Visible(scan, s) = scan.rows[s] + Cardinality(P) + Cardinality(G)
  BY Zenon DEF Visible
<1> HIDE DEF P, G
<1> QED BY <1>1, <1>2, <1>3, <1>4, <1>5, <1>6, <1>7

\* The inductive invariant of the union read's uniqueness.
ReadInv == OnceInv /\ (NoBlindRetry => ReadOnce)

\* ReadInv holds in every state.
LEMMA ReadAlways == Spec => []ReadInv
<1>1. Init => ReadInv
  <2>1. ASSUME Init PROVE ReadOnce
    <3>1. /\ flushed = {} /\ scan = NoMeta /\ cached = NoMeta
          /\ \A s \in Stmts : table.rows[s] = 0 /\ NoMeta.rows[s] = 0
      BY <2>1, Zenon DEF Init, NoMeta
    <3> QED BY <3>1 DEF ReadOnce, Apart
  <2> QED BY <2>1, OnceInit, Zenon DEF ReadInv
<1>2. ASSUME ReadInv, Next PROVE ReadInv'
  <2>1. OnceInv /\ OnceInv' /\ (NoBlindRetry => ReadOnce)
    BY <1>2, OnceStep, Zenon DEF ReadInv
  <2>2. NoBlindRetry' => NoBlindRetry
    BY <1>2, <2>1, HappenedGrows, Zenon DEF NoBlindRetry, OnceInv, Bookkeeping, FramesWellFormed
  <2>3. NoBlindRetry' => ReadOnce'
    BY <1>2, <2>1, <2>2, ReadOnceStep, Zenon
  <2> QED BY <2>1, <2>3, Zenon DEF ReadInv
<1>3. ASSUME ReadInv, UNCHANGED vars PROVE ReadInv'
  <2>1. UNCHANGED <<flushed, pending, table, scan, cached, happened>>
    BY <1>3, Zenon DEF vars, catalogVars, bufferVars, scanVars, faultVars
  <2>2. OnceInv'
    BY <1>3, OnceStep, Zenon DEF ReadInv
  <2>3. (NoBlindRetry => ReadOnce)'
    BY <1>3, <2>1, Zenon DEF ReadInv, NoBlindRetry, ReadOnce, Apart, Accounted
  <2> QED BY <2>2, <2>3, Zenon DEF ReadInv
<1> QED BY <1>1, <1>2, <1>3, PTL DEF Spec

\* A scan, whatever metadata it was served and however flushes, re-queues, garbage
\* collection and restarts went on between its load and its overlay, returns no row
\* twice (overlay_with, contained_in), while no step is repeated on incomplete knowledge.
THEOREM UnionReadsOnce == Spec => []UnionReadNoDuplicate
<1>1. ReadInv => UnionReadNoDuplicate
  BY ReadOnceVisible, Zenon DEF ReadInv, UnionReadNoDuplicate
<1> QED BY <1>1, ReadAlways, PTL
====
