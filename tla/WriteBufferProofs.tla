-------------------------- MODULE WriteBufferProofs -------------------------
(*****************************************************************************)
(* Type correctness of WriteBuffer: every step keeps the bookkeeping.  Then  *)
(* what makes AckedRecoverable inductive, the proof of its part about        *)
(* histories without failed fsyncs and late requests, and the proof that the *)
(* frames of owed rows outlive every step.                                   *)
(*****************************************************************************)
EXTENDS WriteBufferTypes

\* Commit ids are fresh: no generation and no posted commit has an id above
\* the last one handed out.
LEMMA IdsStep ==
  ASSUME Bookkeeping, Next
  PROVE  IdsFresh'
<1>1. TypeOK /\ DownIsEmpty /\ FlusherConsistent /\ IdsFresh
  BY Zenon DEF Bookkeeping
<1>2. /\ flush.id \in Nat /\ flush.mark \in Nat /\ lastId \in Nat /\ Idle.id = 0
      /\ \A g \in flushed : g.commit.snap \in Nat
      /\ \A p \in posts : p.id \in Nat /\ p.stamp \in Nat
  BY <1>1, Zenon DEF TypeOK, FlusherStates, Generations, Posts, Idle
<1> DEFINE
      FlushedFresh == /\ \A g \in flushed : g.commit.snap <= lastId
                      /\ \A g, h \in flushed :
                           g.commit.snap = h.commit.snap /\ g.commit.snap # 0 => g = h
      PostsFresh == \A p \in posts : p.id <= lastId
      FlushFresh == /\ flush.id <= lastId
                    /\ flush.pc = "posted" =>
                         \A p \in posts : p.id = flush.id => p.stamp >= flush.mark
<1>3. FlushedFresh /\ PostsFresh /\ FlushFresh
  BY <1>1, Zenon DEF IdsFresh
<1>4. FlushedFresh' /\ PostsFresh' /\ FlushFresh' => IdsFresh'
  BY Zenon DEF IdsFresh
<1>5. ASSUME NEW G \in SUBSET flushed, flushed' = Observed(G, table) \/ flushed' = Observed(G, scan),
             lastId' = lastId \/ lastId' = lastId + 1
      PROVE  FlushedFresh'
  <2>1. PICK meta \in Metas : flushed' = Observed(G, meta)
    BY <1>1, <1>5, Zenon DEF TypeOK
  <2>2. \A o \in flushed' : \E g \in flushed : o = Observe(g, meta) /\ o.commit = g.commit
    BY <1>1, <2>1, ObservedFacts DEF TypeOK
  <2>3. ASSUME NEW o \in flushed', NEW u \in flushed',
               o.commit.snap = u.commit.snap, o.commit.snap # 0
        PROVE  o = u
    <3>1. PICK g \in flushed : o = Observe(g, meta) /\ o.commit = g.commit
      BY <2>2, Zenon
    <3>2. PICK h \in flushed : u = Observe(h, meta) /\ u.commit = h.commit
      BY <2>2, Zenon
    <3>3. g = h
      BY <1>3, <2>3, <3>1, <3>2, Zenon
    <3>. QED
      BY <3>1, <3>2, <3>3, Zenon
  <2>. QED
    BY <1>2, <1>3, <1>5, <2>2, <2>3
<1>6. ASSUME flushed' \in SUBSET flushed, lastId' = lastId \/ lastId' = lastId + 1
      PROVE  FlushedFresh'
  BY <1>2, <1>3, <1>6
<1>7. ASSUME posts' \in SUBSET posts, lastId' = lastId \/ lastId' = lastId + 1
      PROVE  PostsFresh'
  BY <1>2, <1>3, <1>7
<1>8. ASSUME posts' \in SUBSET posts, flush' = flush, lastId' = lastId \/ lastId' = lastId + 1
      PROVE  FlushFresh'
  BY <1>2, <1>3, <1>8
<1>9. ASSUME flush'.pc # "posted", flush'.id = 0 \/ flush'.id = flush.id, lastId' = lastId
      PROVE  FlushFresh'
  BY <1>2, <1>3, <1>9
<1> HIDE DEF FlushedFresh, PostsFresh, FlushFresh
<1>10. ASSUME NEW s \in Stmts, Stage(s) \/ StageFails(s) \/ WaitOk(s) \/ WaitFails(s)
       PROVE  IdsFresh'
  BY <1>4, <1>6, <1>7, <1>8, <1>10, Zenon DEF Stage, StageFails, WaitOk, WaitFails, catalogVars,
    bufferVars
<1>11. CASE SyncFails \/ ScanLoad \/ ScanStale
  BY <1>4, <1>6, <1>7, <1>8, <1>11, Zenon
    DEF SyncFails, ScanLoad, ScanStale, catalogVars, bufferVars
<1>12. CASE FlushNow
  <2>1. flush' = flush \/ (flush'.pc = "snapshot" /\ flush'.id = 0)
    BY <1>12, Zenon DEF FlushNow, Idle
  <2>. QED
    BY <1>4, <1>6, <1>7, <1>8, <1>9, <1>12, <2>1, Zenon DEF FlushNow, catalogVars
<1>13. CASE FlushSnapshot
  <2>1. flush'.pc # "posted" /\ (flush'.id = 0 \/ flush'.id = flush.id)
    BY <1>1, <1>13, Zenon DEF FlushSnapshot, Idle, TypeOK, FlusherStates
  <2>. QED
    BY <1>4, <1>6, <1>7, <1>9, <1>13, <2>1, Zenon DEF FlushSnapshot, catalogVars
<1>14. ASSUME NEW c \in Nat, NEW m, NEW b,
              flushed' = Observed(flushed, table) \cup {Generation([snap |-> c, mark |-> m], b)},
              (c = 0 /\ lastId' = lastId) \/ (c = lastId + 1 /\ lastId' = lastId + 1)
       PROVE  FlushedFresh'
  <2>1. \A o \in Observed(flushed, table) :
          \E g \in flushed : o = Observe(g, table) /\ o.commit = g.commit
    BY <1>1, ObservedFacts DEF TypeOK
  <2>2. \A o \in Observed(flushed, table) : o.commit.snap \in Nat /\ o.commit.snap <= lastId
    BY <1>2, <1>3, <2>1, Zenon DEF FlushedFresh
  <2>3. ASSUME NEW o \in Observed(flushed, table), NEW u \in Observed(flushed, table),
               o.commit.snap = u.commit.snap, o.commit.snap # 0
        PROVE  o = u
    <3>1. PICK g \in flushed : o = Observe(g, table) /\ o.commit = g.commit
      BY <2>1, Zenon
    <3>2. PICK h \in flushed : u = Observe(h, table) /\ u.commit = h.commit
      BY <2>1, Zenon
    <3>3. g = h
      BY <1>3, <2>3, <3>1, <3>2, Zenon DEF FlushedFresh
    <3>. QED
      BY <3>1, <3>2, <3>3, Zenon
  <2> DEFINE n == Generation([snap |-> c, mark |-> m], b)
  <2>4. n.commit.snap = c
    BY Zenon DEF Generation
  <2>5. flushed' = Observed(flushed, table) \cup {n}
    BY <1>14, Zenon
  <2> HIDE DEF n
  <2>6. \A g \in flushed' : g \in Observed(flushed, table) \/ g = n
    BY <2>5, Zenon
  <2>7. n.commit.snap \in Nat /\ n.commit.snap <= lastId' /\ lastId <= lastId' /\ lastId' \in Nat
    BY <1>2, <1>14, <2>4
  <2>8. \A o \in Observed(flushed, table) :
          o.commit.snap # n.commit.snap \/ o.commit.snap = 0
    BY <1>2, <1>14, <2>2, <2>4
  <2>9. \A g \in flushed' : g.commit.snap <= lastId'
    BY <1>2, <2>2, <2>6, <2>7
  <2>10. ASSUME NEW g \in flushed', NEW h \in flushed',
                g.commit.snap = h.commit.snap, g.commit.snap # 0
         PROVE  g = h
    BY <2>3, <2>6, <2>8, <2>10, Zenon
  <2>. QED
    BY <2>9, <2>10, Zenon DEF FlushedFresh
<1>15. CASE FlushCovered
  <2>1. /\ flush' = Idle /\ UNCHANGED <<posts, lastId>>
        /\ flushed' = Observed(flushed, table) \cup
             {Generation([snap |-> 0, mark |-> flush.mark], Prefix(flush.n))}
    BY <1>15, Zenon DEF FlushCovered, catalogVars
  <2>2. flush'.pc # "posted" /\ flush'.id = 0
    BY <2>1, Zenon DEF Idle
  <2>. QED
    BY <1>4, <1>7, <1>9, <1>14, <2>1, <2>2
<1>16. CASE FlushPost
  <2> DEFINE new == [id |-> lastId + 1, base |-> table.head,
                     stmts |-> StmtsOf(Prefix(flush.n)),
                     stamp |-> Max2(table.mark, flush.mark)]
  <2>1. /\ lastId' = lastId + 1 /\ lastId + 1 \in Nat
        /\ flushed' = Observed(flushed, table) \cup
             {Generation([snap |-> lastId + 1, mark |-> 0], Prefix(flush.n))}
        /\ posts' = posts \cup {new}
        /\ flush' = [flush EXCEPT !.pc = "posted", !.id = lastId + 1]
    BY <1>2, <1>16 DEF FlushPost
  <2>2. new.id = lastId + 1 /\ new.stamp >= flush.mark
    BY <1>1, <1>2 DEF Max2, TypeOK, Metas
  <2>3. flush'.id = lastId + 1 /\ flush'.mark = flush.mark
    BY <1>1, <2>1, Zenon DEF TypeOK, FlusherStates
  <2> HIDE DEF new
  <2>4. PostsFresh'
    BY <1>2, <1>3, <2>1, <2>2 DEF PostsFresh
  <2>5. FlushFresh'
    BY <1>2, <1>3, <2>1, <2>2, <2>3 DEF PostsFresh, FlushFresh
  <2>. QED
    BY <1>4, <1>14, <2>1, <2>4, <2>5, Zenon
<1>17. CASE FlushLoadFails \/ FlushCommitted \/ FlushReloadFails \/ FlushReload
  <2>1. flush'.pc # "posted" /\ flush'.id = 0
    BY <1>17 DEF FlushLoadFails, FlushCommitted, FlushReloadFails, FlushReload, Idle
  <2>2. flushed' \in SUBSET flushed
    BY <1>17, Zenon DEF FlushLoadFails, FlushCommitted, FlushReloadFails, FlushReload, MoveBack,
      bufferVars
  <2>3. UNCHANGED <<posts, lastId>>
    BY <1>17, Zenon DEF FlushLoadFails, FlushCommitted, FlushReloadFails, FlushReload, catalogVars
  <2>. QED
    BY <1>4, <1>6, <1>7, <1>9, <2>1, <2>2, <2>3, Zenon
<1>18. CASE FlushConflict
  <2>1. flush'.pc # "posted" /\ flush'.id = 0
    BY <1>18, Zenon DEF FlushConflict, Idle
  <2>. QED
    BY <1>4, <1>6, <1>7, <1>9, <1>18, <2>1, Zenon DEF FlushConflict, MoveBack, catalogVars
<1>19. CASE FlushAmbiguous
  <2>1. flush'.pc # "posted" /\ flush'.id = flush.id
    BY <1>1, <1>19, Zenon DEF FlushAmbiguous, TypeOK, FlusherStates
  <2>. QED
    BY <1>4, <1>6, <1>7, <1>9, <1>19, <2>1, Zenon DEF FlushAmbiguous, bufferVars
<1>20. CASE CatalogApply
  <2>1. PICK p \in posts : CatalogProcess(p)
    BY <1>20, Zenon DEF CatalogApply
  <2>2. /\ flush'.pc = flush.pc /\ flush'.id = flush.id /\ flush'.mark = flush.mark
        /\ posts' \in SUBSET posts /\ UNCHANGED <<flushed, lastId>>
    BY <1>1, <2>1, Zenon DEF CatalogProcess, TypeOK, FlusherStates, bufferVars
  <2>3. FlushFresh'
    BY <1>3, <2>2, Zenon DEF FlushFresh
  <2>. QED
    BY <1>4, <1>6, <1>7, <2>2, <2>3, Zenon
<1>21. CASE ForeignCommit \/ ForeignPropertyDrop
  BY <1>4, <1>6, <1>7, <1>8, <1>21, Zenon DEF ForeignCommit, ForeignPropertyDrop, bufferVars
<1>22. CASE Crash
  <2>1. /\ flush' = Idle /\ flushed' = {} /\ posts' \in SUBSET posts /\ lastId' = lastId
    BY <1>22, Zenon DEF Crash
  <2>2. flush'.pc # "posted" /\ flush'.id = 0
    BY <2>1, Zenon DEF Idle
  <2>. QED
    BY <1>4, <1>6, <1>7, <1>9, <2>1, <2>2, Zenon
<1>23. CASE Boot \/ BootFrameless
  BY <1>4, <1>6, <1>7, <1>8, <1>23, Zenon DEF Boot, BootFrameless, catalogVars
<1>24. CASE ScanOverlay
  BY <1>4, <1>5, <1>7, <1>8, <1>24, Zenon DEF ScanOverlay, catalogVars
<1>. QED
  BY <1>10, <1>11, <1>12, <1>13, <1>15, <1>16, <1>17, <1>18, <1>19, <1>20, <1>21, <1>22,
     <1>23, <1>24, Zenon DEF Next

\* Every step keeps the bookkeeping.
LEMMA BookkeepingStep ==
  Bookkeeping /\ [Next]_vars => Bookkeeping'
<1>1. ASSUME Bookkeeping, Next PROVE Bookkeeping'
  BY <1>1, TypeStep, FramesStep, DownStep, BufferedStep, FlusherStep, IdsStep, Zenon DEF Bookkeeping
<1>2. ASSUME Bookkeeping, UNCHANGED vars PROVE Bookkeeping'
  BY <1>2, ZenonT(30) DEF Bookkeeping, TypeOK, FramesWellFormed, DownIsEmpty, BufferedBelowTailHigh,
    FlusherConsistent, IdsFresh, Marked, InFlight, OwnGenerations, StmtsOf, vars,
    catalogVars, tailVars, bufferVars, clientVars, scanVars, faultVars
<1>. QED
  BY <1>1, <1>2, Zenon

\* It holds initially.
LEMMA BookkeepingInit == Init => Bookkeeping
<1>. SUFFICES ASSUME Init PROVE Bookkeeping
  BY Zenon
<1>1. Idle \in FlusherStates /\ Idle.pc = "idle" /\ Idle.id = 0
  BY ConstantsAssumption DEF FlusherStates, Idle
<1>2. NoMeta \in Metas /\ table \in Metas
  <2>1. -1 \in Int /\ 0 \in Int /\ 0 \in Nat /\ {} \subseteq Nat /\ {0} \subseteq Nat
    OBVIOUS
  <2>2. [s \in Stmts |-> 0] \in [Stmts -> Nat]
    BY Zenon
  <2>3. NoMeta \in Metas
    BY <2>1, <2>2, Zenon DEF NoMeta, Metas
  <2>4. table \in Metas
    BY <2>1, <2>2, Zenon DEF Init, Metas
  <2>. QED
    BY <2>3, <2>4, Zenon
<1>3. <<>> \in Seq(Batches)
  OBVIOUS
<1>4. TypeOK
  BY <1>1, <1>2, <1>3, ConstantsAssumption DEF Init, TypeOK, Statuses
<1>5. FramesWellFormed /\ DownIsEmpty
  BY FS_EmptySet, Zenon DEF Init, FramesWellFormed, DownIsEmpty
<1>6. BufferedBelowTailHigh /\ FlusherConsistent /\ IdsFresh
  BY <1>1 DEF Init, BufferedBelowTailHigh, FlusherConsistent, IdsFresh, Marked, InFlight, StmtsOf
<1>. QED
  BY <1>4, <1>5, <1>6, Zenon DEF Bookkeeping

\* Type correctness of the buffered write path, the tail and the catalog, for
\* every number of statements, faults and scans.
THEOREM TypeCorrect == Spec => []TypeOK
<1>1. Spec => []Bookkeeping
  BY BookkeepingInit, BookkeepingStep, PTL DEF Spec
<1>2. Bookkeeping => TypeOK
  BY Zenon DEF Bookkeeping
<1>. QED
  BY <1>1, <1>2, PTL

----------------------------------------------------------------------------
\* Facts of single steps that the later invariants share.

\* The table holds the rows of s.
Applied(s) == table.rows[s] >= 1

\* What went wrong stays known.
LEMMA HappenedGrows ==
  ASSUME TypeOK, IsFiniteSet(frames), Next
  PROVE  happened \subseteq happened'
<1>1. ASSUME NEW upto \in Nat, TruncateCovered(upto) PROVE happened \subseteq happened'
  BY <1>1, TruncateFacts, Zenon
<1>2. flush.mark \in Nat /\ Watermark \in Nat
  BY Zenon DEF TypeOK, FlusherStates, Metas, Watermark, Max2
<1>3. ASSUME NEW s \in Stmts, Stage(s) \/ StageFails(s) \/ WaitOk(s) \/ WaitFails(s)
      PROVE  happened \subseteq happened'
  BY <1>3, Zenon DEF Stage, StageFails, WaitOk, WaitFails, NoFault, faultVars, Fault, FaultOf
<1>4. CASE SyncFails \/ FlushNow \/ FlushSnapshot \/ FlushPost \/ FlushLoadFails
           \/ FlushConflict \/ FlushAmbiguous \/ FlushReloadFails
  BY <1>4, Zenon DEF SyncFails, FlushNow, FlushSnapshot, FlushPost, FlushLoadFails, FlushConflict,
    FlushAmbiguous, FlushReloadFails, NoFault, faultVars, Fault, FaultOf
<1>5. CASE FlushCovered \/ FlushCommitted \/ FlushReload
  BY <1>1, <1>2, <1>5, Zenon DEF FlushCovered, FlushCommitted, FlushReload, NoFault, faultVars
<1>6. CASE CatalogApply \/ ForeignCommit \/ ForeignPropertyDrop \/ ScanLoad \/ ScanStale
           \/ ScanOverlay
  BY <1>6, Zenon DEF CatalogApply, CatalogProcess, ForeignCommit, ForeignPropertyDrop, ScanLoad,
    ScanStale, ScanOverlay, NoFault, faultVars, Fault, FaultOf
<1>7. CASE Crash
  <2>1. \E kinds : FaultOf(kinds)
    BY <1>7, Zenon DEF Crash
  <2>. QED
    BY <2>1, Zenon DEF FaultOf
<1>8. CASE Boot
  <2>1. TruncateCovered(Watermark) \/ NoFault
    BY <1>8, Zenon DEF Boot
  <2>. QED
    BY <1>1, <1>2, <2>1, Zenon DEF NoFault, faultVars
<1>9. CASE BootFrameless
  BY <1>9, Zenon DEF BootFrameless, Fault, FaultOf
<1>. QED
  BY <1>3, <1>4, <1>5, <1>6, <1>7, <1>8, <1>9, Zenon DEF Next

\* A replay numbers above the watermark and above every frame it finds, and
\* buffers the frames above the watermark.
LEMMA BootFacts ==
  ASSUME TypeOK, IsFiniteSet(frames), Boot
  PROVE  /\ Watermark \in Nat /\ nextSeq' \in Nat /\ nextSeq' > Watermark
         /\ \A f \in frames : f.seq < nextSeq'
         /\ \A f \in frames : f.seq > Watermark => f.stmt \in StmtsOf(pending') /\ f \in frames'
         /\ \A s \in StmtsOf(pending') : \E f \in frames : f.stmt = s /\ f.seq > Watermark
         /\ tailHigh' = 0 \/ \E f \in frames : f.seq = tailHigh' /\ f.seq > Watermark
         /\ (TruncateCovered(Watermark) \/ (UNCHANGED tailVars /\ NoFault))
<1> DEFINE survivors == {f \in frames : f.seq > Watermark}
<1>1. /\ frames \in SUBSET Frames /\ survivors \in SUBSET Frames /\ IsFiniteSet(survivors)
      /\ Watermark \in Nat /\ \A f \in frames : f.seq \in Nat
  BY FS_Subset, Zenon DEF TypeOK, Metas, Watermark, Max2, Frames
<1>2. TruncateCovered(Watermark) \/ (UNCHANGED tailVars /\ NoFault)
  BY Zenon DEF Boot
<1>3. \A f \in frames : f.seq > Watermark => f \in frames'
  BY <1>1, <1>2, TruncateFacts, Zenon DEF tailVars
<1>4. PICK q \in Ordered(survivors) :
        /\ pending' = [i \in DOMAIN q |-> [stmt |-> q[i].stmt, claimed |-> FALSE]]
        /\ tailHigh' = IF q = <<>> THEN 0 ELSE q[Len(q)].seq
  BY Zenon DEF Boot
<1>5. /\ q \in Seq(survivors) /\ Range(q) = survivors
      /\ q # <<>> => q[Len(q)] \in survivors
  BY <1>1, OrderedFacts, Zenon
<1>6. StmtsOf(pending') = {f.stmt : f \in survivors}
  BY <1>1, <1>4, <1>5, ReplayedBatches, Zenon
<1>7. PICK r \in Ordered(frames) : nextSeq' = SeqFloor(r, Watermark)
  BY Zenon DEF Boot
<1>8. /\ r = <<>> <=> frames = {}
      /\ \A f \in frames : f.seq <= r[Len(r)].seq
      /\ r # <<>> => r[Len(r)] \in frames
  BY <1>1, OrderedFacts, Zenon
<1>9. nextSeq' \in Nat /\ nextSeq' > Watermark /\ \A f \in frames : f.seq < nextSeq'
  BY <1>1, <1>7, <1>8 DEF SeqFloor, ResumeSeq, Max2
<1>. QED
  BY <1>1, <1>2, <1>3, <1>4, <1>5, <1>6, <1>9, Zenon

-----------------------------------------------------------------------------
(* What is owed to the clients, and its part about orderly histories.        *)

\* The client of s was told, or may still be told, that s is durable.
Owed(s) == status[s] \in {"staged", "acked"}

\* The next process to number frames knows of sequence x.
Known(x) == x <= sidecar \/ \E f \in frames : f.seq >= x

NoFrameLost == happened \cap {"sync_fails", "power_loss"} = {}

\* While no frame is lost, every watermark, committed or on its way, is Known.
WatermarksKnown ==
  NoFrameLost => /\ Known(table.mark)
                 /\ Known(tailHigh)
                 /\ \A p \in posts : Known(p.stamp)

\* An owed statement is in the table or has a frame a replay would keep.
OwedFramed ==
  \A s \in Stmts : Owed(s) =>
    \/ Applied(s)
    \/ \E f \in frames : /\ f.stmt = s /\ f.seq > Watermark
                         /\ status[s] = "acked" => f.synced

\* A request whose stamp covers an owed statement brings it along.
PostsCarryOwed ==
  \A p \in posts : \A s \in Stmts :
    Owed(s) /\ seqOf[s] <= p.stamp => Applied(s) \/ s \in p.stmts

\* ... and so does the generation whose mark covers it.
FlushCarriesOwed ==
  /\ flush.pc = "load" =>
       \A s \in Stmts : Owed(s) /\ seqOf[s] <= flush.mark =>
         Applied(s) \/ \E i \in 1 .. flush.n : s = pending[i].stmt
  /\ flush.pc = "posted" /\ flush.reply = "committed" =>
       \A s \in Stmts : Owed(s) /\ seqOf[s] <= flush.mark => Applied(s)
  /\ flush.pc # "posted" => flush.reply = "none"

\* New sequences are above every watermark, committed or on its way.
NumberingAbove ==
  up => nextSeq > Watermark /\ \A p \in posts : nextSeq > p.stamp

\* A running process still holds every owed statement it has not seen applied.
OwedBuffered ==
  up => \A s \in Stmts : Owed(s) =>
    \/ Applied(s)
    \/ s \in StmtsOf(pending)
    \/ InFlight /\ \E g \in OwnGenerations : s \in StmtsOf(g.batches)

NothingLost == /\ WatermarksKnown /\ OwedFramed /\ PostsCarryOwed
               /\ FlushCarriesOwed /\ NumberingAbove /\ OwedBuffered

----------------------------------------------------------------------------
\* While no fsync fails, no power loss reaches a frame that was synced or is
\* of an earlier process, and every POST is applied in time or never.

NoStray == happened \cap {"sync_fails", "old_frame", "buried", "late_post"} = {}

\* The frames that no fault in such a history removes.
SettledFrames == {f \in frames : f.synced \/ ~Ours(f)}

\* Only the flusher's own request can raise the committed watermark, and only
\* up to its mark.
OnlyOwnPost ==
  /\ posts # {} => flush.pc = "posted" /\ flush.reply = "none"
  /\ \A p \in posts : p.id = flush.id /\ p.stamp <= flush.mark
  /\ \A p, r \in posts : p = r
  /\ flush.pc # "posted" => flush.reply = "none"
  /\ Marked => table.mark <= flush.mark
  /\ tailHigh # 0 => table.mark <= tailHigh
  /\ up => table.mark < nextSeq

\* What is buffered has its frame, a flush starts with a settled frame, and the
\* frames behind its mark outlive its truncate.
BufferedFramed ==
  /\ \A s \in StmtsOf(pending) : \E f \in frames : f.stmt = s
  /\ InFlight => \A g \in OwnGenerations : \A s \in StmtsOf(g.batches) :
                   \E f \in frames : f.stmt = s
  /\ flush.pc # "idle" => SettledFrames # {}
  /\ flush.pc = "load" => \A i \in flush.n + 1 .. Len(pending) :
                           seqOf[pending[i].stmt] > flush.mark
  /\ InFlight => \A s \in StmtsOf(pending) : seqOf[s] > flush.mark

\* ... so that a boot that finds no frame finds the watermark in the sidecar.
FramelessKnown == table.mark <= sidecar \/ SettledFrames # {}

Orderly == OnlyOwnPost /\ BufferedFramed /\ FramelessKnown

DurableInv == /\ Bookkeeping
              /\ NoStray => Orderly
              /\ Intact => NothingLost

----------------------------------------------------------------------------
\* Facts of single steps that the invariants share.

\* An fsync leaves a settled frame where there was one (wait_group_sync, rotate).
LEMMA SettledSynced ==
  ASSUME TypeOK, IsFiniteSet(frames), NEW S \in SUBSET frames,
         frames' = AfterSync(frames, S), SettledFrames # {}
  PROVE  (SettledFrames # {})'
<1>1. PICK f \in frames : f.synced \/ ~Ours(f)
  BY Zenon DEF SettledFrames
<1>2. PICK g \in frames' : g.age = f.age /\ (f.synced => g.synced)
  BY SyncFacts DEF TypeOK
<1>3. g.synced \/ ~Ours(g)
  BY <1>1, <1>2, Zenon DEF Ours
<1>. QED
  BY <1>3, Zenon DEF SettledFrames

\* A truncate moves what it deletes below the sidecar.
LEMMA KnownTruncated ==
  ASSUME TypeOK, IsFiniteSet(frames), NEW upto \in Nat, TruncateCovered(upto),
         NEW x \in Nat, Known(x)
  PROVE  x <= sidecar' \/ \E f \in frames' : f.seq >= x
<1>1. /\ sidecar' \in Nat /\ sidecar \in Nat /\ sidecar <= sidecar'
      /\ \A f \in frames : f.seq \in Nat
      /\ \A f \in frames : f.seq > upto => f \in frames'
      /\ frames' # frames => upto <= sidecar'
  BY TruncateFacts, Zenon DEF TypeOK, Frames
<1>2. CASE x <= sidecar
  BY <1>1, <1>2
<1>3. ASSUME NEW f \in frames, f.seq >= x
      PROVE  x <= sidecar' \/ \E g \in frames' : g.seq >= x
  BY <1>1, <1>3
<1>. QED
  BY <1>2, <1>3, Zenon DEF Known

----------------------------------------------------------------------------
\* The order of things while nothing strays.

\* Without a stray request of an earlier process, the only commit the catalog
\* may still apply is the one the flusher waits for.
LEMMA OnlyOwnPostStep ==
  ASSUME Bookkeeping, Orderly, Next, NoStray'
  PROVE  OnlyOwnPost'
<1>1. /\ TypeOK /\ IsFiniteSet(frames) /\ DownIsEmpty /\ BufferedBelowTailHigh
      /\ FlusherConsistent /\ IdsFresh /\ OnlyOwnPost /\ FramelessKnown
  BY Zenon DEF Bookkeeping, FramesWellFormed, Orderly
<1>2. /\ table.mark \in Nat /\ flush.mark \in Nat /\ tailHigh \in Nat /\ nextSeq \in Nat
      /\ sidecar \in Nat /\ Idle.pc = "idle" /\ Idle.reply = "none"
      /\ \A p \in posts : p.stamp \in Nat
  BY <1>1, Zenon DEF TypeOK, Metas, FlusherStates, Idle, Posts
<1> DEFINE Marks == /\ flush.pc # "posted" => flush.reply = "none"
                    /\ Marked => table.mark <= flush.mark
                    /\ tailHigh # 0 => table.mark <= tailHigh
                    /\ up => table.mark < nextSeq
           Own == /\ posts # {} => flush.pc = "posted" /\ flush.reply = "none"
                  /\ \A p \in posts : p.id = flush.id /\ p.stamp <= flush.mark
                  /\ \A p, r \in posts : p = r
<1>3. Marks /\ Own /\ (Marks' /\ Own' => OnlyOwnPost')
  BY <1>1, Zenon DEF OnlyOwnPost
<1>4. UNCHANGED <<posts, flush>> => Own'
  BY <1>3, Zenon
<1>5. UNCHANGED <<table, flush, tailHigh, up, nextSeq>> => Marks'
  BY <1>3 DEF Marked
<1>6. /\ UNCHANGED <<table, tailHigh, up, nextSeq>>
      /\ flush'.pc \in {"idle", "snapshot"} /\ flush'.reply = "none"
      => Marks'
  BY <1>3 DEF Marked
<1>7. posts' = {} => Own'
  BY Zenon
<1>8. flush.pc # "posted" \/ flush.reply # "none" => posts = {}
  BY <1>3, Zenon
<1> HIDE DEF Own, Marks
<1>9. ASSUME NEW s \in Stmts, Stage(s) PROVE OnlyOwnPost'
  <2>1. UNCHANGED <<table, flush, up, posts>> /\ tailHigh' = nextSeq /\ nextSeq' = nextSeq + 1 /\ up
    BY <1>9, Zenon DEF Stage, catalogVars
  <2>2. Marks'
    BY <1>2, <1>3, <2>1 DEF Marks, Marked
  <2>. QED
    BY <1>3, <1>4, <2>1, <2>2, Zenon
<1>10. ASSUME NEW s \in Stmts, StageFails(s) \/ WaitOk(s) \/ WaitFails(s) PROVE OnlyOwnPost'
  BY <1>3, <1>4, <1>5, <1>10, Zenon DEF StageFails, WaitOk, WaitFails, catalogVars, bufferVars
<1>11. ~SyncFails
  <2>1. SyncFails => "sync_fails" \in happened'
    BY Zenon DEF SyncFails, FaultOf
  <2>. QED
    BY <2>1, Zenon DEF NoStray
<1>12. CASE FlushNow
  <2>1. flush' = flush \/ (flush'.pc = "snapshot" /\ flush'.reply = "none")
    BY <1>12, Zenon DEF FlushNow, Idle
  <2>2. posts = {} /\ UNCHANGED <<table, posts, up, tailHigh, nextSeq>>
    BY <1>8, <1>12, Zenon DEF FlushNow, catalogVars
  <2>. QED
    BY <1>3, <1>5, <1>6, <1>7, <2>1, <2>2, Zenon
<1>13. CASE FlushSnapshot
  <2>1. posts' = {} /\ UNCHANGED <<table, up, tailHigh, nextSeq>>
    BY <1>8, <1>13, Zenon DEF FlushSnapshot, catalogVars
  <2>2. CASE pending = <<>>
    BY <1>2, <1>3, <1>6, <1>7, <1>13, <2>1, <2>2, Zenon DEF FlushSnapshot
  <2>3. CASE pending # <<>>
    <3>1. flush'.mark = tailHigh /\ tailHigh # 0 /\ flush'.reply = flush.reply
      BY <1>1, <1>13, <2>3, Zenon DEF FlushSnapshot, TypeOK, FlusherStates, BufferedBelowTailHigh
    <3>2. Marks'
      BY <1>3, <1>13, <2>1, <3>1, Zenon DEF Marks, FlushSnapshot
    <3>. QED
      BY <1>3, <1>7, <2>1, <3>2, Zenon
  <2>. QED
    BY <2>2, <2>3, Zenon
<1>14. CASE FlushCovered \/ FlushLoadFails \/ FlushCommitted \/ FlushReload \/ FlushReloadFails
  <2>1. posts' = {}
    BY <1>8, <1>14, Zenon DEF FlushCovered, FlushLoadFails, FlushCommitted, FlushReload,
      FlushReloadFails, catalogVars
  <2>2. UNCHANGED <<table, up, tailHigh, nextSeq>> /\ flush' = Idle
    BY <1>14, Zenon DEF FlushCovered, FlushLoadFails, FlushCommitted, FlushReload,
      FlushReloadFails, catalogVars, bufferVars
  <2>. QED
    BY <1>2, <1>3, <1>6, <1>7, <2>1, <2>2, Zenon
<1>15. CASE FlushConflict
  <2>1. posts' = {} /\ UNCHANGED <<table, up, tailHigh, nextSeq>>
    BY <1>8, <1>15, Zenon DEF FlushConflict, catalogVars
  <2>2. flush'.pc \in {"idle", "snapshot"} /\ flush'.reply = "none"
    BY <1>15, Zenon DEF FlushConflict, Idle
  <2>. QED
    BY <1>3, <1>6, <1>7, <2>1, <2>2, Zenon
<1>16. CASE FlushPost
  <2> DEFINE new == [id |-> lastId + 1, base |-> table.head,
                     stmts |-> StmtsOf(Prefix(flush.n)),
                     stamp |-> Max2(table.mark, flush.mark)]
  <2>1. /\ flush.pc = "load" /\ table.mark < flush.mark
        /\ posts' = posts \cup {new} /\ UNCHANGED <<table, up, tailHigh, nextSeq>>
        /\ flush' = [flush EXCEPT !.pc = "posted", !.id = lastId + 1]
    BY <1>2, <1>16 DEF FlushPost, AlreadyCommitted
  <2>2. /\ flush'.pc = "posted" /\ flush'.id = lastId + 1 /\ flush'.mark = flush.mark
        /\ flush'.reply = flush.reply
    BY <1>1, <2>1, Zenon DEF TypeOK, FlusherStates
  <2>3. new.id = lastId + 1 /\ new.stamp = flush.mark
    BY <1>2, <2>1 DEF Max2
  <2>4. posts' = {new}
    BY <1>8, <2>1, Zenon
  <2>5. Marks'
    BY <1>3, <2>1, <2>2, Zenon DEF Marks, Marked
  <2> HIDE DEF new
  <2>6. flush.reply = "none"
    BY <1>3, <2>1, Zenon DEF Marks
  <2>7. Own'
    BY <1>2, <2>2, <2>3, <2>4, <2>6 DEF Own
  <2>. QED
    BY <1>3, <2>5, <2>7, Zenon
<1>17. CASE FlushAmbiguous
  <2>1. posts' = {p \in posts : p.id # flush.id}
    <3>1. ~FaultOf({"response_lost", "late_post"})
      BY Zenon DEF FaultOf, NoStray
    <3>. QED
      BY <1>17, <3>1, Zenon DEF FlushAmbiguous
  <2>2. posts' = {}
    BY <1>3, <2>1, Zenon DEF Own
  <2>3. /\ flush.pc = "posted" /\ flush'.pc = "reload" /\ flush'.reply = "none"
        /\ flush'.mark = flush.mark
    BY <1>1, <1>17, Zenon DEF FlushAmbiguous, TypeOK, FlusherStates
  <2>4. Marks'
    BY <1>3, <1>17, <2>3, Zenon DEF Marks, Marked, FlushAmbiguous, bufferVars
  <2>. QED
    BY <1>3, <1>7, <2>2, <2>4, Zenon
<1>18. CASE CatalogApply
  <2>1. PICK p \in posts : CatalogProcess(p)
    BY <1>18, Zenon DEF CatalogApply
  <2>2. /\ flush.pc = "posted" /\ flush'.pc = flush.pc /\ flush'.mark = flush.mark
        /\ p.stamp <= flush.mark
    BY <1>1, <1>3, <2>1, Zenon DEF Own, CatalogProcess, TypeOK, FlusherStates
  <2>3. posts' = {}
    BY <1>3, <2>1, Zenon DEF Own, CatalogProcess
  <2>4. table'.mark \in {table.mark, p.stamp} /\ UNCHANGED <<tailHigh, nextSeq, up>>
    BY <2>1, Zenon DEF CatalogProcess, bufferVars
  <2>5. flush.mark <= tailHigh /\ (up => tailHigh < nextSeq)
    BY <1>1, <2>2, Zenon DEF FlusherConsistent, Marked, BufferedBelowTailHigh
  <2>6. Marks'
    BY <1>2, <1>3, <2>2, <2>4, <2>5 DEF Marks, Marked
  <2>. QED
    BY <1>3, <1>7, <2>3, <2>6, Zenon
<1>19. CASE ForeignCommit \/ ForeignPropertyDrop
  <2>1. UNCHANGED <<posts, flush, up, tailHigh, nextSeq>>
    BY <1>19, Zenon DEF ForeignCommit, ForeignPropertyDrop, bufferVars
  <2>3. table'.mark = table.mark \/ table'.mark = 0
    BY <1>1, <1>19, Zenon DEF ForeignCommit, ForeignPropertyDrop, TypeOK, Metas
  <2>2. Marks'
    BY <1>2, <1>3, <2>1, <2>3 DEF Marks, Marked
  <2>. QED
    BY <1>3, <1>4, <2>1, <2>2, Zenon
<1>20. CASE Crash
  <2>1. posts' = {}
    <3>1. \A kinds : "late_post" \in kinds => ~FaultOf({"crash"} \cup kinds)
      BY Zenon DEF FaultOf, NoStray
    <3>. QED
      BY <1>20, <3>1, Zenon DEF Crash
  <2>2. flush' = Idle /\ tailHigh' = 0 /\ ~up'
    BY <1>20, Zenon DEF Crash
  <2>3. Marks'
    BY <1>2, <2>2, Zenon DEF Marks, Marked
  <2>. QED
    BY <1>3, <1>7, <2>1, <2>3, Zenon
<1>21. ASSUME ~up PROVE posts = {} /\ flush = Idle /\ tailHigh = 0
  <2>1. "late_post" \notin happened
    BY <1>1, HappenedGrows, Zenon DEF NoStray
  <2>. QED
    BY <1>1, <1>21, <2>1, Zenon DEF DownIsEmpty
<1>22. table.mark <= Watermark
  BY <1>2 DEF Watermark, Max2
<1>23. CASE Boot
  <2>1. /\ Watermark \in Nat /\ nextSeq' \in Nat /\ nextSeq' > Watermark
        /\ tailHigh' = 0 \/ \E f \in frames : f.seq = tailHigh' /\ f.seq > Watermark
    BY <1>1, <1>23, BootFacts, Zenon
  <2>2. tailHigh' = 0 \/ (tailHigh' \in Nat /\ tailHigh' > Watermark)
    BY <1>1, <2>1, Zenon DEF TypeOK, Frames
  <2>3. UNCHANGED <<table, posts, flush>> /\ ~up
    BY <1>23, Zenon DEF Boot, catalogVars
  <2>4. Marks'
    BY <1>2, <1>21, <1>22, <2>1, <2>2, <2>3 DEF Marks, Marked
  <2>. QED
    BY <1>3, <1>4, <2>3, <2>4, Zenon
<1>24. CASE BootFrameless
  <2>1. /\ UNCHANGED <<table, posts, flush, tailHigh>> /\ ~up /\ frames = {}
        /\ nextSeq' = sidecar + 1
    BY <1>2, <1>24 DEF BootFrameless, catalogVars, Max2
  <2>2. table.mark <= sidecar
    BY <1>1, <2>1, Zenon DEF FramelessKnown, SettledFrames
  <2>3. Marks'
    BY <1>2, <1>21, <2>1, <2>2 DEF Marks, Marked
  <2>. QED
    BY <1>3, <1>4, <2>1, <2>3, Zenon
<1>25. CASE ScanLoad \/ ScanStale \/ ScanOverlay
  BY <1>3, <1>4, <1>5, <1>25, Zenon DEF ScanLoad, ScanStale, ScanOverlay, catalogVars, bufferVars
<1>. QED
  BY <1>9, <1>10, <1>11, <1>12, <1>13, <1>14, <1>15, <1>16, <1>17, <1>18, <1>19, <1>20,
     <1>23, <1>24, <1>25, Zenon DEF Next

\* What the buffer holds has a frame, as long as no frame is dropped uncovered.
LEMMA BufferedFramedStep ==
  ASSUME Bookkeeping, Orderly, Next, NoStray'
  PROVE  BufferedFramed'
<1>1. /\ TypeOK /\ FramesWellFormed /\ IsFiniteSet(frames) /\ DownIsEmpty
      /\ BufferedBelowTailHigh /\ FlusherConsistent /\ IdsFresh /\ BufferedFramed
  BY Zenon DEF Bookkeeping, FramesWellFormed, Orderly
<1>2. /\ pending \in Seq(Batches) /\ StmtsOf(pending) \subseteq Stmts /\ Len(pending) \in Nat
      /\ \A g \in flushed : StmtsOf(g.batches) \subseteq Stmts
      /\ \A i \in 1 .. Len(pending) : pending[i].stmt \in StmtsOf(pending)
      /\ flush.mark \in Nat /\ flush.n \in Nat /\ tailHigh \in Nat /\ Idle.pc = "idle"
      /\ seqOf \in [Stmts -> Nat] /\ frames \in SUBSET Frames
  BY <1>1, StmtsOfIndex, Zenon DEF TypeOK, Generations, FlusherStates, Idle
<1> DEFINE Framed(s) == \E f \in frames : f.stmt = s
           FramesStay == /\ \A s : Framed(s) => Framed(s)'
                         /\ SettledFrames # {} => (SettledFrames # {})'
           PendingFramed == \A s \in StmtsOf(pending) : Framed(s)
           FlushFramed ==
             /\ InFlight => \A g \in OwnGenerations : \A s \in StmtsOf(g.batches) : Framed(s)
             /\ flush.pc # "idle" => SettledFrames # {}
           BehindMark ==
             /\ flush.pc = "load" => \A i \in flush.n + 1 .. Len(pending) :
                                      seqOf[pending[i].stmt] > flush.mark
             /\ InFlight => \A s \in StmtsOf(pending) : seqOf[s] > flush.mark
<1>3. /\ PendingFramed /\ FlushFramed /\ BehindMark
      /\ PendingFramed' /\ FlushFramed' /\ BehindMark' => BufferedFramed'
  BY <1>1, Zenon DEF BufferedFramed
<1>4. frames' = frames => FramesStay
  BY Zenon DEF SettledFrames
<1>5. ASSUME NEW S \in SUBSET frames, frames' = AfterSync(frames, S) PROVE FramesStay
  <2>1. \A f \in frames : \E g \in frames' : /\ g.seq = f.seq /\ g.stmt = f.stmt
                                             /\ f.synced \/ f \in S => g.synced
    BY <1>1, <1>2, <1>5, SyncFacts
  <2>2. SettledFrames # {} => (SettledFrames # {})'
    BY <1>1, <1>5, SettledSynced, Zenon
  <2>. QED
    BY <2>1, <2>2, Zenon
<1>6. FramesStay /\ StmtsOf(pending') \subseteq StmtsOf(pending) => PendingFramed'
  BY <1>3, Zenon
<1>7. ASSUME FramesStay, flush' = flush,
             \A h \in flushed' : \E g \in flushed : h.batches = g.batches /\ h.commit = g.commit
      PROVE  FlushFramed'
  <2>1. ASSUME InFlight', NEW h \in OwnGenerations', NEW s \in StmtsOf(h.batches)
        PROVE  Framed(s)'
    <3>1. InFlight /\ \E g \in OwnGenerations : h.batches = g.batches
      BY <1>7, <2>1 DEF InFlight, OwnGenerations
    <3>2. Framed(s)
      BY <1>3, <2>1, <3>1, Zenon
    <3>. QED
      BY <1>7, <3>2, Zenon
  <2>2. (flush.pc # "idle" => SettledFrames # {})'
    BY <1>3, <1>7, Zenon
  <2>. QED
    BY <2>1, <2>2, Zenon
<1>8. UNCHANGED <<flush, pending, seqOf>> => BehindMark'
  BY <1>3, Zenon DEF InFlight
<1>9. flush'.pc \in {"idle", "snapshot"} => BehindMark'
  BY Zenon DEF InFlight
<1>10. flush'.pc = "idle" => FlushFramed'
  BY Zenon DEF InFlight
<1>11. ASSUME NEW upto \in Nat, TruncateCovered(upto),
              \A s \in StmtsOf(pending') : s \in StmtsOf(pending) /\ seqOf[s] > upto
       PROVE  PendingFramed'
  <2>1. \A f \in frames : f.seq > upto => f \in frames'
    BY <1>1, <1>11, TruncateFacts, Zenon
  <2>. QED
    BY <1>1, <1>3, <1>11, <2>1, Zenon DEF FramesWellFormed
<1>12. ASSUME FramesStay, UNCHANGED <<flush, flushed, pending, seqOf>> PROVE BufferedFramed'
  BY <1>3, <1>6, <1>7, <1>8, <1>12, Zenon
<1> HIDE DEF PendingFramed, FlushFramed, BehindMark, FramesStay
<1>13. ASSUME NEW s \in Stmts, Stage(s) PROVE BufferedFramed'
  <2>1. /\ frames' = frames \cup {[seq |-> nextSeq, stmt |-> s, synced |-> FALSE, age |-> 0]}
        /\ UNCHANGED <<flush, flushed>> /\ seqOf' = [seqOf EXCEPT ![s] = nextSeq]
        /\ status[s] = "new" /\ tailHigh < nextSeq /\ nextSeq \in Nat
    BY <1>1, <1>13, Zenon DEF Stage, TypeOK, BufferedBelowTailHigh
  <2>2. FramesStay
    BY <2>1, Zenon DEF FramesStay, SettledFrames
  <2>3. /\ Len(pending') = Len(pending) + 1
        /\ \A i \in 1 .. Len(pending) : pending'[i] = pending[i]
        /\ pending'[Len(pending) + 1].stmt = s
        /\ StmtsOf(pending') = StmtsOf(pending) \cup {s}
    BY <1>1, <1>13, StageFacts, Zenon
  <2>4. Framed(s)'
    <3>1. [seq |-> nextSeq, stmt |-> s, synced |-> FALSE, age |-> 0] \in frames'
      BY <2>1, Zenon
    <3>. QED
      BY <3>1, Zenon
  <2>5. PendingFramed'
    BY <1>3, <2>2, <2>3, <2>4, Zenon DEF PendingFramed, FramesStay
  <2>6. \A x \in StmtsOf(pending) : x # s
    BY <1>1, <2>1, Zenon DEF BufferedBelowTailHigh
  <2>7. Marked => flush.mark < nextSeq
    <3>1. Marked => flush.mark <= tailHigh
      BY <1>1, Zenon DEF FlusherConsistent
    <3>2. tailHigh < nextSeq /\ nextSeq \in Nat /\ tailHigh \in Nat /\ flush.mark \in Nat
      BY <1>1, <2>1, Zenon DEF TypeOK, FlusherStates
    <3>. QED
      BY <3>1, <3>2
  <2>8. ASSUME flush.pc = "load", NEW i \in flush.n + 1 .. Len(pending')
        PROVE  seqOf'[pending'[i].stmt] > flush.mark
    <3>1. CASE i = Len(pending) + 1
      BY <2>1, <2>3, <2>7, <2>8, <3>1, <1>2, Zenon DEF Marked
    <3>2. CASE i # Len(pending) + 1
      <4>1. i \in flush.n + 1 .. Len(pending) /\ i \in 1 .. Len(pending)
        BY <1>2, <2>3, <2>8, <3>2
      <4>2. pending'[i].stmt \in Stmts /\ pending'[i].stmt # s /\ pending'[i] = pending[i]
        BY <1>2, <2>3, <2>6, <4>1, Zenon
      <4>. QED
        BY <1>2, <1>3, <2>1, <2>8, <4>1, <4>2, Zenon DEF BehindMark
    <3>. QED
      BY <3>1, <3>2, Zenon
  <2>9. InFlight => \A x \in StmtsOf(pending') : seqOf'[x] > flush.mark
    BY <1>2, <1>3, <2>1, <2>3, <2>6, <2>7, Zenon DEF BehindMark, InFlight, Marked
  <2>10. BehindMark'
    BY <2>1, <2>8, <2>9, Zenon DEF BehindMark, InFlight
  <2>. QED
    BY <1>3, <1>7, <2>1, <2>2, <2>5, <2>10, Zenon
<1>14. ASSUME NEW s \in Stmts, StageFails(s) PROVE BufferedFramed'
  BY <1>4, <1>12, <1>14, Zenon DEF StageFails, tailVars, bufferVars
<1>15. ASSUME NEW s \in Stmts, WaitOk(s) PROVE BufferedFramed'
  <2>1. /\ frames' = AfterSync(frames, {f \in frames : Ours(f) /\ f.seq <= seqOf[s]})
        /\ UNCHANGED <<flush, flushed, pending, seqOf>>
    BY <1>15, Zenon DEF WaitOk, bufferVars
  <2>2. FramesStay
    BY <1>5, <2>1, Zenon
  <2>. QED
    BY <1>12, <2>1, <2>2, Zenon
<1>16. ASSUME NEW s \in Stmts, WaitFails(s) PROVE BufferedFramed'
  <2>1. /\ StmtsOf(pending') \subseteq StmtsOf(pending)
        /\ flush.pc = "load" => \A j \in flush.n + 1 .. Len(pending') :
             \E k \in flush.n + 1 .. Len(pending) : pending'[j].stmt = pending[k].stmt
    BY <1>1, <1>16, UnrouteFacts, Zenon
  <2>2. UNCHANGED <<frames, flush, flushed, seqOf>>
    BY <1>16, Zenon DEF WaitFails, tailVars
  <2>3. BehindMark'
    BY <1>3, <2>1, <2>2, Zenon DEF BehindMark, InFlight
  <2>. QED
    BY <1>3, <1>4, <1>6, <1>7, <2>1, <2>2, <2>3, Zenon
<1>17. ~SyncFails
  <2>1. SyncFails => "sync_fails" \in happened'
    BY Zenon DEF SyncFails, FaultOf
  <2>. QED
    BY <2>1, Zenon DEF NoStray
<1>18. CASE FlushNow
  <2>1. /\ UNCHANGED <<pending, seqOf>> /\ flush.pc = "idle"
        /\ flush' = flush \/ flush'.pc = "snapshot"
    BY <1>18, Zenon DEF FlushNow, clientVars, Idle
  <2>2. CASE pending = <<>>
    <3>1. frames' = frames /\ flush' = flush
      BY <1>18, <2>2, Zenon DEF FlushNow
    <3>. QED
      BY <1>3, <1>4, <1>6, <1>8, <1>10, <2>1, <3>1, Zenon
  <2>3. CASE pending # <<>>
    <3>1. frames' = AfterSync(frames, {f \in frames : Ours(f)})
      BY <1>18, <2>3, Zenon DEF FlushNow
    <3>2. FramesStay
      BY <1>5, <3>1, Zenon
    <3>3. PICK f \in frames : TRUE
      <4>1. 1 \in 1 .. Len(pending)
        BY <1>2, <2>3
      <4>. QED
        BY <1>2, <1>3, <4>1, Zenon DEF PendingFramed
    <3>4. \E g \in frames' : g.synced \/ ~Ours(g)
      <4> DEFINE S == {x \in frames : Ours(x)}
      <4>0. frames' = AfterSync(frames, S) /\ S \in SUBSET frames /\ (Ours(f) => f \in S)
        BY <3>1, <3>3, Zenon
      <4> HIDE DEF S
      <4>1. PICK g \in frames' : g.age = f.age /\ (f \in S => g.synced)
        BY <1>1, <1>2, <4>0, SyncFacts
      <4>. QED
        BY <4>0, <4>1, Zenon DEF Ours
    <3>5. FlushFramed'
      BY <2>1, <3>4, Zenon DEF FlushFramed, InFlight, SettledFrames
    <3>. QED
      BY <1>3, <1>6, <1>9, <2>1, <3>2, <3>5, Zenon
  <2>. QED
    BY <2>2, <2>3, Zenon
<1>19. CASE FlushSnapshot
  <2>1. UNCHANGED <<frames, flushed, seqOf>> /\ flush.pc = "snapshot"
    BY <1>19, Zenon DEF FlushSnapshot, tailVars, clientVars
  <2>2. StmtsOf(pending') = StmtsOf(pending) /\ Len(pending') = Len(pending)
    BY <1>2, <1>19, StmtsOfClaimed, Zenon DEF FlushSnapshot
  <2>3. flush' = Idle \/ (flush'.pc = "load" /\ flush'.n = Len(pending))
    BY <1>1, <1>19, Zenon DEF FlushSnapshot, TypeOK, FlusherStates
  <2>4. FlushFramed'
    BY <1>2, <1>3, <2>1, <2>3, Zenon DEF FlushFramed, InFlight, SettledFrames
  <2>5. BehindMark'
    BY <1>2, <2>2, <2>3 DEF BehindMark, InFlight
  <2>. QED
    BY <1>3, <1>4, <1>6, <2>1, <2>2, <2>4, <2>5, Zenon
<1>20. CASE FlushLoadFails
  BY <1>2, <1>3, <1>4, <1>6, <1>9, <1>10, <1>20, Zenon DEF FlushLoadFails, tailVars, bufferVars
<1>21. ASSUME flush.pc = "load"
       PROVE  \A s \in StmtsOf(Suffix(flush.n)) : s \in StmtsOf(pending) /\ seqOf[s] > flush.mark
  <2>1. /\ StmtsOf(pending) = StmtsOf(Prefix(flush.n)) \cup StmtsOf(Suffix(flush.n))
        /\ \A s \in StmtsOf(Suffix(flush.n)) :
             \E i \in flush.n + 1 .. Len(pending) : s = pending[i].stmt
    BY <1>1, <1>21, MoveOutFacts, Zenon
  <2>. QED
    BY <1>3, <1>21, <2>1, Zenon DEF BehindMark
<1>22. CASE FlushCovered
  <2>1. /\ flush.pc = "load" /\ pending' = Suffix(flush.n) /\ TruncateCovered(flush.mark)
        /\ flush'.pc = "idle"
    BY <1>2, <1>22, Zenon DEF FlushCovered
  <2>2. PendingFramed'
    BY <1>2, <1>11, <1>21, <2>1, Zenon
  <2>. QED
    BY <1>3, <1>9, <1>10, <2>1, <2>2, Zenon
<1>23. CASE FlushPost
  <2>1. /\ flush.pc = "load" /\ pending' = Suffix(flush.n) /\ lastId \in Nat
        /\ flush'.pc = "posted" /\ flush'.mark = flush.mark /\ flush'.id = lastId + 1
        /\ UNCHANGED <<frames, seqOf>>
        /\ flushed' = Observed(flushed, table)
             \cup {Generation([snap |-> lastId + 1, mark |-> 0], Prefix(flush.n))}
    BY <1>1, <1>23, Zenon DEF FlushPost, TypeOK, FlusherStates, clientVars, tailVars
  <2>2. \A g \in Observed(flushed, table) : g.commit.snap <= lastId /\ g.commit.snap \in Nat
    BY <1>1, ObservedFresh, Zenon
  <2>3. \A g \in OwnGenerations' : g.batches = Prefix(flush.n)
    BY <2>1, <2>2 DEF Generation, OwnGenerations
  <2>4. StmtsOf(Prefix(flush.n)) \subseteq StmtsOf(pending)
    BY <1>1, <2>1, MoveOutFacts, Zenon
  <2>5. FlushFramed'
    BY <1>3, <2>1, <2>3, <2>4, Zenon DEF FlushFramed, PendingFramed, SettledFrames
  <2>6. BehindMark'
    BY <1>21, <2>1, Zenon DEF BehindMark
  <2>7. PendingFramed'
    BY <1>4, <1>6, <1>21, <2>1, Zenon
  <2>. QED
    BY <1>3, <2>5, <2>6, <2>7, Zenon
<1>24. CASE FlushCommitted
  <2>1. /\ InFlight /\ pending' = pending /\ TruncateCovered(flush.mark) /\ flush'.pc = "idle"
    BY <1>2, <1>24, Zenon DEF FlushCommitted, InFlight, bufferVars
  <2>2. PendingFramed'
    BY <1>2, <1>3, <1>11, <2>1, Zenon DEF BehindMark
  <2>. QED
    BY <1>3, <1>9, <1>10, <2>1, <2>2, Zenon
<1>25. ASSUME InFlight, MoveBack(flush.id), frames' = frames PROVE PendingFramed'
  <2>1. PICK g \in flushed :
          OwnGenerations = {g} /\ StmtsOf(pending') = StmtsOf(g.batches) \cup StmtsOf(pending)
    BY <1>1, <1>25, MoveBackFacts, Zenon
  <2>. QED
    BY <1>3, <1>25, <2>1, Zenon DEF PendingFramed, FlushFramed
<1>26. CASE FlushConflict
  <2>1. InFlight /\ MoveBack(flush.id) /\ frames' = frames
    BY <1>26, Zenon DEF FlushConflict, InFlight, tailVars
  <2>2. flush'.pc \in {"idle", "snapshot"}
    BY <1>26, Zenon DEF FlushConflict, Idle
  <2>3. FlushFramed'
    BY <1>3, <2>1, <2>2, Zenon DEF FlushFramed, InFlight, SettledFrames
  <2>. QED
    BY <1>3, <1>9, <1>25, <2>1, <2>2, <2>3, Zenon
<1>27. CASE FlushAmbiguous
  <2>1. /\ UNCHANGED <<frames, pending, flushed, seqOf>> /\ flush.pc = "posted"
        /\ flush'.pc = "reload" /\ flush'.id = flush.id /\ flush'.mark = flush.mark
    BY <1>1, <1>27, Zenon
      DEF FlushAmbiguous, tailVars, bufferVars, clientVars, TypeOK, FlusherStates
  <2>2. FlushFramed' /\ BehindMark'
    BY <1>3, <2>1, Zenon DEF FlushFramed, BehindMark, InFlight, OwnGenerations, SettledFrames
  <2>. QED
    BY <1>3, <1>4, <1>6, <2>1, <2>2, Zenon
<1>28. CASE FlushReload
  <2>1. InFlight /\ flush'.pc = "idle"
    BY <1>2, <1>28, Zenon DEF FlushReload, InFlight
  <2>2. CASE table.mark >= flush.mark
    <3>1. TruncateCovered(flush.mark) /\ pending' = pending
      BY <1>28, <2>2, Zenon DEF FlushReload
    <3>2. PendingFramed'
      BY <1>2, <1>3, <1>11, <2>1, <3>1, Zenon DEF BehindMark
    <3>. QED
      BY <1>3, <1>9, <1>10, <2>1, <3>2, Zenon
  <2>3. CASE ~(table.mark >= flush.mark)
    <3>1. MoveBack(flush.id) /\ frames' = frames
      BY <1>28, <2>3, Zenon DEF FlushReload, tailVars
    <3>. QED
      BY <1>3, <1>9, <1>10, <1>25, <2>1, <3>1, Zenon
  <2>. QED
    BY <2>2, <2>3, Zenon
<1>29. CASE FlushReloadFails
  BY <1>2, <1>3, <1>9, <1>10, <1>25, <1>29, Zenon DEF FlushReloadFails, InFlight, tailVars
<1>30. CASE CatalogApply
  <2>1. PICK p \in posts : CatalogProcess(p)
    BY <1>30, Zenon DEF CatalogApply
  <2>2. /\ UNCHANGED <<frames, pending, flushed, seqOf>> /\ flush'.pc = flush.pc
        /\ flush'.n = flush.n /\ flush'.id = flush.id /\ flush'.mark = flush.mark
    BY <1>1, <2>1, Zenon DEF CatalogProcess, tailVars, bufferVars, clientVars, TypeOK, FlusherStates
  <2>3. FlushFramed' /\ BehindMark'
    BY <1>3, <2>2, Zenon DEF FlushFramed, BehindMark, InFlight, OwnGenerations, SettledFrames
  <2>. QED
    BY <1>3, <1>4, <1>6, <2>2, <2>3, Zenon
<1>31. CASE ForeignCommit \/ ForeignPropertyDrop \/ ScanLoad \/ ScanStale
  BY <1>4, <1>12, <1>31, Zenon
    DEF ForeignCommit, ForeignPropertyDrop, ScanLoad, ScanStale, tailVars,
    bufferVars, clientVars
<1>32. CASE Crash
  <2>1. flush'.pc = "idle" /\ StmtsOf(pending') = {}
    BY <1>2, <1>32 DEF Crash, StmtsOf
  <2>2. PendingFramed'
    BY <2>1, Zenon DEF PendingFramed
  <2>. QED
    BY <1>3, <1>9, <1>10, <2>1, <2>2, Zenon
<1>33. CASE Boot
  <2>1. flush'.pc = "idle"
    BY <1>1, <1>2, <1>33, Zenon DEF Boot, DownIsEmpty
  <2>2. \A s \in StmtsOf(pending') : \E f \in frames' : f.stmt = s
    BY <1>1, <1>33, BootFacts, Zenon
  <2>3. PendingFramed'
    BY <2>2, Zenon DEF PendingFramed
  <2>. QED
    BY <1>3, <1>9, <1>10, <2>1, <2>3, Zenon
<1>34. CASE BootFrameless
  BY <1>4, <1>12, <1>34, Zenon DEF BootFrameless, tailVars, clientVars
<1>35. CASE ScanOverlay
  <2>1. \A h \in flushed' : \E g \in flushed : h.batches = g.batches /\ h.commit = g.commit
    BY <1>1, <1>35, ObservedFacts DEF ScanOverlay, TypeOK
  <2>. QED
    BY <1>3, <1>4, <1>6, <1>7, <1>8, <1>35, <2>1, Zenon DEF ScanOverlay, tailVars, clientVars
<1>. QED
  BY <1>13, <1>14, <1>15, <1>16, <1>17, <1>18, <1>19, <1>20, <1>22, <1>23, <1>24, <1>26,
     <1>27, <1>28, <1>29, <1>30, <1>31, <1>32, <1>33, <1>34, <1>35, Zenon DEF Next

\* A boot that finds no synced frame finds the committed watermark in the
\* sidecar (apply_sidecar_seq_floor).
LEMMA FramelessStep ==
  ASSUME Bookkeeping, Orderly, Next, NoStray'
  PROVE  FramelessKnown'
<1>1. /\ TypeOK /\ IsFiniteSet(frames) /\ FlusherConsistent
      /\ OnlyOwnPost /\ BufferedFramed /\ FramelessKnown
  BY Zenon DEF Bookkeeping, FramesWellFormed, Orderly
<1>2. /\ table.mark \in Nat /\ flush.mark \in Nat /\ sidecar \in Nat /\ Watermark \in Nat
      /\ table.mark <= Watermark /\ frames \in SUBSET Frames
  BY <1>1 DEF TypeOK, Metas, FlusherStates, Watermark, Max2
<1>3. ASSUME table'.mark = table.mark, sidecar' = sidecar,
             SettledFrames # {} => (SettledFrames # {})'
      PROVE  FramelessKnown'
  BY <1>1, <1>3, Zenon DEF FramelessKnown
<1>4. frames' = frames => (SettledFrames # {} => (SettledFrames # {})')
  BY Zenon DEF SettledFrames
<1>5. ASSUME NEW S \in SUBSET frames, frames' = AfterSync(frames, S)
      PROVE  SettledFrames # {} => (SettledFrames # {})'
  BY <1>1, <1>5, SettledSynced, Zenon
<1>6. ASSUME NEW upto \in Nat, TruncateCovered(upto), table.mark <= upto,
             table'.mark = table.mark
      PROVE  FramelessKnown'
  <2>1. /\ sidecar' \in Nat /\ sidecar <= sidecar'
        /\ frames' # frames => upto <= sidecar'
    BY <1>1, <1>6, TruncateFacts, Zenon
  <2>2. CASE frames' = frames
    BY <1>1, <1>2, <1>6, <2>1, <2>2 DEF FramelessKnown, SettledFrames
  <2>3. CASE frames' # frames
    BY <1>2, <1>6, <2>1, <2>3 DEF FramelessKnown
  <2>. QED
    BY <2>2, <2>3, Zenon
<1>7. ASSUME NEW s \in Stmts, Stage(s) PROVE FramelessKnown'
  BY <1>3, <1>7, Zenon DEF Stage, SettledFrames, catalogVars
<1>8. ASSUME NEW s \in Stmts, WaitOk(s) PROVE FramelessKnown'
  <2>1. /\ frames' = AfterSync(frames, {f \in frames : Ours(f) /\ f.seq <= seqOf[s]})
        /\ UNCHANGED <<table, sidecar>>
    BY <1>8, Zenon DEF WaitOk, catalogVars
  <2>. QED
    BY <1>3, <1>5, <2>1, Zenon
<1>9. ASSUME NEW s \in Stmts, StageFails(s) \/ WaitFails(s) PROVE FramelessKnown'
  BY <1>3, <1>4, <1>9, Zenon DEF StageFails, WaitFails, catalogVars, tailVars
<1>10. ~SyncFails
  <2>1. SyncFails => "sync_fails" \in happened'
    BY Zenon DEF SyncFails, FaultOf
  <2>. QED
    BY <2>1, Zenon DEF NoStray
<1>11. CASE FlushNow
  <2>1. UNCHANGED <<table, sidecar>>
    BY <1>11, Zenon DEF FlushNow, catalogVars
  <2>2. frames' = frames \/ frames' = AfterSync(frames, {f \in frames : Ours(f)})
    BY <1>11, Zenon DEF FlushNow
  <2>. QED
    BY <1>3, <1>4, <1>5, <2>1, <2>2, Zenon
<1>12. CASE FlushSnapshot \/ FlushPost \/ FlushLoadFails \/ FlushConflict \/ FlushAmbiguous
            \/ FlushReloadFails
  BY <1>3, <1>4, <1>12, Zenon DEF FlushSnapshot, FlushPost, FlushLoadFails, FlushConflict,
    FlushAmbiguous, FlushReloadFails, catalogVars, tailVars
<1>13. CASE FlushCovered \/ FlushCommitted \/ FlushReload
  <2>1. table.mark <= flush.mark /\ table' = table
    BY <1>1, <1>13, Zenon DEF FlushCovered, FlushCommitted, FlushReload, OnlyOwnPost, Marked,
      catalogVars
  <2>2. TruncateCovered(flush.mark) \/ UNCHANGED tailVars
    BY <1>13, Zenon DEF FlushCovered, FlushCommitted, FlushReload
  <2>. QED
    BY <1>2, <1>3, <1>4, <1>6, <2>1, <2>2, Zenon DEF tailVars
<1>14. CASE CatalogApply
  <2>1. flush.pc = "posted" /\ frames' = frames
    BY <1>1, <1>14, Zenon DEF CatalogApply, CatalogProcess, OnlyOwnPost, tailVars
  <2>. QED
    BY <1>1, <2>1, Zenon DEF BufferedFramed, FramelessKnown, SettledFrames
<1>15. CASE ForeignCommit \/ ForeignPropertyDrop
  <2>1. table'.mark = table.mark \/ table'.mark = 0
    BY <1>1, <1>15, Zenon DEF ForeignCommit, ForeignPropertyDrop, TypeOK, Metas
  <2>2. UNCHANGED <<frames, sidecar>>
    BY <1>15, Zenon DEF ForeignCommit, ForeignPropertyDrop, tailVars
  <2>. QED
    BY <1>1, <1>2, <2>1, <2>2 DEF FramelessKnown, SettledFrames
<1>16. CASE Crash
  <2>1. \A f \in frames : f.synced \/ ~Ours(f) => \E g \in frames' : ~Ours(g)
    <3>1. "old_frame" \notin happened' /\ "buried" \notin happened'
      BY Zenon DEF NoStray
    <3>. QED
      BY <1>1, <1>16, <3>1, CrashFacts, Zenon
  <2>2. UNCHANGED <<table, sidecar>>
    BY <1>16, Zenon DEF Crash
  <2>. QED
    BY <1>3, <2>1, <2>2, Zenon DEF SettledFrames
<1>17. CASE Boot
  <2>1. TruncateCovered(Watermark) \/ UNCHANGED tailVars
    BY <1>17, Zenon DEF Boot
  <2>. QED
    BY <1>2, <1>3, <1>4, <1>6, <1>17, <2>1, Zenon DEF Boot, tailVars, catalogVars
<1>18. CASE BootFrameless \/ ScanLoad \/ ScanStale \/ ScanOverlay
  BY <1>3, <1>4, <1>18, Zenon DEF BootFrameless, ScanLoad, ScanStale, ScanOverlay, tailVars,
    catalogVars
<1>. QED
  BY <1>7, <1>8, <1>9, <1>10, <1>11, <1>12, <1>13, <1>14, <1>15, <1>16, <1>17, <1>18, Zenon DEF Next

----------------------------------------------------------------------------
\* What is owed keeps its frame until a commit carries it.

\* A truncate up to a mark that the table covers, or whose statements are in
\* the table, drops no frame that is still needed.
LEMMA OwedFramedTruncated ==
  ASSUME TypeOK, FramesWellFormed, OwedFramed, NEW upto \in Nat, TruncateCovered(upto),
         table' = table, UNCHANGED <<status, seqOf>>,
         \A s \in Stmts : Owed(s) /\ seqOf[s] <= upto => Applied(s) \/ upto <= Watermark
  PROVE  OwedFramed'
<1>1. /\ sidecar' \in Nat /\ sidecar \in Nat /\ table.mark \in Nat
      /\ sidecar' = sidecar \/ sidecar' = Max2(sidecar, upto)
      /\ \A f \in frames : f.seq > upto => f \in frames'
      /\ \A f \in frames : f.seq = seqOf[f.stmt] /\ f.seq \in Nat
  BY TruncateFacts, Zenon DEF TypeOK, FramesWellFormed, Metas, Frames
<1>2. Watermark' = Watermark \/ Watermark' = Max2(Watermark, upto)
  BY <1>1 DEF Watermark, Max2
<1>3. Watermark \in Nat
  BY <1>1, Zenon DEF Watermark, Max2
<1>4. ASSUME NEW s \in Stmts, Owed(s), ~Applied(s)
      PROVE  \E f \in frames' : /\ f.stmt = s /\ f.seq > Watermark'
                                /\ status[s] = "acked" => f.synced
  <2>1. PICK f \in frames : /\ f.stmt = s /\ f.seq > Watermark
                            /\ status[s] = "acked" => f.synced
    BY <1>4, Zenon DEF OwedFramed
  <2>2. f.seq > upto
    BY <1>1, <1>3, <1>4, <2>1
  <2>3. f.seq > Watermark'
    BY <1>1, <1>2, <1>3, <2>1, <2>2, Zenon DEF Max2
  <2>. QED
    BY <1>1, <2>1, <2>2, <2>3, Zenon
<1>. QED
  BY <1>4, Zenon DEF OwedFramed, Owed, Applied

\* Only staging makes a statement owed or numbers it, and no step takes a row
\* out of the table.
LEMMA OwedFacts ==
  ASSUME TypeOK, Next, NEW s \in Stmts
  PROVE  /\ Owed(s)' => Owed(s) \/ Stage(s)
         /\ seqOf'[s] = seqOf[s] \/ Stage(s)
         /\ Applied(s) => Applied(s)'
<1>1. /\ status \in [Stmts -> Statuses] /\ seqOf \in [Stmts -> Nat] /\ table \in Metas
      /\ table.rows \in [Stmts -> Nat]
  BY Zenon DEF TypeOK, Metas
<1>2. ASSUME UNCHANGED <<status, seqOf, table>>
      PROVE  /\ Owed(s)' => Owed(s) \/ Stage(s)
             /\ seqOf'[s] = seqOf[s] \/ Stage(s)
             /\ Applied(s) => Applied(s)'
  BY <1>2, Zenon DEF Owed, Applied
<1>3. ASSUME NEW x \in Stmts, Stage(x) \/ StageFails(x) \/ WaitOk(x) \/ WaitFails(x)
      PROVE  /\ Owed(s)' => Owed(s) \/ Stage(s)
             /\ seqOf'[s] = seqOf[s] \/ Stage(s)
             /\ Applied(s) => Applied(s)'
  <2>1. CASE x = s /\ Stage(x)
    BY <2>1, Zenon DEF Stage, Applied, catalogVars
  <2>2. CASE x # s /\ Stage(x)
    <3>1. status'[s] = status[s] /\ seqOf'[s] = seqOf[s] /\ table' = table
      BY <1>1, <2>2, Zenon DEF Stage, catalogVars
    <3>. QED
      BY <3>1, Zenon DEF Owed, Applied
  <2>3. CASE StageFails(x) \/ WaitOk(x) \/ WaitFails(x)
    <3>1. /\ seqOf' = seqOf /\ table' = table
          /\ status'[s] \in {"staged", "acked"} => status[s] \in {"staged", "acked"}
      BY <1>1, <2>3, Zenon DEF StageFails, WaitOk, WaitFails, catalogVars
    <3>. QED
      BY <3>1, Zenon DEF Owed, Applied
  <2>. QED
    BY <1>3, <2>1, <2>2, <2>3, ZenonT(30)
<1>4. CASE SyncFails
  <2>1. /\ seqOf' = seqOf /\ table' = table
        /\ status'[s] \in {"staged", "acked"} => status[s] \in {"staged", "acked"}
    BY <1>1, <1>4, Zenon DEF SyncFails, catalogVars
  <2>. QED
    BY <2>1, Zenon DEF Owed, Applied
<1>5. CASE FlushNow \/ FlushSnapshot \/ FlushCovered \/ FlushPost \/ FlushLoadFails
           \/ FlushCommitted \/ FlushConflict \/ FlushAmbiguous \/ FlushReload
           \/ FlushReloadFails \/ Boot \/ BootFrameless \/ ScanLoad \/ ScanStale \/ ScanOverlay
  <2>1. UNCHANGED <<status, seqOf, table>>
    BY <1>5, Zenon DEF FlushNow, FlushSnapshot, FlushCovered, FlushPost, FlushLoadFails,
      FlushCommitted, FlushConflict, FlushAmbiguous, FlushReload, FlushReloadFails, Boot,
      BootFrameless, ScanLoad, ScanStale, ScanOverlay, catalogVars, clientVars
  <2>. QED
    BY <1>2, <2>1, Zenon
<1>6. CASE CatalogApply
  <2>1. PICK p \in posts : CatalogProcess(p)
    BY <1>6, Zenon DEF CatalogApply
  <2>2. UNCHANGED <<status, seqOf>> /\ table'.rows[s] >= table.rows[s]
    BY <1>1, <2>1 DEF CatalogProcess, clientVars
  <2>3. table'.rows[s] \in Nat
    BY <1>1, <2>1 DEF CatalogProcess
  <2>. QED
    BY <1>1, <2>2, <2>3 DEF Owed, Applied
<1>7. CASE ForeignCommit \/ ForeignPropertyDrop
  <2>1. UNCHANGED <<status, seqOf>> /\ table'.rows = table.rows
    BY <1>1, <1>7, Zenon DEF ForeignCommit, ForeignPropertyDrop, clientVars, Metas
  <2>. QED
    BY <2>1, Zenon DEF Owed, Applied
<1>8. CASE Crash
  <2>1. /\ UNCHANGED <<seqOf, table>>
        /\ status'[s] \in {"staged", "acked"} => status[s] = status'[s]
    BY <1>1, <1>8, Zenon DEF Crash
  <2>. QED
    BY <2>1, Zenon DEF Owed, Applied
<1>. QED
  BY <1>3, <1>4, <1>5, <1>6, <1>7, <1>8, Zenon DEF Next

\* A commit that may still be applied carries every owed row its watermark
\* covers.
LEMMA PostsCarryStep ==
  ASSUME Bookkeeping, NothingLost, Next
  PROVE  PostsCarryOwed'
<1>1. /\ TypeOK /\ DownIsEmpty /\ PostsCarryOwed /\ FlushCarriesOwed /\ NumberingAbove
      /\ FlusherConsistent
  BY Zenon DEF Bookkeeping, NothingLost
<1>2. /\ table.mark \in Nat /\ flush.mark \in Nat /\ nextSeq \in Nat
      /\ seqOf \in [Stmts -> Nat] /\ \A p \in posts : p.stamp \in Nat
  BY <1>1, Zenon DEF TypeOK, Metas, FlusherStates, Posts
<1>3. \A s \in Stmts : Stage(s) => /\ posts' = posts /\ seqOf'[s] = nextSeq
                                   /\ \A p \in posts : nextSeq > p.stamp
  BY <1>1, <1>2, Zenon DEF Stage, catalogVars, NumberingAbove
<1>4. ASSUME posts' \in SUBSET posts PROVE PostsCarryOwed'
  <2>. SUFFICES ASSUME NEW p \in posts', NEW s \in Stmts, Owed(s)', seqOf'[s] <= p.stamp
                PROVE  Applied(s)' \/ s \in p.stmts
    BY Zenon DEF PostsCarryOwed
  <2>1. CASE Stage(s)
    BY <1>2, <1>3, <1>4, <2>1
  <2>2. CASE ~Stage(s)
    BY <1>1, <1>4, <2>2, OwedFacts, Zenon DEF PostsCarryOwed
  <2>. QED
    BY <2>1, <2>2, Zenon
<1>5. CASE FlushPost
  <2> DEFINE new == [id |-> lastId + 1, base |-> table.head,
                     stmts |-> StmtsOf(Prefix(flush.n)),
                     stamp |-> Max2(table.mark, flush.mark)]
  <2>1. /\ flush.pc = "load" /\ table.mark < flush.mark /\ UNCHANGED <<table, status, seqOf>>
        /\ posts' = posts \cup {new}
    BY <1>2, <1>5 DEF FlushPost, AlreadyCommitted, clientVars
  <2>2. new.stmts = StmtsOf(Prefix(flush.n)) /\ new.stamp = flush.mark
    BY <1>2, <2>1 DEF Max2
  <2>3. \A i \in 1 .. flush.n : pending[i].stmt \in StmtsOf(Prefix(flush.n))
    <3>1. /\ pending \in Seq(Batches) /\ flush.n \in Nat /\ flush.n <= Len(pending)
      BY <1>1, <2>1, Zenon DEF TypeOK, FlusherStates, FlusherConsistent
    <3>2. Splits(pending, flush.n, Prefix(flush.n), Suffix(flush.n))
      BY <3>1, StmtsOfSplit, Zenon DEF Prefix, Suffix
    <3>. QED
      BY <3>2, Zenon DEF Splits
  <2> HIDE DEF new
  <2>4. \A s \in Stmts : Owed(s) /\ seqOf[s] <= new.stamp => Applied(s) \/ s \in new.stmts
    BY <1>1, <2>1, <2>2, <2>3, Zenon DEF FlushCarriesOwed
  <2>. QED
    BY <1>1, <2>1, <2>4, Zenon DEF PostsCarryOwed, Owed, Applied
<1>6. ~FlushPost => posts' \in SUBSET posts
  BY Zenon DEF Next, Stage, StageFails, WaitOk, WaitFails, SyncFails, FlushNow, FlushSnapshot,
    FlushCovered, FlushLoadFails, FlushCommitted, FlushConflict, FlushAmbiguous, FlushReload,
    FlushReloadFails, CatalogApply, CatalogProcess, ForeignCommit, ForeignPropertyDrop, Crash,
    Boot, BootFrameless, ScanLoad, ScanStale, ScanOverlay, catalogVars
<1>. QED
  BY <1>4, <1>5, <1>6, Zenon

\* While no frame is lost, the sidecar or a frame reaches every watermark that
\* is committed or on its way (record_watermark before the delete).
LEMMA WatermarksKnownStep ==
  ASSUME Bookkeeping, NothingLost, Next
  PROVE  WatermarksKnown'
<1>. SUFFICES ASSUME NoFrameLost' PROVE WatermarksKnown'
  BY Zenon DEF WatermarksKnown
<1>1. /\ TypeOK /\ IsFiniteSet(frames) /\ FlusherConsistent /\ DownIsEmpty
  BY Zenon DEF Bookkeeping, FramesWellFormed
<1>2. NoFrameLost
  BY <1>1, HappenedGrows, Zenon DEF NoFrameLost
<1>3. Known(table.mark) /\ Known(tailHigh) /\ \A p \in posts : Known(p.stamp)
  BY <1>2, Zenon DEF NothingLost, WatermarksKnown
<1>4. /\ table.mark \in Nat /\ tailHigh \in Nat /\ flush.mark \in Nat /\ sidecar \in Nat
      /\ \A p \in posts : p.stamp \in Nat /\ p \in Posts
      /\ \A f \in frames : f.seq \in Nat /\ frames \in SUBSET Frames
  BY <1>1, Zenon DEF TypeOK, Metas, FlusherStates, Posts, Frames
<1> DEFINE KnownStays == \A x \in Nat : Known(x) => x <= sidecar' \/ \E f \in frames' : f.seq >= x
<1>5. ASSUME KnownStays, table'.mark = table.mark, tailHigh' = tailHigh \/ tailHigh' = 0,
             posts' \in SUBSET posts, sidecar' \in Nat
      PROVE  WatermarksKnown'
  BY <1>3, <1>4, <1>5 DEF WatermarksKnown, Known
<1>6. UNCHANGED <<frames, sidecar>> => KnownStays
  BY Zenon DEF Known
<1>7. ASSUME NEW S \in SUBSET frames, frames' = AfterSync(frames, S), sidecar' = sidecar
      PROVE  KnownStays
  <2>1. \A f \in frames : \E g \in frames' : g.seq = f.seq
    BY <1>1, <1>7, SyncFacts DEF TypeOK
  <2>. QED
    BY <1>7, <2>1, Zenon DEF Known
<1>8. ASSUME NEW upto \in Nat, TruncateCovered(upto) PROVE KnownStays /\ sidecar' \in Nat
  BY <1>1, <1>8, KnownTruncated, TruncateFacts, Zenon
<1> HIDE DEF KnownStays
<1>9. ASSUME NEW s \in Stmts, Stage(s) PROVE WatermarksKnown'
  <2>1. /\ UNCHANGED <<table, posts, sidecar>> /\ tailHigh' = nextSeq /\ nextSeq \in Nat
        /\ frames' = frames \cup {[seq |-> nextSeq, stmt |-> s, synced |-> FALSE, age |-> 0]}
    BY <1>1, <1>9, Zenon DEF Stage, catalogVars, TypeOK
  <2>2. \E f \in frames' : f.seq = nextSeq
    <3> DEFINE new == [seq |-> nextSeq, stmt |-> s, synced |-> FALSE, age |-> 0]
    <3>1. new \in frames' /\ new.seq = nextSeq
      BY <2>1, Zenon
    <3>. QED
      BY <3>1, Zenon
  <2>3. \A f \in frames : f \in frames'
    BY <2>1, Zenon
  <2>. QED
    BY <1>3, <2>1, <2>2, <2>3 DEF WatermarksKnown, Known
<1>10. ASSUME NEW s \in Stmts, WaitOk(s) PROVE WatermarksKnown'
  <2>1. /\ frames' = AfterSync(frames, {f \in frames : Ours(f) /\ f.seq <= seqOf[s]})
        /\ UNCHANGED <<table, posts, sidecar, tailHigh>>
    BY <1>10, Zenon DEF WaitOk, catalogVars, bufferVars
  <2>. QED
    BY <1>4, <1>5, <1>7, <2>1, Zenon
<1>11. ASSUME NEW s \in Stmts, StageFails(s) \/ WaitFails(s) PROVE WatermarksKnown'
  BY <1>4, <1>5, <1>6, <1>11, Zenon DEF StageFails, WaitFails, catalogVars, tailVars, bufferVars
<1>12. ~SyncFails
  <2>1. SyncFails => "sync_fails" \in happened'
    BY Zenon DEF SyncFails, FaultOf
  <2>. QED
    BY <2>1, Zenon DEF NoFrameLost
<1>13. CASE FlushNow
  <2>1. UNCHANGED <<table, posts, sidecar, tailHigh>>
    BY <1>13, Zenon DEF FlushNow, catalogVars
  <2>2. frames' = frames \/ frames' = AfterSync(frames, {f \in frames : Ours(f)})
    BY <1>13, Zenon DEF FlushNow
  <2>. QED
    BY <1>4, <1>5, <1>6, <1>7, <2>1, <2>2, Zenon
<1>14. CASE FlushSnapshot \/ FlushLoadFails \/ FlushConflict \/ FlushAmbiguous \/ FlushReloadFails
            \/ ScanLoad \/ ScanStale \/ ScanOverlay \/ BootFrameless
  <2>1. UNCHANGED <<table, frames, sidecar, tailHigh>>
    BY <1>14, Zenon DEF FlushSnapshot, FlushLoadFails, FlushConflict, FlushAmbiguous,
      FlushReloadFails, ScanLoad, ScanStale, ScanOverlay, BootFrameless, catalogVars,
      tailVars, bufferVars
  <2>2. posts' \in SUBSET posts
    BY <1>14, Zenon DEF FlushSnapshot, FlushLoadFails, FlushConflict, FlushAmbiguous,
      FlushReloadFails, ScanLoad, ScanStale, ScanOverlay, BootFrameless, catalogVars
  <2>. QED
    BY <1>4, <1>5, <1>6, <2>1, <2>2, Zenon
<1>15. CASE FlushCovered \/ FlushCommitted \/ FlushReload
  <2>1. UNCHANGED <<table, posts, tailHigh>>
    BY <1>15, Zenon DEF FlushCovered, FlushCommitted, FlushReload, catalogVars, bufferVars
  <2>2. TruncateCovered(flush.mark) \/ UNCHANGED tailVars
    BY <1>15, Zenon DEF FlushCovered, FlushCommitted, FlushReload
  <2>. QED
    BY <1>4, <1>5, <1>6, <1>8, <2>1, <2>2, Zenon DEF tailVars
<1>16. CASE FlushPost
  <2> DEFINE new == [id |-> lastId + 1, base |-> table.head,
                     stmts |-> StmtsOf(Prefix(flush.n)),
                     stamp |-> Max2(table.mark, flush.mark)]
  <2>1. /\ UNCHANGED <<table, frames, sidecar, tailHigh>> /\ posts' = posts \cup {new}
        /\ flush.pc = "load"
    BY <1>16, Zenon DEF FlushPost, tailVars
  <2>2. new.stamp = table.mark \/ new.stamp = flush.mark
    BY Zenon DEF Max2
  <2>3. flush.mark <= tailHigh
    BY <1>1, <2>1, Zenon DEF FlusherConsistent, Marked
  <2>4. Known(flush.mark)
    BY <1>3, <1>4, <2>3 DEF Known
  <2> HIDE DEF new
  <2>. QED
    BY <1>3, <2>1, <2>2, <2>4, Zenon DEF WatermarksKnown, Known
<1>17. CASE CatalogApply
  <2>1. PICK p \in posts : CatalogProcess(p)
    BY <1>17, Zenon DEF CatalogApply
  <2>2. /\ table'.mark \in {table.mark, p.stamp} /\ posts' \in SUBSET posts
        /\ UNCHANGED <<frames, sidecar, tailHigh>>
    BY <2>1, Zenon DEF CatalogProcess, tailVars, bufferVars
  <2>. QED
    BY <1>3, <2>2, Zenon DEF WatermarksKnown, Known
<1>18. CASE ForeignCommit \/ ForeignPropertyDrop
  <2>1. table'.mark = table.mark \/ table'.mark = 0
    BY <1>1, <1>18, Zenon DEF ForeignCommit, ForeignPropertyDrop, TypeOK, Metas
  <2>2. UNCHANGED <<posts, frames, sidecar, tailHigh>>
    BY <1>18, Zenon DEF ForeignCommit, ForeignPropertyDrop, tailVars, bufferVars
  <2>. QED
    BY <1>3, <1>4, <2>1, <2>2 DEF WatermarksKnown, Known
<1>19. CASE Crash
  <2>1. \A f \in frames : \E g \in frames' : g.seq = f.seq
    <3>1. "power_loss" \notin happened'
      BY Zenon DEF NoFrameLost
    <3>. QED
      BY <1>1, <1>19, <3>1, CrashFacts, Zenon
  <2>2. UNCHANGED <<table, sidecar>> /\ posts' \in SUBSET posts /\ tailHigh' = 0
    BY <1>19, Zenon DEF Crash
  <2>3. KnownStays
    BY <2>1, <2>2, Zenon DEF Known, KnownStays
  <2>. QED
    BY <1>4, <1>5, <2>2, <2>3, Zenon
<1>20. CASE Boot
  <2>1. /\ tailHigh' = 0 \/ \E f \in frames : f.seq = tailHigh' /\ f.seq > Watermark
        /\ \A f \in frames : f.seq > Watermark => f \in frames'
        /\ TruncateCovered(Watermark) \/ UNCHANGED tailVars
        /\ Watermark \in Nat
    BY <1>1, <1>20, BootFacts, Zenon
  <2>2. KnownStays /\ sidecar' \in Nat
    BY <1>4, <1>6, <1>8, <2>1, Zenon DEF tailVars
  <2>3. UNCHANGED <<table, posts>>
    BY <1>20, Zenon DEF Boot, catalogVars
  <2>4. tailHigh' <= sidecar' \/ \E f \in frames' : f.seq >= tailHigh'
    BY <1>4, <2>1, <2>2
  <2>. QED
    BY <1>3, <1>4, <2>2, <2>3, <2>4, Zenon DEF WatermarksKnown, Known, KnownStays
<1>. QED
  BY <1>9, <1>10, <1>11, <1>12, <1>13, <1>14, <1>15, <1>16, <1>17, <1>18, <1>19, <1>20, Zenon
  DEF Next

\* An owed row keeps its frame: truncation and replay only drop frames whose
\* rows are applied (tail_truncate_covered, replay_tail).
LEMMA OwedFramedStep ==
  ASSUME Bookkeeping, NothingLost, Next, Intact'
  PROVE  OwedFramed'
<1>1. /\ TypeOK /\ IsFiniteSet(frames) /\ FramesWellFormed /\ FlusherConsistent
      /\ OwedFramed /\ PostsCarryOwed /\ FlushCarriesOwed /\ NumberingAbove
  BY Zenon DEF Bookkeeping, FramesWellFormed, NothingLost
<1>2. /\ table.mark \in Nat /\ sidecar \in Nat /\ flush.mark \in Nat /\ nextSeq \in Nat
      /\ seqOf \in [Stmts -> Nat] /\ status \in [Stmts -> Statuses]
      /\ frames \in SUBSET Frames /\ \A f \in frames : f.seq \in Nat
      /\ \A p \in posts : p.stamp \in Nat
  BY <1>1, Zenon DEF TypeOK, Metas, FlusherStates, Posts, Frames
<1>3. Watermark \in Nat /\ table.mark <= Watermark
  BY <1>2 DEF Watermark, Max2
<1>4. \A f \in frames : f.seq = seqOf[f.stmt]
  BY <1>1, Zenon DEF FramesWellFormed
<1>5. \A s \in Stmts : Applied(s) => Applied(s)'
  BY <1>1, OwedFacts, Zenon
<1> DEFINE Kept(f) == \E g \in frames' : /\ g.stmt = f.stmt /\ g.seq = f.seq
                                         /\ f.synced => g.synced
           FramesKept == \A f \in frames : Kept(f)
           FrameOf(s) == \E f \in frames : /\ f.stmt = s /\ f.seq > Watermark
                                           /\ status[s] = "acked" => f.synced
<1>6. \A s \in Stmts : Owed(s) => Applied(s) \/ FrameOf(s)
  BY <1>1, Zenon DEF OwedFramed
<1>7. ASSUME NEW s \in Stmts, Watermark' = Watermark, FramesKept,
             Owed(s), status'[s] = "acked" => status[s] = "acked"
      PROVE  Applied(s)' \/ FrameOf(s)'
  BY <1>5, <1>6, <1>7
<1>8. ASSUME Watermark' = Watermark, FramesKept,
             \A s \in Stmts : status'[s] \in {"staged", "acked"} => status'[s] = status[s]
      PROVE  OwedFramed'
  BY <1>7, <1>8 DEF OwedFramed, Owed
<1>9. ASSUME UNCHANGED frames PROVE FramesKept
  BY <1>9, Zenon
<1>10. ASSUME NEW S \in SUBSET frames, frames' = AfterSync(frames, S) PROVE FramesKept
  BY <1>1, <1>2, <1>10, SyncFacts
<1>11. ASSUME UNCHANGED <<table, sidecar>> PROVE Watermark' = Watermark
  BY <1>11, Zenon DEF Watermark, Max2
<1> HIDE DEF FramesKept
<1>12. ASSUME NEW s \in Stmts, Stage(s) PROVE OwedFramed'
  <2> DEFINE new == [seq |-> nextSeq, stmt |-> s, synced |-> FALSE, age |-> 0]
  <2>1. /\ frames' = frames \cup {new} /\ UNCHANGED <<table, sidecar>>
        /\ status' = [status EXCEPT ![s] = "staged"] /\ up
    BY <1>12, Zenon DEF Stage, catalogVars
  <2>2. new \in frames' /\ new.stmt = s /\ new.seq = nextSeq
    BY <2>1, Zenon
  <2>3. FramesKept
    BY <2>1, Zenon DEF FramesKept
  <2>4. Watermark' = Watermark /\ nextSeq > Watermark
    BY <1>1, <1>11, <2>1, Zenon DEF NumberingAbove
  <2> HIDE DEF new
  <2>5. status'[s] = "staged" /\ \A t \in Stmts \ {s} : status'[t] = status[t]
    BY <1>2, <2>1, Zenon
  <2>6. FrameOf(s)'
    BY <2>2, <2>4, <2>5, Zenon
  <2>7. \A t \in Stmts \ {s} : Owed(t)' => Applied(t)' \/ FrameOf(t)'
    BY <1>7, <2>3, <2>4, <2>5, Zenon DEF Owed
  <2>. QED
    BY <2>6, <2>7, Zenon DEF OwedFramed
<1>13. ASSUME NEW s \in Stmts, WaitOk(s) PROVE OwedFramed'
  <2> DEFINE S == {f \in frames : Ours(f) /\ f.seq <= seqOf[s]}
  <2>1. /\ frames' = AfterSync(frames, S) /\ UNCHANGED <<table, sidecar>>
        /\ status' = [status EXCEPT ![s] = "acked"] /\ status[s] = "staged"
    BY <1>13, Zenon DEF WaitOk, catalogVars
  <2>2. FramesKept /\ Watermark' = Watermark
    BY <1>10, <1>11, <2>1, Zenon
  <2>3. \A f \in frames : f.stmt = s =>
          \E g \in frames' : g.stmt = s /\ g.seq = f.seq /\ g.synced
    <3>1. \A f \in frames : f.stmt = s => f \in S
      <4>1. \A f \in frames : f.stmt = s => Ours(f)
        BY <1>1, <2>1, Zenon DEF FramesWellFormed
      <4>. QED
        BY <1>2, <1>4, <4>1
    <3>2. S \in SUBSET frames
      BY Zenon
    <3> HIDE DEF S
    <3>3. \A f \in frames : \E g \in frames' : /\ g.seq = f.seq /\ g.stmt = f.stmt
                                               /\ f.synced \/ f \in S => g.synced
      BY <1>1, <1>2, <2>1, <3>2, SyncFacts
    <3>. QED
      BY <3>1, <3>3, Zenon
  <2> HIDE DEF S
  <2>4. Applied(s)' \/ FrameOf(s)'
    BY <1>5, <1>6, <2>1, <2>2, <2>3, Zenon DEF Owed
  <2>5. \A t \in Stmts \ {s} : Owed(t)' => Applied(t)' \/ FrameOf(t)'
    <3>1. \A t \in Stmts \ {s} : status'[t] = status[t]
      BY <1>2, <2>1, Zenon
    <3>. QED
      BY <1>7, <2>2, <3>1, Zenon DEF Owed
  <2>. QED
    BY <2>4, <2>5, Zenon DEF OwedFramed
<1>14. ASSUME NEW s \in Stmts, StageFails(s) \/ WaitFails(s) PROVE OwedFramed'
  <2>1. /\ UNCHANGED <<table, frames, sidecar>>
        /\ \A t \in Stmts : status'[t] \in {"staged", "acked"} => status'[t] = status[t]
    BY <1>2, <1>14, Zenon DEF StageFails, WaitFails, catalogVars, tailVars
  <2>. QED
    BY <1>8, <1>9, <1>11, <2>1, Zenon
<1>15. CASE SyncFails
  <2>1. /\ \A f \in frames : f.synced => f \in frames'
        /\ UNCHANGED <<table, sidecar, seqOf>>
    BY <1>15, Zenon DEF SyncFails, catalogVars
  <2>2. \A s \in Stmts : status'[s] \in {"staged", "acked"} =>
          /\ status'[s] = status[s]
          /\ status[s] = "staged" => IsSynced(s)
    BY <1>2, <1>15, Zenon DEF SyncFails
  <2>3. Watermark' = Watermark
    BY <1>11, <2>1, Zenon
  <2>4. ASSUME NEW s \in Stmts, Owed(s)', ~Applied(s) PROVE FrameOf(s)'
    <3>1. /\ status'[s] = status[s]
          /\ status[s] = "staged" => IsSynced(s)
          /\ status[s] \in {"staged", "acked"}
      BY <2>2, <2>4, Zenon DEF Owed
    <3>2. PICK f \in frames : /\ f.stmt = s /\ f.seq > Watermark
                              /\ status[s] = "acked" => f.synced
      BY <1>6, <2>4, <3>1, Zenon DEF Owed
    <3>3. \E g \in frames : g.stmt = s /\ g.synced /\ g.seq = f.seq
      BY <1>4, <3>1, <3>2, Zenon DEF IsSynced
    <3>. QED
      BY <2>1, <2>3, <3>2, <3>3, Zenon
  <2>. QED
    BY <1>5, <2>4, Zenon DEF OwedFramed
<1>16. CASE FlushNow
  <2>1. UNCHANGED <<table, sidecar, status>>
    BY <1>16, Zenon DEF FlushNow, catalogVars, clientVars
  <2>2. frames' = frames \/ frames' = AfterSync(frames, {f \in frames : Ours(f)})
    BY <1>16, Zenon DEF FlushNow
  <2>. QED
    BY <1>8, <1>9, <1>10, <1>11, <2>1, <2>2, Zenon
<1>17. CASE FlushSnapshot \/ FlushPost \/ FlushLoadFails \/ FlushConflict \/ FlushAmbiguous
            \/ FlushReloadFails \/ ScanLoad \/ ScanStale \/ ScanOverlay \/ BootFrameless
  <2>1. UNCHANGED <<table, frames, sidecar, status>>
    BY <1>17, Zenon DEF FlushSnapshot, FlushPost, FlushLoadFails, FlushConflict, FlushAmbiguous,
      FlushReloadFails, ScanLoad, ScanStale, ScanOverlay, BootFrameless, catalogVars,
      tailVars, clientVars
  <2>. QED
    BY <1>8, <1>9, <1>11, <2>1, Zenon
<1>18. CASE FlushCovered \/ FlushCommitted \/ FlushReload
  <2>1. table' = table /\ UNCHANGED <<status, seqOf>>
    BY <1>18, Zenon DEF FlushCovered, FlushCommitted, FlushReload, catalogVars, clientVars
  <2>2. UNCHANGED tailVars \/
        (/\ TruncateCovered(flush.mark)
         /\ \A s \in Stmts : Owed(s) /\ seqOf[s] <= flush.mark =>
                               Applied(s) \/ flush.mark <= Watermark)
    <3>1. CASE FlushCovered
      BY <1>2, <1>3, <3>1 DEF FlushCovered, AlreadyCommitted
    <3>2. CASE FlushCommitted
      BY <1>1, <3>2, Zenon DEF FlushCommitted, FlushCarriesOwed
    <3>3. CASE FlushReload
      BY <1>2, <1>3, <3>3 DEF FlushReload
    <3>. QED
      BY <1>18, <3>1, <3>2, <3>3, Zenon
  <2>3. CASE UNCHANGED tailVars
    BY <1>8, <1>9, <1>11, <2>1, <2>3, Zenon DEF tailVars
  <2>. QED
    BY <1>1, <1>2, <2>1, <2>2, <2>3, OwedFramedTruncated, Zenon
<1>19. CASE CatalogApply
  <2>1. PICK p \in posts : CatalogProcess(p)
    BY <1>19, Zenon DEF CatalogApply
  <2>2. UNCHANGED <<frames, sidecar, status, seqOf>>
    BY <2>1, Zenon DEF CatalogProcess, tailVars, clientVars
  <2>3. CASE table' = table
    BY <1>8, <1>9, <1>11, <2>2, <2>3, Zenon
  <2>4. CASE table' # table
    <3>1. /\ table'.mark = p.stamp
          /\ table'.rows = [s \in Stmts |-> table.rows[s] + IF s \in p.stmts THEN 1 ELSE 0]
      BY <2>1, <2>4, Zenon DEF CatalogProcess
    <3>2. \A s \in p.stmts : s \in Stmts => Applied(s)'
      BY <1>1, <3>1 DEF Applied, TypeOK, Metas
    <3>3. ASSUME NEW s \in Stmts, Owed(s)', ~Applied(s)' PROVE FrameOf(s)'
      <4>1. Owed(s) /\ ~Applied(s) /\ s \notin p.stmts
        BY <1>5, <2>2, <3>2, <3>3, Zenon DEF Owed
      <4>2. PICK f \in frames : /\ f.stmt = s /\ f.seq > Watermark
                                /\ status[s] = "acked" => f.synced
        BY <1>6, <4>1, Zenon
      <4>3. f.seq > p.stamp
        BY <1>1, <1>2, <1>4, <4>1, <4>2 DEF PostsCarryOwed
      <4>4. Watermark' = p.stamp \/ (Watermark' = sidecar /\ sidecar <= Watermark)
        BY <1>2, <2>2, <3>1 DEF Watermark, Max2
      <4>5. f.seq > Watermark'
        BY <1>2, <1>3, <4>2, <4>3, <4>4
      <4>. QED
        BY <2>2, <4>2, <4>5, Zenon
    <3>. QED
      BY <3>3, Zenon DEF OwedFramed
  <2>. QED
    BY <2>3, <2>4, Zenon
<1>20. CASE ForeignCommit \/ ForeignPropertyDrop
  <2>1. UNCHANGED <<frames, sidecar, status>>
    BY <1>20, Zenon DEF ForeignCommit, ForeignPropertyDrop, tailVars, clientVars
  <2>2. table'.mark = table.mark \/ table'.mark = 0
    BY <1>1, <1>20, Zenon DEF ForeignCommit, ForeignPropertyDrop, TypeOK, Metas
  <2>3. Watermark' \in Nat /\ Watermark' <= Watermark
    BY <1>2, <2>1, <2>2 DEF Watermark, Max2
  <2>. QED
    BY <1>2, <1>3, <1>5, <1>6, <2>1, <2>3 DEF OwedFramed, Owed
<1>21. CASE Crash
  <2>1. /\ UNCHANGED <<table, sidecar>>
        /\ \A s \in Stmts : status'[s] \in {"staged", "acked"} =>
                              status[s] = "acked" /\ status'[s] = "acked"
    BY <1>2, <1>21, Zenon DEF Crash
  <2>2. \A f \in frames : f.synced =>
          \E g \in frames' : g.seq = f.seq /\ g.stmt = f.stmt /\ g.synced
    <3>1. "buried" \notin happened'
      BY Zenon DEF Intact
    <3>. QED
      BY <1>1, <1>21, <3>1, CrashFacts, Zenon
  <2>3. ASSUME NEW s \in Stmts, Owed(s)', ~Applied(s)' PROVE FrameOf(s)'
    <3>1. status[s] = "acked" /\ Owed(s) /\ ~Applied(s)
      BY <1>5, <2>1, <2>3, Zenon DEF Owed
    <3>2. PICK f \in frames : f.stmt = s /\ f.seq > Watermark /\ f.synced
      BY <1>6, <3>1, Zenon
    <3>3. PICK g \in frames' : g.seq = f.seq /\ g.stmt = f.stmt /\ g.synced
      BY <2>2, <3>2, Zenon
    <3>. QED
      BY <1>11, <2>1, <3>2, <3>3, Zenon
  <2>. QED
    BY <2>3, Zenon DEF OwedFramed
<1>22. CASE Boot
  <2>1. table' = table /\ UNCHANGED <<status, seqOf>>
    BY <1>22, Zenon DEF Boot, catalogVars, clientVars
  <2>2. TruncateCovered(Watermark) \/ UNCHANGED tailVars
    BY <1>1, <1>22, BootFacts, Zenon
  <2>3. CASE UNCHANGED tailVars
    BY <1>8, <1>9, <1>11, <2>1, <2>3, Zenon DEF tailVars
  <2>4. Watermark <= Watermark
    BY <1>3
  <2>. QED
    BY <1>1, <1>3, <2>1, <2>2, <2>3, <2>4, OwedFramedTruncated, Zenon
<1>. QED
  BY <1>12, <1>13, <1>14, <1>15, <1>16, <1>17, <1>18, <1>19, <1>20, <1>21, <1>22, Zenon DEF Next
=============================================================================
