------------------------- MODULE WriteBufferDurable -------------------------
(*****************************************************************************)
(* No acknowledged row is ever lost: every step of WriteBuffer keeps the     *)
(* frames of owed rows, and the watermarks and requests that cover them, and *)
(* AckedRecoverable holds in every behaviour.  Nor is one ever out of sight: *)
(* a scan finds it in the metadata it loaded or in the overlay it takes.     *)
(*****************************************************************************)
EXTENDS WriteBufferProofs

\* The flush in progress carries every owed row its mark covers, from the
\* snapshot to the resolution of an ambiguous answer (flush_table).
LEMMA FlushCarriesStep ==
  ASSUME Bookkeeping, NothingLost, Next
  PROVE  FlushCarriesOwed'
<1>1. /\ TypeOK /\ DownIsEmpty /\ BufferedBelowTailHigh /\ FlusherConsistent /\ IdsFresh
      /\ PostsCarryOwed /\ FlushCarriesOwed /\ OwedBuffered
  BY Zenon DEF Bookkeeping, NothingLost
<1>2. /\ tailHigh \in Nat /\ flush.mark \in Nat /\ nextSeq \in Nat /\ flush \in FlusherStates
      /\ seqOf \in [Stmts -> Nat] /\ pending \in Seq(Batches)
      /\ \A p \in posts : p.stamp \in Nat
  BY <1>1, Zenon DEF TypeOK, FlusherStates, Posts
<1>3. ASSUME NEW s \in Stmts, Owed(s)', Marked, seqOf'[s] <= flush.mark
      PROVE  Owed(s) /\ seqOf'[s] = seqOf[s]
  <2>1. ~Stage(s)
    <3>1. Stage(s) => up /\ seqOf'[s] = nextSeq
      BY <1>2, Zenon DEF Stage
    <3>. QED
      BY <1>1, <1>2, <1>3, <3>1 DEF BufferedBelowTailHigh, FlusherConsistent
  <2>. QED
    BY <1>1, <1>3, <2>1, OwedFacts, Zenon
<1>4. \A s \in Stmts : Applied(s) => Applied(s)'
  BY <1>1, OwedFacts, Zenon
<1>5. ASSUME flush' = flush,
             flush.pc = "load" => \A i \in 1 .. flush.n : pending'[i].stmt = pending[i].stmt
      PROVE  FlushCarriesOwed'
  <2>1. CASE flush.pc = "load"
    BY <1>1, <1>3, <1>4, <1>5, <2>1 DEF FlushCarriesOwed, Marked
  <2>2. CASE flush.pc = "posted"
    BY <1>1, <1>3, <1>4, <1>5, <2>2, Zenon DEF FlushCarriesOwed, Marked
  <2>3. CASE flush.pc \notin {"load", "posted"}
    BY <1>1, <1>5, <2>3, Zenon DEF FlushCarriesOwed
  <2>. QED
    BY <2>1, <2>2, <2>3, Zenon
<1>6. ASSUME flush'.pc \notin {"load", "posted"}, flush'.reply = "none"
      PROVE  FlushCarriesOwed'
  BY <1>6, Zenon DEF FlushCarriesOwed
<1>7. ASSUME NEW s \in Stmts, Stage(s) PROVE FlushCarriesOwed'
  <2>1. flush' = flush
    BY <1>7, Zenon DEF Stage
  <2>2. \A i \in 1 .. Len(pending) : pending'[i] = pending[i]
    BY <1>1, <1>7, StageFacts, Zenon
  <2>3. flush.pc = "load" => flush.n \in Nat /\ flush.n <= Len(pending) /\ Len(pending) \in Nat
    BY <1>1, <1>2 DEF FlusherConsistent, FlusherStates
  <2>. QED
    BY <1>5, <2>1, <2>2, <2>3
<1>8. ASSUME NEW s \in Stmts, WaitFails(s) PROVE FlushCarriesOwed'
  <2>1. flush' = flush
    BY <1>8, Zenon DEF WaitFails
  <2>2. flush.pc = "load" => \A j \in 1 .. flush.n : pending'[j] = pending[j]
    BY <1>1, <1>8, UnrouteFacts, Zenon
  <2>. QED
    BY <1>5, <2>1, <2>2, Zenon
<1>9. ASSUME NEW s \in Stmts, StageFails(s) \/ WaitOk(s) PROVE FlushCarriesOwed'
  BY <1>5, <1>9, Zenon DEF StageFails, WaitOk, bufferVars
<1>10. CASE SyncFails \/ ForeignCommit \/ ForeignPropertyDrop \/ ScanLoad \/ ScanStale
            \/ ScanOverlay
  BY <1>5, <1>10, Zenon DEF SyncFails, ForeignCommit, ForeignPropertyDrop, ScanLoad, ScanStale,
    ScanOverlay, bufferVars
<1>11. CASE FlushNow
  <2>1. flush.pc = "idle"
    BY <1>11, Zenon DEF FlushNow
  <2>2. flush' = flush \/ (flush'.pc = "snapshot" /\ flush'.reply = "none")
    BY <1>11, Zenon DEF FlushNow, Idle
  <2>. QED
    BY <1>5, <1>6, <2>1, <2>2, Zenon
<1>12. CASE FlushSnapshot
  <2>1. /\ up /\ flush.pc = "snapshot" /\ UNCHANGED <<status, seqOf, table>>
    BY <1>12, Zenon DEF FlushSnapshot, catalogVars, clientVars
  <2>2. flush.reply = "none"
    BY <1>1, <2>1, Zenon DEF FlushCarriesOwed
  <2>3. CASE pending = <<>>
    BY <1>6, <1>12, <2>3, Zenon DEF FlushSnapshot, Idle
  <2>4. CASE pending # <<>>
    <3>1. flush'.pc = "load" /\ flush'.n = Len(pending) /\ flush'.reply = "none"
      BY <1>2, <1>12, <2>2, <2>4, Zenon DEF FlushSnapshot, FlusherStates
    <3>2. \A i \in 1 .. Len(pending) : pending'[i].stmt = pending[i].stmt
      <4>1. \A i \in 1 .. Len(pending) : pending'[i] = Claim(pending[i])
        BY <1>2, <1>12 DEF FlushSnapshot
      <4>2. \A b \in Batches : Claim(b).stmt = b.stmt
        BY Zenon DEF Claim, Batches
      <4>. QED
        BY <1>2, <4>1, <4>2
    <3>3. \A s \in StmtsOf(pending) : \E i \in 1 .. Len(pending) : s = pending[i].stmt
      BY <1>2, StmtsOfIndex
    <3>4. \A s \in Stmts : Owed(s) => Applied(s) \/ s \in StmtsOf(pending)
      BY <1>1, <2>1, Zenon DEF OwedBuffered, InFlight
    <3>5. \A s \in Stmts : Owed(s)' =>
            Applied(s)' \/ \E i \in 1 .. Len(pending) : s = pending'[i].stmt
      BY <1>4, <2>1, <3>2, <3>3, <3>4 DEF Owed
    <3>. QED
      BY <3>1, <3>5, Zenon DEF FlushCarriesOwed
  <2>. QED
    BY <2>3, <2>4, Zenon
<1>13. CASE FlushPost
  <2>1. flush.reply = "none" /\ flush'.pc = "posted" /\ flush'.reply = flush.reply
    BY <1>1, <1>2, <1>13, Zenon DEF FlushPost, FlushCarriesOwed, FlusherStates
  <2>. QED
    BY <2>1, Zenon DEF FlushCarriesOwed
<1>14. CASE FlushCovered \/ FlushLoadFails \/ FlushCommitted \/ FlushConflict
            \/ FlushReload \/ FlushReloadFails
  <2>1. CASE FlushConflict
    <3>1. flush'.pc \in {"snapshot", "idle"} /\ flush'.reply = "none"
      BY <2>1, Zenon DEF FlushConflict, Idle
    <3>. QED
      BY <1>6, <3>1, Zenon
  <2>2. CASE ~FlushConflict
    <3>1. flush' = Idle
      BY <1>14, <2>2, Zenon DEF FlushCovered, FlushLoadFails, FlushCommitted, FlushReload,
        FlushReloadFails
    <3>. QED
      BY <1>6, <3>1, Zenon DEF Idle
  <2>. QED
    BY <2>1, <2>2, Zenon
<1>15. CASE FlushAmbiguous
  <2>1. flush'.pc = "reload" /\ flush'.reply = "none"
    BY <1>2, <1>15, Zenon DEF FlushAmbiguous, FlusherStates
  <2>. QED
    BY <1>6, <2>1, Zenon
<1>16. CASE CatalogApply
  <2>1. PICK p \in posts : CatalogProcess(p)
    BY <1>16, Zenon DEF CatalogApply
  <2>2. UNCHANGED <<pending, status, seqOf>>
    BY <2>1, Zenon DEF CatalogProcess, bufferVars, clientVars
  <2>3. CASE flush' = flush
    BY <1>5, <2>2, <2>3, Zenon
  <2>4. CASE flush' # flush
    <3>1. /\ flush.pc = "posted" /\ flush.id = p.id /\ flush'.pc = "posted"
          /\ flush'.mark = flush.mark
          /\ flush'.reply = "committed" => p.base = table.head
      BY <1>2, <2>1, <2>4, Zenon DEF CatalogProcess, FlusherStates
    <3>2. CASE p.base # table.head
      BY <3>1, <3>2, Zenon DEF FlushCarriesOwed
    <3>3. CASE p.base = table.head
      <4>1. table'.rows = [s \in Stmts |-> table.rows[s] + IF s \in p.stmts THEN 1 ELSE 0]
        BY <2>1, <3>3, Zenon DEF CatalogProcess
      <4>2. \A s \in Stmts : s \in p.stmts => Applied(s)'
        BY <1>1, <4>1 DEF Applied, TypeOK, Metas
      <4>3. p.stamp >= flush.mark
        BY <1>1, <3>1, Zenon DEF IdsFresh
      <4>4. \A s \in Stmts : Owed(s) /\ seqOf[s] <= flush.mark => Applied(s)'
        BY <1>1, <1>2, <1>4, <4>2, <4>3 DEF PostsCarryOwed
      <4>. QED
        BY <2>2, <3>1, <4>4, Zenon DEF FlushCarriesOwed, Owed
    <3>. QED
      BY <3>2, <3>3, Zenon
  <2>. QED
    BY <2>3, <2>4, Zenon
<1>17. CASE Crash
  BY <1>6, <1>17, Zenon DEF Crash, Idle
<1>18. CASE Boot \/ BootFrameless
  <2>1. flush = Idle /\ flush' = flush
    BY <1>1, <1>18, Zenon DEF Boot, BootFrameless, DownIsEmpty
  <2>. QED
    BY <1>6, <2>1, Zenon DEF Idle
<1>. QED
  BY <1>7, <1>8, <1>9, <1>10, <1>11, <1>12, <1>13, <1>14, <1>15, <1>16, <1>17, <1>18, Zenon DEF Next

\* New statements are numbered above every watermark, whatever restarts happen
\* (apply_sidecar_seq_floor, ensure_seq_floor).
LEMMA NumberingStep ==
  ASSUME Bookkeeping, NothingLost, NoStray => Orderly, Next, Intact'
  PROVE  NumberingAbove'
<1>1. /\ TypeOK /\ IsFiniteSet(frames) /\ DownIsEmpty /\ BufferedBelowTailHigh
      /\ FlusherConsistent /\ NumberingAbove /\ WatermarksKnown
  BY Zenon DEF Bookkeeping, FramesWellFormed, NothingLost
<1>2. /\ table.mark \in Nat /\ sidecar \in Nat /\ flush.mark \in Nat /\ nextSeq \in Nat
      /\ tailHigh \in Nat /\ \A p \in posts : p.stamp \in Nat
      /\ \A f \in frames : f.seq \in Nat
  BY <1>1, Zenon DEF TypeOK, Metas, FlusherStates, Posts, Frames
<1>3. Watermark \in Nat /\ table.mark <= Watermark /\ sidecar <= Watermark
  BY <1>2 DEF Watermark, Max2
<1>4. happened \subseteq happened'
  BY <1>1, HappenedGrows, Zenon
<1>5. "late_post" \in happened => NoFrameLost
  BY <1>4, Zenon DEF Intact, NoReusedSequence, NoFrameLost
<1>6. ASSUME up, nextSeq' = nextSeq \/ nextSeq' = nextSeq + 1,
             table'.mark \in Nat, table'.mark < nextSeq, sidecar' \in Nat, sidecar' < nextSeq,
             posts' \in SUBSET posts
      PROVE  NumberingAbove'
  BY <1>1, <1>2, <1>6 DEF NumberingAbove, Watermark, Max2
<1>7. up => table.mark < nextSeq /\ sidecar < nextSeq
  BY <1>1, <1>2, <1>3 DEF NumberingAbove
<1>8. ASSUME NEW s \in Stmts, Stage(s) \/ StageFails(s) \/ WaitOk(s) \/ WaitFails(s)
      PROVE  NumberingAbove'
  <2>1. /\ up /\ UNCHANGED <<table, posts, sidecar>>
        /\ nextSeq' = nextSeq \/ nextSeq' = nextSeq + 1
    BY <1>8, Zenon DEF Stage, StageFails, WaitOk, WaitFails, catalogVars, tailVars, bufferVars
  <2>. QED
    BY <1>2, <1>6, <1>7, <2>1, Zenon
<1>9. CASE SyncFails \/ FlushNow \/ FlushSnapshot \/ FlushLoadFails \/ FlushConflict
           \/ FlushReloadFails \/ ScanLoad \/ ScanStale \/ ScanOverlay
  <2>1. up /\ UNCHANGED <<table, posts, sidecar, nextSeq>>
    BY <1>9, Zenon DEF SyncFails, FlushNow, FlushSnapshot, FlushLoadFails, FlushConflict,
      FlushReloadFails, ScanLoad, ScanStale, ScanOverlay, catalogVars, tailVars, bufferVars
  <2>. QED
    BY <1>2, <1>6, <1>7, <2>1, Zenon
<1>10. CASE FlushAmbiguous
  <2>1. up /\ UNCHANGED <<table, sidecar, nextSeq>> /\ posts' \in SUBSET posts
    BY <1>10, Zenon DEF FlushAmbiguous, tailVars, bufferVars
  <2>. QED
    BY <1>2, <1>6, <1>7, <2>1, Zenon
<1>11. CASE FlushCovered \/ FlushCommitted \/ FlushReload
  <2>1. /\ up /\ UNCHANGED <<table, posts, nextSeq>> /\ Marked
        /\ TruncateCovered(flush.mark) \/ UNCHANGED tailVars
    BY <1>11, Zenon DEF FlushCovered, FlushCommitted, FlushReload, catalogVars, bufferVars,
      Marked
  <2>2. flush.mark < nextSeq
    <3>1. flush.mark <= tailHigh
      BY <1>1, <2>1, Zenon DEF FlusherConsistent
    <3>2. tailHigh < nextSeq
      BY <1>1, <2>1, Zenon DEF BufferedBelowTailHigh
    <3>. QED
      BY <1>2, <3>1, <3>2
  <2>3. sidecar' \in Nat /\ (sidecar' = sidecar \/ sidecar' = flush.mark)
    BY <1>1, <1>2, <2>1, TruncateFacts, Zenon DEF tailVars, Max2
  <2>. QED
    BY <1>2, <1>6, <1>7, <2>1, <2>2, <2>3, Zenon
<1>12. CASE FlushPost
  <2> DEFINE new == [id |-> lastId + 1, base |-> table.head,
                     stmts |-> StmtsOf(Prefix(flush.n)),
                     stamp |-> Max2(table.mark, flush.mark)]
  <2>1. /\ up /\ UNCHANGED <<table, sidecar, nextSeq>> /\ posts' = posts \cup {new} /\ Marked
    BY <1>12, Zenon DEF FlushPost, tailVars, Marked
  <2>2. flush.mark < nextSeq
    <3>1. flush.mark <= tailHigh
      BY <1>1, <2>1, Zenon DEF FlusherConsistent
    <3>2. tailHigh < nextSeq
      BY <1>1, <2>1, Zenon DEF BufferedBelowTailHigh
    <3>. QED
      BY <1>2, <3>1, <3>2
  <2>3. new.stamp < nextSeq
    BY <1>7, <2>1, <2>2, Zenon DEF Max2
  <2> HIDE DEF new
  <2>. QED
    BY <1>1, <1>2, <2>1, <2>3, Zenon DEF NumberingAbove, Watermark, Max2
<1>13. CASE CatalogApply
  <2>1. PICK p \in posts : CatalogProcess(p)
    BY <1>13, Zenon DEF CatalogApply
  <2>2. /\ UNCHANGED <<sidecar, up, nextSeq>> /\ posts' \in SUBSET posts
        /\ table'.mark \in {table.mark, p.stamp}
    BY <2>1, Zenon DEF CatalogProcess, tailVars, bufferVars
  <2>3. CASE up
    BY <1>1, <1>2, <1>6, <1>7, <2>2, <2>3, Zenon DEF NumberingAbove
  <2>4. CASE ~up
    BY <2>2, <2>4, Zenon DEF NumberingAbove
  <2>. QED
    BY <2>3, <2>4, Zenon
<1>14. CASE ForeignCommit \/ ForeignPropertyDrop
  <2>1. UNCHANGED <<posts, sidecar, up, nextSeq>>
    BY <1>14, Zenon DEF ForeignCommit, ForeignPropertyDrop, tailVars, bufferVars
  <2>2. table'.mark = table.mark \/ table'.mark = 0
    BY <1>1, <1>14, Zenon DEF ForeignCommit, ForeignPropertyDrop, TypeOK, Metas
  <2>3. CASE up
    BY <1>2, <1>6, <1>7, <2>1, <2>2, <2>3
  <2>4. CASE ~up
    BY <2>1, <2>4, Zenon DEF NumberingAbove
  <2>. QED
    BY <2>3, <2>4, Zenon
<1>15. CASE Crash
  <2>1. ~up'
    BY <1>15, Zenon DEF Crash
  <2>. QED
    BY <2>1, Zenon DEF NumberingAbove
<1>16. ~up /\ posts' = posts /\ "late_post" \notin happened => posts = {}
  BY <1>1, Zenon DEF DownIsEmpty
<1>17. CASE Boot
  <2>1. /\ nextSeq' \in Nat /\ nextSeq' > Watermark /\ \A f \in frames : f.seq < nextSeq'
        /\ TruncateCovered(Watermark) \/ UNCHANGED tailVars
    BY <1>1, <1>17, BootFacts, Zenon
  <2>2. UNCHANGED <<table, posts>>
    BY <1>17, Zenon DEF Boot, catalogVars
  <2>3. ~up
    BY <1>17, Zenon DEF Boot
  <2>4. sidecar' \in Nat /\ sidecar' <= Watermark
    BY <1>1, <1>2, <1>3, <2>1, TruncateFacts DEF tailVars, Max2
  <2>5. nextSeq' > Watermark'
    BY <1>2, <1>3, <2>1, <2>2, <2>4 DEF Watermark, Max2
  <2>6. ASSUME NEW p \in posts PROVE nextSeq' > p.stamp
    <3>1. Known(p.stamp)
      BY <1>1, <1>5, <1>16, <2>2, <2>3, <2>6, Zenon DEF WatermarksKnown
    <3>. QED
      BY <1>2, <1>3, <2>1, <3>1 DEF Known
  <2>. QED
    BY <2>2, <2>5, <2>6, Zenon DEF NumberingAbove
<1>18. CASE BootFrameless
  <2>1. /\ ~up /\ frames = {} /\ UNCHANGED <<table, posts, sidecar>>
        /\ nextSeq' = Max2(1, sidecar + 1) /\ "boot_load_fails" \in happened'
    BY <1>18, Zenon DEF BootFrameless, catalogVars, tailVars, Fault, FaultOf
  <2>2. nextSeq' \in Nat /\ nextSeq' > sidecar
    BY <1>2, <2>1 DEF Max2
  <2>3. happened \cap {"sync_fails", "old_frame", "buried"} = {}
    BY <1>4, <2>1, Zenon DEF Intact, NoReusedSequence
  <2>4. table.mark <= sidecar /\ \A p \in posts : p.stamp <= sidecar
    <3>1. CASE "late_post" \in happened
      BY <1>1, <1>5, <2>1, <3>1, Zenon DEF WatermarksKnown, Known
    <3>2. CASE "late_post" \notin happened
      <4>1. NoStray
        BY <2>3, <3>2, Zenon DEF NoStray
      <4>2. table.mark <= sidecar
        BY <2>1, <4>1, Zenon DEF Orderly, FramelessKnown, SettledFrames
      <4>. QED
        BY <1>16, <2>1, <3>2, <4>2, Zenon
    <3>. QED
      BY <3>1, <3>2, Zenon
  <2>. QED
    BY <1>2, <2>1, <2>2, <2>4 DEF NumberingAbove, Watermark, Max2
<1>. QED
  BY <1>8, <1>9, <1>10, <1>11, <1>12, <1>13, <1>14, <1>15, <1>17, <1>18, Zenon DEF Next

\* An owed row of a running server is in pending, in the generation in flight
\* or in the table (flush_table, gc_flushed).
LEMMA OwedBufferedStep ==
  ASSUME Bookkeeping, NothingLost, Next
  PROVE  OwedBuffered'
<1>1. /\ TypeOK /\ IsFiniteSet(frames) /\ FramesWellFormed /\ FlusherConsistent /\ IdsFresh
      /\ OwedFramed /\ FlushCarriesOwed /\ OwedBuffered
  BY Zenon DEF Bookkeeping, FramesWellFormed, NothingLost
<1>2. /\ table.mark \in Nat /\ sidecar \in Nat /\ flush.mark \in Nat
      /\ seqOf \in [Stmts -> Nat] /\ status \in [Stmts -> Statuses]
      /\ pending \in Seq(Batches) /\ flushed \in SUBSET Generations
      /\ flush \in FlusherStates /\ \A f \in frames : f.seq \in Nat
  BY <1>1, Zenon DEF TypeOK, Metas, FlusherStates, Frames
<1>3. Watermark \in Nat /\ table.mark <= Watermark
  BY <1>2 DEF Watermark, Max2
<1>4. \A s \in Stmts : Applied(s) => Applied(s)'
  BY <1>1, OwedFacts, Zenon
<1>5. \A s \in Stmts : Owed(s) /\ seqOf[s] <= table.mark => Applied(s)
  <2>1. \A f \in frames : f.seq = seqOf[f.stmt]
    BY <1>1, ZenonT(30) DEF FramesWellFormed
  <2>. QED
    BY <1>1, <1>2, <1>3, <2>1 DEF OwedFramed
<1> DEFINE Out(s) == InFlight /\ \E g \in OwnGenerations : s \in StmtsOf(g.batches)
           Held(s) == s \in StmtsOf(pending) \/ Out(s)
<1>6. ASSUME up, \A s \in Stmts : Owed(s)' => Owed(s),
             \A s \in Stmts : Owed(s) /\ Owed(s)' /\ Held(s) => Applied(s)' \/ Held(s)'
      PROVE  OwedBuffered'
  BY <1>1, <1>4, <1>6, Zenon DEF OwedBuffered
<1>7. ASSUME UNCHANGED status PROVE \A s \in Stmts : Owed(s)' <=> Owed(s)
  BY <1>7, Zenon DEF Owed
<1>8. \A s \in Stmts : Out(s) => seqOf[s] <= flush.mark
  BY <1>1, Zenon DEF FlusherConsistent
<1>9. ASSUME flush.pc \notin {"posted", "reload"} PROVE \A s \in Stmts : ~Out(s)
  BY <1>9, Zenon DEF InFlight
<1>10. ASSUME UNCHANGED <<pending, flushed>>, flush'.id = flush.id,
              InFlight => InFlight'
       PROVE  \A s \in Stmts : Held(s) => Held(s)'
  BY <1>10, Zenon DEF OwnGenerations
<1>11. ASSUME NEW s \in Stmts, Stage(s) PROVE OwedBuffered'
  <2>1. StmtsOf(pending') = StmtsOf(pending) \cup {s}
    BY <1>1, <1>11, StageFacts, Zenon
  <2>2. up /\ UNCHANGED <<flushed, flush>> /\ status' = [status EXCEPT ![s] = "staged"]
    BY <1>11, Zenon DEF Stage
  <2>3. \A t \in Stmts : Out(t) => Out(t)'
    BY <2>2, Zenon DEF OwnGenerations, InFlight
  <2>4. \A t \in Stmts \ {s} : Owed(t)' => Owed(t)
    BY <1>2, <2>2, Zenon DEF Owed
  <2>5. \A t \in Stmts \ {s} : Owed(t)' => Applied(t)' \/ Held(t)'
    BY <1>1, <1>4, <2>1, <2>2, <2>3, <2>4, Zenon DEF OwedBuffered
  <2>6. Held(s)'
    BY <2>1, Zenon
  <2>. QED
    BY <2>5, <2>6, Zenon DEF OwedBuffered
<1>12. ASSUME NEW s \in Stmts, WaitFails(s) PROVE OwedBuffered'
  <2>1. StmtsOf(pending) \subseteq StmtsOf(pending') \cup {s}
    BY <1>1, <1>12, UnrouteFacts, Zenon
  <2>2. /\ up /\ UNCHANGED <<flushed, flush>>
        /\ \A t \in Stmts : Owed(t)' => Owed(t) /\ t # s
    BY <1>2, <1>12, Zenon DEF WaitFails, Owed
  <2>3. \A t \in Stmts : Out(t) => Out(t)'
    BY <2>2, Zenon DEF OwnGenerations, InFlight
  <2>. QED
    BY <1>6, <2>1, <2>2, <2>3, Zenon
<1>13. ASSUME NEW s \in Stmts, StageFails(s) \/ WaitOk(s) PROVE OwedBuffered'
  <2>1. up /\ UNCHANGED <<pending, flushed, flush>>
    BY <1>13, Zenon DEF StageFails, WaitOk, bufferVars
  <2>2. \A t \in Stmts : Owed(t)' => Owed(t)
    BY <1>2, <1>13, Zenon DEF StageFails, WaitOk, Owed
  <2>3. \A t \in Stmts : Held(t) => Held(t)'
    BY <1>10, <2>1, Zenon DEF InFlight
  <2>. QED
    BY <1>6, <2>1, <2>2, <2>3, Zenon
<1>14. CASE SyncFails
  <2>1. up /\ UNCHANGED <<pending, flushed, flush>>
    BY <1>14, Zenon DEF SyncFails, bufferVars
  <2>2. \A t \in Stmts : Owed(t)' => Owed(t)
    BY <1>2, <1>14, Zenon DEF SyncFails, Owed
  <2>3. \A t \in Stmts : Held(t) => Held(t)'
    BY <1>10, <2>1, Zenon DEF InFlight
  <2>. QED
    BY <1>6, <2>1, <2>2, <2>3, Zenon
<1>15. CASE ScanLoad \/ ScanStale
  <2>1. up /\ UNCHANGED <<pending, flushed, flush, status>>
    BY <1>15, Zenon DEF ScanLoad, ScanStale, bufferVars, clientVars
  <2>2. \A t \in Stmts : Held(t) => Held(t)'
    BY <1>10, <2>1, Zenon DEF InFlight
  <2>. QED
    BY <1>6, <1>7, <2>1, <2>2, Zenon
<1>16. CASE ForeignCommit \/ ForeignPropertyDrop
  <2>1. UNCHANGED <<up, pending, flushed, flush, status>>
    BY <1>16, Zenon DEF ForeignCommit, ForeignPropertyDrop, bufferVars, clientVars
  <2>2. \A t \in Stmts : Held(t) => Held(t)'
    BY <1>10, <2>1, Zenon DEF InFlight
  <2>3. CASE up
    BY <1>6, <1>7, <2>1, <2>2, <2>3, Zenon
  <2>4. CASE ~up
    BY <2>1, <2>4, Zenon DEF OwedBuffered
  <2>. QED
    BY <2>3, <2>4, Zenon
<1>17. CASE FlushNow \/ FlushLoadFails
  <2>1. /\ up /\ UNCHANGED <<pending, status>> /\ flush.pc \notin {"posted", "reload"}
    BY <1>17, Zenon DEF FlushNow, FlushLoadFails, bufferVars, clientVars
  <2>. QED
    BY <1>6, <1>7, <1>9, <2>1, Zenon
<1>18. CASE FlushSnapshot
  <2>1. /\ up /\ UNCHANGED status /\ flush.pc \notin {"posted", "reload"}
        /\ pending' = [i \in DOMAIN pending |-> Claim(pending[i])]
    BY <1>18, Zenon DEF FlushSnapshot, clientVars
  <2>2. StmtsOf(pending') = StmtsOf(pending)
    BY <1>2, <2>1, StmtsOfClaimed, Zenon
  <2>. QED
    BY <1>6, <1>7, <1>9, <2>1, <2>2, Zenon
<1>19. CASE FlushCovered
  <2>1. /\ up /\ UNCHANGED status /\ flush.pc = "load" /\ table.mark >= flush.mark
        /\ pending' = Suffix(flush.n)
    BY <1>19, Zenon DEF FlushCovered, clientVars, AlreadyCommitted
  <2>2. /\ StmtsOf(pending) = StmtsOf(Prefix(flush.n)) \cup StmtsOf(pending')
        /\ \A s \in StmtsOf(Prefix(flush.n)) : seqOf[s] <= flush.mark
    BY <1>1, <2>1, MoveOutFacts, Zenon
  <2>3. \A s \in Stmts : Owed(s) /\ Held(s) => Applied(s) \/ s \in StmtsOf(pending')
    BY <1>2, <1>5, <1>9, <2>1, <2>2
  <2>. QED
    BY <1>4, <1>6, <1>7, <2>1, <2>3, Zenon
<1>20. CASE FlushPost
  <2> DEFINE gen == Generation([snap |-> lastId + 1, mark |-> 0], Prefix(flush.n))
  <2>1. /\ up /\ UNCHANGED status /\ flush.pc = "load" /\ pending' = Suffix(flush.n)
        /\ gen \in flushed' /\ flush'.pc = "posted" /\ flush'.id = lastId + 1
    BY <1>2, <1>20, Zenon DEF FlushPost, clientVars, FlusherStates
  <2>2. StmtsOf(pending) = StmtsOf(Prefix(flush.n)) \cup StmtsOf(pending')
    BY <1>1, <2>1, MoveOutFacts, Zenon
  <2>3. gen.commit.snap = lastId + 1 /\ gen.batches = Prefix(flush.n)
    BY Zenon DEF Generation
  <2> HIDE DEF gen
  <2>4. \A s \in StmtsOf(Prefix(flush.n)) : Out(s)'
    BY <2>1, <2>3, Zenon DEF InFlight, OwnGenerations
  <2>. QED
    BY <1>6, <1>7, <1>9, <2>1, <2>2, <2>4, Zenon
<1>21. CASE FlushCommitted
  <2>1. /\ up /\ UNCHANGED <<status, pending>> /\ flush.pc = "posted"
        /\ flush.reply = "committed"
    BY <1>21, Zenon DEF FlushCommitted, clientVars, bufferVars
  <2>2. \A s \in Stmts : Owed(s) /\ Out(s) => Applied(s)
    BY <1>1, <1>8, <2>1, Zenon DEF FlushCarriesOwed
  <2>. QED
    BY <1>4, <1>6, <1>7, <2>1, <2>2, Zenon
<1>22. ASSUME up, InFlight, MoveBack(flush.id), UNCHANGED status PROVE OwedBuffered'
  <2>1. PICK g \in flushed :
           /\ OwnGenerations = {g}
           /\ StmtsOf(pending') = StmtsOf(g.batches) \cup StmtsOf(pending)
    BY <1>1, <1>22, MoveBackFacts, Zenon
  <2>2. \A s \in Stmts : Held(s) => s \in StmtsOf(pending')
    BY <2>1, Zenon
  <2>. QED
    BY <1>6, <1>7, <1>22, <2>2, Zenon
<1>23. CASE FlushConflict \/ FlushReloadFails
  BY <1>22, <1>23, Zenon DEF FlushConflict, FlushReloadFails, InFlight, clientVars
<1>24. CASE FlushReload
  <2>1. up /\ flush.pc = "reload" /\ UNCHANGED status
    BY <1>24, Zenon DEF FlushReload, clientVars
  <2>2. CASE table.mark >= flush.mark
    <3>1. pending' = pending
      BY <1>24, <2>2, Zenon DEF FlushReload
    <3>2. \A s \in Stmts : Owed(s) /\ Out(s) => Applied(s)
      BY <1>2, <1>5, <1>8, <2>2
    <3>. QED
      BY <1>4, <1>6, <1>7, <2>1, <3>1, <3>2, Zenon
  <2>3. CASE ~(table.mark >= flush.mark)
    BY <1>22, <1>24, <2>1, <2>3, Zenon DEF FlushReload, InFlight
  <2>. QED
    BY <2>2, <2>3, Zenon
<1>25. CASE FlushAmbiguous
  <2>1. /\ up /\ UNCHANGED <<pending, flushed, status>> /\ flush'.id = flush.id
        /\ flush'.pc = "reload"
    BY <1>2, <1>25, Zenon DEF FlushAmbiguous, bufferVars, clientVars, FlusherStates
  <2>2. \A t \in Stmts : Held(t) => Held(t)'
    BY <1>10, <2>1, Zenon DEF InFlight
  <2>. QED
    BY <1>6, <1>7, <2>1, <2>2, Zenon
<1>26. CASE CatalogApply
  <2>1. PICK p \in posts : CatalogProcess(p)
    BY <1>26, Zenon DEF CatalogApply
  <2>2. UNCHANGED <<up, pending, flushed, status>>
    BY <2>1, Zenon DEF CatalogProcess, bufferVars, clientVars
  <2>3. flush'.id = flush.id /\ flush'.pc = flush.pc
    BY <1>2, <2>1, Zenon DEF CatalogProcess, FlusherStates
  <2>4. \A t \in Stmts : Held(t) => Held(t)'
    BY <1>10, <2>2, <2>3, Zenon DEF InFlight
  <2>5. CASE up
    BY <1>6, <1>7, <2>2, <2>4, <2>5, Zenon
  <2>6. CASE ~up
    BY <2>2, <2>6, Zenon DEF OwedBuffered
  <2>. QED
    BY <2>5, <2>6, Zenon
<1>27. CASE Crash
  <2>1. ~up'
    BY <1>27, Zenon DEF Crash
  <2>. QED
    BY <2>1, Zenon DEF OwedBuffered
<1>28. CASE Boot
  <2>1. \A f \in frames : f.seq > Watermark => f.stmt \in StmtsOf(pending')
    BY <1>1, <1>28, BootFacts, Zenon
  <2>2. UNCHANGED status
    BY <1>28, Zenon DEF Boot, clientVars
  <2>3. \A s \in Stmts : Owed(s) => Applied(s) \/ s \in StmtsOf(pending')
    BY <1>1, <2>1, Zenon DEF OwedFramed
  <2>. QED
    BY <1>4, <1>7, <2>2, <2>3, Zenon DEF OwedBuffered
<1>29. CASE BootFrameless
  <2>1. frames = {} /\ UNCHANGED status
    BY <1>29, Zenon DEF BootFrameless, clientVars
  <2>. QED
    BY <1>1, <1>4, <1>7, <2>1, Zenon DEF OwedBuffered, OwedFramed
<1>30. CASE ScanOverlay
  <2>1. up /\ UNCHANGED <<pending, flush, status>> /\ flushed' = Observed(flushed, scan)
    BY <1>30, Zenon DEF ScanOverlay, clientVars
  <2>2. scan \in Metas
    BY <1>1, Zenon DEF TypeOK
  <2>3. \A g \in flushed : \E o \in flushed' : o.commit = g.commit /\ o.batches = g.batches
    BY <1>2, <2>1, <2>2, ObservedFacts
  <2>4. \A s \in Stmts : Out(s) => Out(s)'
    BY <2>1, <2>3 DEF InFlight, OwnGenerations
  <2>. QED
    BY <1>6, <1>7, <2>1, <2>4, Zenon
<1>. QED
  BY <1>11, <1>12, <1>13, <1>14, <1>15, <1>16, <1>17, <1>18, <1>19, <1>20, <1>21, <1>23,
     <1>24, <1>25, <1>26, <1>27, <1>28, <1>29, <1>30, Zenon DEF Next

----------------------------------------------------------------------------
\* Initially nothing is owed and nothing went wrong.
LEMMA DurableInit == Init => DurableInv
<1>. SUFFICES ASSUME Init PROVE DurableInv
  BY Zenon
<1>1. Bookkeeping
  BY BookkeepingInit, Zenon
<1>2. /\ StmtsOf(pending) = {} /\ Len(pending) = 0 /\ \A s \in Stmts : ~Owed(s)
  BY DEF Init, StmtsOf, Owed
<1>3. /\ table.mark = 0 /\ sidecar = 0 /\ tailHigh = 0 /\ nextSeq = 1 /\ posts = {}
      /\ flush.pc = "idle" /\ flush.reply = "none"
  BY Zenon DEF Init, Idle
<1>4. ~Marked /\ ~InFlight
  BY <1>3, Zenon DEF Marked, InFlight
<1>5. Orderly
  <2>1. OnlyOwnPost
    BY <1>3, <1>4 DEF OnlyOwnPost
  <2>2. BufferedFramed
    BY <1>2, <1>3, <1>4, Zenon DEF BufferedFramed
  <2>3. FramelessKnown
    BY <1>3 DEF FramelessKnown
  <2>. QED
    BY <2>1, <2>2, <2>3, Zenon DEF Orderly
<1>6. NothingLost
  <2>1. WatermarksKnown
    BY <1>3 DEF WatermarksKnown, Known
  <2>2. OwedFramed /\ OwedBuffered
    BY <1>2, Zenon DEF OwedFramed, OwedBuffered
  <2>3. PostsCarryOwed /\ FlushCarriesOwed
    BY <1>3, Zenon DEF PostsCarryOwed, FlushCarriesOwed
  <2>4. NumberingAbove
    BY <1>3 DEF NumberingAbove, Watermark, Max2
  <2>. QED
    BY <2>1, <2>2, <2>3, <2>4, Zenon DEF NothingLost
<1>. QED
  BY <1>1, <1>5, <1>6, Zenon DEF DurableInv

\* The invariant is inductive.
LEMMA DurableStep == DurableInv /\ [Next]_vars => DurableInv'
<1>. SUFFICES ASSUME DurableInv, [Next]_vars PROVE DurableInv'
  BY Zenon
<1>1. Bookkeeping /\ Bookkeeping'
  BY BookkeepingStep, Zenon DEF DurableInv
<1>2. CASE Next
  <2>1. happened \subseteq happened'
    BY <1>1, <1>2, HappenedGrows, Zenon DEF Bookkeeping, FramesWellFormed
  <2>2. NoStray' => NoStray
    BY <2>1, Zenon DEF NoStray
  <2>3. Intact' => Intact
    BY <2>1, Zenon DEF Intact, NoReusedSequence
  <2>4. NoStray' => Orderly'
    BY <1>1, <1>2, <2>2, OnlyOwnPostStep, BufferedFramedStep, FramelessStep, Zenon
    DEF DurableInv, Orderly
  <2>5. Intact' => NothingLost'
    BY <1>1, <1>2, <2>3, WatermarksKnownStep, OwedFramedStep, PostsCarryStep,
      FlushCarriesStep, NumberingStep, OwedBufferedStep, Zenon DEF DurableInv, NothingLost
  <2>. QED
    BY <1>1, <2>4, <2>5, Zenon DEF DurableInv
<1>3. CASE UNCHANGED vars
  <2>0. UNCHANGED <<table, posts, frames, sidecar, up, nextSeq, pending, flushed, tailHigh,
                    flush, status, seqOf, happened>>
    BY <1>3, Zenon DEF vars, catalogVars, tailVars, bufferVars, faultVars, clientVars
  <2>1. (NoStray => Orderly)'
    <3>1. NoStray' = NoStray /\ Marked' = Marked /\ InFlight' = InFlight
      BY <2>0, Zenon DEF NoStray, Marked, InFlight
    <3>2. StmtsOf(pending)' = StmtsOf(pending) /\ OwnGenerations' = OwnGenerations
          /\ SettledFrames' = SettledFrames
      BY <2>0, Zenon DEF OwnGenerations, SettledFrames, StmtsOf
    <3>3. OnlyOwnPost' = OnlyOwnPost
      BY <2>0, <3>1, Zenon DEF OnlyOwnPost
    <3>4. BufferedFramed' = BufferedFramed
      BY <2>0, <3>1, <3>2, Zenon DEF BufferedFramed
    <3>5. FramelessKnown' = FramelessKnown
      BY <2>0, <3>2, Zenon DEF FramelessKnown
    <3>. QED
      BY <3>1, <3>3, <3>4, <3>5, Zenon DEF DurableInv, Orderly
  <2>2. (Intact => NothingLost)'
    <3>1. Intact' = Intact
      BY <2>0, Zenon DEF Intact, NoReusedSequence
    <3>2. WatermarksKnown' = WatermarksKnown
      BY <2>0, Zenon DEF WatermarksKnown, NoFrameLost, Known
    <3>3. OwedFramed' = OwedFramed
      BY <2>0, Zenon DEF OwedFramed, Owed, Applied, Watermark, Max2
    <3>4. PostsCarryOwed' = PostsCarryOwed
      BY <2>0, Zenon DEF PostsCarryOwed, Owed, Applied
    <3>5. FlushCarriesOwed' = FlushCarriesOwed
      BY <2>0, Zenon DEF FlushCarriesOwed, Owed, Applied
    <3>6. NumberingAbove' = NumberingAbove
      BY <2>0, Zenon DEF NumberingAbove, Watermark, Max2
    <3>7. OwedBuffered' = OwedBuffered
      BY <2>0, Zenon DEF OwedBuffered, Owed, Applied, InFlight, OwnGenerations, StmtsOf
    <3>. QED
      BY <3>1, <3>2, <3>3, <3>4, <3>5, <3>6, <3>7, Zenon DEF DurableInv, NothingLost
  <2>. QED
    BY <1>1, <2>1, <2>2, Zenon DEF DurableInv
<1>. QED
  BY <1>2, <1>3, Zenon

\* An acknowledged INSERT is never lost: in every reachable state its row is in
\* the table or in a durable frame above the watermark that replay_tail would
\* use, for any number of statements and faults.
THEOREM AckedDurable == Spec => []AckedRecoverable
<1>1. DurableInv => AckedRecoverable
  BY Zenon DEF DurableInv, NothingLost, OwedFramed, Owed, Applied, AckedRecoverable, Recoverable
<1>. QED
  BY <1>1, DurableInit, DurableStep, PTL DEF Spec

----------------------------------------------------------------------------
\* A union read returns every acknowledged row.

\* A generation whose snapshot the table has is in the table: the request carries the
\* generation's rows, and snapshot ids are fresh.
SnapsCarry ==
  /\ \A i \in table.snaps : i <= lastId
  /\ \A p \in posts : /\ p.id # 0
                      /\ \A g \in flushed : p.id = g.commit.snap =>
                           StmtsOf(g.batches) \subseteq p.stmts
  /\ \A g \in flushed : g.commit.snap # 0 /\ g.commit.snap \in table.snaps =>
       \A s \in Stmts : s \in StmtsOf(g.batches) => Applied(s)

\* Every step keeps it so (prepare_commit's fresh snapshot id, the catalog's commit).
LEMMA SnapsCarryStep ==
  ASSUME Bookkeeping, SnapsCarry, Next
  PROVE  SnapsCarry'
<1>1. /\ TypeOK /\ DownIsEmpty /\ FlusherConsistent /\ IdsFresh /\ IsFiniteSet(frames)
  BY Zenon DEF Bookkeeping, FramesWellFormed
<1>2. /\ flushed \subseteq Generations /\ table \in Metas /\ lastId \in Nat
      /\ scan \in Metas /\ \A g \in flushed : g.commit.snap \in Nat /\ g.commit.snap <= lastId
      /\ \A p \in posts : p.id \in Nat /\ p.id <= lastId
      /\ \A i \in table.snaps : i \in Nat
      /\ \A s \in Stmts : table.rows[s] \in Nat
  BY <1>1, Zenon DEF TypeOK, Generations, Posts, IdsFresh, Metas
<1> DEFINE Kept(G) == \A h \in G : \E g \in flushed : h.commit = g.commit /\ h.batches = g.batches
<1>3. ASSUME Kept(flushed'), posts' \subseteq posts, lastId' = lastId,
             table'.snaps = table.snaps, table'.rows = table.rows
      PROVE  SnapsCarry'
  BY <1>3, Zenon DEF SnapsCarry, Applied
<1>4. Kept(flushed) /\ Kept({})
  BY Zenon
<1>5. \A m \in Metas : Kept(Observed(flushed, m))
  BY <1>2, ObservedFacts
<1> HIDE DEF Kept
<1>6. ASSUME NEW s \in Stmts, Stage(s) \/ StageFails(s) \/ WaitOk(s) \/ WaitFails(s)
      PROVE  SnapsCarry'
  BY <1>3, <1>4, <1>6, Zenon DEF Stage, StageFails, WaitOk, WaitFails, catalogVars, bufferVars
<1>7. CASE SyncFails \/ FlushSnapshot \/ FlushLoadFails \/ FlushCommitted \/ FlushAmbiguous
  BY <1>3, <1>4, <1>7, Zenon DEF SyncFails, FlushSnapshot, FlushLoadFails, FlushCommitted,
    FlushAmbiguous, catalogVars, bufferVars
<1>8. CASE BootFrameless \/ Boot \/ ScanLoad \/ ScanStale
  BY <1>3, <1>4, <1>8, Zenon DEF BootFrameless, Boot, ScanLoad, ScanStale, catalogVars, bufferVars
<1>9. CASE FlushNow
  <2>1. flushed' \subseteq flushed /\ UNCHANGED <<table, posts, lastId>>
    BY <1>9, Zenon DEF FlushNow, catalogVars
  <2> QED BY <1>3, <1>4, <2>1, Zenon DEF Kept
<1>10. CASE FlushConflict \/ FlushReload \/ FlushReloadFails
  <2>1. flushed' \subseteq flushed /\ UNCHANGED <<table, posts, lastId>>
    BY <1>10, Zenon DEF FlushConflict, FlushReload, FlushReloadFails, MoveBack, catalogVars
  <2> QED BY <1>3, <1>4, <2>1, Zenon DEF Kept
<1>11. CASE ScanOverlay
  <2>1. flushed' = Observed(flushed, scan) /\ UNCHANGED <<table, posts, lastId>>
    BY <1>11, Zenon DEF ScanOverlay, catalogVars
  <2> QED BY <1>2, <1>3, <1>5, <2>1, Zenon
<1>12. CASE Crash
  <2>1. flushed' = {} /\ posts' \subseteq posts /\ UNCHANGED <<table, lastId>>
    BY <1>12, Zenon DEF Crash
  <2> QED BY <1>3, <1>4, <2>1, Zenon
<1>13. CASE ForeignPropertyDrop
  <2>1. /\ table'.snaps = table.snaps /\ table'.rows = table.rows
        /\ UNCHANGED <<posts, flushed, lastId>>
    BY <1>2, <1>13, Zenon DEF ForeignPropertyDrop, Metas, bufferVars
  <2> QED BY <1>3, <1>4, <2>1, Zenon
<1>14. CASE ForeignCommit
  <2>1. /\ table'.snaps = table.snaps \cup {lastId + 1} /\ table'.rows = table.rows
        /\ lastId' = lastId + 1 /\ UNCHANGED <<posts, flushed>>
    BY <1>2, <1>14, Zenon DEF ForeignCommit, Metas, bufferVars
  <2>2. \A i \in table'.snaps : i <= lastId'
    BY <1>2, <2>1 DEF SnapsCarry
  <2>3. \A g \in flushed : g.commit.snap # lastId + 1
    BY <1>2
  <2> QED BY <2>1, <2>2, <2>3, Zenon DEF SnapsCarry, Applied
<1>15. CASE FlushCovered
  <2> DEFINE new == Generation([snap |-> 0, mark |-> flush.mark], Prefix(flush.n))
  <2>1. flushed' = Observed(flushed, table) \cup {new} /\ UNCHANGED <<table, posts, lastId>>
    BY <1>15, Zenon DEF FlushCovered, catalogVars
  <2>2. new.commit.snap = 0
    BY Zenon DEF Generation
  <2>3. Kept(Observed(flushed, table))
    BY <1>2, <1>5, Zenon
  <2> HIDE DEF new
  <2> QED BY <2>1, <2>2, <2>3 DEF SnapsCarry, Applied, Kept
<1>16. CASE FlushPost
  <2> DEFINE new == Generation([snap |-> lastId + 1, mark |-> 0], Prefix(flush.n))
             req == [id |-> lastId + 1, base |-> table.head, stmts |-> StmtsOf(Prefix(flush.n)),
                     stamp |-> Max2(table.mark, flush.mark)]
  <2>1. /\ flushed' = Observed(flushed, table) \cup {new} /\ posts' = posts \cup {req}
        /\ table' = table /\ lastId' = lastId + 1
    BY <1>16, Zenon DEF FlushPost
  <2>2. /\ new.commit.snap = lastId + 1 /\ new.batches = Prefix(flush.n)
        /\ req.id = lastId + 1 /\ req.stmts = StmtsOf(Prefix(flush.n))
    BY Zenon DEF Generation
  <2> HIDE DEF new, req
  <2>3. /\ \A h \in Observed(flushed, table) : \E g \in flushed :
             h.commit = g.commit /\ h.batches = g.batches
        /\ \A h \in Observed(flushed, table) : h.commit.snap \in Nat /\ h.commit.snap <= lastId
    BY <1>2, <1>5, Zenon DEF Kept
  <2>4. \A i \in table'.snaps : i <= lastId'
    BY <1>2, <2>1 DEF SnapsCarry
  <2>5. ASSUME NEW p \in posts'
        PROVE  /\ p.id # 0
               /\ \A g \in flushed' : p.id = g.commit.snap => StmtsOf(g.batches) \subseteq p.stmts
    <3>1. CASE p = req
      BY <1>2, <2>1, <2>2, <2>3, <3>1
    <3>2. CASE p \in posts
      <4>1. p.id # lastId + 1 /\ p.id # 0
        BY <1>2, <3>2 DEF SnapsCarry
      <4> QED BY <2>1, <2>2, <2>3, <3>2, <4>1, Zenon DEF SnapsCarry
    <3> QED BY <2>1, <3>1, <3>2, Zenon
  <2>6. lastId + 1 \notin table.snaps
    BY <1>2 DEF SnapsCarry
  <2>7. ASSUME NEW g \in flushed', g.commit.snap # 0, g.commit.snap \in table'.snaps,
               NEW s \in Stmts, s \in StmtsOf(g.batches)
        PROVE  Applied(s)'
    <3>1. g \in Observed(flushed, table)
      BY <2>1, <2>2, <2>6, <2>7, Zenon
    <3> QED BY <2>1, <2>3, <2>7, <3>1, Zenon DEF SnapsCarry, Applied
  <2> QED BY <2>4, <2>5, <2>7, Zenon DEF SnapsCarry
<1>17. CASE CatalogApply
  <2>1. PICK p \in posts : CatalogProcess(p)
    BY <1>17, Zenon DEF CatalogApply
  <2>2. posts' = posts \ {p} /\ UNCHANGED <<flushed, lastId>>
    BY <2>1, Zenon DEF CatalogProcess, bufferVars
  <2>3. CASE p.base # table.head
    BY <1>3, <1>4, <2>1, <2>2, <2>3, Zenon DEF CatalogProcess
  <2>4. CASE p.base = table.head
    <3>1. /\ table'.snaps = table.snaps \cup {p.id}
          /\ table'.rows = [s \in Stmts |-> table.rows[s] + IF s \in p.stmts THEN 1 ELSE 0]
      BY <2>1, <2>4, Zenon DEF CatalogProcess
    <3>2. \A s \in Stmts : table.rows[s] >= 1 \/ s \in p.stmts => table'.rows[s] >= 1
      BY <1>2, <3>1
    <3>3. \A i \in table'.snaps : i <= lastId'
      BY <1>2, <2>2, <3>1, Zenon DEF SnapsCarry
    <3>4. ASSUME NEW g \in flushed, g.commit.snap # 0, g.commit.snap \in table'.snaps,
                 NEW s \in Stmts, s \in StmtsOf(g.batches)
          PROVE  table'.rows[s] >= 1
      BY <3>1, <3>2, <3>4, Zenon DEF SnapsCarry, Applied
    <3> QED BY <2>2, <3>3, <3>4, Zenon DEF SnapsCarry, Applied
  <2> QED BY <2>3, <2>4, Zenon
<1> QED
  BY <1>6, <1>7, <1>8, <1>9, <1>10, <1>11, <1>12, <1>13, <1>14, <1>15, <1>16, <1>17, Zenon DEF Next

\* The overlay of the scan has s.
Overlaid(s) == \/ s \in StmtsOf(pending)
               \/ \E g \in flushed : s \in StmtsOf(g.batches) /\ ~Contained(scan, g.commit)

\* A scan that loaded its metadata shows or overlays every owed statement.
ScanWhole ==
  scan # NoMeta =>
    /\ up /\ nextSeq > scan.mark
    /\ \A i \in scan.snaps : i <= lastId
    /\ \A s \in Stmts : Owed(s) => /\ seqOf[s] <= scan.mark => scan.rows[s] >= 1
                                   /\ scan.rows[s] >= 1 \/ Overlaid(s)

NoGap == Intact /\ "outage" \notin happened

\* What a scan has just loaded, with what is buffered, is whole.
LEMMA ScanLoadWhole ==
  ASSUME DurableInv, SnapsCarry, Intact, ScanLoad
  PROVE  ScanWhole'
<1>1. /\ TypeOK /\ FramesWellFormed /\ FlusherConsistent
      /\ OwedFramed /\ NumberingAbove /\ OwedBuffered
  BY Zenon DEF DurableInv, Bookkeeping, NothingLost
<1>2. /\ up /\ scan' = table
      /\ UNCHANGED <<up, table, nextSeq, lastId, status, seqOf, pending, flushed>>
  BY Zenon DEF ScanLoad, catalogVars, bufferVars, clientVars
<1>3. Watermark \in Nat /\ table.mark <= Watermark /\ table.mark \in Nat /\ nextSeq \in Nat
  BY <1>1 DEF TypeOK, Metas, Watermark, Max2
<1>4. nextSeq > table.mark
  BY <1>1, <1>2, <1>3 DEF NumberingAbove
<1>5. ASSUME NEW s \in Stmts, Owed(s), seqOf[s] <= table.mark PROVE table.rows[s] >= 1
  <2>1. ASSUME NEW f \in frames, f.stmt = s, f.seq > Watermark PROVE FALSE
    <3>1. f.seq = seqOf[s] /\ f.seq \in Nat
      BY <1>1, <2>1, Zenon DEF FramesWellFormed, TypeOK, Frames
    <3> QED BY <1>3, <1>5, <2>1, <3>1
  <2> QED BY <1>1, <1>5, <2>1, Zenon DEF OwedFramed, Applied
<1>6. ASSUME NEW s \in Stmts, Owed(s), ~(table.rows[s] >= 1), s \notin StmtsOf(pending)
      PROVE  \E g \in flushed : s \in StmtsOf(g.batches) /\ ~Contained(table, g.commit)
  <2>1. PICK g \in OwnGenerations : InFlight /\ s \in StmtsOf(g.batches)
    BY <1>1, <1>2, <1>6, Zenon DEF OwedBuffered, Applied
  <2>2. g \in flushed /\ g.commit.snap # 0
    BY <1>1, <2>1, Zenon DEF OwnGenerations, FlusherConsistent
  <2>3. g.commit.snap \notin table.snaps
    BY <1>6, <2>1, <2>2, Zenon DEF SnapsCarry, Applied
  <2> QED BY <2>1, <2>2, <2>3, Zenon DEF Contained
<1>7. \A i \in table.snaps : i <= lastId
  BY Zenon DEF SnapsCarry
<1> QED BY <1>2, <1>4, <1>5, <1>6, <1>7, Zenon DEF ScanWhole, Owed, Overlaid

\* While the process is up its numbers only grow, and only a scan's own steps and a
\* crash touch the metadata it holds.
LEMMA RunningGrows ==
  ASSUME TypeOK, Next
  PROVE  \/ ScanLoad \/ ScanStale \/ ScanOverlay \/ Crash
         \/ /\ scan' = scan
            /\ up => /\ up' /\ nextSeq' \in Nat /\ nextSeq' >= nextSeq
                     /\ lastId' \in Nat /\ lastId' >= lastId
<1> DEFINE Runs == /\ scan' = scan
                   /\ up => /\ up' /\ nextSeq' \in {nextSeq, nextSeq + 1}
                            /\ lastId' \in {lastId, lastId + 1}
<1>1. ASSUME NEW s \in Stmts, Stage(s) \/ StageFails(s) \/ WaitOk(s) \/ WaitFails(s) PROVE Runs
  BY <1>1 DEF Stage, StageFails, WaitOk, WaitFails, bufferVars, scanVars
<1>2. ASSUME SyncFails \/ FlushNow \/ FlushSnapshot \/ FlushCovered \/ FlushPost PROVE Runs
  BY <1>2 DEF SyncFails, FlushNow, FlushSnapshot, FlushCovered, FlushPost, bufferVars, scanVars
<1>3. ASSUME FlushLoadFails \/ FlushCommitted \/ FlushConflict \/ FlushAmbiguous PROVE Runs
  BY <1>3 DEF FlushLoadFails, FlushCommitted, FlushConflict, FlushAmbiguous, bufferVars, scanVars
<1>4. ASSUME FlushReload \/ FlushReloadFails \/ CatalogApply PROVE Runs
  BY <1>4 DEF FlushReload, FlushReloadFails, CatalogApply, CatalogProcess, bufferVars, scanVars
<1>5. ASSUME ForeignCommit \/ ForeignPropertyDrop PROVE Runs
  BY <1>5 DEF ForeignCommit, ForeignPropertyDrop, bufferVars, scanVars
<1>6. ASSUME Boot \/ BootFrameless PROVE Runs
  BY <1>6, Zenon DEF Boot, BootFrameless, scanVars
<1>7. nextSeq \in Nat /\ lastId \in Nat
  BY Zenon DEF TypeOK
<1>8. Runs => /\ scan' = scan
              /\ up => /\ up' /\ nextSeq' \in Nat /\ nextSeq' >= nextSeq
                       /\ lastId' \in Nat /\ lastId' >= lastId
  BY <1>7
<1> HIDE DEF Runs
<1>9. \/ ScanLoad \/ ScanStale \/ ScanOverlay \/ Crash \/ Runs
  BY <1>1, <1>2, <1>3, <1>4, <1>5, <1>6, Zenon DEF Next
<1> QED BY <1>8, <1>9, Zenon

\* It stays so until the scan takes its overlay, whatever the flusher does meanwhile
\* (append, unroute_failed, move_pending_to_flushed_gen, move_flushed_back_to_pending,
\* gc_flushed, note_observed).
LEMMA ScanWholeStep ==
  ASSUME DurableInv, SnapsCarry, ScanWhole, NoGap, NoGap', Next
  PROVE  ScanWhole'
<1>1. /\ TypeOK /\ FlusherConsistent /\ IdsFresh /\ FramesWellFormed
  BY Zenon DEF DurableInv, Bookkeeping
<1>2. /\ pending \in Seq(Batches) /\ flushed \subseteq Generations /\ table \in Metas
      /\ scan \in Metas /\ nextSeq \in Nat /\ lastId \in Nat /\ flush \in FlusherStates
      /\ \A g \in flushed : g.batches \in Seq(Batches)
      /\ scan.mark \in Nat /\ \A i \in scan.snaps : i \in Nat
      /\ \A s \in Stmts : seqOf[s] \in Nat
  BY <1>1, Zenon DEF TypeOK, Generations, Metas
<1>3. CASE ScanLoad
  BY <1>3, ScanLoadWhole, Zenon DEF NoGap
<1>4. CASE scan' = NoMeta
  BY <1>4, Zenon DEF ScanWhole
<1>5. CASE ScanStale
  BY <1>5, Zenon DEF ScanStale, Fault, FaultOf, NoGap
<1>6. CASE ScanOverlay \/ Crash
  BY <1>4, <1>6, Zenon DEF ScanOverlay, Crash
<1> SUFFICES ASSUME scan # NoMeta, scan' = scan, ~ScanLoad, ~ScanStale, ~ScanOverlay, ~Crash,
                    up, nextSeq > scan.mark, \A i \in scan.snaps : i <= lastId
             PROVE  ScanWhole'
  BY <1>1, <1>3, <1>4, <1>5, <1>6, RunningGrows, Zenon DEF ScanWhole
<1>7. up' /\ nextSeq' \in Nat /\ nextSeq' >= nextSeq /\ lastId' \in Nat /\ lastId' >= lastId
  BY <1>1, RunningGrows, Zenon
<1>8. nextSeq' > scan'.mark /\ \A i \in scan'.snaps : i <= lastId'
  BY <1>2, <1>7
\* What was overlaid stays so.
<1>9. ASSUME NEW s \in Stmts, Owed(s), Owed(s)', ~(scan.rows[s] >= 1), Overlaid(s)
      PROVE  Overlaid(s)'
  <2> DEFINE Gen(g) == s \in StmtsOf(g.batches) /\ ~Contained(scan, g.commit)
  <2>1. s \in StmtsOf(pending) \/ \E g \in flushed : Gen(g)
    BY <1>9, Zenon DEF Overlaid
  <2>2. s \in StmtsOf(pending') \/ (\E g \in flushed' : Gen(g)) => Overlaid(s)'
    BY Zenon DEF Overlaid
  <2>3. \A m \in Metas : (\E g \in flushed : Gen(g)) => \E h \in Observed(flushed, m) : Gen(h)
    <3> SUFFICES ASSUME NEW m \in Metas, NEW g \in flushed, Gen(g)
                 PROVE  \E h \in Observed(flushed, m) : Gen(h)
      BY Zenon
    <3>1. PICK h \in Observed(flushed, m) : h.commit = g.commit /\ h.batches = g.batches
      BY <1>2, ObservedFacts
    <3> QED BY <3>1, Zenon
  <2> HIDE DEF Gen
  <2>4. ASSUME StmtsOf(pending) \subseteq StmtsOf(pending'), flushed \subseteq flushed'
        PROVE  Overlaid(s)'
    BY <2>1, <2>2, <2>4, Zenon
  <2>5. UNCHANGED <<pending, flushed>> => Overlaid(s)'
    BY <2>4, Zenon
  <2>6. ASSUME NEW t \in Stmts, Stage(t) PROVE Overlaid(s)'
    <3>1. StmtsOf(pending) \subseteq StmtsOf(pending')
      BY <1>1, <2>6, StageFacts, Zenon
    <3> QED BY <2>4, <2>6, <3>1, Zenon DEF Stage
  <2>7. ASSUME NEW t \in Stmts, StageFails(t) \/ WaitOk(t) PROVE Overlaid(s)'
    BY <2>5, <2>7, Zenon DEF StageFails, WaitOk, bufferVars
  <2>8. ASSUME NEW t \in Stmts, WaitFails(t) PROVE Overlaid(s)'
    <3>1. status[t] = "doomed" /\ flushed' = flushed
      BY <2>8, Zenon DEF WaitFails
    <3>2. s # t
      BY <1>9, <3>1, Zenon DEF Owed
    <3>3. StmtsOf(pending) \subseteq StmtsOf(pending') \cup {t}
      BY <1>1, <2>8, UnrouteFacts, Zenon
    <3> QED BY <2>1, <2>2, <3>1, <3>2, <3>3, Zenon
  <2>9. CASE SyncFails \/ FlushLoadFails \/ FlushCommitted \/ FlushAmbiguous \/ CatalogApply
             \/ ForeignCommit \/ ForeignPropertyDrop \/ Boot \/ BootFrameless
    BY <2>5, <2>9, Zenon DEF SyncFails, FlushLoadFails, FlushCommitted, FlushAmbiguous,
      CatalogApply, CatalogProcess, ForeignCommit, ForeignPropertyDrop, Boot, BootFrameless, bufferVars
  <2>10. CASE FlushNow
    <3>1. PICK aged \in SUBSET {g \in flushed : Expired(g)} : flushed' = flushed \ aged
      BY <2>10, Zenon DEF FlushNow
    <3>2. \A g \in flushed : Gen(g) => g \in flushed'
      BY <3>1, Zenon DEF Expired, Gen
    <3>3. pending' = pending
      BY <2>10, Zenon DEF FlushNow
    <3> QED BY <2>1, <2>2, <3>2, <3>3, Zenon
  <2>11. CASE FlushSnapshot
    <3>1. pending' = [i \in DOMAIN pending |-> Claim(pending[i])] /\ flushed' = flushed
      BY <2>11, Zenon DEF FlushSnapshot
    <3>2. StmtsOf(pending') = StmtsOf(pending)
      BY <1>2, <3>1, StmtsOfClaimed, Zenon
    <3> QED BY <2>4, <3>1, <3>2, Zenon
  <2>12. ASSUME flush.pc = "load", pending' = Suffix(flush.n),
                NEW new, new.batches = Prefix(flush.n),
                flushed' = Observed(flushed, table) \cup {new},
                s \in StmtsOf(Prefix(flush.n)) => ~Contained(scan, new.commit)
         PROVE  Overlaid(s)'
    <3>1. StmtsOf(pending) = StmtsOf(Prefix(flush.n)) \cup StmtsOf(Suffix(flush.n))
      BY <1>1, <2>12, MoveOutFacts, Zenon
    <3>2. CASE s \in StmtsOf(Prefix(flush.n))
      BY <2>2, <2>12, <3>2, Zenon DEF Gen
    <3>3. CASE s \in StmtsOf(Suffix(flush.n))
      BY <2>2, <2>12, <3>3, Zenon
    <3>4. CASE \E g \in flushed : Gen(g)
      BY <1>2, <2>2, <2>3, <2>12, <3>4, Zenon
    <3> QED BY <2>1, <3>1, <3>2, <3>3, <3>4, Zenon
  <2>13. CASE FlushCovered
    <3> DEFINE new == Generation([snap |-> 0, mark |-> flush.mark], Prefix(flush.n))
    <3>1. /\ flush.pc = "load" /\ pending' = Suffix(flush.n)
          /\ flushed' = Observed(flushed, table) \cup {new}
      BY <2>13, Zenon DEF FlushCovered
    <3>2. new.batches = Prefix(flush.n) /\ new.commit.snap = 0 /\ new.commit.mark = flush.mark
      BY Zenon DEF Generation
    <3> HIDE DEF new
    <3>3. ASSUME s \in StmtsOf(Prefix(flush.n)), scan.mark >= flush.mark PROVE FALSE
      <4>1. seqOf[s] <= flush.mark /\ flush.mark \in Nat
        BY <1>1, <3>1, <3>3, MoveOutFacts, Zenon
      <4>2. seqOf[s] <= scan.mark
        BY <1>2, <3>3, <4>1
      <4> QED BY <1>9, <4>2, Zenon DEF ScanWhole
    <3>4. s \in StmtsOf(Prefix(flush.n)) => ~Contained(scan, new.commit)
      BY <3>2, <3>3, Zenon DEF Contained
    <3> QED BY <2>12, <3>1, <3>2, <3>4, Zenon
  <2>14. CASE FlushPost
    <3> DEFINE new == Generation([snap |-> lastId + 1, mark |-> 0], Prefix(flush.n))
    <3>1. /\ flush.pc = "load" /\ pending' = Suffix(flush.n)
          /\ flushed' = Observed(flushed, table) \cup {new}
      BY <2>14, Zenon DEF FlushPost
    <3>2. new.batches = Prefix(flush.n) /\ new.commit.snap = lastId + 1
      BY Zenon DEF Generation
    <3> HIDE DEF new
    <3>3. lastId + 1 \notin scan.snaps /\ lastId + 1 # 0
      BY <1>2
    <3>4. ~Contained(scan, new.commit)
      BY <3>2, <3>3, Zenon DEF Contained
    <3> QED BY <2>12, <3>1, <3>2, <3>4, Zenon
  <2>15. ASSUME InFlight, MoveBack(flush.id) PROVE Overlaid(s)'
    <3>1. PICK g \in flushed : /\ flushed' = flushed \ {g}
                               /\ StmtsOf(pending') = StmtsOf(g.batches) \cup StmtsOf(pending)
      BY <1>1, <2>15, MoveBackFacts, Zenon
    <3> QED BY <2>1, <2>2, <3>1, Zenon DEF Gen
  <2>16. CASE FlushConflict \/ FlushReload \/ FlushReloadFails
    <3>1. InFlight /\ (UNCHANGED <<flushed, pending>> \/ MoveBack(flush.id))
      BY <2>16, Zenon DEF FlushConflict, FlushReload, FlushReloadFails, InFlight
    <3> QED BY <2>5, <2>15, <3>1, Zenon
  <2> QED
    BY <2>6, <2>7, <2>8, <2>9, <2>10, <2>11, <2>13, <2>14, <2>16, Zenon DEF Next
<1>10. ASSUME NEW s \in Stmts, Owed(s)'
       PROVE  /\ seqOf'[s] <= scan.mark => scan.rows[s] >= 1
              /\ scan.rows[s] >= 1 \/ Overlaid(s)'
  <2>1. CASE Stage(s)
    <3>1. seqOf'[s] = nextSeq
      BY <1>1, <2>1, Zenon DEF Stage, TypeOK
    <3>2. s \in StmtsOf(pending')
      BY <1>1, <2>1, StageFacts, Zenon
    <3> QED BY <1>2, <3>1, <3>2 DEF Overlaid
  <2>2. CASE ~Stage(s)
    <3>1. Owed(s) /\ seqOf'[s] = seqOf[s]
      BY <1>1, <1>10, <2>2, OwedFacts, Zenon
    <3> QED BY <1>9, <1>10, <3>1, Zenon DEF ScanWhole
  <2> QED BY <2>1, <2>2, Zenon
<1> QED BY <1>7, <1>8, <1>10, Zenon DEF ScanWhole

\* A process keeps finitely many generations.
LEMMA FinitelyFlushed ==
  ASSUME TypeOK, IsFiniteSet(flushed), Next
  PROVE  IsFiniteSet(flushed')
<1>1. ASSUME NEW m PROVE IsFiniteSet(Observed(flushed, m))
  <2> DEFINE f == [g \in flushed |-> Observe(g, m)]
  <2>1. f \in Surjection(flushed, Observed(flushed, m))
    BY Zenon DEF Surjection, Observed
  <2> QED BY <2>1, FS_Surjection, Zenon
<1>2. flushed' \subseteq flushed => IsFiniteSet(flushed')
  BY FS_Subset, Zenon
<1>3. \A x : IsFiniteSet(Observed(flushed, table) \cup {x})
  BY <1>1, FS_AddElement, Zenon
<1>4. ASSUME NEW s \in Stmts, Stage(s) \/ StageFails(s) \/ WaitOk(s) \/ WaitFails(s)
      PROVE  IsFiniteSet(flushed')
  BY <1>4, Zenon DEF Stage, StageFails, WaitOk, WaitFails, bufferVars
<1>5. CASE SyncFails \/ FlushSnapshot \/ FlushLoadFails \/ FlushCommitted \/ FlushAmbiguous
           \/ CatalogApply
  BY <1>5, Zenon DEF SyncFails, FlushSnapshot, FlushLoadFails, FlushCommitted, FlushAmbiguous,
    CatalogApply, CatalogProcess, bufferVars
<1>6. CASE ForeignCommit \/ ForeignPropertyDrop \/ Boot \/ BootFrameless \/ ScanLoad \/ ScanStale
  BY <1>6, Zenon DEF ForeignCommit, ForeignPropertyDrop, Boot, BootFrameless, ScanLoad, ScanStale,
    bufferVars
<1>7. CASE FlushNow
  BY <1>2, <1>7, Zenon DEF FlushNow
<1>8. CASE FlushConflict \/ FlushReload \/ FlushReloadFails
  BY <1>2, <1>8, Zenon DEF FlushConflict, FlushReload, FlushReloadFails, MoveBack
<1>9. CASE FlushCovered \/ FlushPost
  BY <1>3, <1>9, Zenon DEF FlushCovered, FlushPost
<1>10. CASE ScanOverlay
  BY <1>1, <1>10, Zenon DEF ScanOverlay
<1>11. CASE Crash
  BY <1>2, <1>11, Zenon DEF Crash
<1> QED
  BY <1>4, <1>5, <1>6, <1>7, <1>8, <1>9, <1>10, <1>11, Zenon DEF Next

\* What the metadata shows or the overlay has is visible.
LEMMA OverlaidVisible ==
  ASSUME TypeOK, IsFiniteSet(flushed), NEW s \in Stmts, scan.rows[s] >= 1 \/ Overlaid(s)
  PROVE  Visible(scan, s) >= 1
<1> DEFINE P == {i \in DOMAIN pending : pending[i].stmt = s}
           G == {g \in flushed : ~Contained(scan, g.commit) /\ s \in StmtsOf(g.batches)}
<1>1. scan.rows[s] \in Nat
  BY Zenon DEF TypeOK, Metas
<1>2. Cardinality(P) \in Nat /\ (P # {} => Cardinality(P) # 0)
  <2>1. DOMAIN pending = 1 .. Len(pending) /\ Len(pending) \in Nat
    BY DEF TypeOK
  <2>2. IsFiniteSet(P)
    <3>1. IsFiniteSet(1 .. Len(pending))
      BY <2>1, FS_Interval
    <3>2. P \in SUBSET (1 .. Len(pending))
      BY <2>1, Zenon
    <3> QED BY <3>1, <3>2, FS_Subset, Zenon
  <2> HIDE DEF P
  <2> QED BY <2>2, FS_CardinalityType, FS_EmptySet, Zenon
<1>3. Cardinality(G) \in Nat /\ (G # {} => Cardinality(G) # 0)
  <2>1. IsFiniteSet(G)
    BY FS_Subset, Zenon
  <2> HIDE DEF G
  <2> QED BY <2>1, FS_CardinalityType, FS_EmptySet, Zenon
<1>4. scan.rows[s] >= 1 \/ P # {} \/ G # {}
  BY Zenon DEF Overlaid, StmtsOf
<1>5. Visible(scan, s) = scan.rows[s] + Cardinality(P) + Cardinality(G)
  BY Zenon DEF Visible
<1> HIDE DEF P, G
<1> QED BY <1>1, <1>2, <1>3, <1>4, <1>5

\* The inductive invariant of the union read's completeness.
WholeInv == DurableInv /\ SnapsCarry /\ IsFiniteSet(flushed) /\ (NoGap => ScanWhole)

\* WholeInv holds in every state.
LEMMA WholeAlways == Spec => []WholeInv
<1>1. ASSUME Init PROVE WholeInv
  <2>1. /\ flushed = {} /\ posts = {} /\ scan = NoMeta /\ table.snaps = {0} /\ lastId = 0
    BY <1>1, Zenon DEF Init
  <2>2. SnapsCarry /\ ScanWhole
    BY <2>1 DEF SnapsCarry, ScanWhole
  <2> QED BY <1>1, <2>1, <2>2, DurableInit, FS_EmptySet, Zenon DEF WholeInv
<1>2. ASSUME WholeInv, Next PROVE WholeInv'
  <2>1. DurableInv /\ DurableInv' /\ Bookkeeping /\ TypeOK /\ IsFiniteSet(frames)
    BY <1>2, DurableStep, Zenon DEF WholeInv, DurableInv, Bookkeeping, FramesWellFormed
  <2>2. happened \subseteq happened'
    BY <1>2, <2>1, HappenedGrows, Zenon
  <2>3. NoGap' => NoGap
    BY <2>2, Zenon DEF NoGap, Intact, NoReusedSequence
  <2>4. SnapsCarry' /\ IsFiniteSet(flushed)'
    BY <1>2, <2>1, SnapsCarryStep, FinitelyFlushed, Zenon DEF WholeInv
  <2>5. NoGap' => ScanWhole'
    BY <1>2, <2>1, <2>3, ScanWholeStep, Zenon DEF WholeInv
  <2> QED BY <2>1, <2>4, <2>5, Zenon DEF WholeInv
<1>3. ASSUME WholeInv, UNCHANGED vars PROVE WholeInv'
  <2>1. UNCHANGED <<table, posts, pending, flushed, up, nextSeq, lastId, scan, status, seqOf,
                    happened>>
    BY <1>3, Zenon DEF vars, catalogVars, bufferVars, scanVars, clientVars, faultVars
  <2>2. DurableInv'
    BY <1>3, DurableStep, Zenon DEF WholeInv
  <2>3. SnapsCarry' = SnapsCarry /\ IsFiniteSet(flushed)' = IsFiniteSet(flushed)
    BY <2>1, Zenon DEF SnapsCarry, Applied
  <2>4. NoGap' = NoGap /\ ScanWhole' = ScanWhole
    BY <2>1, Zenon DEF NoGap, Intact, NoReusedSequence, ScanWhole, Owed, Overlaid
  <2> QED BY <1>3, <2>2, <2>3, <2>4, Zenon DEF WholeInv
<1> QED BY <1>1, <1>2, <1>3, PTL DEF Spec

\* A scan that loaded its metadata returns every row acknowledged by the time it takes
\* its overlay, however flushes, re-queues, late commits and garbage collection went on
\* since the load (overlay_with, move_pending_to_flushed_gen, gc_flushed).
THEOREM UnionReadsAll == Spec => []UnionReadComplete
<1>1. WholeInv => UnionReadComplete
  <2> SUFFICES ASSUME WholeInv, scan # NoMeta, NoGap, NEW s \in Stmts, status[s] = "acked"
               PROVE  Visible(scan, s) >= 1
    BY Zenon DEF UnionReadComplete, NoGap
  <2>1. scan.rows[s] >= 1 \/ Overlaid(s)
    BY Zenon DEF WholeInv, ScanWhole, Owed
  <2> QED BY <2>1, OverlaidVisible, Zenon DEF WholeInv, DurableInv, Bookkeeping
<1> QED BY <1>1, WholeAlways, PTL
=============================================================================
