-------------------------- MODULE WriteBufferTypes --------------------------
(*****************************************************************************)
(* The bookkeeping that makes TypeOK inductive in WriteBuffer, facts about   *)
(* the operators and the updates of the model, and what every step keeps:    *)
(* types, the flusher's view of the buffer, and one batch per statement.     *)
(*****************************************************************************)
EXTENDS WriteBuffer, FiniteSetTheorems, TLAPS

\* The flusher has drawn a mark and has not finished with it.
Marked == flush.pc \in {"load", "posted", "reload"}

\* The flusher's generation is out of `pending` and its fate is open.
InFlight == flush.pc \in {"posted", "reload"}

\* The generation the flusher moved out of `pending`.
OwnGenerations == {g \in flushed : g.commit.snap = flush.id}

----------------------------------------------------------------------------
\* Bookkeeping that holds in every behaviour.

\* A frame carries the sequence its statement was staged with.
FramesWellFormed ==
  /\ IsFiniteSet(frames)
  /\ \A f \in frames : /\ f.seq = seqOf[f.stmt] /\ status[f.stmt] # "new"
                       /\ status[f.stmt] = "staged" => Ours(f)

\* A process that is down has an empty memory, and no client waits for it.
DownIsEmpty ==
  ~up => /\ pending = <<>> /\ flushed = {} /\ tailHigh = 0 /\ flush = Idle
         /\ \A s \in Stmts : status[s] \notin {"staged", "doomed"}
         /\ "late_post" \notin happened => posts = {}

\* Every buffered statement was staged, at a sequence up to tail_high.
BufferedBelowTailHigh ==
  /\ pending # <<>> => tailHigh # 0
  /\ up => tailHigh < nextSeq
  /\ \A s \in StmtsOf(pending) : status[s] # "new" /\ seqOf[s] <= tailHigh
  /\ \A g \in flushed : \A s \in StmtsOf(g.batches) : status[s] # "new"

\* What the flusher claimed is a prefix of `pending`, or a generation that only
\* it refers to, with all its sequences up to its mark.
FlusherConsistent ==
  /\ Marked => tailHigh # 0 /\ flush.mark <= tailHigh
  /\ flush.pc = "load" =>
       /\ flush.n <= Len(pending)
       /\ \A i \in 1 .. flush.n : /\ pending[i].claimed
                                  /\ seqOf[pending[i].stmt] <= flush.mark
  /\ InFlight => /\ flush.id # 0
                 /\ \A g \in OwnGenerations : \A s \in StmtsOf(g.batches) :
                      seqOf[s] <= flush.mark

\* Snapshot ids are fresh: a generation and a request are named by theirs.
IdsFresh ==
  /\ flush.id <= lastId
  /\ \A g \in flushed : g.commit.snap <= lastId
  /\ \A g, h \in flushed : g.commit.snap = h.commit.snap /\ g.commit.snap # 0 => g = h
  /\ \A p \in posts : p.id <= lastId
  /\ flush.pc = "posted" =>
       \A p \in posts : p.id = flush.id => p.stamp >= flush.mark

Bookkeeping == /\ TypeOK /\ FramesWellFormed /\ DownIsEmpty
               /\ BufferedBelowTailHigh /\ FlusherConsistent /\ IdsFresh

----------------------------------------------------------------------------
\* Facts about the operators the model is built from.

\* A statement is in a sequence of batches if some batch is its.
LEMMA StmtsOfIndex ==
  ASSUME NEW q \in Seq(Batches)
  PROVE  /\ DOMAIN q = 1 .. Len(q) /\ Len(q) \in Nat
         /\ \A i \in 1 .. Len(q) : q[i] \in Batches /\ q[i].stmt \in Stmts
         /\ \A s : s \in StmtsOf(q) <=> \E i \in 1 .. Len(q) : s = q[i].stmt
         /\ StmtsOf(q) \subseteq Stmts
<1>1. DOMAIN q = 1 .. Len(q) /\ \A i \in 1 .. Len(q) : q[i] \in Batches
  OBVIOUS
<1>2. \A s : s \in StmtsOf(q) <=> \E i \in 1 .. Len(q) : s = q[i].stmt
  BY <1>1, Zenon DEF StmtsOf
<1>3. \A i \in 1 .. Len(q) : q[i].stmt \in Stmts
  BY <1>1, Zenon DEF Batches
<1>. QED
  BY <1>1, <1>2, <1>3

\* The statements of a sequence are unaffected by marking it claimed.
LEMMA StmtsOfClaimed ==
  ASSUME NEW q \in Seq(Batches), NEW r, r = [i \in DOMAIN q |-> Claim(q[i])]
  PROVE  /\ r \in Seq(Batches) /\ Len(r) = Len(q)
         /\ StmtsOf(r) = StmtsOf(q)
         /\ \A i \in 1 .. Len(q) : r[i].claimed /\ r[i].stmt = q[i].stmt
<1>1. \A b \in Batches : /\ Claim(b) \in Batches
                         /\ Claim(b).claimed /\ Claim(b).stmt = b.stmt
  BY Zenon DEF Claim, Batches
<1>2. r = [i \in 1 .. Len(q) |-> Claim(q[i])]
  OBVIOUS
<1>3. \A i \in 1 .. Len(q) : /\ r[i] \in Batches
                             /\ r[i].claimed /\ r[i].stmt = q[i].stmt
  BY <1>1, <1>2
<1>4. r \in Seq(Batches) /\ Len(r) = Len(q)
  BY <1>2, <1>3
<1>5. DOMAIN r = 1 .. Len(q) /\ DOMAIN q = 1 .. Len(q)
  BY <1>2, Zenon
<1>6. StmtsOf(r) = StmtsOf(q)
  BY <1>3, <1>5, Zenon DEF StmtsOf
<1>. QED
  BY <1>3, <1>4, <1>6, Zenon

\* The batches a are those of q and b.
Appends(q, b, a) ==
  /\ a \in Seq(Batches) /\ a # <<>> /\ Len(a) = Len(q) + 1
  /\ \A i \in 1 .. Len(q) : a[i] = q[i]
  /\ a[Len(q) + 1] = b
  /\ StmtsOf(a) = StmtsOf(q) \cup {b.stmt}

\* Staging a batch adds its statement.
LEMMA StmtsOfAppend ==
  ASSUME NEW q \in Seq(Batches), NEW b \in Batches, NEW a, a = Append(q, b)
  PROVE  Appends(q, b, a)
<1>1. /\ a \in Seq(Batches) /\ a # <<>> /\ Len(a) = Len(q) + 1
      /\ \A i \in 1 .. Len(q) : a[i] = q[i]
      /\ a[Len(q) + 1] = b
  OBVIOUS
<1>2. /\ DOMAIN q = 1 .. Len(q)
      /\ \A i : i \in DOMAIN a <=> i \in 1 .. Len(q) \/ i = Len(q) + 1
  BY <1>1
<1>3. \A s : s \in StmtsOf(a) <=> s \in StmtsOf(q) \/ s = b.stmt
  BY <1>1, <1>2, Zenon DEF StmtsOf
<1>. QED
  BY <1>1, <1>3, Zenon DEF Appends

\* A re-queued generation and the queue behind it make one queue, and none is lost.
LEMMA ConcatFacts ==
  ASSUME NEW q \in Seq(Batches), NEW r \in Seq(Batches), NEW c, c = q \o r
  PROVE  c \in Seq(Batches) /\ Len(c) = Len(q) + Len(r)
OBVIOUS

\* Re-queueing a generation adds its statements.
LEMMA StmtsOfConcat ==
  ASSUME NEW q \in Seq(Batches), NEW r \in Seq(Batches), NEW c, c = q \o r
  PROVE  /\ c \in Seq(Batches)
         /\ StmtsOf(c) = StmtsOf(q) \cup StmtsOf(r)
<1>1. /\ c \in Seq(Batches) /\ Len(c) = Len(q) + Len(r)
      /\ \A i \in 1 .. Len(q) : c[i] = q[i]
      /\ \A i \in 1 .. Len(r) : c[Len(q) + i] = r[i]
  OBVIOUS
<1>2. ASSUME NEW i \in 1 .. Len(q) + Len(r), i \notin 1 .. Len(q)
      PROVE  \E j \in 1 .. Len(r) : c[i].stmt = r[j].stmt
  <2>1. i - Len(q) \in 1 .. Len(r) /\ i = Len(q) + (i - Len(q))
    BY <1>2
  <2>. QED
    BY <2>1, <1>1, Zenon
<1>3. /\ DOMAIN c = 1 .. Len(q) + Len(r)
      /\ DOMAIN q = 1 .. Len(q) /\ DOMAIN r = 1 .. Len(r)
  BY <1>1
<1>4. \A s : s \in StmtsOf(c) => s \in StmtsOf(q) \/ s \in StmtsOf(r)
  BY <1>1, <1>2, <1>3 DEF StmtsOf
<1>5. ASSUME NEW i \in 1 .. Len(r)
      PROVE  \E j \in 1 .. Len(q) + Len(r) : r[i].stmt = c[j].stmt
  <2>1. Len(q) + i \in 1 .. Len(q) + Len(r)
    OBVIOUS
  <2>. QED
    BY <1>1, <2>1, Zenon
<1>6. \A i \in 1 .. Len(q) : i \in 1 .. Len(q) + Len(r)
  OBVIOUS
<1>7. \A s : s \in StmtsOf(q) => s \in StmtsOf(c)
  BY <1>1, <1>3, <1>6, Zenon DEF StmtsOf
<1>8. ASSUME NEW s \in StmtsOf(r) PROVE s \in StmtsOf(c)
  <2>1. PICK i \in 1 .. Len(r) : s = r[i].stmt
    BY <1>3, Zenon DEF StmtsOf
  <2>2. PICK j \in 1 .. Len(q) + Len(r) : s = c[j].stmt
    BY <1>5, <2>1, Zenon
  <2>. QED
    BY <1>3, <2>2, Zenon DEF StmtsOf
<1>. QED
  BY <1>1, <1>4, <1>7, <1>8, Zenon

\* The batches a and b are those of q up to n and behind it.
Splits(q, n, a, b) ==
  /\ a \in Seq(Batches) /\ b \in Seq(Batches)
  /\ \A s : s \in StmtsOf(a) <=> \E i \in 1 .. n : s = q[i].stmt
  /\ \A s : s \in StmtsOf(b) <=> \E i \in n + 1 .. Len(q) : s = q[i].stmt
  /\ StmtsOf(q) = StmtsOf(a) \cup StmtsOf(b)

\* The flusher's prefix and what is behind it are all of `pending`.
LEMMA StmtsOfSplit ==
  ASSUME NEW q \in Seq(Batches), NEW n \in Nat, n <= Len(q),
         NEW a, a = SubSeq(q, 1, n), NEW b, b = SubSeq(q, n + 1, Len(q))
  PROVE  Splits(q, n, a, b)
<1>1. /\ a \in Seq(Batches) /\ Len(a) = n /\ \A i \in 1 .. n : a[i] = q[i]
      /\ b \in Seq(Batches) /\ Len(b) = Len(q) - n
      /\ \A i \in 1 .. Len(q) - n : b[i] = q[n + i]
  OBVIOUS
<1>2. /\ DOMAIN a = 1 .. n /\ DOMAIN b = 1 .. Len(q) - n /\ DOMAIN q = 1 .. Len(q)
      /\ \A i : i \in 1 .. Len(q) <=> i \in 1 .. n \/ i \in n + 1 .. Len(q)
  BY <1>1
<1>3. \A s : s \in StmtsOf(a) <=> \E i \in 1 .. n : s = q[i].stmt
  BY <1>1, <1>2, Zenon DEF StmtsOf
<1>4. \A s : s \in StmtsOf(b) <=> \E i \in n + 1 .. Len(q) : s = q[i].stmt
  <2>1. ASSUME NEW i \in 1 .. Len(q) - n
        PROVE  \E j \in n + 1 .. Len(q) : b[i].stmt = q[j].stmt
    <3>1. n + i \in n + 1 .. Len(q) /\ b[i] = q[n + i]
      BY <1>1
    <3>. QED
      BY <3>1, Zenon
  <2>2. ASSUME NEW j \in n + 1 .. Len(q)
        PROVE  \E i \in 1 .. Len(q) - n : q[j].stmt = b[i].stmt
    <3>1. j - n \in 1 .. Len(q) - n /\ q[j] = b[j - n]
      BY <1>1
    <3>. QED
      BY <3>1, Zenon
  <2>3. \A s : s \in StmtsOf(b) <=> \E i \in 1 .. Len(q) - n : s = b[i].stmt
    BY <1>2, Zenon DEF StmtsOf
  <2>. SUFFICES ASSUME NEW s
                PROVE  s \in StmtsOf(b) <=> \E j \in n + 1 .. Len(q) : s = q[j].stmt
    BY Zenon
  <2>4. ASSUME s \in StmtsOf(b) PROVE \E j \in n + 1 .. Len(q) : s = q[j].stmt
    <3>1. PICK i \in 1 .. Len(q) - n : s = b[i].stmt
      BY <2>3, <2>4, Zenon
    <3>2. \E j \in n + 1 .. Len(q) : b[i].stmt = q[j].stmt
      BY <2>1, Zenon
    <3>. QED
      BY <3>1, <3>2, Zenon
  <2>5. ASSUME NEW j \in n + 1 .. Len(q), s = q[j].stmt PROVE s \in StmtsOf(b)
    BY <2>2, <2>3, <2>5, Zenon
  <2>. QED
    BY <2>4, <2>5, Zenon
<1>5. \A s : s \in StmtsOf(q) <=> \E i \in 1 .. Len(q) : s = q[i].stmt
  BY <1>2, Zenon DEF StmtsOf
<1>6. \A s : s \in StmtsOf(q) <=> s \in StmtsOf(a) \/ s \in StmtsOf(b)
  BY <1>2, <1>3, <1>4, <1>5, Zenon
<1>. QED
  BY <1>1, <1>3, <1>4, <1>6, Zenon DEF Splits

\* The batches w are those of q but the i-th.
Removes(q, i, w) ==
  /\ w \in Seq(Batches) /\ Len(w) = Len(q) - 1
  /\ \A j \in 1 .. i - 1 : w[j] = q[j]
  /\ \A j \in i .. Len(q) - 1 : w[j] = q[j + 1]
  /\ StmtsOf(w) \subseteq StmtsOf(q)
  /\ StmtsOf(q) \subseteq StmtsOf(w) \cup {q[i].stmt}

\* Taking a batch out removes at most its own statement and shifts the rest.
LEMMA StmtsOfWithoutAt ==
  ASSUME NEW q \in Seq(Batches), NEW i \in 1 .. Len(q), NEW w, w = WithoutAt(q, i)
  PROVE  Removes(q, i, w)
<1> DEFINE a == SubSeq(q, 1, i - 1)
           b == SubSeq(q, i + 1, Len(q))
<1>1. /\ a \in Seq(Batches) /\ Len(a) = i - 1 /\ \A j \in 1 .. i - 1 : a[j] = q[j]
      /\ b \in Seq(Batches) /\ Len(b) = Len(q) - i
      /\ \A j \in 1 .. Len(q) - i : b[j] = q[i + j]
  OBVIOUS
<1>2. w = a \o b
  BY Zenon DEF WithoutAt
<1> HIDE DEF a, b
<1>3. /\ w \in Seq(Batches) /\ Len(w) = Len(q) - 1
      /\ \A j \in 1 .. i - 1 : w[j] = q[j]
      /\ \A j \in i .. Len(q) - 1 : w[j] = q[j + 1]
  <2>1. w \in Seq(Batches) /\ Len(w) = Len(q) - 1
    <3>1. a \in Seq(Batches) /\ b \in Seq(Batches) /\ Len(a) = i - 1 /\ Len(b) = Len(q) - i
      BY <1>1, Zenon
    <3>2. w \in Seq(Batches) /\ Len(w) = Len(a) + Len(b)
      BY <1>2, <3>1, ConcatFacts, Zenon
    <3>3. Len(q) \in Nat
      OBVIOUS
    <3> QED BY <3>1, <3>2, <3>3
  <2>2. ASSUME NEW j \in 1 .. i - 1 PROVE w[j] = q[j]
    BY <1>1, <1>2
  <2>3. ASSUME NEW j \in i .. Len(q) - 1 PROVE w[j] = q[j + 1]
    <3>1. /\ j - (i - 1) \in 1 .. Len(q) - i
          /\ i + (j - (i - 1)) = j + 1
      OBVIOUS
    <3>2. w[j] = b[j - (i - 1)]
      BY <1>1, <1>2
    <3>. QED
      BY <1>1, <3>1, <3>2, Zenon
  <2>. QED
    BY <2>1, <2>2, <2>3, Zenon
<1>4. DOMAIN w = 1 .. Len(q) - 1 /\ DOMAIN q = 1 .. Len(q)
  BY <1>3
<1>5. ASSUME NEW j \in 1 .. Len(q) - 1
      PROVE  \E k \in 1 .. Len(q) : w[j].stmt = q[k].stmt
  <2>1. CASE j < i
    BY <2>1, <1>3
  <2>2. CASE j >= i
    BY <2>2, <1>3
  <2>. QED
    BY <2>1, <2>2
<1>6. ASSUME NEW j \in 1 .. Len(q), j # i
      PROVE  \E k \in 1 .. Len(q) - 1 : q[j].stmt = w[k].stmt
  <2>1. CASE j < i
    BY <2>1, <1>3
  <2>2. CASE j > i
    <3>1. j - 1 \in i .. Len(q) - 1 /\ (j - 1) + 1 = j /\ j - 1 \in 1 .. Len(q) - 1
      BY <2>2
    <3>. QED
      BY <3>1, <1>3, Zenon
  <2>. QED
    BY <1>6, <2>1, <2>2
<1>7. ASSUME NEW s \in StmtsOf(w) PROVE s \in StmtsOf(q)
  <2>1. PICK j \in 1 .. Len(q) - 1 : s = w[j].stmt
    BY <1>4, Zenon DEF StmtsOf
  <2>2. PICK k \in 1 .. Len(q) : s = q[k].stmt
    BY <2>1, <1>5, Zenon
  <2>. QED
    BY <2>2, <1>4, Zenon DEF StmtsOf
<1>8. ASSUME NEW s \in StmtsOf(q), s # q[i].stmt PROVE s \in StmtsOf(w)
  <2>1. PICK j \in 1 .. Len(q) : s = q[j].stmt
    BY <1>4, Zenon DEF StmtsOf
  <2>2. PICK k \in 1 .. Len(q) - 1 : s = w[k].stmt
    BY <2>1, <1>6, <1>8, Zenon
  <2>. QED
    BY <2>2, <1>4, Zenon DEF StmtsOf
<1>. QED
  BY <1>3, <1>7, <1>8, Zenon DEF Removes

\* An fsync keeps every frame and forgets no earlier fsync.
LEMMA SyncFacts ==
  ASSUME NEW F \in SUBSET Frames, IsFiniteSet(F), NEW S \in SUBSET F,
         NEW G, G = AfterSync(F, S)
  PROVE  /\ G \in SUBSET Frames /\ IsFiniteSet(G)
         /\ \A g \in G : \E f \in F : f.seq = g.seq /\ f.stmt = g.stmt /\ f.age = g.age
         /\ \A f \in F : \E g \in G : /\ g.seq = f.seq /\ g.stmt = f.stmt /\ g.age = f.age
                                      /\ f.synced \/ f \in S => g.synced
<1> DEFINE Synced(f) == [f EXCEPT !.synced = TRUE]
<1>1. \A f \in Frames : /\ Synced(f) \in Frames /\ Synced(f).synced
                        /\ Synced(f).seq = f.seq /\ Synced(f).stmt = f.stmt
                        /\ Synced(f).age = f.age
  BY Zenon DEF Frames
<1> DEFINE h == [f \in F |-> IF f \in S THEN Synced(f) ELSE f]
<1>2. /\ h \in [F -> G]
      /\ \A g \in G : \E f \in F : h[f] = g
  BY Zenon DEF AfterSync
<1>3. IsFiniteSet(G)
  BY <1>2, FS_Surjection, Zenon DEF Surjection
<1>4. \A f \in F : h[f] = (IF f \in S THEN Synced(f) ELSE f) /\ h[f] \in G
  BY <1>2, Zenon
<1> HIDE DEF h, Synced
<1>5. \A g \in G : /\ g \in Frames
                   /\ \E f \in F : f.seq = g.seq /\ f.stmt = g.stmt /\ f.age = g.age
  <2>. SUFFICES ASSUME NEW g \in G
                PROVE  /\ g \in Frames
                       /\ \E f \in F : f.seq = g.seq /\ f.stmt = g.stmt /\ f.age = g.age
    BY Zenon
  <2>1. PICK f \in F : h[f] = g
    BY <1>2, Zenon
  <2>. QED
    BY <1>1, <1>4, <2>1
<1>6. ASSUME NEW f \in F
      PROVE  \E g \in G : /\ g.seq = f.seq /\ g.stmt = f.stmt /\ g.age = f.age
                          /\ f.synced \/ f \in S => g.synced
  BY <1>1, <1>4
<1>. QED
  BY <1>3, <1>5, <1>6, Zenon

\* A crash keeps every frame unless a power loss is among its faults, and then
\* every frame it buries or loses of an older process is among them too
\* (TableLog::open, scan_table).
LEMMA CrashFacts ==
  ASSUME TypeOK, IsFiniteSet(frames), Crash
  PROVE  /\ frames' \in SUBSET Frames /\ IsFiniteSet(frames')
         /\ \A g \in frames' : ~Ours(g) /\ \E f \in frames : f.seq = g.seq /\ f.stmt = g.stmt
         /\ \A f \in frames :
              \/ "power_loss" \notin happened'
              \/ f.synced /\ "buried" \notin happened'
              \/ ~Ours(f) /\ "old_frame" \notin happened'
              => \E g \in frames' : /\ g.seq = f.seq /\ g.stmt = f.stmt /\ ~Ours(g)
                                    /\ f.synced => g.synced
<1>1. PICK lost \in Losses : \E torn \in SUBSET lost : \E late \in SUBSET {"late_post"} :
        LET kept == Readable(lost, torn) IN
        /\ FaultOf({"crash"} \cup late \cup IF kept = frames THEN {} ELSE LossKinds(kept))
        /\ frames' = {Older(f, kept) : f \in kept}
  BY Zenon DEF Crash
<1>2. PICK torn \in SUBSET lost, late \in SUBSET {"late_post"} :
        LET kept == Readable(lost, torn) IN
        /\ FaultOf({"crash"} \cup late \cup IF kept = frames THEN {} ELSE LossKinds(kept))
        /\ frames' = {Older(f, kept) : f \in kept}
  BY <1>1, Zenon
<1> DEFINE kept == Readable(lost, torn)
<1>3. kept \in SUBSET frames
  BY Zenon DEF Readable
<1>4. /\ FaultOf({"crash"} \cup late \cup IF kept = frames THEN {} ELSE LossKinds(kept))
      /\ frames' = {Older(f, kept) : f \in kept}
  BY <1>2, Zenon
<1> HIDE DEF kept
<1>5. frames \in SUBSET Frames
  BY Zenon DEF TypeOK
<1>6. \A f \in Frames : /\ Older(f, kept) \in Frames /\ ~Ours(Older(f, kept))
                        /\ Older(f, kept).seq = f.seq /\ Older(f, kept).stmt = f.stmt
                        /\ f.synced => Older(f, kept).synced
  <2>. SUFFICES ASSUME NEW f \in Frames
                PROVE  /\ Older(f, kept) \in Frames /\ ~Ours(Older(f, kept))
                       /\ Older(f, kept).seq = f.seq /\ Older(f, kept).stmt = f.stmt
                       /\ f.synced => Older(f, kept).synced
    BY Zenon
  <2> DEFINE older == f.age + 1
             safe == f.synced \/ kept # frames
  <2>1. older \in Nat /\ older # 0 /\ safe \in BOOLEAN
    BY DEF Frames
  <2>2. Older(f, kept) = [f EXCEPT !.age = older, !.synced = safe]
    BY Zenon DEF Older
  <2>3. f.synced => safe
    BY Zenon
  <2> HIDE DEF older, safe
  <2>4. /\ Older(f, kept) \in Frames /\ Older(f, kept).age = older
        /\ Older(f, kept).seq = f.seq /\ Older(f, kept).stmt = f.stmt
        /\ Older(f, kept).synced = safe
    BY <2>1, <2>2, Zenon DEF Frames
  <2>. QED
    BY <2>1, <2>3, <2>4, Zenon DEF Ours
<1> DEFINE h == [f \in kept |-> Older(f, kept)]
<1>7. h \in [kept -> frames'] /\ \A g \in frames' : \E f \in kept : h[f] = g
  BY <1>4, Zenon
<1>8. IsFiniteSet(frames')
  <2>1. IsFiniteSet(kept)
    BY <1>3, FS_Subset, Zenon
  <2>. QED
    BY <1>7, <2>1, FS_Surjection, Zenon DEF Surjection
<1>9. \A f \in frames : \/ "power_loss" \notin happened'
                        \/ f.synced /\ "buried" \notin happened'
                        \/ ~Ours(f) /\ "old_frame" \notin happened'
                        => f \in kept
  <2>1. kept # frames => LossKinds(kept) \subseteq happened'
    BY <1>4, Zenon DEF FaultOf
  <2>2. "power_loss" \in LossKinds(kept)
    BY Zenon DEF LossKinds
  <2>3. \A f \in frames \ kept : ~Ours(f) => "old_frame" \in LossKinds(kept)
    BY Zenon DEF LossKinds
  <2>4. \A f \in frames \ kept : f.synced => "buried" \in LossKinds(kept)
    BY Zenon DEF LossKinds
  <2>. QED
    BY <1>3, <2>1, <2>2, <2>3, <2>4, Zenon
<1>10. \A f \in kept : h[f] = Older(f, kept) /\ h[f] \in frames'
  BY <1>7, Zenon
<1> HIDE DEF h
<1>11. frames' \in SUBSET Frames
  BY <1>3, <1>5, <1>6, <1>7, <1>10
<1>12. ASSUME NEW g \in frames'
       PROVE  ~Ours(g) /\ \E f \in frames : f.seq = g.seq /\ f.stmt = g.stmt
  <2>1. PICK f \in kept : h[f] = g
    BY <1>7, Zenon
  <2>. QED
    BY <1>3, <1>5, <1>6, <1>10, <2>1
<1>13. ASSUME NEW f \in kept
       PROVE  \E g \in frames' : /\ g.seq = f.seq /\ g.stmt = f.stmt /\ ~Ours(g)
                                 /\ f.synced => g.synced
  BY <1>3, <1>5, <1>6, <1>10
<1>14. \A g \in frames' : ~Ours(g) /\ \E f \in frames : f.seq = g.seq /\ f.stmt = g.stmt
  BY <1>12, Zenon
<1>15. ASSUME NEW f \in frames,
              \/ "power_loss" \notin happened'
              \/ f.synced /\ "buried" \notin happened'
              \/ ~Ours(f) /\ "old_frame" \notin happened'
       PROVE  \E g \in frames' : /\ g.seq = f.seq /\ g.stmt = f.stmt /\ ~Ours(g)
                                 /\ f.synced => g.synced
  <2>1. f \in kept
    BY <1>9, <1>15, Zenon
  <2>. QED
    BY <1>13, <2>1, Zenon
<1>. QED
  BY <1>8, <1>11, <1>14, <1>15, Zenon

\* A generation keeps its commit and its batches when it is observed.
LEMMA ObservedFacts ==
  ASSUME NEW G \in SUBSET Generations, NEW meta \in Metas,
         NEW O, O = Observed(G, meta)
  PROVE  /\ O \in SUBSET Generations
         /\ \A o \in O : \E g \in G : o.commit = g.commit /\ o.batches = g.batches
         /\ \A g \in G : \E o \in O : o.commit = g.commit /\ o.batches = g.batches
         /\ \A o \in O : \E g \in G : o = Observe(g, meta) /\ o.commit = g.commit
<1>1. ASSUME NEW g \in Generations
      PROVE  /\ Observe(g, meta) \in Generations
             /\ Observe(g, meta).commit = g.commit
             /\ Observe(g, meta).batches = g.batches
  <2>2. (g.observed \/ Contained(meta, g.commit)) \in BOOLEAN
    BY Zenon
  <2>3. \A x \in BOOLEAN : /\ [g EXCEPT !.observed = x] \in Generations
                           /\ [g EXCEPT !.observed = x].commit = g.commit
                           /\ [g EXCEPT !.observed = x].batches = g.batches
    BY Zenon DEF Generations
  <2>. QED
    BY <2>2, <2>3, Zenon DEF Observe
<1>. QED
  BY <1>1 DEF Observed

\* An observed generation was committed under an id that was drawn.
LEMMA ObservedFresh ==
  ASSUME TypeOK, IdsFresh
  PROVE  \A g \in Observed(flushed, table) : g.commit.snap <= lastId /\ g.commit.snap \in Nat
<1>1. flushed \in SUBSET Generations /\ table \in Metas
  BY Zenon DEF TypeOK
<1>2. /\ Observed(flushed, table) \in SUBSET Generations
      /\ \A o \in Observed(flushed, table) : \E g \in flushed : o.commit = g.commit
  BY <1>1, ObservedFacts
<1>3. \A g \in flushed : g.commit.snap <= lastId
  BY Zenon DEF IdsFresh
<1> QED BY <1>2, <1>3, Zenon DEF Generations

\* Replay lists a finite set of frames as a sequence of batches.
LEMMA OrderedFacts ==
  ASSUME NEW F \in SUBSET Frames, IsFiniteSet(F), NEW q \in Ordered(F)
  PROVE  /\ q \in Seq(F) /\ Range(q) = F
         /\ F = {} <=> q = <<>>
         /\ \A f \in F : f.seq <= q[Len(q)].seq
         /\ q # <<>> => q[Len(q)] \in F
<1>1. /\ Cardinality(F) \in Nat
      /\ q \in [1 .. Cardinality(F) -> F]
      /\ Range(q) = F
      /\ \A i, j \in 1 .. Cardinality(F) : i < j => q[i].seq < q[j].seq
  BY FS_CardinalityType, Zenon DEF Ordered
<1>2. q \in Seq(F) /\ Len(q) = Cardinality(F) /\ DOMAIN q = 1 .. Len(q)
  BY <1>1
<1>3. ASSUME NEW f \in F
      PROVE  \E i \in 1 .. Len(q) : f = q[i]
  BY <1>1, <1>2, Zenon DEF Range
<1>4. ASSUME NEW f \in F
      PROVE  f.seq <= q[Len(q)].seq /\ Len(q) # 0
  <2>1. PICK i \in 1 .. Len(q) : f = q[i]
    BY <1>3, Zenon
  <2>2. /\ Len(q) \in 1 .. Len(q) /\ q[i].seq \in Nat /\ q[Len(q)].seq \in Nat
        /\ i < Len(q) \/ i = Len(q)
    BY <1>2 DEF Frames
  <2>. QED
    BY <1>1, <1>2, <2>1, <2>2
<1>5. q # <<>> => Len(q) \in 1 .. Len(q) /\ q[Len(q)] \in F
  BY <1>2
<1>. QED
  BY <1>1, <1>2, <1>4, <1>5, Zenon

\* Boot rebuilds the buffer batch by batch from the replayed frames, in their
\* order and with nothing claimed (replay_tail).
LEMMA ReplayedBatches ==
  ASSUME NEW F \in SUBSET Frames, NEW q \in Seq(F), Range(q) = F,
         NEW b, b = [i \in DOMAIN q |-> [stmt |-> q[i].stmt, claimed |-> FALSE]]
  PROVE  /\ b \in Seq(Batches) /\ Len(b) = Len(q)
         /\ StmtsOf(b) = {f.stmt : f \in F}
<1>1. /\ DOMAIN q = 1 .. Len(q) /\ Len(q) \in Nat
      /\ \A i \in 1 .. Len(q) : q[i] \in F
  OBVIOUS
<1>2. b = [i \in 1 .. Len(q) |-> [stmt |-> q[i].stmt, claimed |-> FALSE]]
  BY <1>1, Zenon
<1>3. \A i \in 1 .. Len(q) : b[i] \in Batches /\ b[i].stmt = q[i].stmt
  BY <1>1, <1>2 DEF Batches, Frames
<1>4. b \in Seq(Batches) /\ Len(b) = Len(q) /\ DOMAIN b = 1 .. Len(q)
  BY <1>1, <1>2, <1>3
<1>5. \A f : f \in F <=> \E i \in 1 .. Len(q) : f = q[i]
  BY <1>1, Zenon DEF Range
<1>6. \A s : s \in StmtsOf(b) <=> \E i \in 1 .. Len(q) : s = q[i].stmt
  BY <1>3, <1>4, Zenon DEF StmtsOf
<1>7. \A s : s \in StmtsOf(b) <=> \E f \in F : s = f.stmt
  BY <1>5, <1>6, Zenon
<1>. QED
  BY <1>4, <1>7, Zenon

----------------------------------------------------------------------------
\* The bookkeeping is inductive.

\* An interrupted truncate still records the watermark before it deletes.
LEMMA TruncateFacts ==
  ASSUME TypeOK, IsFiniteSet(frames), NEW upto \in Nat, TruncateCovered(upto)
  PROVE  /\ frames' \in SUBSET frames /\ IsFiniteSet(frames')
         /\ sidecar' \in Nat /\ sidecar <= sidecar'
         /\ sidecar' = sidecar \/ sidecar' = Max2(sidecar, upto)
         /\ \A f \in frames : f.seq > upto => f \in frames'
         /\ frames' # frames => upto <= sidecar'
         /\ happened \subseteq happened' /\ happened' \subseteq Faults
         /\ happened' \subseteq happened \cup {"tail_io"}
         /\ faultsLeft' \in Nat
<1>1. /\ frames' \in SUBSET frames
      /\ sidecar' = sidecar \/ sidecar' = Max2(sidecar, upto)
      /\ \A f \in frames : f.seq > upto => f \in frames'
      /\ frames' # frames => sidecar' = Max2(sidecar, upto)
  BY DEF TruncateCovered, TypeOK, Frames, tailVars
<1>2. /\ sidecar' \in Nat /\ sidecar <= sidecar'
      /\ frames' # frames => upto <= sidecar'
  BY <1>1 DEF TypeOK, Max2
<1>3. /\ happened \subseteq happened' /\ happened' \subseteq Faults
      /\ happened' \subseteq happened \cup {"tail_io"}
      /\ faultsLeft' \in Nat
  BY DEF TruncateCovered, TypeOK, Fault, FaultOf, NoFault, faultVars
<1>4. IsFiniteSet(frames')
  BY <1>1, FS_Subset, Zenon
<1>. QED
  BY <1>1, <1>2, <1>3, <1>4, Zenon

\* The states the flusher moves to.
LEMMA FlusherTypes ==
  ASSUME NEW f \in FlusherStates, NEW k \in 1 .. MaxAttempts, NEW n \in Nat, NEW m \in Nat,
         NEW r \in {"none", "committed", "conflict"}
  PROVE  /\ Idle \in FlusherStates
         /\ [Idle EXCEPT !.pc = "snapshot", !.attempt = k] \in FlusherStates
         /\ [f EXCEPT !.pc = "load", !.n = n, !.mark = m] \in FlusherStates
         /\ [f EXCEPT !.pc = "posted", !.id = n] \in FlusherStates
         /\ [f EXCEPT !.pc = "reload", !.reply = "none"] \in FlusherStates
         /\ [f EXCEPT !.reply = r] \in FlusherStates
<1>1. Idle \in FlusherStates /\ k \in 0 .. MaxAttempts
  BY ConstantsAssumption DEF Idle, FlusherStates
<1>2. [Idle EXCEPT !.pc = "snapshot", !.attempt = k] \in FlusherStates
  BY <1>1, Zenon DEF FlusherStates
<1>3. [f EXCEPT !.pc = "load", !.n = n, !.mark = m] \in FlusherStates
  BY Zenon DEF FlusherStates
<1>4. [f EXCEPT !.pc = "posted", !.id = n] \in FlusherStates
  BY Zenon DEF FlusherStates
<1>5. [f EXCEPT !.pc = "reload", !.reply = "none"] \in FlusherStates
  BY Zenon DEF FlusherStates
<1>6. [f EXCEPT !.reply = r] \in FlusherStates
  BY Zenon DEF FlusherStates
<1>. QED
  BY <1>1, <1>2, <1>3, <1>4, <1>5, <1>6, Zenon

\* Every action keeps the types: pending, flushed, posted commits and the
\* flusher stay within their sets (buffer.rs, one case per action).
LEMMA TypeStep ==
  ASSUME Bookkeeping, Next
  PROVE  TypeOK' /\ IsFiniteSet(frames)'
<1>0. 1 \in 1 .. MaxAttempts
  BY ConstantsAssumption
<1>1. TypeOK /\ IsFiniteSet(frames) /\ FlusherConsistent
  BY Zenon DEF Bookkeeping, FramesWellFormed
<1>2. ASSUME NEW s \in Stmts, Stage(s) PROVE TypeOK' /\ IsFiniteSet(frames)'
  <2>1. frames' \in SUBSET Frames /\ IsFiniteSet(frames')
    <3> DEFINE f == [seq |-> nextSeq, stmt |-> s, synced |-> FALSE, age |-> 0]
    <3>1. f \in Frames
      BY <1>1, Zenon DEF TypeOK, Frames
    <3>2. frames' = frames \cup {f}
      BY <1>2, Zenon DEF Stage
    <3> HIDE DEF f
    <3>. QED
      BY <1>1, <3>1, <3>2, FS_AddElement, Zenon DEF TypeOK
  <2>2. pending' \in Seq(Batches)
    BY <1>1, <1>2 DEF Stage, TypeOK, Batches
  <2>. QED
    BY <1>1, <1>2, <2>1, <2>2
    DEF Stage, TypeOK, Statuses, NoFault, faultVars, catalogVars, scanVars
<1>3. ASSUME NEW s \in Stmts, StageFails(s) PROVE TypeOK' /\ IsFiniteSet(frames)'
  BY <1>1, <1>3 DEF StageFails, TypeOK, Statuses, Fault, FaultOf, catalogVars, tailVars,
    bufferVars, scanVars
<1>4. ASSUME NEW s \in Stmts, WaitOk(s) PROVE TypeOK' /\ IsFiniteSet(frames)'
  <2>1. frames' = AfterSync(frames, {f \in frames : Ours(f) /\ f.seq <= seqOf[s]})
    BY <1>4, Zenon DEF WaitOk
  <2>2. frames' \in SUBSET Frames /\ IsFiniteSet(frames')
    BY <1>1, <2>1, SyncFacts DEF TypeOK
  <2>. QED
    BY <1>1, <1>4, <2>2, Zenon DEF WaitOk, TypeOK, Statuses, NoFault, faultVars, catalogVars,
      bufferVars, scanVars
<1>5. ASSUME NEW s \in Stmts, WaitFails(s) PROVE TypeOK' /\ IsFiniteSet(frames)'
  <2>1. pending' \in Seq(Batches)
    BY <1>1, <1>5, StmtsOfWithoutAt DEF WaitFails, TypeOK, Unclaimed, Removes
  <2>. QED
    BY <1>1, <1>5, <2>1, Zenon DEF WaitFails, TypeOK, Statuses, NoFault, faultVars, catalogVars,
      tailVars, scanVars
<1>6. CASE SyncFails
  <2>1. frames' \in SUBSET Frames /\ IsFiniteSet(frames')
    BY <1>1, <1>6, FS_Subset, Zenon DEF SyncFails, TypeOK
  <2>2. happened' \subseteq Faults /\ faultsLeft' \in Nat
    BY <1>1, <1>6 DEF SyncFails, FaultOf, TypeOK
  <2>3. status' \in [Stmts -> Statuses]
    BY <1>1, <1>6, Zenon DEF SyncFails, TypeOK, Statuses
  <2>. QED
    BY <1>1, <1>6, <2>1, <2>2, <2>3, Zenon DEF SyncFails, TypeOK, catalogVars, bufferVars, scanVars
<1>7. CASE FlushNow
  <2>1. frames' \in SUBSET Frames /\ IsFiniteSet(frames')
    <3>1. CASE pending = <<>>
      BY <1>1, <1>7, <3>1, Zenon DEF FlushNow, TypeOK
    <3>2. CASE pending # <<>>
      <4>1. frames' = AfterSync(frames, {f \in frames : Ours(f)})
        BY <1>7, <3>2, Zenon DEF FlushNow
      <4>. QED
        BY <1>1, <4>1, SyncFacts DEF TypeOK
    <3>. QED
      BY <3>1, <3>2, Zenon
  <2>2. flush' \in FlusherStates
    <3>1. CASE pending = <<>>
      BY <1>1, <1>7, <3>1, Zenon DEF FlushNow, TypeOK
    <3>2. CASE pending # <<>>
      <4>1. flush' = [Idle EXCEPT !.pc = "snapshot", !.attempt = 1]
        BY <1>7, <3>2, Zenon DEF FlushNow
      <4>. QED
        BY <1>1, <4>1, FlusherTypes, <1>0, Zenon DEF TypeOK
    <3>. QED
      BY <3>1, <3>2, Zenon
  <2>. QED
    BY <1>1, <1>7, <2>1, <2>2, Zenon DEF FlushNow, TypeOK, NoFault, faultVars, catalogVars,
      clientVars, scanVars
<1>8. CASE FlushSnapshot
  <2>1. pending' \in Seq(Batches)
    BY <1>1, <1>8, StmtsOfClaimed, Zenon DEF FlushSnapshot, TypeOK
  <2>2. flush' \in FlusherStates
    <3>1. CASE pending = <<>>
      BY <1>1, <1>8, <3>1, FlusherTypes, <1>0, Zenon DEF FlushSnapshot, TypeOK
    <3>2. CASE pending # <<>>
      <4>1. /\ flush' = [flush EXCEPT !.pc = "load", !.n = Len(pending), !.mark = tailHigh]
            /\ Len(pending) \in Nat /\ tailHigh \in Nat /\ flush \in FlusherStates
        BY <1>1, <1>8, <3>2 DEF FlushSnapshot, TypeOK
      <4>. QED
        BY <4>1, Zenon DEF FlusherStates
    <3>. QED
      BY <3>1, <3>2, Zenon
  <2>. QED
    BY <1>1, <1>8, <2>1, <2>2, Zenon DEF FlushSnapshot, TypeOK, NoFault, faultVars, catalogVars,
      tailVars, clientVars, scanVars
<1>9. CASE FlushCovered
  <2>1. /\ flush.mark \in Nat /\ flush.n \in Nat /\ flush.n <= Len(pending)
        /\ pending \in Seq(Batches) /\ table \in Metas /\ flushed \in SUBSET Generations
    BY <1>1, <1>9, Zenon DEF FlushCovered, TypeOK, FlusherStates, FlusherConsistent
  <2>2. Prefix(flush.n) \in Seq(Batches) /\ Suffix(flush.n) \in Seq(Batches)
    BY <2>1, StmtsOfSplit, Zenon DEF Prefix, Suffix, Splits
  <2>3. Generation([snap |-> 0, mark |-> flush.mark], Prefix(flush.n)) \in Generations
    BY <2>1, <2>2, Zenon DEF Generation, Generations
  <2>4. flushed' \in SUBSET Generations /\ pending' \in Seq(Batches)
    BY <1>9, <2>1, <2>2, <2>3, ObservedFacts DEF FlushCovered
  <2>5. TruncateCovered(flush.mark)
    BY <1>9, Zenon DEF FlushCovered
  <2>6. /\ frames' \in SUBSET frames /\ IsFiniteSet(frames') /\ sidecar' \in Nat
        /\ happened' \subseteq Faults /\ faultsLeft' \in Nat
    BY <1>1, <2>1, <2>5, TruncateFacts, Zenon
  <2>7. flush' \in FlusherStates
    BY <1>0, <1>1, <1>9, FlusherTypes, Zenon DEF FlushCovered, TypeOK
  <2>. QED
    BY <1>1, <1>9, <2>4, <2>6, <2>7, Zenon DEF FlushCovered, TypeOK, catalogVars, clientVars,
      scanVars
<1>10. CASE FlushPost
  <2>1. /\ flush.mark \in Nat /\ flush.n \in Nat /\ flush.n <= Len(pending)
        /\ pending \in Seq(Batches) /\ table \in Metas /\ flushed \in SUBSET Generations
        /\ table.mark \in Nat /\ table.head \in Int /\ lastId \in Nat
    BY <1>1, <1>10, Zenon DEF FlushPost, TypeOK, FlusherStates, FlusherConsistent, Metas
  <2>2. /\ Prefix(flush.n) \in Seq(Batches) /\ Suffix(flush.n) \in Seq(Batches)
    BY <2>1, StmtsOfSplit, Zenon DEF Prefix, Suffix, Splits
  <2>9. StmtsOf(Prefix(flush.n)) \subseteq Stmts
    BY <2>2, StmtsOfIndex, Zenon
  <2>3. Generation([snap |-> lastId + 1, mark |-> 0], Prefix(flush.n)) \in Generations
    BY <2>1, <2>2 DEF Generation, Generations
  <2>4. flushed' \in SUBSET Generations /\ pending' \in Seq(Batches)
    BY <1>10, <2>1, <2>2, <2>3, ObservedFacts DEF FlushPost
  <2>5. [id |-> lastId + 1, base |-> table.head, stmts |-> StmtsOf(Prefix(flush.n)),
         stamp |-> Max2(table.mark, flush.mark)] \in Posts
    BY <2>1, <2>9 DEF Posts, Max2
  <2>6. posts' \in SUBSET Posts
    BY <1>1, <1>10, <2>5, Zenon DEF FlushPost, TypeOK
  <2>7. flush' = [flush EXCEPT !.pc = "posted", !.id = lastId + 1] /\ lastId + 1 \in Nat
    BY <1>10, <2>1 DEF FlushPost
  <2>8. flush' \in FlusherStates
    BY <1>1, <2>7, ZenonT(30) DEF TypeOK, FlusherStates
  <2>. QED
    BY <1>1, <1>10, <2>4, <2>6, <2>7, <2>8, Zenon DEF FlushPost, TypeOK, NoFault, faultVars,
      tailVars, clientVars, scanVars
<1>11. CASE FlushLoadFails
  <2>1. Idle \in FlusherStates
    BY <1>0, <1>1, FlusherTypes, Zenon DEF TypeOK
  <2>. QED
    BY <1>1, <1>11, <2>1 DEF FlushLoadFails, TypeOK, Fault, FaultOf,
      catalogVars, tailVars, bufferVars, clientVars, scanVars
<1>12. CASE FlushCommitted
  <2>1. flush.mark \in Nat /\ TruncateCovered(flush.mark)
    BY <1>1, <1>12, Zenon DEF FlushCommitted, TypeOK, FlusherStates
  <2>2. /\ frames' \in SUBSET frames /\ IsFiniteSet(frames') /\ sidecar' \in Nat
        /\ happened' \subseteq Faults /\ faultsLeft' \in Nat
    BY <1>1, <2>1, TruncateFacts, Zenon
  <2>. QED
    BY <1>0, <1>1, <1>12, <2>2, FlusherTypes, Zenon DEF FlushCommitted, TypeOK, catalogVars,
      bufferVars, clientVars, scanVars
<1>13. ASSUME MoveBack(flush.id) PROVE flushed' \subseteq Generations /\ pending' \in Seq(Batches)
  <2>1. PICK g \in flushed : flushed' = flushed \ {g} /\ pending' = g.batches \o pending
    BY <1>13, Zenon DEF MoveBack
  <2>2. g.batches \in Seq(Batches)
    BY <1>1, Zenon DEF TypeOK, Generations
  <2>. QED
    BY <1>1, <2>1, <2>2, StmtsOfConcat, Zenon DEF TypeOK
<1>14. CASE FlushConflict
  <2>1. flush' \in FlusherStates
    <3>1. CASE flush.attempt < MaxAttempts
      <4>1. /\ flush' = [Idle EXCEPT !.pc = "snapshot", !.attempt = flush.attempt + 1]
            /\ flush.attempt + 1 \in 1 .. MaxAttempts
        <5>1. flush.attempt \in Nat /\ MaxAttempts \in Nat
          BY <1>1, ConstantsAssumption DEF TypeOK, FlusherStates
        <5>2. flush' = [Idle EXCEPT !.pc = "snapshot", !.attempt = flush.attempt + 1]
          BY <1>14, <3>1, Zenon DEF FlushConflict
        <5>. QED
          BY <3>1, <5>1, <5>2
      <4>. QED
        BY <1>1, <4>1, FlusherTypes, Zenon DEF TypeOK
    <3>2. CASE ~(flush.attempt < MaxAttempts)
      BY <1>0, <1>1, <1>14, <3>2, FlusherTypes, Zenon DEF FlushConflict, TypeOK
    <3>. QED
      BY <3>1, <3>2, Zenon
  <2>2. MoveBack(flush.id)
    BY <1>14, Zenon DEF FlushConflict
  <2>. QED
    BY <1>1, <1>13, <1>14, <2>1, <2>2, Zenon DEF FlushConflict, TypeOK, NoFault, faultVars,
      catalogVars, tailVars, clientVars, scanVars
<1>15. CASE FlushAmbiguous
  <2>1. flush' \in FlusherStates
    BY <1>1, <1>15, Zenon DEF FlushAmbiguous, TypeOK, FlusherStates
  <2>2. happened' \subseteq Faults /\ faultsLeft' \in Nat
    BY <1>1, <1>15 DEF FlushAmbiguous, TypeOK, Fault, FaultOf
  <2>. QED
    BY <1>1, <1>15, <2>1, <2>2, Zenon DEF FlushAmbiguous, TypeOK, tailVars, bufferVars,
      clientVars, scanVars
<1>16. Idle \in FlusherStates
  BY <1>0, <1>1, FlusherTypes, Zenon DEF TypeOK
<1>17. CASE FlushReload
  <2>1. CASE table.mark >= flush.mark
    <3>1. flush.mark \in Nat /\ TruncateCovered(flush.mark)
      BY <1>1, <1>17, <2>1, Zenon DEF FlushReload, TypeOK, FlusherStates
    <3>2. /\ frames' \in SUBSET frames /\ IsFiniteSet(frames') /\ sidecar' \in Nat
          /\ happened' \subseteq Faults /\ faultsLeft' \in Nat
      BY <1>1, <3>1, TruncateFacts, Zenon
    <3>. QED
      BY <1>1, <1>16, <1>17, <2>1, <3>2, Zenon DEF FlushReload, TypeOK, catalogVars, clientVars,
        scanVars
  <2>2. CASE ~(table.mark >= flush.mark)
    <3>1. MoveBack(flush.id)
      BY <1>17, <2>2, Zenon DEF FlushReload
    <3>. QED
      BY <1>1, <1>13, <1>16, <1>17, <2>2, <3>1, Zenon DEF FlushReload, TypeOK, NoFault, faultVars,
        catalogVars, tailVars, clientVars, scanVars
  <2>. QED
    BY <2>1, <2>2, Zenon
<1>18. CASE FlushReloadFails
  <2>1. MoveBack(flush.id)
    BY <1>18, Zenon DEF FlushReloadFails
  <2>2. happened' \subseteq Faults /\ faultsLeft' \in Nat
    BY <1>1, <1>18 DEF FlushReloadFails, TypeOK, Fault, FaultOf
  <2>. QED
    BY <1>1, <1>13, <1>16, <1>18, <2>1, <2>2, Zenon DEF FlushReloadFails, TypeOK,
      catalogVars, tailVars, clientVars, scanVars
<1>19. CASE CatalogApply
  <2>1. PICK p \in posts : CatalogProcess(p)
    BY <1>19, Zenon DEF CatalogApply
  <2>2. p \in Posts /\ table \in Metas
    BY <1>1, Zenon DEF TypeOK
  <2>3. table' \in Metas
    BY <2>1, <2>2 DEF CatalogProcess, Metas, Posts
  <2>4. flush' \in FlusherStates
    BY <1>1, <2>1, Zenon DEF CatalogProcess, TypeOK, FlusherStates
  <2>. QED
    BY <1>1, <2>1, <2>3, <2>4, Zenon DEF CatalogProcess, TypeOK, NoFault, faultVars, tailVars,
      bufferVars, clientVars, scanVars
<1>20. CASE ForeignCommit
  <2>1. table' \in Metas
    <3>1. /\ table' = [table EXCEPT !.head = lastId + 1,
                                    !.snaps = table.snaps \cup {lastId + 1}]
          /\ lastId + 1 \in Nat /\ lastId + 1 \in Int
      BY <1>1, <1>20 DEF ForeignCommit, TypeOK
    <3>2. table \in Metas /\ table.snaps \cup {lastId + 1} \in SUBSET Nat
      BY <1>1, <3>1, Zenon DEF TypeOK, Metas
    <3>. QED
      BY <3>1, <3>2, Zenon DEF Metas
  <2>. QED
    BY <1>1, <1>20, <2>1 DEF ForeignCommit, TypeOK, Fault, FaultOf, tailVars, bufferVars,
      clientVars, scanVars
<1>21. CASE ForeignPropertyDrop
  <2>1. table' \in Metas
    BY <1>1, <1>21, Zenon DEF ForeignPropertyDrop, TypeOK, Metas
  <2>. QED
    BY <1>1, <1>21, <2>1 DEF ForeignPropertyDrop, TypeOK, Fault, FaultOf, tailVars,
      bufferVars, clientVars, scanVars
<1>22. NoMeta \in Metas
  BY DEF NoMeta, Metas
<1>23. CASE Crash
  <2>1. posts' \in SUBSET posts
    BY <1>23, Zenon DEF Crash
  <2>2. frames' \in SUBSET Frames /\ IsFiniteSet(frames')
    BY <1>1, <1>23, CrashFacts, Zenon
  <2>3. happened' \subseteq Faults /\ faultsLeft' \in Nat
    <3>1. \E kinds : FaultOf(kinds)
      BY <1>23, Zenon DEF Crash
    <3>. QED
      BY <1>1, <3>1 DEF FaultOf, TypeOK
  <2>4. status' \in [Stmts -> Statuses]
    BY <1>1, <1>23, Zenon DEF Crash, TypeOK, Statuses
  <2>5. /\ pending' = <<>> /\ flushed' = {}
        /\ nextSeq' = 1 /\ tailHigh' = 0 /\ flush' = Idle
        /\ cached' = NoMeta /\ scan' = NoMeta
        /\ table' = table /\ sidecar' = sidecar /\ seqOf' = seqOf
        /\ scansLeft' = scansLeft /\ lastId' = lastId
    BY <1>23, Zenon DEF Crash
  <2>6. <<>> \in Seq(Batches)
    OBVIOUS
  <2>7. up' \in BOOLEAN
    BY <1>23, Zenon DEF Crash
  <2>. QED
    BY <1>1, <1>16, <1>22, <2>1, <2>2, <2>3, <2>4, <2>5, <2>6, <2>7 DEF TypeOK
<1>24. CASE Boot
  <2> DEFINE survivors == {f \in frames : f.seq > Watermark}
  <2>1. /\ frames \in SUBSET Frames /\ survivors \in SUBSET Frames
        /\ Watermark \in Nat /\ IsFiniteSet(survivors)
    BY <1>1, FS_Subset, Zenon DEF TypeOK, Metas, Watermark, Max2
  <2>2. nextSeq' \in Nat \ {0}
    <3>1. PICK q \in Ordered(frames) : nextSeq' = SeqFloor(q, Watermark)
      BY <1>24, Zenon DEF Boot
    <3>2. q # <<>> => q[Len(q)].seq \in Nat
      BY <1>1, <2>1, OrderedFacts DEF Frames
    <3>. QED
      BY <2>1, <3>1, <3>2 DEF SeqFloor, ResumeSeq, Max2
  <2>3. pending' \in Seq(Batches) /\ tailHigh' \in Nat
    <3>1. PICK q \in Ordered(survivors) :
            /\ pending' = [i \in DOMAIN q |-> [stmt |-> q[i].stmt, claimed |-> FALSE]]
            /\ tailHigh' = IF q = <<>> THEN 0 ELSE q[Len(q)].seq
      BY <1>24, Zenon DEF Boot
    <3>2. q \in Seq(survivors) /\ Range(q) = survivors
      BY <2>1, OrderedFacts, Zenon
    <3>3. q # <<>> => q[Len(q)].seq \in Nat
      BY <2>1, OrderedFacts DEF Frames
    <3>4. pending' \in Seq(Batches)
      BY <2>1, <3>1, <3>2, ReplayedBatches, Zenon
    <3>. QED
      BY <3>1, <3>3, <3>4, Zenon
  <2>4. /\ frames' \in SUBSET frames /\ IsFiniteSet(frames') /\ sidecar' \in Nat
        /\ happened' \subseteq Faults /\ faultsLeft' \in Nat
    <3>1. CASE survivors # frames
      BY <1>1, <1>24, <2>1, <3>1, TruncateFacts, Zenon DEF Boot
    <3>2. CASE survivors = frames
      BY <1>1, <1>24, <3>2, Zenon DEF Boot, TypeOK, tailVars, NoFault, faultVars
    <3>. QED
      BY <3>1, <3>2, Zenon
  <2>. QED
    BY <1>1, <1>24, <2>2, <2>3, <2>4, Zenon DEF Boot, TypeOK, catalogVars, clientVars, scanVars
<1>25. CASE BootFrameless
  BY <1>1, <1>25 DEF BootFrameless, TypeOK, Fault, FaultOf, Max2, catalogVars, tailVars,
    clientVars, scanVars
<1>26. CASE ScanLoad
  BY <1>1, <1>26 DEF ScanLoad, TypeOK, NoFault, faultVars, catalogVars, tailVars,
    bufferVars, clientVars
<1>27. CASE ScanStale
  BY <1>1, <1>27 DEF ScanStale, TypeOK, Fault, FaultOf, catalogVars, tailVars,
    bufferVars, clientVars
<1>28. CASE ScanOverlay
  <2>1. flushed' \in SUBSET Generations
    BY <1>1, <1>28, ObservedFacts DEF ScanOverlay, TypeOK
  <2>. QED
    BY <1>1, <1>22, <1>28, <2>1, Zenon DEF ScanOverlay, TypeOK, NoFault, faultVars, catalogVars,
      tailVars, clientVars
<1>. QED
  BY <1>2, <1>3, <1>4, <1>5, <1>6, <1>7, <1>8, <1>9, <1>10, <1>11, <1>12, <1>14, <1>15,
     <1>17, <1>18, <1>19, <1>20, <1>21, <1>23, <1>24, <1>25, <1>26, <1>27, <1>28, Zenon DEF Next

\* Frames keep the sequence number their statement was given at append time.
LEMMA FramesStep ==
  ASSUME Bookkeeping, Next
  PROVE  FramesWellFormed'
<1> DEFINE Fits(f) == /\ f.seq = seqOf[f.stmt] /\ status[f.stmt] # "new"
                      /\ status[f.stmt] = "staged" => Ours(f)
           Kept == \A f \in frames : Fits(f)
           Moves(s) == /\ status[s] # "new" => status'[s] # "new"
                       /\ status'[s] = "staged" => status[s] = "staged"
<1>1. TypeOK /\ IsFiniteSet(frames) /\ Kept
  BY Zenon DEF Bookkeeping, FramesWellFormed
<1>2. SUFFICES Kept'
  BY TypeStep, Zenon DEF FramesWellFormed
<1>3. ASSUME frames' \in SUBSET frames, seqOf' = seqOf,
             \A s \in Stmts : Moves(s)
      PROVE  Kept'
  BY <1>1, <1>3, Zenon DEF TypeOK, Frames
<1>4. ASSUME NEW S \in SUBSET frames, frames' = AfterSync(frames, S), seqOf' = seqOf,
             \A s \in Stmts : Moves(s)
      PROVE  Kept'
  <2>. SUFFICES ASSUME NEW g \in frames'
                PROVE  Fits(g)'
    BY Zenon
  <2>1. PICK f \in frames : f.seq = g.seq /\ f.stmt = g.stmt /\ f.age = g.age
    BY <1>1, <1>4, SyncFacts DEF TypeOK
  <2>. QED
    BY <1>1, <1>4, <2>1, Zenon DEF TypeOK, Frames, Ours
<1>5. ASSUME NEW s \in Stmts, Stage(s) PROVE Kept'
  <2> DEFINE new == [seq |-> nextSeq, stmt |-> s, synced |-> FALSE, age |-> 0]
  <2>1. /\ frames' = frames \cup {new} /\ status[s] = "new"
        /\ seqOf' = [seqOf EXCEPT ![s] = nextSeq] /\ status' = [status EXCEPT ![s] = "staged"]
    BY <1>5, Zenon DEF Stage
  <2>2. new.seq = nextSeq /\ new.stmt = s /\ Ours(new)
    BY Zenon DEF Ours
  <2> HIDE DEF new
  <2>3. seqOf'[s] = nextSeq /\ status'[s] = "staged"
    BY <1>1, <2>1, Zenon DEF TypeOK
  <2>4. ASSUME NEW f \in frames PROVE Fits(f)'
    BY <1>1, <2>1, Zenon DEF TypeOK, Frames, Ours
  <2>. SUFFICES ASSUME NEW f \in frames' PROVE Fits(f)'
    BY Zenon
  <2>5. f = new \/ f \in frames
    BY <2>1, Zenon
  <2>. QED
    BY <2>2, <2>3, <2>4, <2>5, Zenon
<1>6. ASSUME NEW s \in Stmts, WaitOk(s) PROVE Kept'
  <2>1. /\ frames' = AfterSync(frames, {f \in frames : Ours(f) /\ f.seq <= seqOf[s]})
        /\ seqOf' = seqOf
        /\ \A x \in Stmts : Moves(x)
    BY <1>1, <1>6, Zenon DEF WaitOk, TypeOK
  <2>. QED
    BY <1>4, <2>1, Zenon
<1>7. ASSUME NEW s \in Stmts, StageFails(s) \/ WaitFails(s) PROVE Kept'
  BY <1>1, <1>3, <1>7, Zenon DEF StageFails, WaitFails, TypeOK, tailVars
<1>8. CASE SyncFails
  BY <1>1, <1>3, <1>8 DEF SyncFails, TypeOK
<1>9. CASE FlushNow
  <2>1. CASE pending = <<>>
    BY <1>3, <1>9, <2>1, Zenon DEF FlushNow, clientVars
  <2>2. CASE pending # <<>>
    <3>1. frames' = AfterSync(frames, {f \in frames : Ours(f)}) /\ UNCHANGED <<seqOf, status>>
      BY <1>9, <2>2, Zenon DEF FlushNow, clientVars
    <3>. QED
      BY <1>4, <3>1, Zenon
  <2>. QED
    BY <2>1, <2>2, Zenon
<1>10. CASE FlushSnapshot \/ FlushPost \/ FlushLoadFails \/ FlushConflict
            \/ FlushAmbiguous \/ FlushReloadFails
  BY <1>3, <1>10, Zenon DEF FlushSnapshot, FlushPost, FlushLoadFails, FlushConflict,
    FlushAmbiguous, FlushReloadFails, tailVars, clientVars
<1>11. CASE FlushCovered \/ FlushCommitted \/ FlushReload
  <2>1. flush.mark \in Nat
    BY <1>1, Zenon DEF TypeOK, FlusherStates
  <2>2. UNCHANGED clientVars /\ (TruncateCovered(flush.mark) \/ UNCHANGED tailVars)
    BY <1>11, Zenon DEF FlushCovered, FlushCommitted, FlushReload
  <2>. QED
    BY <1>1, <1>3, <2>1, <2>2, TruncateFacts, Zenon DEF clientVars, tailVars
<1>12. CASE CatalogApply \/ ForeignCommit \/ ForeignPropertyDrop
  BY <1>3, <1>12, Zenon DEF CatalogApply, CatalogProcess, ForeignCommit, ForeignPropertyDrop,
    tailVars, clientVars
<1>13. CASE Crash
  <2>1. seqOf' = seqOf /\ \A s \in Stmts : Moves(s)
    BY <1>1, <1>13, Zenon DEF Crash, TypeOK
  <2>. SUFFICES ASSUME NEW g \in frames'
                PROVE  Fits(g)'
    BY Zenon
  <2>2. PICK f \in frames : f.seq = g.seq /\ f.stmt = g.stmt
    BY <1>1, <1>13, CrashFacts
  <2>3. f.stmt \in Stmts /\ status'[f.stmt] # "staged"
    BY <1>1, <1>13, Zenon DEF Crash, TypeOK, Frames
  <2>. QED
    BY <1>1, <2>1, <2>2, <2>3, Zenon DEF TypeOK, Frames
<1>14. CASE Boot
  <2>1. Watermark \in Nat
    BY <1>1, Zenon DEF TypeOK, Metas, Watermark, Max2
  <2>2. UNCHANGED clientVars /\ (TruncateCovered(Watermark) \/ UNCHANGED tailVars)
    BY <1>14, Zenon DEF Boot
  <2>. QED
    BY <1>1, <1>3, <2>1, <2>2, TruncateFacts, Zenon DEF clientVars, tailVars
<1>15. CASE BootFrameless \/ ScanLoad \/ ScanStale \/ ScanOverlay
  BY <1>3, <1>15, Zenon DEF BootFrameless, ScanLoad, ScanStale, ScanOverlay, tailVars, clientVars
<1>. QED
  BY <1>5, <1>6, <1>7, <1>8, <1>9, <1>10, <1>11, <1>12, <1>13, <1>14, <1>15, Zenon DEF Next

\* A crash empties everything that lives in memory, and nothing refills it
\* before replay_tail.
LEMMA DownStep ==
  ASSUME Bookkeeping, Next
  PROVE  DownIsEmpty'
<1>1. TypeOK /\ DownIsEmpty
  BY Zenon DEF Bookkeeping
<1>2. ASSUME NEW s \in Stmts, Stage(s) \/ StageFails(s) \/ WaitOk(s) \/ WaitFails(s)
      PROVE  DownIsEmpty'
  BY <1>2 DEF Stage, StageFails, WaitOk, WaitFails, DownIsEmpty
<1>3. CASE SyncFails \/ FlushNow \/ FlushSnapshot \/ FlushCovered \/ FlushPost
           \/ FlushLoadFails \/ FlushCommitted \/ FlushConflict
  BY <1>3 DEF SyncFails, FlushNow, FlushSnapshot, FlushCovered, FlushPost, FlushLoadFails,
    FlushCommitted, FlushConflict, DownIsEmpty
<1>7. CASE FlushAmbiguous \/ FlushReload \/ FlushReloadFails \/ ScanLoad \/ ScanStale
           \/ ScanOverlay \/ Boot \/ BootFrameless
  BY <1>7 DEF FlushAmbiguous, FlushReload, FlushReloadFails, ScanLoad, ScanStale,
    ScanOverlay, Boot, BootFrameless, DownIsEmpty
<1>4. CASE CatalogApply
  BY <1>1, <1>4 DEF CatalogApply, CatalogProcess, DownIsEmpty, Idle, bufferVars,
    clientVars, NoFault, faultVars
<1>5. CASE ForeignCommit \/ ForeignPropertyDrop
  BY <1>1, <1>5, Zenon DEF ForeignCommit, ForeignPropertyDrop, Fault, FaultOf, DownIsEmpty,
    bufferVars, clientVars
<1>6. CASE Crash
  <2>1. /\ pending' = <<>> /\ flushed' = {} /\ tailHigh' = 0 /\ flush' = Idle
        /\ "late_post" \notin happened' => posts' = {}
    BY <1>6, Zenon DEF Crash, FaultOf
  <2>2. \A s \in Stmts : status'[s] \notin {"staged", "doomed"}
    BY <1>6, Zenon DEF Crash
  <2>. QED
    BY <2>1, <2>2, Zenon DEF DownIsEmpty
<1>. QED
  BY <1>2, <1>3, <1>4, <1>5, <1>6, <1>7, Zenon DEF Next

----------------------------------------------------------------------------
\* What the flusher's moves between `pending` and `flushed` do.

\* append puts one unclaimed batch at the end of pending.
LEMMA StageFacts ==
  ASSUME TypeOK, NEW s \in Stmts, Stage(s)
  PROVE  /\ pending' \in Seq(Batches) /\ Len(pending) \in Nat
         /\ Len(pending') = Len(pending) + 1
         /\ \A i \in 1 .. Len(pending) : pending'[i] = pending[i]
         /\ pending'[Len(pending) + 1].stmt = s
         /\ StmtsOf(pending') = StmtsOf(pending) \cup {s}
<1> DEFINE b == [stmt |-> s, claimed |-> FALSE]
<1>1. b \in Batches /\ b.stmt = s
  BY Zenon DEF Batches
<1>2. pending \in Seq(Batches) /\ pending' = Append(pending, b)
  BY Zenon DEF Stage, TypeOK
<1> HIDE DEF b
<1>3. Appends(pending, b, pending')
  BY <1>1, <1>2, StmtsOfAppend, Zenon
<1>. QED
  BY <1>1, <1>2, <1>3 DEF Appends

\* What move_pending_to_flushed_gen takes out of pending, and what stays.
LEMMA MoveOutFacts ==
  ASSUME TypeOK, FlusherConsistent, flush.pc = "load"
  PROVE  /\ flush.mark \in Nat /\ flush.n \in Nat /\ flush.n <= Len(pending)
         /\ Prefix(flush.n) \in Seq(Batches) /\ Suffix(flush.n) \in Seq(Batches)
         /\ Suffix(flush.n) # <<>> => pending # <<>>
         /\ StmtsOf(Prefix(flush.n)) \subseteq Stmts
         /\ StmtsOf(pending) = StmtsOf(Prefix(flush.n)) \cup StmtsOf(Suffix(flush.n))
         /\ \A s \in StmtsOf(Prefix(flush.n)) : seqOf[s] <= flush.mark
         /\ \A s \in StmtsOf(Suffix(flush.n)) :
              \E i \in flush.n + 1 .. Len(pending) : s = pending[i].stmt
<1>1. /\ flush.mark \in Nat /\ flush.n \in Nat /\ flush.n <= Len(pending)
      /\ pending \in Seq(Batches)
      /\ \A i \in 1 .. flush.n : seqOf[pending[i].stmt] <= flush.mark
  BY Zenon DEF TypeOK, FlusherStates, FlusherConsistent
<1> DEFINE a == Prefix(flush.n)
           b == Suffix(flush.n)
<1>2. Splits(pending, flush.n, a, b)
  BY <1>1, StmtsOfSplit, Zenon DEF Prefix, Suffix
<1>3. b # <<>> => pending # <<>>
  <2>1. pending = <<>> => Len(pending) = 0 /\ flush.n = 0
    BY <1>1
  <2>2. pending = <<>> => b = <<>>
    BY <2>1 DEF Suffix
  <2>. QED
    BY <2>2, Zenon
<1> HIDE DEF a, b
<1>4. StmtsOf(a) \subseteq Stmts
  BY <1>2, StmtsOfIndex, Zenon DEF Splits
<1>5. \A s \in StmtsOf(a) : seqOf[s] <= flush.mark
  BY <1>1, <1>2, Zenon DEF Splits
<1>6. \A s \in StmtsOf(b) : \E i \in flush.n + 1 .. Len(pending) : s = pending[i].stmt
  BY <1>2, Zenon DEF Splits
<1>7. /\ a \in Seq(Batches) /\ b \in Seq(Batches)
      /\ StmtsOf(pending) = StmtsOf(a) \cup StmtsOf(b)
  BY <1>2, Zenon DEF Splits
<1>. QED
  BY <1>1, <1>3, <1>4, <1>5, <1>6, <1>7, Zenon DEF a, b

\* move_flushed_back_to_pending returns exactly the generation it removes, in
\* front of what has arrived since.
LEMMA MoveBackFacts ==
  ASSUME TypeOK, FlusherConsistent, IdsFresh, InFlight, MoveBack(flush.id)
  PROVE  \E g \in flushed :
           /\ OwnGenerations = {g} /\ flushed' = flushed \ {g}
           /\ StmtsOf(pending') = StmtsOf(g.batches) \cup StmtsOf(pending)
           /\ StmtsOf(g.batches) \subseteq Stmts
           /\ \A s \in StmtsOf(g.batches) : seqOf[s] <= flush.mark
<1>1. PICK g \in flushed : /\ g.commit.snap = flush.id
                           /\ flushed' = flushed \ {g}
                           /\ pending' = g.batches \o pending
  BY Zenon DEF MoveBack
<1>2. OwnGenerations = {g}
  BY <1>1, Zenon DEF OwnGenerations, IdsFresh, FlusherConsistent
<1>3. g.batches \in Seq(Batches) /\ pending \in Seq(Batches)
  BY Zenon DEF TypeOK, Generations
<1>4. StmtsOf(pending') = StmtsOf(g.batches) \cup StmtsOf(pending)
  BY <1>1, <1>3, StmtsOfConcat, Zenon
<1>5. StmtsOf(g.batches) \subseteq Stmts
  BY <1>3, StmtsOfIndex, Zenon
<1>. QED
  BY <1>1, <1>2, <1>4, <1>5, Zenon DEF FlusherConsistent

\* unroute_failed takes at most the failed statement out of pending.
LEMMA UnrouteFacts ==
  ASSUME TypeOK, FlusherConsistent, NEW s \in Stmts, WaitFails(s)
  PROVE  /\ StmtsOf(pending') \subseteq StmtsOf(pending)
         /\ StmtsOf(pending) \subseteq StmtsOf(pending') \cup {s}
         /\ pending' # <<>> => pending # <<>>
         /\ flush.pc = "load" =>
              /\ flush.n <= Len(pending')
              /\ \A j \in 1 .. flush.n : pending'[j] = pending[j]
              /\ \A j \in flush.n + 1 .. Len(pending') :
                   \E k \in flush.n + 1 .. Len(pending) : pending'[j].stmt = pending[k].stmt
<1>1. CASE pending' = pending
  BY <1>1, Zenon DEF TypeOK, FlusherConsistent
<1>2. ASSUME NEW i \in Unclaimed(s), pending' = WithoutAt(pending, i)
      PROVE  /\ StmtsOf(pending') \subseteq StmtsOf(pending)
             /\ StmtsOf(pending) \subseteq StmtsOf(pending') \cup {s}
             /\ pending # <<>>
             /\ flush.pc = "load" =>
                  /\ flush.n <= Len(pending')
                  /\ \A j \in 1 .. flush.n : pending'[j] = pending[j]
                  /\ \A j \in flush.n + 1 .. Len(pending') :
                       \E k \in flush.n + 1 .. Len(pending) : pending'[j].stmt = pending[k].stmt
  <2>1. /\ pending \in Seq(Batches) /\ i \in 1 .. Len(pending) /\ Len(pending) \in Nat
        /\ pending[i].stmt = s /\ ~pending[i].claimed
    BY <1>2 DEF TypeOK, Unclaimed
  <2>5. Removes(pending, i, pending')
    BY <1>2, <2>1, StmtsOfWithoutAt, Zenon
  <2>2. /\ Len(pending') = Len(pending) - 1
        /\ \A j \in 1 .. i - 1 : pending'[j] = pending[j]
        /\ \A j \in i .. Len(pending) - 1 : pending'[j] = pending[j + 1]
        /\ StmtsOf(pending') \subseteq StmtsOf(pending)
        /\ StmtsOf(pending) \subseteq StmtsOf(pending') \cup {s}
    BY <2>1, <2>5, Zenon DEF Removes
  <2>3. pending # <<>>
    BY <2>1
  <2>4. ASSUME flush.pc = "load"
        PROVE  /\ flush.n <= Len(pending')
               /\ \A j \in 1 .. flush.n : pending'[j] = pending[j]
               /\ \A j \in flush.n + 1 .. Len(pending') :
                    \E k \in flush.n + 1 .. Len(pending) : pending'[j].stmt = pending[k].stmt
    <3>1. flush.n \in Nat /\ flush.n < i
      BY <2>1, <2>4 DEF FlusherConsistent, TypeOK, FlusherStates
    <3>2. ASSUME NEW j \in flush.n + 1 .. Len(pending')
          PROVE  \E k \in flush.n + 1 .. Len(pending) : pending'[j].stmt = pending[k].stmt
      <4>1. CASE j < i
        <5>1. j \in 1 .. i - 1 /\ j \in flush.n + 1 .. Len(pending)
          BY <2>1, <2>2, <3>1, <4>1
        <5>. QED
          BY <2>2, <5>1, Zenon
      <4>2. CASE j >= i
        <5>1. j \in i .. Len(pending) - 1 /\ j + 1 \in flush.n + 1 .. Len(pending)
          BY <2>1, <2>2, <3>1, <4>2
        <5>. QED
          BY <2>2, <5>1, Zenon
      <4>. QED
        BY <2>1, <3>1, <4>1, <4>2
    <3>. QED
      BY <2>1, <2>2, <3>1, <3>2
  <2>. QED
    BY <2>1, <2>2, <2>3, <2>4, Zenon
<1>. QED
  BY <1>1, <1>2, Zenon DEF WaitFails

----------------------------------------------------------------------------
\* The buffer and its flusher agree.

\* No buffered row is numbered above the highest sequence the buffer knows
\* (note_tail_high), so a watermark never covers rows it does not carry.
LEMMA BufferedStep ==
  ASSUME Bookkeeping, Next
  PROVE  BufferedBelowTailHigh'
<1>1. /\ TypeOK /\ FramesWellFormed /\ DownIsEmpty /\ BufferedBelowTailHigh
      /\ FlusherConsistent /\ IdsFresh
  BY Zenon DEF Bookkeeping
<1>2. /\ pending \in Seq(Batches) /\ StmtsOf(pending) \subseteq Stmts
      /\ \A g \in flushed : StmtsOf(g.batches) \subseteq Stmts
  BY <1>1, StmtsOfIndex, Zenon DEF TypeOK, Generations
<1>3. ASSUME UNCHANGED <<up, nextSeq, tailHigh, seqOf>>,
             \A s \in Stmts : status[s] # "new" => status'[s] # "new",
             pending' # <<>> => tailHigh # 0,
             \A s \in StmtsOf(pending') : s \in Stmts /\ status[s] # "new" /\ seqOf[s] <= tailHigh,
             \A h \in flushed' : \A s \in StmtsOf(h.batches) : s \in Stmts /\ status[s] # "new"
      PROVE  BufferedBelowTailHigh'
  BY <1>1, <1>3, Zenon DEF BufferedBelowTailHigh, TypeOK
<1>4. ASSUME UNCHANGED <<up, nextSeq, tailHigh, seqOf, pending>>,
             \A s \in Stmts : status[s] # "new" => status'[s] # "new",
             \A h \in flushed' : \E g \in flushed : h.batches = g.batches
      PROVE  BufferedBelowTailHigh'
  <2>1. \A h \in flushed' : \A s \in StmtsOf(h.batches) : s \in Stmts /\ status[s] # "new"
    BY <1>1, <1>2, <1>4, Zenon DEF BufferedBelowTailHigh
  <2>. QED
    BY <1>1, <1>2, <1>3, <1>4, <2>1, Zenon DEF BufferedBelowTailHigh
<1>5. ASSUME NEW s \in Stmts, Stage(s) PROVE BufferedBelowTailHigh'
  <2>2. StmtsOf(pending') = StmtsOf(pending) \cup {s}
    BY <1>1, <1>5, StageFacts, Zenon
  <2>3. /\ status[s] = "new" /\ tailHigh' = nextSeq /\ nextSeq' = nextSeq + 1 /\ nextSeq # 0
        /\ seqOf' = [seqOf EXCEPT ![s] = nextSeq] /\ status' = [status EXCEPT ![s] = "staged"]
        /\ flushed' = flushed /\ up /\ nextSeq \in Nat /\ tailHigh \in Nat
        /\ status \in [Stmts -> Statuses] /\ seqOf \in [Stmts -> Nat]
    BY <1>1, <1>5, Zenon DEF Stage, TypeOK
  <2>4. \A x \in StmtsOf(pending') : status'[x] # "new" /\ seqOf'[x] <= tailHigh'
    BY <1>1, <1>2, <2>2, <2>3 DEF BufferedBelowTailHigh
  <2>. QED
    BY <1>1, <1>2, <2>3, <2>4 DEF BufferedBelowTailHigh
<1>6. ASSUME NEW s \in Stmts, StageFails(s) \/ WaitOk(s) PROVE BufferedBelowTailHigh'
  BY <1>1, <1>4, <1>6, Zenon DEF StageFails, WaitOk, bufferVars, TypeOK
<1>7. ASSUME NEW s \in Stmts, WaitFails(s) PROVE BufferedBelowTailHigh'
  <2>1. /\ StmtsOf(pending') \subseteq StmtsOf(pending)
        /\ pending' # <<>> => pending # <<>>
    BY <1>1, <1>7, UnrouteFacts, Zenon
  <2>2. /\ UNCHANGED <<up, nextSeq, tailHigh, seqOf, flushed>>
        /\ \A x \in Stmts : status[x] # "new" => status'[x] # "new"
    BY <1>1, <1>7, Zenon DEF WaitFails, TypeOK
  <2>. QED
    BY <1>1, <1>2, <1>3, <2>1, <2>2, Zenon DEF BufferedBelowTailHigh
<1>8. CASE SyncFails
  BY <1>1, <1>4, <1>8, Zenon DEF SyncFails, bufferVars, TypeOK
<1>9. CASE FlushNow \/ FlushLoadFails \/ FlushCommitted \/ FlushAmbiguous
  BY <1>4, <1>9, Zenon DEF FlushNow, FlushLoadFails, FlushCommitted, FlushAmbiguous, bufferVars,
    clientVars
<1>10. CASE FlushSnapshot
  <2>1. StmtsOf(pending') = StmtsOf(pending) /\ Len(pending') = Len(pending)
        /\ pending' \in Seq(Batches)
    BY <1>2, <1>10, StmtsOfClaimed, Zenon DEF FlushSnapshot
  <2>2. pending' # <<>> => pending # <<>>
    BY <1>2, <2>1
  <2>3. UNCHANGED <<up, nextSeq, tailHigh, seqOf, status, flushed>>
    BY <1>10, Zenon DEF FlushSnapshot, clientVars
  <2>. QED
    BY <1>1, <1>2, <1>3, <2>1, <2>2, <2>3, Zenon DEF BufferedBelowTailHigh
<1>11. ASSUME flush.pc = "load", pending' = Suffix(flush.n), NEW c,
              flushed' = Observed(flushed, table) \cup {Generation(c, Prefix(flush.n))},
              UNCHANGED <<up, nextSeq, tailHigh, seqOf, status>>
       PROVE  BufferedBelowTailHigh'
  <2>1. /\ Suffix(flush.n) # <<>> => pending # <<>>
        /\ StmtsOf(pending) = StmtsOf(Prefix(flush.n)) \cup StmtsOf(Suffix(flush.n))
    BY <1>1, <1>11, MoveOutFacts, Zenon
  <2>2. \A h \in flushed' : \/ h.batches = Prefix(flush.n)
                            \/ \E g \in flushed : h.batches = g.batches
    BY <1>1, <1>11, ObservedFacts DEF Generation, TypeOK
  <2>3. \A h \in flushed' : \A s \in StmtsOf(h.batches) : s \in Stmts /\ status[s] # "new"
    BY <1>1, <1>2, <2>1, <2>2, Zenon DEF BufferedBelowTailHigh
  <2>. QED
    BY <1>1, <1>2, <1>3, <1>11, <2>1, <2>3, Zenon DEF BufferedBelowTailHigh
<1>12. CASE FlushCovered \/ FlushPost
  BY <1>11, <1>12, Zenon DEF FlushCovered, FlushPost, clientVars
<1>13. ASSUME InFlight, MoveBack(flush.id), UNCHANGED <<up, nextSeq, tailHigh, seqOf, status>>
       PROVE  BufferedBelowTailHigh'
  <2>1. PICK g \in flushed :
           /\ flushed' = flushed \ {g}
           /\ StmtsOf(pending') = StmtsOf(g.batches) \cup StmtsOf(pending)
           /\ \A s \in StmtsOf(g.batches) : seqOf[s] <= flush.mark
    BY <1>1, <1>13, MoveBackFacts, Zenon
  <2>2. /\ tailHigh # 0 /\ flush.mark <= tailHigh
        /\ flush.mark \in Nat /\ tailHigh \in Nat /\ seqOf \in [Stmts -> Nat]
    BY <1>1, <1>13, Zenon DEF FlusherConsistent, Marked, InFlight, TypeOK, FlusherStates
  <2>3. \A s \in StmtsOf(pending') : s \in Stmts /\ status[s] # "new" /\ seqOf[s] <= tailHigh
    BY <1>1, <1>2, <2>1, <2>2 DEF BufferedBelowTailHigh
  <2>. QED
    BY <1>1, <1>2, <1>3, <1>13, <2>1, <2>2, <2>3, Zenon DEF BufferedBelowTailHigh
<1>14. CASE FlushConflict \/ FlushReloadFails
  BY <1>13, <1>14, Zenon DEF FlushConflict, FlushReloadFails, InFlight, clientVars
<1>15. CASE FlushReload
  BY <1>4, <1>13, <1>15, Zenon DEF FlushReload, InFlight, clientVars
<1>16. CASE CatalogApply \/ ForeignCommit \/ ForeignPropertyDrop \/ ScanLoad \/ ScanStale
  BY <1>4, <1>16, Zenon DEF CatalogApply, CatalogProcess, ForeignCommit, ForeignPropertyDrop,
    ScanLoad, ScanStale, bufferVars, clientVars
<1>17. CASE Crash
  <2>1. pending' = <<>> /\ flushed' = {} /\ ~up' /\ StmtsOf(pending') = {}
    BY <1>17 DEF Crash, StmtsOf
  <2>. QED
    BY <2>1, Zenon DEF BufferedBelowTailHigh
<1>18. CASE Boot
  <2> DEFINE survivors == {f \in frames : f.seq > Watermark}
  <2>1. /\ frames \in SUBSET Frames /\ survivors \in SUBSET Frames /\ IsFiniteSet(frames)
        /\ Watermark \in Nat /\ IsFiniteSet(survivors)
    BY <1>1, FS_Subset, Zenon DEF TypeOK, Metas, Watermark, Max2, FramesWellFormed
  <2>2. PICK q \in Ordered(survivors) :
          /\ pending' = [i \in DOMAIN q |-> [stmt |-> q[i].stmt, claimed |-> FALSE]]
          /\ tailHigh' = IF q = <<>> THEN 0 ELSE q[Len(q)].seq
    BY <1>18, Zenon DEF Boot
  <2>3. /\ q \in Seq(survivors) /\ Range(q) = survivors
        /\ survivors = {} <=> q = <<>>
        /\ \A f \in survivors : f.seq <= q[Len(q)].seq
        /\ q # <<>> => q[Len(q)] \in survivors
    BY <2>1, OrderedFacts, Zenon
  <2>4. Len(pending') = Len(q) /\ StmtsOf(pending') = {f.stmt : f \in survivors}
    BY <2>1, <2>2, <2>3, ReplayedBatches, ZenonT(30)
  <2>5. UNCHANGED <<seqOf, status, flushed>> /\ flushed = {}
    BY <1>1, <1>18, Zenon DEF Boot, clientVars, DownIsEmpty
  <2>6. \A s \in StmtsOf(pending') : status[s] # "new" /\ seqOf[s] <= tailHigh'
    BY <1>1, <2>1, <2>2, <2>3, <2>4, Zenon DEF FramesWellFormed, Frames
  <2>7. pending' # <<>> => tailHigh' # 0
    <3>1. pending' # <<>> => q # <<>>
      BY <2>2
    <3>. QED
      BY <2>1, <2>2, <2>3, <3>1 DEF Frames
  <2>8. tailHigh' < nextSeq'
    <3>1. PICK r \in Ordered(frames) : nextSeq' = SeqFloor(r, Watermark)
      BY <1>18, Zenon DEF Boot
    <3>2. /\ r = <<>> <=> frames = {}
          /\ \A f \in frames : f.seq <= r[Len(r)].seq
          /\ r # <<>> => r[Len(r)] \in frames
      BY <2>1, OrderedFacts, Zenon
    <3>3. CASE q = <<>>
      BY <2>1, <2>2, <3>1, <3>2, <3>3 DEF SeqFloor, ResumeSeq, Max2, Frames
    <3>4. CASE q # <<>>
      <4>1. /\ q[Len(q)] \in frames /\ r[Len(r)] \in frames
            /\ q[Len(q)].seq <= r[Len(r)].seq /\ r # <<>>
        BY <2>3, <3>2, <3>4, Zenon
      <4>. QED
        BY <2>1, <2>2, <3>1, <3>4, <4>1 DEF SeqFloor, ResumeSeq, Max2, Frames
    <3>. QED
      BY <3>3, <3>4, Zenon
  <2>. QED
    BY <2>5, <2>6, <2>7, <2>8, Zenon DEF BufferedBelowTailHigh
<1>19. CASE BootFrameless
  <2>1. /\ pending' = <<>> /\ flushed' = {} /\ tailHigh' = 0 /\ nextSeq' > 0
        /\ StmtsOf(pending') = {}
    BY <1>1, <1>19 DEF BootFrameless, DownIsEmpty, Max2, TypeOK, StmtsOf
  <2>. QED
    BY <2>1, Zenon DEF BufferedBelowTailHigh
<1>20. CASE ScanOverlay
  <2>1. \A h \in flushed' : \E g \in flushed : h.batches = g.batches
    BY <1>1, <1>20, ObservedFacts DEF ScanOverlay, TypeOK
  <2>. QED
    BY <1>4, <1>20, <2>1, Zenon DEF ScanOverlay, clientVars
<1>. QED
  BY <1>5, <1>6, <1>7, <1>8, <1>9, <1>10, <1>12, <1>14, <1>15, <1>16, <1>17, <1>18, <1>19,
     <1>20, Zenon DEF Next

\* The flusher's local variables agree with the buffer between its awaits: the
\* snapshot is a prefix of pending, the generation in flight is its own.
LEMMA FlusherStep ==
  ASSUME Bookkeeping, Next
  PROVE  FlusherConsistent'
<1>1. /\ TypeOK /\ DownIsEmpty /\ BufferedBelowTailHigh
      /\ FlusherConsistent /\ IdsFresh
  BY Zenon DEF Bookkeeping
<1>2. /\ pending \in Seq(Batches) /\ StmtsOf(pending) \subseteq Stmts
      /\ \A g \in flushed : StmtsOf(g.batches) \subseteq Stmts
      /\ \A i \in 1 .. Len(pending) : pending[i].stmt \in StmtsOf(pending)
      /\ flush.mark \in Nat /\ flush.n \in Nat /\ tailHigh \in Nat /\ Len(pending) \in Nat
  BY <1>1, StmtsOfIndex, Zenon DEF TypeOK, Generations, FlusherStates
<1>3. ASSUME flush'.pc \notin {"load", "posted", "reload"} PROVE FlusherConsistent'
  BY <1>3, Zenon DEF FlusherConsistent, Marked, InFlight
<1> DEFINE
      SameClaim == /\ flush'.pc = flush.pc \/ (flush.pc = "posted" /\ flush'.pc = "reload")
                   /\ flush'.mark = flush.mark /\ flush'.n = flush.n /\ flush'.id = flush.id
      SameGenerations == \A h \in flushed' :
                           \E g \in flushed : h.batches = g.batches /\ h.commit = g.commit
<1>4. ASSUME UNCHANGED <<tailHigh, seqOf, pending>>, SameClaim, SameGenerations
      PROVE  FlusherConsistent'
  BY <1>1, <1>4 DEF FlusherConsistent, Marked, InFlight, OwnGenerations
<1>20. UNCHANGED flush => SameClaim
  BY Zenon
<1>21. UNCHANGED flushed => SameGenerations
  BY Zenon
<1> HIDE DEF SameClaim, SameGenerations
<1>5. ASSUME NEW s \in Stmts, Stage(s) PROVE FlusherConsistent'
  <2>1. /\ status[s] = "new" /\ tailHigh' = nextSeq /\ tailHigh < nextSeq
        /\ seqOf' = [seqOf EXCEPT ![s] = nextSeq] /\ flushed' = flushed /\ flush' = flush
        /\ nextSeq \in Nat /\ seqOf \in [Stmts -> Nat]
    BY <1>1, <1>5, Zenon DEF Stage, TypeOK, BufferedBelowTailHigh
  <2>2. \A x \in StmtsOf(pending) : x # s
    BY <1>1, <2>1, Zenon DEF BufferedBelowTailHigh
  <2>3. /\ Len(pending') = Len(pending) + 1
        /\ \A i \in 1 .. Len(pending) : pending'[i] = pending[i]
    BY <1>1, <1>5, StageFacts, Zenon
  <2>4. flush.pc = "load" =>
          /\ flush.n <= Len(pending')
          /\ \A i \in 1 .. flush.n : /\ pending'[i].claimed
                                     /\ seqOf'[pending'[i].stmt] <= flush.mark
    BY <1>1, <1>2, <2>1, <2>2, <2>3 DEF FlusherConsistent
  <2>5. Marked => tailHigh' # 0 /\ flush.mark <= tailHigh'
    BY <1>1, <1>2, <2>1 DEF FlusherConsistent
  <2>6. InFlight => /\ flush.id # 0
                    /\ \A g \in OwnGenerations : \A x \in StmtsOf(g.batches) :
                         seqOf'[x] <= flush.mark
    BY <1>1, <1>2, <2>1, Zenon DEF FlusherConsistent, BufferedBelowTailHigh, OwnGenerations
  <2>. QED
    BY <2>1, <2>4, <2>5, <2>6, Zenon DEF FlusherConsistent, Marked, InFlight, OwnGenerations
<1>6. ASSUME NEW s \in Stmts, StageFails(s) \/ WaitOk(s) PROVE FlusherConsistent'
  BY <1>4, <1>6, <1>20, <1>21, Zenon DEF StageFails, WaitOk, bufferVars
<1>7. ASSUME NEW s \in Stmts, WaitFails(s) PROVE FlusherConsistent'
  <2>1. flush.pc = "load" => /\ flush.n <= Len(pending')
                             /\ \A j \in 1 .. flush.n : pending'[j] = pending[j]
    BY <1>1, <1>7, UnrouteFacts, Zenon
  <2>2. UNCHANGED <<tailHigh, seqOf, flushed, flush>>
    BY <1>7, Zenon DEF WaitFails
  <2>. QED
    BY <1>1, <2>1, <2>2, Zenon DEF FlusherConsistent, Marked, InFlight, OwnGenerations
<1>8. CASE SyncFails
  BY <1>4, <1>8, <1>20, <1>21, Zenon DEF SyncFails, bufferVars
<1>9. Idle.pc = "idle"
  BY Zenon DEF Idle
<1>10. CASE FlushNow
  <2>1. flush'.pc = flush.pc \/ flush'.pc = "snapshot"
    BY <1>10, Zenon DEF FlushNow, Idle
  <2>. QED
    BY <1>3, <1>10, <2>1, Zenon DEF FlushNow
<1>11. CASE FlushSnapshot
  <2>1. CASE pending = <<>>
    BY <1>3, <1>9, <1>11, <2>1, Zenon DEF FlushSnapshot
  <2>2. CASE pending # <<>>
    <3>1. /\ flush'.pc = "load" /\ flush'.n = Len(pending) /\ flush'.mark = tailHigh
          /\ UNCHANGED <<tailHigh, seqOf>>
          /\ pending' = [i \in DOMAIN pending |-> Claim(pending[i])]
      BY <1>1, <1>11, <2>2, Zenon DEF FlushSnapshot, TypeOK, FlusherStates, clientVars
    <3>2. /\ Len(pending') = Len(pending)
          /\ \A i \in 1 .. Len(pending) : pending'[i].claimed /\ pending'[i].stmt = pending[i].stmt
      BY <1>2, <3>1, StmtsOfClaimed
    <3>3. \A i \in 1 .. Len(pending) : seqOf[pending[i].stmt] <= tailHigh
      BY <1>1, <1>2, Zenon DEF BufferedBelowTailHigh
    <3>4. tailHigh # 0
      BY <1>1, <2>2, Zenon DEF BufferedBelowTailHigh
    <3>5. \A i \in 1 .. flush'.n : /\ pending'[i].claimed
                                   /\ seqOf'[pending'[i].stmt] <= flush'.mark
      BY <3>1, <3>2, <3>3, ZenonT(30)
    <3>6. flush'.n <= Len(pending') /\ tailHigh' # 0 /\ flush'.mark <= tailHigh'
      BY <1>2, <3>1, <3>2, <3>4
    <3>. QED
      BY <3>1, <3>5, <3>6, Zenon DEF FlusherConsistent, InFlight
  <2>. QED
    BY <2>1, <2>2, Zenon
<1>12. CASE FlushCovered \/ FlushLoadFails \/ FlushCommitted \/ FlushReload \/ FlushReloadFails
            \/ Crash
  BY <1>3, <1>9, <1>12, Zenon DEF FlushCovered, FlushLoadFails, FlushCommitted, FlushReload,
    FlushReloadFails, Crash
<1>13. CASE FlushPost
  <2>1. /\ flush.pc = "load" /\ flush'.pc = "posted" /\ flush'.id = lastId + 1
        /\ flush'.mark = flush.mark /\ lastId \in Nat
        /\ flushed' = Observed(flushed, table)
             \cup {Generation([snap |-> lastId + 1, mark |-> 0], Prefix(flush.n))}
        /\ UNCHANGED <<tailHigh, seqOf>>
    BY <1>1, <1>13, Zenon DEF FlushPost, TypeOK, FlusherStates, clientVars
  <2>2. \A g \in Observed(flushed, table) : g.commit.snap <= lastId /\ g.commit.snap \in Nat
    BY <1>1, ObservedFresh, Zenon
  <2>3. \A g \in flushed' : g.commit.snap = lastId + 1 => g.batches = Prefix(flush.n)
    BY <2>1, <2>2 DEF Generation
  <2>4. \A x \in StmtsOf(Prefix(flush.n)) : seqOf[x] <= flush.mark
    BY <1>1, <2>1, MoveOutFacts, Zenon
  <2>5. tailHigh' # 0 /\ flush'.mark <= tailHigh'
    BY <1>1, <2>1, Zenon DEF FlusherConsistent, Marked
  <2>6. \A g \in OwnGenerations' : \A x \in StmtsOf(g.batches) : seqOf'[x] <= flush'.mark
    BY <2>1, <2>3, <2>4, Zenon DEF OwnGenerations
  <2>7. flush'.id # 0 /\ flush'.pc # "load"
    BY <2>1
  <2>. QED
    BY <2>5, <2>6, <2>7, Zenon DEF FlusherConsistent
<1>14. CASE FlushConflict
  <2>1. flush'.pc \in {"idle", "snapshot"}
    BY <1>14, Zenon DEF FlushConflict, Idle
  <2>. QED
    BY <1>3, <2>1, Zenon
<1>15. CASE FlushAmbiguous
  <2>1. SameClaim
    BY <1>1, <1>15, Zenon DEF FlushAmbiguous, TypeOK, FlusherStates, SameClaim
  <2>. QED
    BY <1>4, <1>15, <1>21, <2>1, Zenon DEF FlushAmbiguous, bufferVars, clientVars
<1>16. CASE CatalogApply
  <2>1. PICK p \in posts : CatalogProcess(p)
    BY <1>16, Zenon DEF CatalogApply
  <2>2. SameClaim
    BY <1>1, <2>1, Zenon DEF CatalogProcess, TypeOK, FlusherStates, SameClaim
  <2>. QED
    BY <1>4, <1>21, <2>1, <2>2, Zenon DEF CatalogProcess, bufferVars, clientVars
<1>17. CASE ForeignCommit \/ ForeignPropertyDrop \/ ScanLoad \/ ScanStale
  BY <1>4, <1>17, <1>20, <1>21, Zenon
    DEF ForeignCommit, ForeignPropertyDrop, ScanLoad, ScanStale, bufferVars,
    clientVars
<1>18. CASE Boot \/ BootFrameless
  <2>1. flush' = flush /\ flush.pc = "idle"
    BY <1>1, <1>9, <1>18, Zenon DEF Boot, BootFrameless, DownIsEmpty
  <2>. QED
    BY <1>3, <2>1, Zenon
<1>19. CASE ScanOverlay
  <2>1. SameGenerations
    BY <1>1, <1>19, ObservedFacts DEF ScanOverlay, TypeOK, SameGenerations
  <2>. QED
    BY <1>4, <1>19, <1>20, <2>1, Zenon DEF ScanOverlay, clientVars
<1>. QED
  BY <1>5, <1>6, <1>7, <1>8, <1>10, <1>11, <1>12, <1>13, <1>14, <1>15, <1>16, <1>17, <1>18,
     <1>19, Zenon DEF Next

----------------------------------------------------------------------------
\* A statement has one batch in the buffer.

Once(batches) == \A i, j \in DOMAIN batches : batches[i].stmt = batches[j].stmt => i = j

\* A statement is buffered once: in `pending`, or in the generation the flusher may
\* still return to it, all of which it claimed.
BufferedOnce ==
  /\ Once(pending)
  /\ InFlight => \A g \in OwnGenerations :
       /\ Once(g.batches) /\ \A i \in DOMAIN g.batches : g.batches[i].claimed
       /\ StmtsOf(g.batches) \cap StmtsOf(pending) = {}

\* Some batch of s is not claimed.
Loose(batches, s) == \E i \in DOMAIN batches : batches[i].stmt = s /\ ~batches[i].claimed

----------------------------------------------------------------------------
\* What the moves of batches do to them.

\* Staging a statement that is not buffered.
LEMMA OnceAppend ==
  ASSUME NEW q \in Seq(Batches), NEW b \in Batches, Once(q), b.stmt \notin StmtsOf(q),
         NEW a, a = Append(q, b)
  PROVE  Once(a) /\ \A s : s # b.stmt /\ Loose(a, s) => Loose(q, s)
<1>1. Appends(q, b, a) /\ Len(q) \in Nat /\ DOMAIN q = 1 .. Len(q)
  BY StmtsOfAppend, StmtsOfIndex, Zenon
<1>2. DOMAIN a = 1 .. Len(q) + 1 /\ \A i \in 1 .. Len(q) : a[i] = q[i] /\ q[i].stmt \in StmtsOf(q)
  BY <1>1, StmtsOfIndex, Zenon DEF Appends
<1>3. a[Len(q) + 1] = b /\ \A i \in DOMAIN a : i \in 1 .. Len(q) \/ i = Len(q) + 1
  BY <1>1, <1>2 DEF Appends
<1>4. Once(a)
  BY <1>1, <1>2, <1>3 DEF Once
<1>5. ASSUME NEW s, s # b.stmt, Loose(a, s) PROVE Loose(q, s)
  <2>1. PICK i \in DOMAIN a : a[i].stmt = s /\ ~a[i].claimed
    BY <1>5, Zenon DEF Loose
  <2>2. i \in DOMAIN q /\ a[i] = q[i]
    BY <1>1, <1>2, <1>3, <1>5, <2>1, Zenon
  <2> QED BY <2>1, <2>2, Zenon DEF Loose
<1> QED BY <1>4, <1>5, Zenon

\* A generation returns to the front of `pending`.
LEMMA OnceConcat ==
  ASSUME NEW q \in Seq(Batches), NEW r \in Seq(Batches), Once(q), Once(r),
         StmtsOf(q) \cap StmtsOf(r) = {}, \A i \in DOMAIN q : q[i].claimed,
         NEW c, c = q \o r
  PROVE  Once(c) /\ \A s : Loose(c, s) => Loose(r, s)
<1>1. /\ c \in Seq(Batches) /\ Len(c) = Len(q) + Len(r) /\ Len(q) \in Nat /\ Len(r) \in Nat
      /\ DOMAIN q = 1 .. Len(q) /\ DOMAIN r = 1 .. Len(r) /\ DOMAIN c = 1 .. Len(q) + Len(r)
      /\ \A i \in 1 .. Len(q) : c[i] = q[i]
      /\ \A i \in 1 .. Len(r) : c[Len(q) + i] = r[i]
  OBVIOUS
<1>2. /\ \A i \in 1 .. Len(q) : q[i].stmt \in StmtsOf(q)
      /\ \A i \in 1 .. Len(r) : r[i].stmt \in StmtsOf(r)
  BY StmtsOfIndex, Zenon
<1>3. ASSUME NEW i \in DOMAIN c, i \notin DOMAIN q
      PROVE  i - Len(q) \in DOMAIN r /\ c[i] = r[i - Len(q)]
  <2>1. i - Len(q) \in 1 .. Len(r) /\ i = Len(q) + (i - Len(q))
    BY <1>1, <1>3
  <2> QED BY <1>1, <2>1, Zenon
<1>4. ASSUME NEW i \in DOMAIN c, NEW j \in DOMAIN c, c[i].stmt = c[j].stmt
      PROVE  i = j
  <2>1. CASE i \in DOMAIN q /\ j \in DOMAIN q
    BY <1>1, <1>4, <2>1 DEF Once
  <2>2. CASE i \in DOMAIN q /\ j \notin DOMAIN q
    BY <1>1, <1>2, <1>3, <1>4, <2>2
  <2>3. CASE i \notin DOMAIN q /\ j \in DOMAIN q
    BY <1>1, <1>2, <1>3, <1>4, <2>3
  <2>4. CASE i \notin DOMAIN q /\ j \notin DOMAIN q
    <3>1. i - Len(q) = j - Len(q)
      BY <1>3, <1>4, <2>4 DEF Once
    <3> QED BY <1>1, <3>1
  <2> QED BY <2>1, <2>2, <2>3, <2>4, Zenon
<1>5. ASSUME NEW s, Loose(c, s) PROVE Loose(r, s)
  <2>1. PICK i \in DOMAIN c : c[i].stmt = s /\ ~c[i].claimed
    BY <1>5, Zenon DEF Loose
  <2>2. i \notin DOMAIN q
    BY <1>1, <2>1, Zenon
  <2> QED BY <1>3, <2>1, <2>2, Zenon DEF Loose
<1> QED BY <1>4, <1>5, Zenon DEF Once

\* The batches a and b of q are apart, and a is claimed if q is up to n.
SplitsOnce(q, n, a, b) ==
  /\ Once(a) /\ Once(b) /\ StmtsOf(a) \cap StmtsOf(b) = {}
  /\ (\A i \in 1 .. n : q[i].claimed) => \A i \in DOMAIN a : a[i].claimed
  /\ \A s : Loose(b, s) => Loose(q, s)

\* The flusher's prefix leaves `pending`.
LEMMA OnceSplit ==
  ASSUME NEW q \in Seq(Batches), NEW n \in Nat, n <= Len(q), Once(q),
         NEW a, a = SubSeq(q, 1, n), NEW b, b = SubSeq(q, n + 1, Len(q))
  PROVE  SplitsOnce(q, n, a, b)
<1>1. /\ a \in Seq(Batches) /\ Len(a) = n /\ \A i \in 1 .. n : a[i] = q[i]
      /\ b \in Seq(Batches) /\ Len(b) = Len(q) - n
      /\ \A i \in 1 .. Len(q) - n : b[i] = q[n + i]
  OBVIOUS
<1>2. /\ DOMAIN a = 1 .. n /\ DOMAIN b = 1 .. Len(q) - n /\ DOMAIN q = 1 .. Len(q)
      /\ Len(q) \in Nat
  BY <1>1
<1>3. \A i \in DOMAIN a : i \in DOMAIN q /\ a[i] = q[i] /\ i <= n
  <2> SUFFICES ASSUME NEW i \in 1 .. n
               PROVE  i \in DOMAIN q /\ a[i] = q[i] /\ i <= n
    BY <1>2, Zenon
  <2>1. i \in 1 .. Len(q) /\ i <= n
    BY <1>2
  <2> QED BY <1>1, <1>2, <2>1, Zenon
<1>4. \A i \in DOMAIN b : n + i \in DOMAIN q /\ b[i] = q[n + i] /\ i > 0
  <2> SUFFICES ASSUME NEW i \in 1 .. Len(q) - n
               PROVE  n + i \in DOMAIN q /\ b[i] = q[n + i] /\ i > 0
    BY <1>2, Zenon
  <2>1. n + i \in 1 .. Len(q) /\ i > 0
    BY <1>2
  <2> QED BY <1>1, <1>2, <2>1, Zenon
<1>5. Once(a)
  BY <1>3, Zenon DEF Once
<1>6. Once(b)
  <2> SUFFICES ASSUME NEW i \in DOMAIN b, NEW j \in DOMAIN b, b[i].stmt = b[j].stmt PROVE i = j
    BY Zenon DEF Once
  <2>1. n + i = n + j
    BY <1>4 DEF Once
  <2> QED BY <1>2, <2>1
<1>7. StmtsOf(a) \cap StmtsOf(b) = {}
  <2> SUFFICES ASSUME NEW i \in DOMAIN a, NEW j \in DOMAIN b, a[i].stmt = b[j].stmt PROVE FALSE
    BY Zenon DEF StmtsOf
  <2>1. i = n + j
    BY <1>3, <1>4 DEF Once
  <2> QED BY <1>2, <1>3, <1>4, <2>1
<1>8. (\A i \in 1 .. n : q[i].claimed) => \A i \in DOMAIN a : a[i].claimed
  BY <1>1, <1>2, Zenon
<1>9. ASSUME NEW s, Loose(b, s) PROVE Loose(q, s)
  BY <1>4, <1>9, Zenon DEF Loose
<1> QED BY <1>5, <1>6, <1>7, <1>8, <1>9, Zenon DEF SplitsOnce

\* unroute_failed takes the only batch of its statement.
LEMMA OnceRemove ==
  ASSUME NEW q \in Seq(Batches), NEW i \in 1 .. Len(q), Once(q), NEW w, w = WithoutAt(q, i)
  PROVE  /\ Once(w) /\ q[i].stmt \notin StmtsOf(w)
         /\ \A s : Loose(w, s) => Loose(q, s)
<1> DEFINE k(j) == IF j < i THEN j ELSE j + 1
<1>1. Removes(q, i, w) /\ Len(q) \in Nat /\ DOMAIN q = 1 .. Len(q)
  BY StmtsOfWithoutAt
<1>2. DOMAIN w = 1 .. Len(q) - 1
  BY <1>1 DEF Removes
<1>3. \A j \in DOMAIN w : k(j) \in DOMAIN q /\ w[j] = q[k(j)] /\ k(j) # i
  <2> SUFFICES ASSUME NEW j \in DOMAIN w PROVE k(j) \in DOMAIN q /\ w[j] = q[k(j)] /\ k(j) # i
    BY Zenon
  <2>1. CASE j < i
    <3>1. j \in 1 .. i - 1
      BY <1>2, <2>1
    <3> QED BY <1>1, <1>2, <2>1, <3>1 DEF Removes
  <2>2. CASE ~(j < i)
    <3>1. j \in i .. Len(q) - 1
      BY <1>1, <1>2, <2>2
    <3> QED BY <1>1, <1>2, <2>2, <3>1 DEF Removes
  <2> QED BY <2>1, <2>2, Zenon
<1>4. Once(w)
  <2> SUFFICES ASSUME NEW x \in DOMAIN w, NEW y \in DOMAIN w, w[x].stmt = w[y].stmt PROVE x = y
    BY Zenon DEF Once
  <2>1. k(x) = k(y)
    BY <1>3, Zenon DEF Once
  <2> QED BY <1>2, <2>1
<1> HIDE DEF k
<1>5. q[i].stmt \notin StmtsOf(w)
  <2> SUFFICES ASSUME NEW j \in DOMAIN w, w[j].stmt = q[i].stmt PROVE FALSE
    BY Zenon DEF StmtsOf
  <2> QED BY <1>1, <1>3, Zenon DEF Once
<1>6. ASSUME NEW s, Loose(w, s) PROVE Loose(q, s)
  <2>1. PICK j \in DOMAIN w : w[j].stmt = s /\ ~w[j].claimed
    BY <1>6, Zenon DEF Loose
  <2> QED BY <1>3, <2>1, Zenon DEF Loose
<1> QED BY <1>4, <1>5, <1>6, Zenon

----------------------------------------------------------------------------
\* A statement is buffered once.

\* A replay reads every frame once, and a statement has one sequence (replay_tail).
LEMMA ReplayOnce ==
  ASSUME TypeOK, FramesWellFormed, Boot
  PROVE  Once(pending')
<1> DEFINE survivors == {f \in frames : f.seq > Watermark}
<1>1. PICK q \in Ordered(survivors) :
        pending' = [i \in DOMAIN q |-> [stmt |-> q[i].stmt, claimed |-> FALSE]]
  BY Zenon DEF Boot
<1>2. /\ survivors \in SUBSET Frames /\ IsFiniteSet(survivors)
      /\ \A f \in survivors : f.seq = seqOf[f.stmt] /\ f.seq \in Nat
  BY FS_Subset, Zenon DEF TypeOK, FramesWellFormed, Frames
<1>3. /\ Cardinality(survivors) \in Nat
      /\ DOMAIN q = 1 .. Cardinality(survivors) /\ \A i \in DOMAIN q : q[i] \in survivors
      /\ \A i, j \in DOMAIN q : i < j => q[i].seq < q[j].seq
  BY <1>2, FS_CardinalityType, Zenon DEF Ordered
<1>4. DOMAIN pending' = DOMAIN q /\ \A i \in DOMAIN q : pending'[i].stmt = q[i].stmt
  BY <1>1, Zenon
<1> HIDE DEF survivors
<1>5. ASSUME NEW i \in DOMAIN q, NEW j \in DOMAIN q, q[i].stmt = q[j].stmt PROVE i = j
  <2>1. q[i].seq = q[j].seq /\ q[i].seq \in Nat
    BY <1>2, <1>3, <1>5, Zenon
  <2>2. i \in Nat /\ j \in Nat
    BY <1>3
  <2>3. ~(i < j) /\ ~(j < i)
    BY <1>3, <2>1
  <2> QED BY <2>2, <2>3
<1> QED BY <1>4, <1>5, Zenon DEF Once

\* Every step of the buffer keeps its statements apart, and only an append or a
\* replay adds a batch that is not claimed (append, snapshot_pending,
\* move_pending_to_flushed_gen, move_flushed_back_to_pending, unroute_failed).
LEMMA BufferedOnceStep ==
  ASSUME Bookkeeping, BufferedOnce, Next
  PROVE  /\ BufferedOnce'
         /\ \A s \in Stmts : Loose(pending', s) => Loose(pending, s) \/ Stage(s) \/ Boot
<1>1. /\ TypeOK /\ FramesWellFormed /\ DownIsEmpty /\ BufferedBelowTailHigh
      /\ FlusherConsistent /\ IdsFresh
  BY Zenon DEF Bookkeeping
<1>2. /\ pending \in Seq(Batches) /\ Once(pending) /\ Idle.pc = "idle"
      /\ \A g \in flushed : g.batches \in Seq(Batches)
  BY <1>1, Zenon DEF TypeOK, Generations, BufferedOnce, Idle
<1> DEFINE New == \A s \in Stmts : Loose(pending', s) => Loose(pending, s) \/ Stage(s) \/ Boot
           Goal == BufferedOnce' /\ New
<1> SUFFICES Goal
  BY Zenon
<1>3. pending' = pending => New
  BY Zenon
<1>4. flush'.pc \notin {"posted", "reload"} /\ Once(pending') => BufferedOnce'
  BY Zenon DEF BufferedOnce, InFlight
<1>5. ASSUME StmtsOf(pending') \subseteq StmtsOf(pending), Once(pending'),
             flush'.pc = flush.pc \/ (flush.pc = "posted" /\ flush'.pc = "reload"),
             flush'.id = flush.id,
             \A h \in flushed' : \E g \in flushed : h.batches = g.batches /\ h.commit = g.commit
      PROVE  BufferedOnce'
  <2> SUFFICES ASSUME InFlight', NEW h \in OwnGenerations'
               PROVE  /\ Once(h.batches) /\ \A i \in DOMAIN h.batches : h.batches[i].claimed
                      /\ StmtsOf(h.batches) \cap StmtsOf(pending') = {}
    BY <1>5, Zenon DEF BufferedOnce
  <2>1. PICK g \in OwnGenerations : h.batches = g.batches
    BY <1>5, Zenon DEF OwnGenerations
  <2>2. InFlight
    BY <1>5, Zenon DEF InFlight
  <2> QED BY <1>5, <2>1, <2>2, Zenon DEF BufferedOnce
<1>6. UNCHANGED <<pending, flush, flushed>> => Goal
  BY <1>2, <1>3, <1>5, Zenon
<1> HIDE DEF Goal
<1>7. ASSUME NEW s \in Stmts, Stage(s) PROVE Goal
  <2> DEFINE b == [stmt |-> s, claimed |-> FALSE]
  <2>1. b \in Batches /\ b.stmt = s
    BY Zenon DEF Batches
  <2>2. pending' = Append(pending, b) /\ status[s] = "new" /\ UNCHANGED <<flush, flushed>>
    BY <1>7, Zenon DEF Stage
  <2> HIDE DEF b
  <2>3. s \notin StmtsOf(pending) /\ \A g \in flushed : s \notin StmtsOf(g.batches)
    BY <1>1, <2>2, Zenon DEF BufferedBelowTailHigh
  <2>4. Once(pending') /\ \A x : x # s /\ Loose(pending', x) => Loose(pending, x)
    BY <1>2, <2>1, <2>2, <2>3, OnceAppend, Zenon
  <2>5. StmtsOf(pending') = StmtsOf(pending) \cup {s}
    BY <1>1, <1>7, StageFacts, Zenon
  <2>6. BufferedOnce'
    BY <2>2, <2>3, <2>4, <2>5, Zenon DEF BufferedOnce, InFlight, OwnGenerations
  <2> QED BY <1>7, <2>4, <2>6, Zenon DEF Goal
<1>8. ASSUME NEW s \in Stmts, StageFails(s) \/ WaitOk(s) PROVE Goal
  BY <1>6, <1>8, Zenon DEF StageFails, WaitOk, bufferVars
<1>9. ASSUME NEW s \in Stmts, WaitFails(s) PROVE Goal
  <2>1. CASE pending' = pending
    BY <1>6, <1>9, <2>1, Zenon DEF WaitFails
  <2>2. ASSUME NEW i \in Unclaimed(s), pending' = WithoutAt(pending, i) PROVE Goal
    <3>1. i \in 1 .. Len(pending)
      BY <1>2 DEF Unclaimed
    <3>2. Once(pending') /\ \A x : Loose(pending', x) => Loose(pending, x)
      BY <1>2, <2>2, <3>1, OnceRemove, Zenon
    <3>3. StmtsOf(pending') \subseteq StmtsOf(pending) /\ UNCHANGED <<flush, flushed>>
      BY <1>1, <1>9, UnrouteFacts, Zenon DEF WaitFails
    <3>4. BufferedOnce'
      BY <1>5, <3>2, <3>3, Zenon
    <3> QED BY <3>2, <3>4, Zenon DEF Goal
  <2> QED BY <1>9, <2>1, <2>2, Zenon DEF WaitFails
<1>10. CASE SyncFails \/ ForeignCommit \/ ForeignPropertyDrop \/ ScanLoad \/ ScanStale
            \/ BootFrameless
  BY <1>6, <1>10, Zenon DEF SyncFails, ForeignCommit, ForeignPropertyDrop, ScanLoad, ScanStale,
    BootFrameless, bufferVars
<1>11. CASE FlushNow
  <2>1. pending' = pending /\ flush.pc = "idle" /\ (flush' = flush \/ flush'.pc = "snapshot")
    BY <1>11, Zenon DEF FlushNow, Idle
  <2>2. flush'.pc \notin {"posted", "reload"}
    BY <2>1, Zenon
  <2> QED BY <1>2, <1>3, <1>4, <2>1, <2>2, Zenon DEF Goal
<1>12. CASE FlushSnapshot
  <2>1. pending' = [i \in DOMAIN pending |-> Claim(pending[i])]
    BY <1>12, Zenon DEF FlushSnapshot
  <2>2. /\ Len(pending') = Len(pending) /\ pending' \in Seq(Batches)
        /\ \A i \in 1 .. Len(pending) : pending'[i].claimed /\ pending'[i].stmt = pending[i].stmt
    BY <1>2, <2>1, StmtsOfClaimed, Zenon
  <2>3. DOMAIN pending' = 1 .. Len(pending) /\ DOMAIN pending = 1 .. Len(pending)
    BY <1>2, <2>2
  <2>4. Once(pending') /\ New
    BY <1>2, <2>2, <2>3, Zenon DEF Once, Loose
  <2>5. flush'.pc \notin {"posted", "reload"}
    BY <1>1, <1>2, <1>12, Zenon DEF FlushSnapshot, TypeOK, FlusherStates
  <2> QED BY <1>4, <2>4, <2>5, Zenon DEF Goal
<1>13. ASSUME flush.pc = "load", pending' = Suffix(flush.n)
       PROVE  /\ Once(pending') /\ New /\ Once(Prefix(flush.n))
              /\ \A i \in DOMAIN Prefix(flush.n) : Prefix(flush.n)[i].claimed
              /\ StmtsOf(Prefix(flush.n)) \cap StmtsOf(pending') = {}
  <2>1. /\ flush.n \in Nat /\ flush.n <= Len(pending)
        /\ \A i \in 1 .. flush.n : pending[i].claimed
    BY <1>1, <1>13, Zenon DEF TypeOK, FlusherStates, FlusherConsistent
  <2> DEFINE a == Prefix(flush.n)
  <2>2. a = SubSeq(pending, 1, flush.n) /\ pending' = SubSeq(pending, flush.n + 1, Len(pending))
    BY <1>13, Zenon DEF Prefix, Suffix
  <2> HIDE DEF a
  <2>3. SplitsOnce(pending, flush.n, a, pending')
    BY <1>2, <2>1, <2>2, OnceSplit, Zenon
  <2> QED BY <2>1, <2>3, Zenon DEF SplitsOnce, a
<1>14. CASE FlushCovered
  <2>1. flush.pc = "load" /\ pending' = Suffix(flush.n) /\ flush' = Idle
    BY <1>14, Zenon DEF FlushCovered
  <2>2. flush'.pc \notin {"posted", "reload"}
    BY <1>2, <2>1, Zenon
  <2> QED BY <1>4, <1>13, <2>1, <2>2, Zenon DEF Goal
<1>15. CASE FlushPost
  <2>1. /\ flush.pc = "load" /\ pending' = Suffix(flush.n) /\ lastId \in Nat
        /\ flush'.pc = "posted" /\ flush'.id = lastId + 1
        /\ flushed' = Observed(flushed, table)
             \cup {Generation([snap |-> lastId + 1, mark |-> 0], Prefix(flush.n))}
    BY <1>1, <1>15, Zenon DEF FlushPost, TypeOK, FlusherStates
  <2>2. \A g \in Observed(flushed, table) : g.commit.snap <= lastId /\ g.commit.snap \in Nat
    BY <1>1, ObservedFresh, Zenon
  <2>3. \A g \in OwnGenerations' : g.batches = Prefix(flush.n)
    BY <2>1, <2>2 DEF Generation, OwnGenerations
  <2>4. BufferedOnce'
    BY <1>13, <2>1, <2>3, Zenon DEF BufferedOnce
  <2> QED BY <1>13, <2>1, <2>4, Zenon DEF Goal
<1>16. CASE FlushLoadFails \/ FlushCommitted
  <2>1. flush'.pc = "idle" /\ pending' = pending
    BY <1>2, <1>16, Zenon DEF FlushLoadFails, FlushCommitted, bufferVars
  <2> QED BY <1>2, <1>3, <1>4, <2>1, Zenon DEF Goal
<1>17. ASSUME InFlight, MoveBack(flush.id) PROVE Once(pending') /\ New
  <2>1. PICK g \in OwnGenerations : pending' = g.batches \o pending
    BY <1>17, Zenon DEF MoveBack, OwnGenerations
  <2>2. /\ g.batches \in Seq(Batches) /\ Once(g.batches)
        /\ \A i \in DOMAIN g.batches : g.batches[i].claimed
        /\ StmtsOf(g.batches) \cap StmtsOf(pending) = {}
    BY <1>2, <1>17, Zenon DEF OwnGenerations, BufferedOnce
  <2>3. Once(pending') /\ \A s : Loose(pending', s) => Loose(pending, s)
    BY <1>2, <2>1, <2>2, OnceConcat, Zenon
  <2> QED BY <2>3, Zenon
<1>18. CASE FlushConflict
  <2>1. InFlight /\ MoveBack(flush.id)
    BY <1>18, Zenon DEF FlushConflict, InFlight
  <2>2. flush'.pc \notin {"posted", "reload"}
    BY <1>18, Zenon DEF FlushConflict, Idle
  <2> QED BY <1>4, <1>17, <2>1, <2>2, Zenon DEF Goal
<1>19. CASE FlushReload \/ FlushReloadFails
  <2>1. InFlight /\ flush'.pc = "idle" /\ (pending' = pending \/ MoveBack(flush.id))
    BY <1>2, <1>19, Zenon DEF FlushReload, FlushReloadFails, InFlight
  <2> QED BY <1>2, <1>3, <1>4, <1>17, <2>1, Zenon DEF Goal
<1>20. CASE FlushAmbiguous \/ CatalogApply
  <2>1. /\ flush'.pc = flush.pc \/ (flush.pc = "posted" /\ flush'.pc = "reload")
        /\ flush'.id = flush.id
    BY <1>1, <1>20, Zenon DEF FlushAmbiguous, CatalogApply, CatalogProcess, TypeOK, FlusherStates
  <2>2. UNCHANGED <<pending, flushed>>
    BY <1>20, Zenon DEF FlushAmbiguous, CatalogApply, CatalogProcess, bufferVars
  <2>3. BufferedOnce'
    BY <1>2, <1>5, <2>1, <2>2, Zenon
  <2> QED BY <1>3, <2>2, <2>3, Zenon DEF Goal
<1>21. CASE Crash
  <2>1. pending' = <<>> /\ flush'.pc = "idle"
    BY <1>2, <1>21, Zenon DEF Crash
  <2>2. Once(pending') /\ New
    BY <2>1 DEF Once, Loose
  <2> QED BY <1>4, <2>1, <2>2, Zenon DEF Goal
<1>22. CASE Boot
  <2>1. Once(pending') /\ flush'.pc = "idle"
    BY <1>1, <1>2, <1>22, ReplayOnce, Zenon DEF Boot, DownIsEmpty
  <2> QED BY <1>4, <1>22, <2>1, Zenon DEF Goal
<1>23. CASE ScanOverlay
  <2>1. \A h \in flushed' : \E g \in flushed : h.batches = g.batches /\ h.commit = g.commit
    BY <1>1, <1>23, ObservedFacts DEF ScanOverlay, TypeOK
  <2>2. UNCHANGED <<pending, flush>>
    BY <1>23, Zenon DEF ScanOverlay
  <2>3. BufferedOnce'
    BY <1>2, <1>5, <2>1, <2>2, Zenon
  <2> QED BY <1>3, <2>2, <2>3, Zenon DEF Goal
<1> QED
  BY <1>7, <1>8, <1>9, <1>10, <1>11, <1>12, <1>14, <1>15, <1>16, <1>18, <1>19, <1>20, <1>21,
     <1>22, <1>23, Zenon DEF Next
=============================================================================
