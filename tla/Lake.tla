------------------------------- MODULE Lake -------------------------------
(***************************************************************************)
(* The Iceberg tables and everything that commits to them.                  *)
(*                                                                          *)
(* A catalog holds one metadata record per table: its identity, the         *)
(* snapshots it retains and the refs (branches) that name some of them.     *)
(* Every writer works the same way: it loads the metadata, stages files in  *)
(* the object store, and posts one request that carries the requirements it *)
(* observed and the updates it wants (overwrite.rs).  Between the load and  *)
(* the post anybody may commit.  The operations are those of                *)
(*   overwrite.rs  autocommit UPDATE/DELETE, PK-enforced INSERT, ingest     *)
(*   txn.rs        explicit transactions over one or several tables         *)
(*   branch.rs     create, create-all, drop, drop-all, fast-forward merge   *)
(*   compact.rs    the small-file rewrite                                   *)
(*   maintain.rs   snapshot expiry and orphan-file removal                  *)
(*                                                                          *)
(* A job is one run of one operation.  A row is its origin and its key; a   *)
(* file stands for a data file with the manifests its commit wrote.         *)
(***************************************************************************)
EXTENDS Integers, Sequences, SequencesExt, FiniteSets, FiniteSetsExt

CONSTANTS
    TableOrder,          \* the tables, in the order their identifiers sort
    Jobs,                \* the jobs, 1 .. n
    Keys,                \* primary-key values
    Bounds,              \* the instances: what the jobs do, and from which state
    MAX_COMMIT_ATTEMPTS, \* optimistic attempts of an autocommit statement
    KeepLast,            \* snapshots an expiry keeps beside the referenced ones
    TargetRows,          \* compaction leaves files of at least this size alone
    MinInputFiles        \* and rewrites no fewer than this many

VARIABLES
    bound,  \* the instance: constant in a behaviour
    meta,   \* [Tables -> table metadata]: the catalog
    store,  \* every file ever written: rows, whether it is past the grace
            \* window, whether it was deleted from the object store
    job     \* [Jobs -> what each job is doing]

vars == <<bound, meta, store, job>>

ASSUME ConstantsAssumption ==
    /\ Jobs \subseteq Nat /\ IsFiniteSet(Jobs) /\ IsFiniteSet(Keys)
    /\ {MAX_COMMIT_ATTEMPTS, KeepLast, TargetRows, MinInputFiles} \subseteq Nat \ {0}

Tables == Range(TableOrder)
Refs == {"main", "dev"}
None == 0  \* no snapshot

-----------------------------------------------------------------------------
(* Snapshots and files.  past is a history variable: the snapshot and all    *)
(* its ancestors, including those that were expired since; ops and view are  *)
(* the statements of its commit and what a transaction last showed of them.  *)

Ids(m) == {s.id : s \in m.snaps}
Snap(m, id) == CHOOSE s \in m.snaps : s.id = id

\* The files a head holds; a table without a snapshot has none.
FilesAt(m, id) == IF id = None THEN {} ELSE Snap(m, id).files
RowsOf(files) == UNION {store[f].rows : f \in files}
RowsAt(m, id) == RowsOf(FilesAt(m, id))
PastOf(m, id) == IF id = None THEN {} ELSE Snap(m, id).past

\* The head of the branch an engine commits to.  Only main may be absent: the
\* table is then empty.
BranchMissing(m, r) == r # "main" /\ m.refs[r] = None

-----------------------------------------------------------------------------
(* Statements.  Updates assign the key: they are the ones a key check sees.  *)

Insert(rows) == [op |-> "append", rows |-> rows]
AppendFiles(files) == [op |-> "files", files |-> files]
Delete(k) == [op |-> "delete", key |-> k]
Update(k, to) == [op |-> "update", key |-> k, to |-> to]
IsDml(o) == o.op \in {"delete", "update"}

Matched(o, rows) == {r \in rows : r.key = o.key}
Evaluate(o, rows) ==
    IF o.op = "delete" THEN rows \ Matched(o, rows)
    ELSE {[r EXCEPT !.key = IF @ = o.key THEN o.to ELSE @] : r \in rows}

\* One statement over rows held in memory.
ApplyDmlToBatches(o, rows) == IF Matched(o, rows) = {} THEN rows ELSE Evaluate(o, rows)

\* Folding the DML of a statement list over one batch of rows: what survives,
\* and whether any statement matched a row at its turn.
FoldDml(ops, rows) ==
    FoldLeft(LAMBDA acc, o :
                IF IsDml(o) /\ Matched(o, acc.rows) # {}
                THEN [rows |-> Evaluate(o, acc.rows), changed |-> TRUE] ELSE acc,
             [rows |-> rows, changed |-> FALSE], ops)

\* Buffered rows meet the statements after their own, and no earlier one.
Appended_AllOps(ops) ==
    UNION {FoldDml(ops, ops[i].rows).rows : i \in {j \in DOMAIN ops : ops[j].op = "append"}}
Appended(ops) ==
    UNION {FoldDml(SubSeq(ops, i + 1, Len(ops)), ops[i].rows).rows :
             i \in {j \in DOMAIN ops : ops[j].op = "append"}}

DuplicateKey(rows) == \E r, s \in rows : r # s /\ r.key = s.key

-----------------------------------------------------------------------------
(* The requests a catalog takes.  heads are the refs the request pins.       *)

Request(t, m) == [table |-> t, uuid |-> m.uuid, heads |-> <<>>, adds |-> {},
                  sets |-> <<>>, drops |-> {}, expires |-> {}]
Pin(m, refs) == [r \in refs |-> m.refs[r]]

\* The catalog's side: requirements, validity and effect of a request.
Holds(q) == /\ meta[q.table].uuid = q.uuid
            /\ \A r \in DOMAIN q.heads : meta[q.table].refs[r] = q.heads[r]
Valid(q) == \A r \in DOMAIN q.sets :
               q.sets[r] \in Ids(meta[q.table]) \cup {s.id : s \in q.adds}
After(m, q) ==
    [m EXCEPT !.snaps = {s \in @ \cup q.adds : s.id \notin q.expires},
              !.refs = [r \in Refs |->
                          IF r \in DOMAIN q.sets THEN q.sets[r]
                          ELSE IF r \in q.drops \/ @[r] \in q.expires THEN None
                          ELSE @[r]]]

-----------------------------------------------------------------------------
(* Staging a commit (prepare_commit): from one metadata load, what to write  *)
(* and what to ask of the catalog.  enforced: the table declares a key and   *)
(* enforcement is on.                                                        *)

NeedScan(ops, enforced) == enforced \/ \E i \in DOMAIN ops : IsDml(ops[i])

Staged(m, ref, ops, enforced) ==
    LET live == FilesAt(m, m.refs[ref])
        gone == IF NeedScan(ops, enforced)
                THEN {f \in live : FoldDml(ops, store[f].rows).changed} ELSE {}
    IN  [removed |-> gone,
         kept |-> live \ gone,
         written |-> UNION {FoldDml(ops, store[f].rows).rows : f \in gone} \cup Appended(ops),
         pre |-> UNION {ops[i].files : i \in {k \in DOMAIN ops : ops[k].op = "files"}}]

NoOp(p) == p.removed = {} /\ p.written = {} /\ p.pre = {}
FinalRows(p) == RowsOf(p.kept) \cup p.written

\* The key check covers every row the table will hold, not the new rows alone; a
\* net no-op returns before it.
Violates_NewRowsOnly(p, enforced) == enforced /\ ~NoOp(p) /\ DuplicateKey(p.written)
Violates(p, enforced) == enforced /\ ~NoOp(p) /\ DuplicateKey(FinalRows(p))

\* DELETED entries of carried manifests stay until a scan rewrites the manifest.
NewSnapshot(m, id, ref, p, scan, ops, view) ==
    [id |-> id, parent |-> m.refs[ref],
     files |-> p.kept \cup p.pre \cup {id},
     deleted |-> p.removed \cup
                   IF scan \/ m.refs[ref] = None THEN {} ELSE Snap(m, m.refs[ref]).deleted,
     past |-> {id} \cup PastOf(m, m.refs[ref]),
     uuid |-> m.uuid, ops |-> ops, view |-> view]

\* A commit is anchored to the head it was computed from.
CommitRequest(t, m, ref, s) ==
    [Request(t, m) EXCEPT !.heads = Pin(m, {ref}), !.adds = {s},
                          !.sets = [r \in {ref} |-> s.id]]
-----------------------------------------------------------------------------
(* Jobs.  what names the operation, its table and its ref.    late holds a    *)
(* request whose answer was lost: it may still arrive.                       *)

JobStart(w) == [what |-> w, st |-> "new", ops |-> <<>>, left |-> <<>>,
                reqs |-> <<>>, attempt |-> 0, tables |-> <<>>, aborted |-> FALSE,
                applied |-> {}, late |-> <<>>,
                seen |-> <<>>, orphans |-> {}]

Target(j) == job[j].what.on
Enforced == bound.enforced  \* the tables declare a primary key, which is enforced
Endpoint == bound.endpoint  \* the catalog has the multi-table transaction endpoint
Strict == bound.strict      \* ICEGRES_TXN_STRICT
Index(t) == CHOOSE i \in DOMAIN TableOrder : TableOrder[i] = t

\* Snapshot and file ids are drawn at random: here, from the job and its attempt.
NewId(j, t) == 100 * j + 10 * job[j].attempt + Index(t)
Row(j, n, k) == [id |-> <<100 * j, n>>, key |-> k]

WriteFile(t, id, rows) ==
    store' = [f \in DOMAIN store \cup {id} |->
                IF f = id THEN [table |-> t, uuid |-> meta[t].uuid, rows |-> rows,
                                old |-> FALSE, gone |-> FALSE]
                ELSE store[f]]

Become(j, fields) ==
    job' = [job EXCEPT ![j] = [f \in DOMAIN job[j] |->
                                 IF f \in DOMAIN fields THEN fields[f] ELSE job[j][f]]]
Is(j, op) == job[j].what.op = op
At(j, st) == job[j].st = st

\* A file that was deleted cannot be read.
Readable(m, ref) == \A f \in FilesAt(m, m.refs[ref]) : ~store[f].gone

-----------------------------------------------------------------------------
(* Autocommit statements: execute, insert_enforced, append_stream.  Every    *)
(* attempt loads the table anew and repeats the whole preparation, the key   *)
(* check included.                                                           *)

DmlOps == {Delete(k) : k \in Keys}
            \cup {Update(p[1], p[2]) : p \in {q \in Keys \X Keys : q[1] # q[2]}}
PlanInsertRows(j, n) == {Insert({Row(j, n, k)}) : k \in Keys}

Autocommit(j) == job[j].what.op \in {"dml", "insert", "ingest"}

StageAttempt(j, ops) ==
    LET ref == job[j].what.ref
        m == meta[Target(j)]
        enforced == Enforced /\ ~Is(j, "ingest")
        p == Staged(m, ref, ops, enforced)
        id == NewId(j, Target(j))
        s == NewSnapshot(m, id, ref, p, NeedScan(ops, enforced), ops, <<>>)
    IN  IF BranchMissing(m, ref) \/ ~Readable(m, ref) \/ Violates(p, enforced)
        THEN Become(j, [st |-> "failed"]) /\ UNCHANGED store
        ELSE IF NoOp(p) THEN Become(j, [st |-> "done"]) /\ UNCHANGED store
        ELSE /\ Become(j, [st |-> "post", ops |-> ops, attempt |-> job[j].attempt + 1,
                           reqs |-> <<CommitRequest(Target(j), m, ref, s)>>])
             /\ WriteFile(Target(j), id, p.written)

Execute(j) ==
    /\ Is(j, "dml") /\ At(j, "new")
    /\ \E o \in DmlOps : StageAttempt(j, <<o>>)
    /\ UNCHANGED <<bound, meta>>

InsertEnforced(j, rows) == StageAttempt(j, <<rows>>)
AutocommitInsert(j) ==
    /\ Is(j, "insert") /\ At(j, "new")
    /\ \E rows \in PlanInsertRows(j, 0) : InsertEnforced(j, rows)
    /\ UNCHANGED <<bound, meta>>

\* The streaming ingest writes its data files once, before the commit loop.
AppendStream(j) ==
    /\ Is(j, "ingest") /\ At(j, "new")
    /\ \E k \in Keys : WriteFile(Target(j), 100 * j, {Row(j, 0, k)})
    /\ Become(j, [st |-> "stage", ops |-> <<AppendFiles({100 * j})>>])
    /\ UNCHANGED <<bound, meta>>

Attempt(j) ==
    /\ Autocommit(j) /\ At(j, "stage")
    /\ StageAttempt(j, job[j].ops)
    /\ UNCHANGED <<bound, meta>>

-----------------------------------------------------------------------------
(* Explicit transactions.  A table is pinned by the first statement that     *)
(* touches it; the session buffers the statements and shows their effect.    *)
(* mat holds the effective rows once an UPDATE or DELETE has run.            *)

Transaction(j) == job[j].what.op \in {"txn", "txn2"}
TxnTables(j) == IF Is(j, "txn") THEN {Target(j)} ELSE Tables

PinTable(t, ref) == [head |-> meta[t].refs[ref], base |-> RowsAt(meta[t], meta[t].refs[ref]),
                     ops |-> <<>>, mat |-> <<>>]
Entry(j, t) == IF t \in DOMAIN job[j].tables THEN job[j].tables[t]
               ELSE PinTable(t, job[j].what.ref)

AppendBatches(e) == UNION {e.ops[i].rows : i \in {k \in DOMAIN e.ops : e.ops[k].op = "append"}}
\* mat is empty or the one-element sequence of the materialized rows.
Effective(e) == IF e.mat # <<>> THEN e.mat[1] ELSE e.base \cup AppendBatches(e)

TxnSelect(e) == e
TxnInsert(e, o) ==
    [e EXCEPT !.ops = Append(@, o),
              !.mat = IF @ = <<>> THEN @ ELSE <<@[1] \cup o.rows>>]
TxnDml(e, o) ==
    [e EXCEPT !.ops = Append(@, o), !.mat = <<ApplyDmlToBatches(o, Effective(e))>>]

\* Statement-time key feedback, against the transaction's own view.
Collides(e, o) ==
    /\ Enforced
    /\ \/ o.op = "append" /\ \E r \in o.rows, s \in Effective(e) : r.key = s.key
       \/ o.op = "update" /\ DuplicateKey(ApplyDmlToBatches(o, Effective(e)))

Statement(j) ==
    /\ Transaction(j) /\ job[j].st \in {"new", "open"} /\ ~job[j].aborted
    /\ job[j].attempt < bound.statements
    /\ \E t \in TxnTables(j) :
         LET e == Entry(j, t)
             unpinnable == t \notin DOMAIN job[j].tables /\ BranchMissing(meta[t], job[j].what.ref)
             Touch(x) == Become(j, [st |-> "open", attempt |-> job[j].attempt + 1,
                                    tables |-> [u \in DOMAIN job[j].tables \cup {t} |->
                                                  IF u = t THEN x ELSE job[j].tables[u]]])
             Fail == Become(j, [st |-> "open", aborted |-> TRUE])
         IN  \/ unpinnable /\ Fail
             \/ /\ ~unpinnable
                /\ \/ t \notin DOMAIN job[j].tables /\ Touch(TxnSelect(e))
                   \/ \E o \in PlanInsertRows(j, job[j].attempt) :
                        IF Collides(e, o) THEN Fail ELSE Touch(TxnInsert(e, o))
                   \/ \E o \in DmlOps :
                        IF Collides(e, o) THEN Fail ELSE Touch(TxnDml(e, o))
    /\ UNCHANGED <<bound, meta, store>>

Rollback(j) ==
    /\ Transaction(j) /\ At(j, "open")
    /\ Become(j, [st |-> "rolledback"])
    /\ UNCHANGED <<bound, meta, store>>

\* COMMIT takes the session.  Several written tables go through the catalog's
\* transaction endpoint; without it, strict mode refuses and the default
\* commits table by table in identifier order.
Written(j) == SelectSeq(TableOrder, LAMBDA t : t \in DOMAIN job[j].tables
                                                 /\ job[j].tables[t].ops # <<>>)
StalePin(j, t) == meta[t].refs[job[j].what.ref] # job[j].tables[t].head

Commit(j) ==
    /\ Transaction(j) /\ At(j, "open")
    /\ LET w == Written(j)
           multi == Len(w) > 1
       IN  Become(j, IF job[j].aborted \/ (multi /\ ~Endpoint /\ Strict)
                     THEN [st |-> "rolledback"]
                     ELSE IF w = <<>> THEN [st |-> "done"]
                     ELSE [st |-> IF multi /\ Endpoint THEN "multi" ELSE "ordered",
                           left |-> w, attempt |-> 1])
    /\ UNCHANGED <<bound, meta, store>>

\* The failure of one table: nothing was committed before it, or something was.
FailCommit_AlwaysRollsBack(j) == Become(j, [st |-> "rolledback", reqs |-> <<>>])
FailCommit(j) == Become(j, [st |-> IF job[j].applied = {} THEN "rolledback" ELSE "partial",
                            reqs |-> <<>>])

PinnedPlan(j, t) == Staged(meta[t], job[j].what.ref, job[j].tables[t].ops, Enforced)
\* The head must still be the pin, and the key check of the commit decides.
PinnedFails(j, t) ==
    \/ BranchMissing(meta[t], job[j].what.ref) \/ StalePin(j, t)
    \/ ~Readable(meta[t], job[j].what.ref) \/ Violates(PinnedPlan(j, t), Enforced)
PinnedRequest(j, t) ==
    LET e == job[j].tables[t] IN
    CommitRequest(t, meta[t], job[j].what.ref,
        NewSnapshot(meta[t], NewId(j, t), job[j].what.ref, PinnedPlan(j, t),
                    NeedScan(e.ops, Enforced), e.ops, <<Effective(e)>>))

\* One commit per table.
CommitPinned(j) ==
    /\ Transaction(j) /\ At(j, "ordered")
    /\ LET t == Head(job[j].left)
           rest == Tail(job[j].left)
       IN  IF PinnedFails(j, t) THEN FailCommit(j) /\ UNCHANGED store
           ELSE IF NoOp(PinnedPlan(j, t))
           THEN /\ Become(j, [left |-> rest, applied |-> job[j].applied \cup {t},
                              st |-> IF rest = <<>> THEN "done" ELSE "ordered"])
                /\ UNCHANGED store
           ELSE /\ WriteFile(t, NewId(j, t), PinnedPlan(j, t).written)
                /\ Become(j, [left |-> rest, st |-> "post", reqs |-> <<PinnedRequest(j, t)>>])
    /\ UNCHANGED <<bound, meta>>

\* Every table is staged, then one request carries them all.
CommitPinnedMulti(j) ==
    /\ Transaction(j) /\ At(j, "multi")
    /\ LET t == Head(job[j].left)
           rest == Tail(job[j].left)
           idle == NoOp(PinnedPlan(j, t))
           reqs == job[j].reqs \o IF idle THEN <<>> ELSE <<PinnedRequest(j, t)>>
       IN  IF PinnedFails(j, t) THEN FailCommit(j) /\ UNCHANGED store
           ELSE /\ IF idle THEN UNCHANGED store
                   ELSE WriteFile(t, NewId(j, t), PinnedPlan(j, t).written)
                /\ Become(j, [left |-> rest, reqs |-> reqs,
                              st |-> IF rest # <<>> THEN "multi"
                                     ELSE IF reqs = <<>> THEN "done" ELSE "post"])
    /\ UNCHANGED <<bound, meta>>

HandleQuery(j) == Statement(j) \/ Rollback(j) \/ Commit(j)

-----------------------------------------------------------------------------
(* Branches.  Each table is loaded in turn; the refs of several tables move  *)
(* in one request.                                                           *)

\* A new branch pins main where it forks main's head: the cut it makes over
\* several tables is then one instant of the catalog.
SetBranchRequest_NoAnchor(t, m, id, anchor) ==
    [Request(t, m) EXCEPT !.heads = [r \in {"dev"} |-> None], !.sets = [r \in {"dev"} |-> id]]
SetBranchRequest(t, m, id, anchor) ==
    [Request(t, m) EXCEPT
       !.heads = [r \in {"dev"} \cup (IF anchor THEN {"main"} ELSE {}) |->
                    IF r = "dev" THEN None ELSE m.refs["main"]],
       !.sets = [r \in {"dev"} |-> id]]
RemoveBranchRequest(t, m) ==
    [Request(t, m) EXCEPT !.heads = Pin(m, {"dev"}), !.drops = {"dev"}]
\* A merge pins the head it moves from and the head it moves to.
FastForwardRequest_FromOnly(t, m) ==
    [Request(t, m) EXCEPT !.heads = Pin(m, {"dev"}), !.sets = [r \in {"main"} |-> m.refs["dev"]]]
FastForwardRequest(t, m) ==
    [Request(t, m) EXCEPT !.heads = Pin(m, Refs), !.sets = [r \in {"main"} |-> m.refs["dev"]]]

\* The parent chain of a head, as far as the metadata still knows it.
Lineage(m, head) ==
    LET walk[n \in 0 .. Cardinality(m.snaps)] ==
          IF n = 0 THEN {head} \cap Ids(m)
          ELSE walk[n - 1] \cup ({Snap(m, x).parent : x \in walk[n - 1]} \cap Ids(m))
    IN  walk[Cardinality(m.snaps)]

Classify(m, a, b) ==
    CASE a = None /\ b = None -> "noref"
      [] a # None /\ b = None -> "onlyA"
      [] a = None /\ b # None -> "onlyB"
      [] a # None /\ a = b -> "unchanged"
      [] OTHER -> IF b \in Lineage(m, a) THEN "advancedA"
                  ELSE IF a \in Lineage(m, b) THEN "advancedB" ELSE "diverged"

MergeStatus(m) == Classify(m, m.refs["dev"], m.refs["main"])

RefJob(j) == job[j].what.op \in {"branch", "branchAt", "branchAll", "drop", "dropAll", "merge"}
OverAll(j) == job[j].what.op \in {"branchAll", "dropAll", "merge"}

\* Requests that go to the transaction endpoint.
Batch(j, reqs) == Len(reqs) > 1 \/ job[j].what.op \in {"branchAll", "dropAll"}

\* What each job may ask for after loading a table; nothing means it refuses.
CreateBranch(t, m) ==
    IF m.refs["main"] = None THEN {} ELSE {<<SetBranchRequest(t, m, m.refs["main"], TRUE)>>}
CreateBranchAt(t, m) == {<<SetBranchRequest(t, m, id, FALSE)>> : id \in Ids(m)}
CreateBranchAll(t, m) ==
    {IF m.refs["main"] = None THEN <<>> ELSE <<SetBranchRequest(t, m, m.refs["main"], TRUE)>>}
DropBranch(t, m) == IF m.refs["dev"] = None THEN {} ELSE {<<RemoveBranchRequest(t, m)>>}
DropBranchAll(t, m) == {IF m.refs["dev"] = None THEN <<>> ELSE <<RemoveBranchRequest(t, m)>>}
PlanMerge(t, m) ==
    CASE MergeStatus(m) = "advancedA" -> {<<FastForwardRequest(t, m)>>}
      [] MergeStatus(m) \in {"onlyA", "diverged"} -> {}
      [] OTHER -> {<<>>}

RefRequests(j, t, m) ==
    CASE Is(j, "branch") -> CreateBranch(t, m)
      [] Is(j, "branchAt") -> CreateBranchAt(t, m)
      [] Is(j, "branchAll") -> CreateBranchAll(t, m)
      [] Is(j, "drop") -> DropBranch(t, m)
      [] Is(j, "dropAll") -> DropBranchAll(t, m)
      [] Is(j, "merge") -> PlanMerge(t, m)

\* Both refs of a merge were on some table when it was loaded.
RefsExist(loaded) == \A r \in Refs : \E i \in DOMAIN loaded : loaded[i][r] # None

\* With nothing to do a merge of existing refs is complete and the others report an
\* error.  Several tables need the transaction endpoint; create-all and drop-all
\* always use it, a merge of one table does not.
RefReady(j, reqs, loaded) ==
    IF reqs = <<>> THEN IF Is(j, "merge") /\ RefsExist(loaded) THEN "done" ELSE "failed"
    ELSE IF Batch(j, reqs) /\ ~Endpoint THEN "failed" ELSE "post"

LoadRefs(j) ==
    /\ RefJob(j) /\ job[j].st \in {"new", "load"}
    /\ LET left == IF ~At(j, "new") THEN job[j].left
                   ELSE IF OverAll(j) THEN TableOrder ELSE <<Target(j)>>
           m == meta[Head(left)]
           asks == RefRequests(j, Head(left), m)
           loaded == IF Is(j, "merge") THEN Append(job[j].seen, m.refs) ELSE <<>>
       IN  \/ asks = {} /\ Become(j, [st |-> "failed", reqs |-> <<>>])
           \/ \E more \in asks :
                  LET reqs == job[j].reqs \o more IN
                  Become(j, [left |-> Tail(left), reqs |-> reqs, seen |-> loaded,
                             st |-> IF Tail(left) # <<>> THEN "load"
                                    ELSE RefReady(j, reqs, loaded)])
    /\ UNCHANGED <<bound, meta, store>>

-----------------------------------------------------------------------------
(* Compaction of main: one load anchors everything, a conflict is final.     *)

\* plan_compaction: the small data files, if there are enough of them.
CompactInputs(m) ==
    LET small == {f \in FilesAt(m, m.refs["main"]) :
                    store[f].rows # {} /\ Cardinality(store[f].rows) < TargetRows}
    IN  IF Cardinality(small) >= MinInputFiles THEN small ELSE {}

CompactPlan_Forgets(m) ==
    LET inputs == CompactInputs(m) IN
    [removed |-> inputs, kept |-> {}, written |-> RowsOf(inputs), pre |-> {}]
CompactPlan(m) ==
    LET inputs == CompactInputs(m) IN
    [removed |-> inputs, kept |-> FilesAt(m, m.refs["main"]) \ inputs,
     written |-> RowsOf(inputs), pre |-> {}]

\* A replace snapshot: the inputs become DELETED entries, the rest is carried.
CompactSnapshot(m, id) == NewSnapshot(m, id, "main", CompactPlan(m), TRUE, <<>>, <<>>)

Compact(j) ==
    /\ Is(j, "compact") /\ At(j, "new")
    /\ LET m == meta[Target(j)]
           id == NewId(j, Target(j))
           p == CompactPlan(m)
       IN  IF p.removed = {} THEN Become(j, [st |-> "done"]) /\ UNCHANGED store
           ELSE IF ~Readable(m, "main") THEN Become(j, [st |-> "failed"]) /\ UNCHANGED store
           ELSE /\ WriteFile(Target(j), id, p.written)
                /\ Become(j, [st |-> "post", reqs |-> <<CommitRequest(Target(j), m, "main",
                                                                     CompactSnapshot(m, id))>>])
    /\ UNCHANGED <<bound, meta>>

-----------------------------------------------------------------------------
(* Expiry: the snapshots come from one load, the refs from a later listing.  *)
(* Newest are the kept ones by timestamp, that is by the clocks of their     *)
(* writers: any order, ties and skew included.                               *)

ExpireLoad(j) ==
    /\ Is(j, "expire") /\ At(j, "new")
    /\ Become(j, [st |-> "refs", seen |-> <<meta[Target(j)]>>])
    /\ UNCHANGED <<bound, meta, store>>

Newest(m) ==
    {k \in SUBSET m.snaps : Cardinality(k) = Min({KeepLast, Cardinality(m.snaps)})}

Referenced_MainOnly(m) == {m.refs["main"]}
Referenced(m) == {m.refs[r] : r \in Refs}

ExpireListRefs(j) ==
    /\ Is(j, "expire") /\ At(j, "refs")
    /\ LET m == job[j].seen[1] IN
       \E k \in Newest(m) :
         LET old == Ids(m) \ ({s.id : s \in k} \cup Referenced(meta[Target(j)])) IN
         Become(j, IF old = {} THEN [st |-> "done"]
                   ELSE [st |-> "post", seen |-> <<meta[Target(j)]>>,
                         reqs |-> <<[Request(Target(j), m) EXCEPT
                                       !.heads = Pin(m, {r \in {"main"} : m.refs[r] # None}),
                                       !.expires = old]>>])
    /\ UNCHANGED <<bound, meta, store>>

-----------------------------------------------------------------------------
(* Orphan removal: the table is loaded, then the cut-off is taken and the    *)
(* store listed; then the table is loaded again until it stands still, and   *)
(* what became live is spared.                                               *)

LiveKeys(m) == UNION {s.files \cup s.deleted : s \in m.snaps}

\* Only files past the grace window at the cut-off, and of this table's directory,
\* are candidates.
Candidates_AnyAge(t, m) == {f \in DOMAIN store : store[f].table = t /\ ~store[f].gone}
Candidates(t, m) == {f \in DOMAIN store :
                       /\ store[f].table = t /\ store[f].uuid = m.uuid
                       /\ ~store[f].gone /\ store[f].old}

OrphanLoad(j) ==
    /\ Is(j, "orphans") /\ At(j, "new")
    /\ Become(j, [st |-> "list", seen |-> <<meta[Target(j)]>>])
    /\ UNCHANGED <<bound, meta, store>>

\* The cut-off and the listing; the live set is that of the load.  A file written
\* between the two is too young.
OrphanList(j) ==
    /\ Is(j, "orphans") /\ At(j, "list")
    /\ LET m == job[j].seen[1]
           orphans == Candidates(Target(j), m) \ LiveKeys(m)
       IN  Become(j, IF orphans = {} THEN [st |-> "done", seen |-> <<>>]
                     ELSE [st |-> "reload", orphans |-> orphans])
    /\ UNCHANGED <<bound, meta, store>>

OrphanReload(j) ==
    /\ Is(j, "orphans") /\ At(j, "reload")
    /\ LET m == meta[Target(j)]
           attempt == job[j].attempt + 1
           orphans == job[j].orphans \ LiveKeys(m)
       IN  Become(j, IF m.uuid # job[j].seen[1].uuid THEN [st |-> "failed"]
                     ELSE IF m = job[j].seen[1] THEN [st |-> "delete"]
                     ELSE IF attempt = 3 THEN [st |-> "failed"]
                     ELSE [st |-> "reload", attempt |-> attempt, orphans |-> orphans,
                           seen |-> <<m>>])
    /\ UNCHANGED <<bound, meta, store>>

\* Files are deleted one by one.
OrphanDelete(j) ==
    /\ Is(j, "orphans") /\ At(j, "delete")
    /\ IF job[j].orphans = {} THEN Become(j, [st |-> "done"]) /\ UNCHANGED store
       ELSE \E f \in job[j].orphans :
              /\ Become(j, [orphans |-> job[j].orphans \ {f}])
              /\ store' = [store EXCEPT ![f].gone = TRUE]
    /\ UNCHANGED <<bound, meta>>

-----------------------------------------------------------------------------
(* The request reaches the catalog, which applies all of it or none of it.   *)

Accepted(reqs) == \A i \in DOMAIN reqs : Holds(reqs[i]) /\ Valid(reqs[i])
Conflicts(reqs) == \E i \in DOMAIN reqs : ~Holds(reqs[i])
Apply(reqs) ==
    meta' = [t \in Tables |-> LET q == SelectSeq(reqs, LAMBDA r : r.table = t) IN
                              IF q = <<>> THEN meta[t] ELSE After(meta[t], q[1])]

OnCommitted(j) ==
    Become(j, [st |-> IF job[j].left = <<>> THEN "done" ELSE "ordered", reqs |-> <<>>,
               applied |-> job[j].applied \cup {job[j].reqs[i].table : i \in DOMAIN job[j].reqs}])
\* Only an autocommit statement tries again, from a fresh load.
OnConflict(j) ==
    IF Transaction(j) THEN FailCommit(j)
    ELSE Become(j, [reqs |-> <<>>,
                    st |-> IF Autocommit(j) /\ job[j].attempt < MAX_COMMIT_ATTEMPTS THEN "stage" ELSE "failed"])
OnError(j) == IF Transaction(j) THEN FailCommit(j) ELSE Become(j, [reqs |-> <<>>, st |-> "failed"])

Answer(j) ==
    /\ \/ Accepted(job[j].reqs) /\ Apply(job[j].reqs) /\ OnCommitted(j)
       \/ Conflicts(job[j].reqs) /\ OnConflict(j) /\ UNCHANGED meta
       \/ ~Conflicts(job[j].reqs) /\ ~Accepted(job[j].reqs) /\ OnError(j) /\ UNCHANGED meta
    /\ UNCHANGED <<bound, store>>
PostCommit(j) == At(j, "post") /\ ~Batch(j, job[j].reqs) /\ Answer(j)
PostTransaction(j) == At(j, "post") /\ Batch(j, job[j].reqs) /\ Answer(j)

\* No answer comes back: an error to the caller, and a request that may still
\* arrive.
Lose(j) ==
    /\ At(j, "post") /\ bound.losses
    /\ Become(j, [st |-> IF ~Transaction(j) THEN "failed"
                         ELSE IF job[j].applied = {} THEN "rolledback" ELSE "partial",
                  reqs |-> <<>>, late |-> job[j].reqs])
    /\ UNCHANGED <<bound, meta, store>>

Arrive(j) ==
    /\ job[j].late # <<>> /\ Accepted(job[j].late)
    /\ Apply(job[j].late)
    /\ Become(j, [late |-> <<>>])
    /\ UNCHANGED <<bound, store>>

\* DROP TABLE and CREATE TABLE of the same name: a new identity.
Recreate(j) ==
    /\ Is(j, "recreate") /\ At(j, "new")
    /\ meta' = [meta EXCEPT ![Target(j)] = [uuid |-> @.uuid + 1, snaps |-> {},
                                        refs |-> [r \in Refs |-> None]]]
    /\ Become(j, [st |-> "done"])
    /\ UNCHANGED <<bound, store>>

\* The grace window passes.  It is longer than any commit takes from its first
\* file to the arrival of its request.
InFlight(j) == job[j].st \in {"stage", "post", "ordered", "multi"} \/ job[j].late # <<>>
Age ==
    /\ \A j \in Jobs : ~InFlight(j)
    /\ \E j \in Jobs : Is(j, "orphans") /\ job[j].st \in {"new", "list"}  \* nobody else looks at ages
    /\ \E f \in DOMAIN store : ~store[f].old
    /\ store' = [f \in DOMAIN store |-> [store[f] EXCEPT !.old = TRUE]]
    /\ UNCHANGED <<bound, meta, job>>

-----------------------------------------------------------------------------
(* Where a behaviour starts: the chain of snapshots, their rows and the refs *)
(* of each table.  Every snapshot of a chain adds one file.                  *)

StartSnap(t, n, chain) ==
    [id |-> chain[n], parent |-> IF n = 1 THEN None ELSE chain[n - 1],
     files |-> {chain[i] : i \in 1 .. n}, deleted |-> {}, past |-> {chain[i] : i \in 1 .. n},
     uuid |-> 1, ops |-> <<Insert(bound.start[t].rows[n])>>, view |-> <<>>]
StartMeta(t) ==
    LET c == bound.start[t].chain IN
    [uuid |-> 1, snaps |-> {StartSnap(t, n, c) : n \in DOMAIN c}, refs |-> bound.start[t].refs]
StartFile(t, n) == [table |-> t, uuid |-> 1, rows |-> bound.start[t].rows[n],
                    old |-> TRUE, gone |-> FALSE]

Init ==
    /\ bound \in Bounds
    /\ meta = [t \in Tables |-> StartMeta(t)]
    /\ store = [f \in UNION {Range(bound.start[t].chain) : t \in Tables} |->
                  LET t == CHOOSE u \in Tables : f \in Range(bound.start[u].chain)
                  IN  StartFile(t, CHOOSE n \in DOMAIN bound.start[t].chain :
                                     bound.start[t].chain[n] = f)]
    /\ job = [j \in Jobs |-> JobStart(IF j <= Len(bound.jobs) THEN bound.jobs[j]
                                      ELSE [op |-> "none", ref |-> "main", on |-> Head(TableOrder)])]

Next ==
    \/ \E j \in Jobs :
         \/ Execute(j) \/ AutocommitInsert(j) \/ AppendStream(j) \/ Attempt(j)
         \/ HandleQuery(j) \/ CommitPinned(j) \/ CommitPinnedMulti(j)
         \/ LoadRefs(j) \/ Compact(j)
         \/ ExpireLoad(j) \/ ExpireListRefs(j)
         \/ OrphanLoad(j) \/ OrphanList(j) \/ OrphanReload(j) \/ OrphanDelete(j)
         \/ PostCommit(j) \/ PostTransaction(j) \/ Lose(j) \/ Arrive(j) \/ Recreate(j)
    \/ Age

Spec == Init /\ [][Next]_vars

-----------------------------------------------------------------------------
(* Properties. *)

Present(t) == {r \in Refs : meta[t].refs[r] # None}

\* A table that declares a primary key and takes only enforced writes never
\* shows two rows with one key, on any branch, whatever inserts, updates,
\* transactions, late requests and merges race: the check of prepare_commit runs
\* on all the rows the new snapshot will hold, and the request is anchored to the
\* head those rows were read from.
PrimaryKeyHolds ==
    bound.enforced => \A t \in Tables : \A r \in Present(t) :
                         ~DuplicateKey(RowsAt(meta[t], meta[t].refs[r]))

Replay(ops, rows) ==
    FoldLeft(LAMBDA acc, o : IF o.op = "append" THEN acc \cup o.rows
                             ELSE IF o.op = "files" THEN acc \cup RowsOf(o.files)
                             ELSE Evaluate(o, acc), rows, ops)

\* Every row is in one file, once.
RowsOnce(files) ==
    \A f, g \in files : \A r \in store[f].rows, q \in store[g].rows :
        r.id = q.id => f = g /\ r = q

\* The history of a table is serial: each snapshot holds what its statements, run
\* one after the other on the rows of the parent snapshot, leave behind, and holds no
\* row in two files; a compaction leaves the rows alone.  prepare_commit computes the same file by
\* file, keeping, dropping and rewriting, and folds the buffered inserts apart.
SerialHistory ==
    \A t \in Tables : \A s \in meta[t].snaps :
       /\ s.uuid = meta[t].uuid /\ RowsOnce(s.files)
       /\ s.parent \in Ids(meta[t]) \cup {None}
            => RowsOf(s.files) = Replay(s.ops, RowsAt(meta[t], s.parent))

\* COMMIT publishes exactly the rows the transaction's own reads showed: the
\* pinned snapshot under the buffered statements (effective_provider), although
\* COMMIT works from a fresh load and from the files.
CommitsWhatItShowed ==
    \A t \in Tables : \A s \in meta[t].snaps :
       s.view # <<>> => RowsOf(s.files) = s.view[1]

\* No step of any job takes a commit out of a branch's history: a ref moves only
\* to a descendant of where it was, or the branch is dropped.  (Every request is
\* anchored to the head it was computed from; a merge also to the head it moves.)
RefsOnlyAdvance ==
    [][\A t \in Tables : \A r \in Present(t) :
         \/ meta'[t].uuid # meta[t].uuid
         \/ meta[t].refs[r] \in PastOf(meta'[t], meta'[t].refs[r])
         \/ r = "dev" /\ meta'[t].refs[r] = None]_vars

Landed(j, r) == {t \in Tables : 100 * j + 10 + Index(t) \in PastOf(meta[t], meta[t].refs[r])}

BranchedWhole == \E j \in Jobs : Is(j, "branchAll") /\ At(j, "done")

\* Of a transaction that committed to several tables at once a whole-lakehouse branch
\* shows every table that it branched or none: create_branch_all anchors each table to
\* the head it captured.  (A table without a snapshot is skipped, unanchored.)
ConsistentCut ==
    BranchedWhole => \A j \in Jobs : Is(j, "txn2") /\ Landed(j, "dev") # {}
                       => Landed(j, "dev") = {t \in Landed(j, "main") : "dev" \in Present(t)}

\* Every file a retained snapshot refers to is in the object store, whatever
\* commits, expiries and orphan removals overlap (live_object_keys, the grace
\* window and the reload check of remove_orphans).
LiveFilesExist ==
    \A t \in Tables : \A s \in meta[t].snaps : \A f \in s.files : ~store[f].gone

Stranded(t) == {r \in Present(t) : meta'[t].refs[r] = None}
Expires(j) ==
    Is(j, "expire") /\ (At(j, "post") \/ job[j].late # <<>>) /\ job'[j] # job[j]

\* Expiring snapshots strands no branch that stands where the listing saw it, and
\* main, which the request pins, never: expire_snapshots lists the refs after it loads
\* the snapshots, also when the request arrives late.  (A branch that moves between the
\* listing and the request may be.)
ExpiryStrandsNoListedRef ==
    [][\A j \in Jobs : Expires(j) =>
         \A r \in Stranded(Target(j)) :
            r # "main" /\ meta[Target(j)].refs[r] # job[j].seen[1].refs[r]]_vars

\* Short of a lost answer, COMMIT tells the truth: after a rollback no table has
\* changed, after a success every table holds what the transaction showed of it,
\* and only the outcome "partially applied" (40003) leaves some tables behind.
CommitTellsOutcome ==
    ~bound.losses => \A j \in Jobs : Transaction(j) /\ job[j].what.ref = "main" =>
        /\ At(j, "rolledback") => Landed(j, "main") = {}
        /\ At(j, "done") => \A t \in DOMAIN job[j].tables \ Landed(j, "main") :
                               Effective(job[j].tables[t]) = job[j].tables[t].base
=============================================================================
